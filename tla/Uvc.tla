-------------------------------- MODULE Uvc ---------------------------------
(***************************************************************************)
(* The input plugin for USB cameras: input_uvc.c, v4l2uvc.c, dynctrl.c and *)
(* jpeg_utils.c.                                                           *)
(*                                                                         *)
(* cam_thread() grabs pictures from the driver (external) and copies them  *)
(* to in[].buf under the mutex db.  A thread of the web server runs        *)
(* input_cmd(), which may change the resolution: the device is closed and  *)
(* opened again while cam_thread() is told, by STREAMING_PAUSED, to stay   *)
(* away.  cam_thread() does the same when the video source changes.        *)
(***************************************************************************)
EXTENDS Frame, Naturals, FiniteSets

CONSTANTS
    NB_BUFFER,  \* buffers of the driver
    Parts,      \* bound: steps in which a picture is written
    MaxCmd,     \* bound: commands and changes of the source
    MaxFail     \* bound: system calls that fail

VARIABLES
    proc,       \* the process: "run", "exited" or "crashed"
    stop,       \* pglobal->stop
    buf, size,  \* in[].buf, by parts, and in[].size
    nfail,
    dv,         \* -dv_timings
    upc,        \* where cam_thread() is
    rpc, want,  \* for each thread, where it is in setResolution(), and to which
    cmd, ncmd,  \* the command that is being run, and how many have been
    state,      \* streamingState
    fd, streaming, queued, held,    \* the device; buffers queued, and one dequeued
    mapped,     \* are the buffers mapped?
    tmp,        \* the picture in tmpbuffer
    grabbed, last,      \* the picture in the dequeued buffer, and the one before
    res, allocres,      \* framesizeIn, now and when in[].buf was allocated
    vd,         \* pctx->videoIn: "live" or "gone"
    i,          \* parts written
    cancelled,  \* pthread_cancel() has been called
    raced,      \* a resolution was changed while cam_thread() used the device
    ctl, shown  \* the controls: in the driver, and in_parameters[].value

shared == <<frameVars, proc, stop, buf, size, nfail>>
device == <<fd, streaming, queued, held, mapped, tmp, res>>
cmdVars == <<rpc, want, cmd, ncmd, ctl, shown>>
uvars == <<dv, upc, cmdVars, state, device, grabbed, last, allocres, vd, i, cancelled, raced>>

Thread == {"cam", "cmd"}
Res    == 1..2
Sane   == proc = "run"
Fails  == nfail < MaxFail /\ nfail' = nfail + 1
Other(t) == IF t = "a" THEN "b" ELSE "a"

Init ==
    /\ dv \in BOOLEAN /\ upc = "init" /\ rpc = [t \in Thread |-> "no"] /\ want = [t \in Thread |-> 1]
    /\ cmd = "none" /\ ncmd = 0 /\ state = "OFF"
    /\ fd = "closed" /\ streaming = FALSE /\ queued = 0 /\ held = FALSE /\ mapped = FALSE
    /\ tmp = "freed" /\ grabbed = "none" /\ last = "b" /\ res = 1 /\ allocres = 1 /\ vd = "live"
    /\ i = 0 /\ cancelled = FALSE /\ raced = FALSE
    /\ ctl = <<0, 0>> /\ shown = <<0, 0>>

\* What is used after it has been freed or unmapped: the program ends there.
Crash ==
    /\ proc' = "crashed"
    /\ UNCHANGED <<frameVars, stop, buf, size, nfail, uvars>>

-----------------------------------------------------------------------------
(* The device.                                                              *)

\* init_v4l2(): with -dv_timings the source decides the resolution.  When a later call
\* fails the device stays open.
OpenDevice ==
    \E r \in IF dv THEN Res ELSE {res} :
        /\ fd' = "open" /\ mapped' = TRUE /\ queued' = NB_BUFFER /\ res' = r
        /\ streaming' = FALSE /\ held' = FALSE /\ UNCHANGED nfail
NoDevice ==
    /\ Fails /\ fd' \in {"open", "closed"} /\ UNCHANGED <<mapped, queued, res, streaming, held>>

\* Mutant of video_enable: the state is left as it is.
video_enable_Forgets == streaming' = TRUE /\ UNCHANGED state
video_enable == streaming' = TRUE /\ state' = "ON"

\* All buffers leave the driver.
video_disable == streaming' = FALSE /\ queued' = 0 /\ held' = FALSE

-----------------------------------------------------------------------------
(* The start.                                                               *)

\* The options, the device, its formats and its controls; any failure ends the
\* program.
input_init ==
    /\ Sane /\ upc = "init"
    /\ \/ OpenDevice /\ tmp' = "none" /\ upc' = "run" /\ UNCHANGED proc
       \/ NoDevice /\ proc' = "exited" /\ UNCHANGED <<tmp, upc>>
    /\ UNCHANGED <<dv, cmdVars, state, grabbed, last, allocres, vd, i, cancelled, raced, frameVars,
                   stop, buf, size>>

Unrecognized ==
    /\ Sane /\ upc = "init" /\ proc' = "exited"
    /\ UNCHANGED <<frameVars, stop, buf, size, nfail, uvars>>

\* in[].buf is as large as a picture is now.
input_run ==
    /\ Sane /\ upc = "run"
    /\ \/ /\ upc' = "enable" /\ buf' = [p \in 1..Parts |-> "none"] /\ allocres' = res
          /\ UNCHANGED <<proc, nfail>>
       \/ Fails /\ proc' = "exited" /\ UNCHANGED <<upc, buf, allocres>>
    /\ UNCHANGED <<dv, cmdVars, state, device, grabbed, last, vd, i, cancelled, raced, frameVars,
                   stop, size>>

\* Called by the signal handler.
input_stop == cancelled' = TRUE

-----------------------------------------------------------------------------
(* setResolution(), by either thread.  A failure leaves the state PAUSED.   *)

KeepRes == UNCHANGED <<dv, upc, want, cmd, ncmd, ctl, shown, grabbed, last, allocres, vd, i,
                       cancelled, frameVars, proc, stop, buf, size>>
Step(t, from) == Sane /\ rpc[t] = from /\ vd = "live"
Go(t, to) == rpc' = [rpc EXCEPT ![t] = to]

Pause(t) ==
    /\ Step(t, "pause") /\ Go(t, "off") /\ state' = "PAUSED"
    /\ raced' = (raced \/ (t = "cmd" /\ upc \notin {"test", "spin"}))
    /\ UNCHANGED <<device, nfail>> /\ KeepRes

StreamOff(t) ==
    /\ Step(t, "off")
    /\ \/ fd = "open" /\ video_disable /\ state' = "PAUSED" /\ Go(t, "close") /\ UNCHANGED nfail
       \/ fd = "closed" /\ Go(t, "failed") /\ UNCHANGED <<streaming, queued, held, state, nfail>>
       \/ Fails /\ Go(t, "failed") /\ UNCHANGED <<streaming, queued, held, state>>
    /\ UNCHANGED <<fd, mapped, tmp, res, raced>> /\ KeepRes

CloseDevice(t) ==
    /\ Step(t, "close") /\ Go(t, "open")
    /\ mapped' = FALSE /\ fd' = "closed" /\ streaming' = FALSE /\ queued' = 0 /\ held' = FALSE
    /\ res' = want[t]
    /\ UNCHANGED <<tmp, state, raced, nfail>> /\ KeepRes

init_v4l2(t) ==
    /\ Step(t, "open")
    /\ \/ OpenDevice /\ Go(t, "frame")
       \/ NoDevice /\ Go(t, "failed")
    /\ UNCHANGED <<tmp, state, raced>> /\ KeepRes

init_framebuffer(t) ==
    /\ Step(t, "frame")
    /\ \/ tmp' = "none" /\ Go(t, "on") /\ UNCHANGED nfail
       \/ Fails /\ tmp' = "freed" /\ Go(t, "failed")
    /\ UNCHANGED <<fd, streaming, queued, held, mapped, res, state, raced>> /\ KeepRes

StreamOn(t) ==
    /\ Step(t, "on")
    /\ \/ fd = "open" /\ video_enable /\ Go(t, "done") /\ UNCHANGED nfail
       \/ fd = "closed" /\ Go(t, "failed") /\ UNCHANGED <<streaming, state, nfail>>
       \/ Fails /\ Go(t, "failed") /\ UNCHANGED <<streaming, state>>
    /\ UNCHANGED <<fd, queued, held, mapped, tmp, res, raced>> /\ KeepRes

\* cam_thread() has freed videoIn.
Orphaned(t) == Sane /\ rpc[t] \notin {"no", "done", "failed"} /\ vd = "gone" /\ Crash

setResolution(t) ==
    \/ Pause(t) \/ StreamOff(t) \/ CloseDevice(t) \/ init_v4l2(t) \/ init_framebuffer(t)
    \/ StreamOn(t) \/ Orphaned(t)

-----------------------------------------------------------------------------
(* cam_thread().                                                            *)

KeepCam == UNCHANGED <<dv, want, cmd, ncmd, ctl, shown, allocres, vd, cancelled, raced, proc, stop>>

\* The options are set by input_cmd(), as the web server's are; then the first frame
\* is asked for.
FirstEnable ==
    /\ Sane /\ upc = "enable"
    /\ \/ video_enable /\ upc' = "test" /\ UNCHANGED nfail
       \/ Fails /\ upc' = "cleanup" /\ UNCHANGED <<streaming, state>>
    /\ UNCHANGED <<rpc, fd, queued, held, mapped, tmp, res, grabbed, last, i, frameVars, buf, size>>
    /\ KeepCam

LoopTest ==
    /\ Sane
    /\ \/ upc = "test" /\ upc' = (IF stop THEN "cleanup" ELSE "spin")
       \/ upc = "spin" /\ state # "PAUSED" /\ upc' = "select"
    /\ UNCHANGED <<rpc, state, device, grabbed, last, i, frameVars, buf, size, nfail>> /\ KeepCam

\* A descriptor that has been closed is an error; a device that does not stream is
\* reported as ready.
Select ==
    /\ Sane /\ upc = "select"
    /\ \/ fd = "open" /\ upc' = "grab" /\ UNCHANGED <<rpc, want, ncmd, nfail>>
       \/ fd = "closed" /\ upc' = "cleanup" /\ UNCHANGED <<rpc, want, ncmd, nfail>>
       \/ Fails /\ upc' = "test" /\ UNCHANGED <<rpc, want, ncmd>>                  \* EINTR
       \/ Fails /\ ~dv /\ upc' = "cleanup" /\ UNCHANGED <<rpc, want, ncmd>>        \* timeout
       \/ Fails /\ dv /\ upc' = "resolution" /\ Go("cam", "pause")
          /\ want' = [want EXCEPT !["cam"] = res] /\ UNCHANGED ncmd
    /\ UNCHANGED <<dv, cmd, ctl, shown, allocres, vd, cancelled, raced, proc, stop, state, device,
                   grabbed, last, i, frameVars, buf, size>>

\* video_handle_event(): the source has changed.
SourceChange ==
    /\ Sane /\ upc = "events" /\ dv /\ ncmd < MaxCmd /\ ncmd' = ncmd + 1
    /\ upc' = "resolution" /\ Go("cam", "pause") /\ want' = [want EXCEPT !["cam"] = res]
    /\ UNCHANGED <<dv, cmd, ctl, shown, allocres, vd, cancelled, raced, proc, stop, state, device,
                   grabbed, last, i, frameVars, buf, size, nfail>>
NoEvent ==
    /\ Sane /\ upc = "events" /\ upc' = "test"
    /\ UNCHANGED <<rpc, state, device, grabbed, last, i, frameVars, buf, size, nfail>> /\ KeepCam

ResolutionSet ==
    /\ Sane /\ upc = "resolution" /\ rpc["cam"] \in {"done", "failed"} /\ Go("cam", "no")
    /\ upc' = IF rpc["cam"] = "done" THEN "test" ELSE "cleanup"
    /\ UNCHANGED <<state, device, grabbed, last, i, frameVars, buf, size, nfail>> /\ KeepCam

\* uvcGrab(), in three steps: a buffer is dequeued, copied and queued again.
Dequeue ==
    /\ Sane /\ upc = "grab"
    /\ \/ /\ fd = "open" /\ streaming /\ queued > 0
          /\ queued' = queued - 1 /\ held' = TRUE /\ upc' = "copy"
          /\ \/ grabbed' = Other(last) /\ last' = Other(last)
             \/ grabbed' = "empty" /\ UNCHANGED last
          /\ UNCHANGED nfail
       \/ ~(fd = "open" /\ streaming /\ queued > 0) /\ upc' = "cleanup"
          /\ UNCHANGED <<queued, held, grabbed, last, nfail>>
       \/ Fails /\ upc' = "cleanup" /\ UNCHANGED <<queued, held, grabbed, last>>
    /\ UNCHANGED <<rpc, state, fd, streaming, mapped, tmp, res, i, frameVars, buf, size>> /\ KeepCam

\* An empty buffer leaves the picture before in tmpbuffer, to be shown once more.
CopyFrame ==
    /\ Sane /\ upc = "copy"
    /\ \/ mapped /\ tmp # "freed" /\ tmp' = (IF grabbed = "empty" THEN tmp ELSE grabbed)
          /\ upc' = "requeue" /\ grabbed' = "none"
          /\ UNCHANGED <<rpc, state, fd, streaming, queued, held, mapped, res, last, i, frameVars,
                         buf, size, nfail>> /\ KeepCam
       \/ ~(mapped /\ tmp # "freed") /\ Crash

\* Then the picture is shown, or dropped: every_count, minimum_size and the software
\* frame rate decide.
Requeue ==
    /\ Sane /\ upc = "requeue"
    /\ \/ /\ held /\ fd = "open" /\ queued' = queued + 1 /\ held' = FALSE
          /\ upc' \in {"lock", "events"} /\ UNCHANGED nfail
       \/ ~(held /\ fd = "open") /\ upc' = "cleanup" /\ UNCHANGED <<queued, held, nfail>>
       \/ Fails /\ upc' = "cleanup" /\ UNCHANGED <<queued, held>>
    /\ UNCHANGED <<rpc, state, fd, streaming, mapped, tmp, res, grabbed, last, i, frameVars, buf,
                   size>> /\ KeepCam

LockBuffer ==
    /\ Sane /\ upc = "lock" /\ LockDb("cam") /\ upc' = "write"
    /\ UNCHANGED <<rpc, state, device, grabbed, last, i, buf, size, nfail>> /\ KeepCam

\* memcpy_picture() or compress_image_to_jpeg(): neither looks at how large in[].buf
\* is.  A picture larger than it may do anything.
WritePart ==
    /\ Sane /\ upc = "write"
    /\ \/ /\ tmp \notin {"none", "freed"} /\ i < Parts
          /\ i' = i + 1 /\ buf' = [buf EXCEPT ![i + 1] = tmp]
          /\ UNCHANGED <<upc, rpc, state, device, grabbed, last, frameVars, size, nfail>> /\ KeepCam
       \/ tmp = "freed" /\ Crash
       \/ res > allocres /\ Crash

\* Nothing has been grabbed yet: a picture of size 0.
Broadcast ==
    /\ Sane /\ upc = "write" /\ tmp # "freed" /\ (i = Parts \/ tmp = "none")
    /\ size' = (IF tmp = "none" THEN 0 ELSE Parts) /\ i' = 0 /\ upc' = "events"
    /\ Publish("cam")
    /\ UNCHANGED <<rpc, state, device, grabbed, last, buf, nfail>> /\ KeepCam

\* usleep(), select(), open() and close() are where the thread can be cancelled.
Cancelled ==
    /\ Sane /\ cancelled
    /\ upc \in {"spin", "select"} \/ rpc["cam"] \in {"close", "open"}
    /\ upc' = "cleanup" /\ Go("cam", "no")
    /\ UNCHANGED <<state, device, grabbed, last, i, frameVars, buf, size, nfail>> /\ KeepCam

\* Without the mutex.
cam_cleanup ==
    /\ Sane /\ upc = "cleanup" /\ upc' = "ended" /\ vd' = "gone"
    /\ tmp' = "freed" /\ buf' = [p \in 1..Parts |-> "freed"] /\ size' = 0
    /\ IF state = "ON" /\ fd = "open" THEN video_disable /\ state' = "OFF"
                                      ELSE UNCHANGED <<streaming, queued, held, state>>
    /\ UNCHANGED <<dv, cmdVars, fd, mapped, res, grabbed, last, allocres, i, cancelled, raced,
                   frameVars, proc, stop, nfail>>

cam_thread ==
    \/ FirstEnable \/ LoopTest \/ Select \/ SourceChange \/ NoEvent \/ setResolution("cam")
    \/ ResolutionSet \/ Dequeue \/ CopyFrame \/ Requeue \/ LockBuffer \/ WritePart \/ Broadcast
    \/ Cancelled \/ cam_cleanup

-----------------------------------------------------------------------------
(* input_cmd(), by a thread of the web server.                              *)

Running == upc \notin {"init", "run"}
KeepCmd == UNCHANGED <<dv, upc, state, device, grabbed, last, allocres, vd, i, cancelled, raced,
                       frameVars, proc, stop, buf, size>>

\* A value above the number of resolutions is refused.  Bound: no command with
\* -dv_timings, where the source changes the resolution.
CmdResolution ==
    /\ Sane /\ Running /\ ~dv /\ cmd = "none" /\ ncmd < MaxCmd /\ vd = "live"
    /\ ncmd' = ncmd + 1 /\ cmd' = "resolution" /\ Go("cmd", "pause")
    /\ \E r \in Res : want' = [want EXCEPT !["cmd"] = r]
    /\ UNCHANGED <<ctl, shown, nfail>> /\ KeepCmd

CmdDone ==
    /\ Sane /\ cmd = "resolution" /\ rpc["cmd"] \in {"done", "failed"}
    /\ cmd' = "none" /\ Go("cmd", "no") /\ want' = [want EXCEPT !["cmd"] = 1]
    /\ UNCHANGED <<ncmd, ctl, shown, nfail>> /\ KeepCmd

\* Control 1 is an extended one, which the driver checks; control 2 has the range
\* 0..1, and a value out of it is left out without an error.  A success is noted by
\* input_cmd() with the first control, whichever was set.
v4l2SetControl(k, value) ==
    LET fits == k = 1 \/ value \in 0..1 IN
    /\ ctl' = IF fits THEN [ctl EXCEPT ![k] = value] ELSE ctl
    /\ shown' = [shown EXCEPT ![1] = value, ![2] = IF k = 2 /\ fits THEN value ELSE @]

CmdControl ==
    /\ Sane /\ Running /\ ~dv /\ cmd = "none" /\ ncmd < MaxCmd /\ ncmd' = ncmd + 1 /\ vd = "live"
    /\ \/ \E k \in 1..2, value \in 0..2 : v4l2SetControl(k, value) /\ UNCHANGED nfail
       \/ Fails /\ UNCHANGED <<ctl, shown>>
    /\ UNCHANGED <<rpc, want, cmd>> /\ KeepCmd

\* videoIn is NULL: cam_thread() has ended.
CmdTooLate == Sane /\ Running /\ cmd = "none" /\ ncmd < MaxCmd /\ vd = "gone" /\ Crash

input_cmd == CmdResolution \/ setResolution("cmd") \/ CmdDone \/ CmdControl \/ CmdTooLate

Next == input_init \/ Unrecognized \/ input_run \/ cam_thread \/ input_cmd

-----------------------------------------------------------------------------
(* Properties, about the shared picture too: see Cameras.                   *)

\* Type correctness of the device, its buffers and the picture.
TypeOK ==
    /\ queued \in 0..NB_BUFFER /\ state \in {"OFF", "ON", "PAUSED"} /\ fd \in {"open", "closed"}
    /\ i \in 0..Parts /\ res \in Res /\ tmp \in {"freed", "none", "empty", "a", "b"}
    /\ held \in BOOLEAN /\ mapped \in BOOLEAN /\ streaming \in BOOLEAN

\* cam_thread() stays away while the device is closed and opened again: the program
\* only crashes if the resolution was changed in the middle of a grab, if the picture
\* outgrew in[].buf, or if a command comes after cam_thread() has ended.
CrashesKnown == proc = "crashed" => raced \/ res > allocres \/ upc = "ended"

\* An empty buffer of the driver is never shown (v4l2uvc.c:643).
NoEmptyFrame == \A p \in DOMAIN buf : buf[p] # "empty"

\* Without failures the driver keeps all its buffers, whether their frames are shown or
\* dropped.
BuffersKept ==
    (nfail = 0 /\ ~raced /\ streaming) => queued + (IF held THEN 1 ELSE 0) = NB_BUFFER

\* cam_thread() never ends with the mutex held.
EndsUnlocked == upc = "ended" => db # "cam"

-----------------------------------------------------------------------------
(* What every step keeps, where this plugin is loaded.                      *)

Waiting == {"test", "spin"}
Using   == {"select", "grab", "copy", "requeue", "lock", "write", "events"}
Resets  == {"off", "close", "open", "frame", "on"}

FlagsOK ==
    /\ dv \in BOOLEAN /\ streaming \in BOOLEAN /\ held \in BOOLEAN /\ mapped \in BOOLEAN
    /\ cancelled \in BOOLEAN /\ raced \in BOOLEAN

ValuesOK ==
    /\ upc \in {"init", "run", "enable", "resolution", "cleanup", "ended"} \cup Waiting \cup Using
    /\ rpc \in [Thread -> {"no", "pause", "done", "failed"} \cup Resets] /\ want \in [Thread -> Res]
    /\ cmd \in {"none", "resolution"} /\ state \in {"OFF", "ON", "PAUSED"} /\ fd \in {"open", "closed"}
    /\ queued \in 0..NB_BUFFER /\ i \in 0..Parts /\ res \in Res /\ allocres \in Res
    /\ tmp \in {"freed", "none", "a", "b"} /\ grabbed \in {"none", "empty", "a", "b"}
    /\ last \in {"a", "b"} /\ vd \in {"live", "gone"}

\* Who changes the resolution: with -dv_timings cam_thread(), otherwise a command.
PlaceInv ==
    /\ vd = "gone" <=> upc = "ended"
    /\ dv => rpc["cmd"] = "no" /\ cmd = "none"
    /\ ~dv => rpc["cam"] = "no"
    /\ rpc["cam"] # "no" => upc = "resolution"
    /\ upc \in {"init", "run"} => rpc["cmd"] = "no"
    /\ upc = "init" => ~streaming

\* A change of the resolution that nobody raced keeps cam_thread() waiting, and when
\* it streams again the buffers are mapped and tmpbuffer is allocated.
PauseInv ==
    ~raced =>
        /\ rpc["cmd"] \in Resets => upc \in Waiting \cup {"cleanup", "ended"}
        /\ \A t \in Thread : rpc[t] \in Resets /\ upc # "ended" => state = "PAUSED"
        /\ upc \in Using => state = "ON"
        /\ upc \in Waiting \cup {"resolution"} => state # "OFF"
        /\ upc # "ended" =>
            /\ state = "ON" \/ upc \in {"run", "enable"} => mapped /\ tmp # "freed"
            /\ \A t \in Thread : /\ rpc[t] \in {"frame", "on"} => mapped
                                 /\ rpc[t] = "on" => tmp # "freed"

Dequeued == IF held THEN 1 ELSE 0

\* The driver's buffers, where they are known.
DriverInv ==
    /\ held => upc \in {"copy", "requeue", "cleanup", "ended"}
    /\ queued + Dequeued <= NB_BUFFER
    /\ BuffersKept
    /\ /\ nfail = 0 /\ ~raced
       /\ upc \in {"run", "enable"} \/ \E t \in Thread : rpc[t] \in {"frame", "on"}
       => queued + Dequeued = NB_BUFFER

\* A picture is written under the mutex, out of a tmpbuffer that can only be replaced by
\* an empty one.
PictureInv ==
    /\ upc = "write" <=> db = "cam"
    /\ i > 0 => upc = "write"
    /\ upc = "write" /\ tmp \notin {"none", "freed"} => \A p \in 1..i : buf[p] = tmp

IndInv ==
    /\ FlagsOK /\ ValuesOK /\ PlaceInv /\ PauseInv /\ DriverInv /\ PictureInv
    /\ CrashesKnown

=============================================================================
