------------------------------ MODULE Raspicam ------------------------------
(***************************************************************************)
(* The input plugin for the camera of a Raspberry Pi: input_raspicam.c and *)
(* RaspiCamControl.c.                                                      *)
(*                                                                         *)
(* The worker sets up MMAL (see Mmal, MmalVc: external here), then asks    *)
(* for one still after the other, or starts the video and waits for stop.  *)
(* The encoder gives a picture back in several buffers, each in a call of  *)
(* encoder_buffer_callback() on a thread of MMAL; the callback holds db    *)
(* from the first buffer of a picture to the last.                         *)
(***************************************************************************)
EXTENDS Frame, Integers, Sequences, FiniteSets

CONSTANTS
    NBuffers,   \* encoder_output->buffer_num
    Parts,      \* bound: buffers of a picture
    MaxFail     \* bound: calls and transfers that fail

VARIABLES
    proc,       \* the process: "run", "exited" or "crashed"
    stop,       \* pglobal->stop
    buf, size,  \* in[].buf, by parts, and in[].size
    nfail,
    usestills,
    wpc,        \* where the worker is
    given,      \* c_params, by the kind of setting
    setting,    \* what the camera has been told of them
    live,       \* MMAL objects that exist
    pool, out,  \* buffers in the pool's queue, and in the encoder
    num, q,     \* the worker's count of the queue, and how far it is
    capturing,  \* external: has the encoder something to do?
    enabled,    \* is_enabled of the encoder's output port
    cb,         \* where the callback is, and the buffer it was given
    offset,     \* pData->offset
    part, tag,  \* external: buffers given of a picture, and which picture it is
    sem         \* complete_semaphore

shared == <<frameVars, proc, stop, buf, size, nfail>>
setupVars == <<usestills, given, setting>>
rvars == <<setupVars, wpc, live, pool, out, num, q, capturing, enabled, cb, offset, part, tag, sem>>

Idle    == [pc |-> "none", len |-> 0, end |-> FALSE]
Picture == [1..Parts -> {"none", "a", "b", "freed"}]
Other(t) == IF t = "a" THEN "b" ELSE "a"

Sane  == proc = "run"
Fails == nfail < MaxFail /\ nfail' = nfail + 1

\* The kinds of settings: a number with a range, a name out of a table, an angle,
\* two flags that make one setting, and two gains that are set together.
raspicamcontrol_set_defaults ==
    [range |-> 0, name |-> "auto", rotation |-> 0, hflip |-> FALSE, vflip |-> FALSE, r |-> 0, b |-> 0]
Option ==
    [kind : {"range"}, value : {100, 101, -101}] \cup [kind : {"name"}, value : {"night", "nonsense"}]
    \cup [kind : {"rotation"}, value : {90, 359, 450, -100}]
    \cup [kind : {"hflip", "vflip"}, value : {TRUE}] \cup [kind : {"r", "b"}, value : {1}]
NoSetting == [range |-> 0, name |-> "auto", rotation |-> 0, mirror |-> {}, gains |-> <<0, 0>>]

Init ==
    /\ usestills \in BOOLEAN /\ wpc = "options"
    /\ given = raspicamcontrol_set_defaults /\ setting = NoSetting
    /\ live = {} /\ pool = 0 /\ out = 0 /\ num = 0 /\ q = 0
    /\ capturing = FALSE /\ enabled = FALSE /\ cb = Idle /\ offset = 0 /\ part = 0 /\ tag = "a"
    /\ sem = 0

-----------------------------------------------------------------------------
(* The options, and the camera's settings.                                  *)

\* raspicamcontrol_map_xref(): a name that the table does not have is the default.
FromString(name) == IF name \in {"auto", "night"} THEN name ELSE "auto"

input_init ==
    /\ Sane /\ wpc = "options"
    /\ \E o \in Option :
         given' = [given EXCEPT ![o.kind] = IF o.kind = "name" THEN FromString(o.value) ELSE o.value]
    /\ UNCHANGED <<usestills, setting, wpc, live, pool, out, num, q, capturing, enabled, cb, offset,
                   part, tag, sem, shared>>

\* The help: the program ends.
Unrecognized ==
    /\ Sane /\ wpc = "options" /\ proc' = "exited"
    /\ UNCHANGED <<frameVars, stop, buf, size, nfail, rvars>>

input_run ==
    /\ Sane /\ wpc = "options"
    /\ \/ wpc' = "camera" /\ buf' = [i \in 1..Parts |-> "none"] /\ UNCHANGED <<proc, nfail>>
       \/ Fails /\ proc' = "exited" /\ UNCHANGED <<wpc, buf>>
    /\ UNCHANGED <<setupVars, live, pool, out, num, q, capturing, enabled, cb, offset, part, tag,
                   sem, frameVars, stop, size>>

\* A value out of its range is not passed on.
SetRange(v, old) == IF v \in -100..100 THEN v ELSE old

\* A value of a table, a flag, or a number without a range is passed on as it is.
SetMode(v) == v

\* C rounds towards zero.
Rotation(angle) ==
    IF angle >= 0 THEN ((angle % 360) \div 90) * 90 ELSE -(((-angle) % 360) \div 90) * 90

Mirror(h, v) == {d \in {"horizontal", "vertical"} : IF d = "horizontal" THEN h ELSE v}

Gains(r, b, old) == IF r = 0 \/ b = 0 THEN old ELSE <<r, b>>

-----------------------------------------------------------------------------
(* The worker's setup.  Most failures end the whole process.                *)

ExitFailure ==
    /\ Fails /\ proc' = "exited"
    /\ UNCHANGED <<frameVars, stop, buf, size, rvars>>

Setup(from, to, objects) ==
    /\ Sane /\ wpc = from
    /\ \/ /\ wpc' = to /\ live' = live \cup objects
          /\ pool' = IF to = "connect" THEN NBuffers ELSE pool
          /\ enabled' = (from = "enable")
          /\ IF from = "preview"    \* the settings are not looked at again
             THEN given' = raspicamcontrol_set_defaults /\ setting' = NoSetting
             ELSE UNCHANGED <<given, setting>>
          /\ UNCHANGED <<usestills, out, num, q, capturing, cb, offset, part, tag, sem, shared>>
       \/ ExitFailure

CreateCamera    == Setup("camera", "settings", {"camera"})
CreatePreview   == Setup("preview", "encoder", {"preview"})
CreateEncoder   == Setup("encoder", "pool", {"encoder"})
CreatePool      == Setup("pool", "connect", {"pool"})
connect_ports   == Setup("connect", "enable", {"encoder connection"})
EnablePort      == Setup("enable", IF usestills THEN "loop" ELSE "start", {})

\* A preview that cannot be connected is done without.  Bound: in the stills mode only.
ConnectPreview ==
    /\ Sane /\ usestills /\ wpc = "connect" /\ "preview connection" \notin live
    /\ live' = live \cup {"preview connection"}
    /\ UNCHANGED <<setupVars, wpc, pool, out, num, q, capturing, enabled, cb, offset, part,
                   tag, sem, shared>>

\* Each setting by itself: one that fails does not keep the others from being set.
raspicamcontrol_set_all_parameters ==
    /\ Sane /\ wpc = "settings" /\ wpc' = "preview"
    /\ setting' = [range    |-> SetRange(given.range, setting.range),
                   name     |-> SetMode(given.name),
                   rotation |-> Rotation(given.rotation),
                   mirror   |-> Mirror(given.hflip, given.vflip),
                   gains    |-> Gains(given.r, given.b, setting.gains)]
    /\ UNCHANGED <<usestills, given, live, pool, out, num, q, capturing, enabled, cb, offset, part,
                   tag, sem, shared>>

-----------------------------------------------------------------------------
(* Buffers, captures and the end, by the worker.                            *)

KeepWorker == UNCHANGED <<setupVars, cb, offset, part, tag, shared>>

CountBuffers ==
    /\ Sane /\ wpc = "start" /\ wpc' = "send" /\ num' = pool /\ q' = 0
    /\ UNCHANGED <<live, pool, out, capturing, enabled, sem>> /\ KeepWorker

\* A queue that is shorter than it was counted gives NULL, which is sent all the
\* same.  A buffer that cannot be sent is lost.
SendBuffer ==
    /\ Sane /\ wpc = "send" /\ q < num
    /\ q' = q + 1
    /\ \/ pool = 0 /\ proc' = "crashed" /\ UNCHANGED <<pool, out, nfail>>
       \/ pool > 0 /\ pool' = pool - 1 /\ out' = out + 1 /\ UNCHANGED <<nfail, proc>>
       \/ pool > 0 /\ Fails /\ pool' = pool - 1 /\ UNCHANGED <<out, proc>>
    /\ UNCHANGED <<setupVars, wpc, live, num, capturing, enabled, cb, offset, part, tag, sem,
                   frameVars, stop, buf, size>>

\* MMAL_PARAMETER_CAPTURE; when it fails nothing is waited for.
Capture ==
    /\ Sane /\ wpc = "send" /\ q = num
    /\ num' = 0 /\ q' = 0
    /\ \/ /\ capturing' = TRUE /\ wpc' = IF usestills THEN "wait" ELSE "poll"
          /\ UNCHANGED nfail
       \/ /\ Fails /\ wpc' = IF usestills THEN "loop" ELSE "poll"
          /\ UNCHANGED capturing
    /\ UNCHANGED <<setupVars, live, pool, out, enabled, cb, offset, part, tag, sem, frameVars,
                   proc, stop, buf, size>>

\* The wait has no timeout.
WaitCapture ==
    /\ Sane /\ wpc = "wait" /\ sem > 0
    /\ sem' = sem - 1 /\ wpc' = "loop"
    /\ UNCHANGED <<live, pool, out, num, q, capturing, enabled>> /\ KeepWorker

LoopTest ==
    /\ Sane
    /\ \/ wpc = "loop" /\ wpc' = (IF stop THEN "closing" ELSE "start")
       \/ wpc = "poll" /\ stop /\ wpc' = "closing"
    /\ UNCHANGED <<live, pool, out, num, q, capturing, enabled, sem>> /\ KeepWorker

\* The semaphore is deleted before the port is disabled and the callbacks have
\* ended: a callback may still post it, which glibc's sem_destroy() makes harmless.
CloseVideo ==
    /\ Sane /\ wpc = "closing" /\ wpc' = "disable"
    /\ live' = live \ {"preview connection"}
    /\ UNCHANGED <<pool, out, num, q, capturing, enabled, sem>> /\ KeepWorker

\* mmal_port_disable() returns when the encoder has given every buffer back.
DisablePort ==
    /\ Sane /\ wpc = "disable"
    /\ \/ enabled /\ enabled' = FALSE /\ capturing' = FALSE /\ UNCHANGED <<wpc, live>>
       \/ /\ ~enabled /\ out = 0 /\ cb.pc = "none" /\ wpc' = "destroy"
          /\ live' = live \ {"encoder connection"} /\ UNCHANGED <<enabled, capturing>>
    /\ UNCHANGED <<pool, out, num, q, sem>> /\ KeepWorker

DestroyAll ==
    /\ Sane /\ wpc = "destroy" /\ wpc' = "cleanup"
    /\ live' = live \ {"camera", "preview", "encoder", "pool"} /\ pool' = 0
    /\ UNCHANGED <<out, num, q, capturing, enabled, sem>> /\ KeepWorker

\* buf is freed without the lock, and the pointer stays.
worker_cleanup ==
    /\ Sane /\ wpc = "cleanup" /\ wpc' = "ended"
    /\ buf' = [i \in 1..Parts |-> "freed"]
    /\ UNCHANGED <<setupVars, live, pool, out, num, q, capturing, enabled, cb, offset, part, tag,
                   sem, frameVars, proc, stop, size, nfail>>

worker_thread ==
    \/ CreateCamera \/ raspicamcontrol_set_all_parameters \/ CreatePreview \/ CreateEncoder
    \/ CreatePool \/ ConnectPreview \/ connect_ports \/ EnablePort
    \/ CountBuffers \/ SendBuffer \/ Capture \/ WaitCapture \/ LoopTest
    \/ CloseVideo \/ DisablePort \/ DestroyAll \/ worker_cleanup

-----------------------------------------------------------------------------
(* encoder_buffer_callback(), on a thread of MMAL.                          *)

KeepCallback == UNCHANGED <<setupVars, wpc, live, num, q, enabled, part, tag, proc, stop>>

\* External: the next part of a picture; a transfer that fails, which comes as an
\* empty last part; or, once the port is disabled, an unused buffer.
Deliver ==
    /\ Sane /\ cb.pc = "none" /\ out > 0 /\ out' = out - 1
    /\ \/ /\ enabled /\ capturing
          /\ \E end \in BOOLEAN :
               /\ end \/ part + 1 < Parts
               /\ cb' = [pc |-> "given", len |-> 1, end |-> end]
               /\ part' = IF end THEN 0 ELSE part + 1
               /\ tag' = IF end THEN Other(tag) ELSE tag
               /\ capturing' = ~(usestills /\ end)
          /\ UNCHANGED nfail
       \/ /\ enabled /\ capturing /\ Fails
          /\ cb' = [pc |-> "given", len |-> 0, end |-> TRUE]
          /\ UNCHANGED <<part, tag, capturing>>
       \/ /\ ~enabled /\ cb' = [pc |-> "given", len |-> 0, end |-> FALSE]
          /\ UNCHANGED <<part, tag, capturing, nfail>>
    /\ UNCHANGED <<setupVars, wpc, live, pool, num, q, enabled, offset, sem, frameVars, proc, stop,
                   buf, size>>

\* The mutex is held from the first part of a picture to its last.  (tag is already the
\* next picture's when the last part has been delivered.)
CopyPart ==
    /\ Sane /\ cb.pc = "given" /\ cb.len > 0
    /\ IF offset = 0 THEN LockDb("encoder") ELSE UNCHANGED frameVars
    /\ buf' = [buf EXCEPT ![offset + 1] = IF cb.end THEN Other(tag) ELSE tag]
    /\ offset' = offset + 1 /\ cb' = [cb EXCEPT !.pc = "copied"]
    /\ UNCHANGED <<pool, out, capturing, sem, size, nfail>> /\ KeepCallback

\* Mutant of EndOfPicture: the picture is announced after each part.
EndOfPicture_Early ==
    /\ Sane
    /\ cb.pc = "copied" \/ (cb.pc = "given" /\ cb.len = 0)
    /\ cb' = [cb EXCEPT !.pc = "release"]
    /\ size' = offset /\ offset' = (IF cb.end THEN 0 ELSE offset) /\ db' = Nobody /\ asleep' = {}
    /\ UNCHANGED <<pool, out, capturing, sem, buf, nfail>> /\ KeepCallback
\* When a transfer fails before the first part, the mutex is not held: unlocking it
\* takes it from whoever has it.
EndOfPicture ==
    /\ Sane
    /\ cb.pc = "copied" \/ (cb.pc = "given" /\ cb.len = 0)
    /\ cb' = [cb EXCEPT !.pc = "release"]
    /\ IF cb.end
       THEN size' = offset /\ offset' = 0 /\ db' = Nobody /\ asleep' = {}
       ELSE UNCHANGED <<size, offset, frameVars>>
    /\ UNCHANGED <<pool, out, capturing, sem, buf, nfail>> /\ KeepCallback

\* Mutant of Release: the buffer is not given back.
\* Mutant of Release: a complete picture is announced before a buffer is sent back.
Release_PostsFirst ==
    /\ Sane /\ cb.pc = "release" /\ pool' = pool + 1
    /\ cb' = [cb EXCEPT !.pc = IF enabled THEN "resend" ELSE "post", !.end = FALSE]
    /\ sem' = IF cb.end /\ usestills THEN sem + 1 ELSE sem
    /\ UNCHANGED <<frameVars, out, capturing, offset, buf, size, nfail>> /\ KeepCallback
Release ==
    /\ Sane /\ cb.pc = "release" /\ pool' = pool + 1
    /\ cb' = [cb EXCEPT !.pc = IF enabled THEN "resend" ELSE "post"]
    /\ UNCHANGED <<frameVars, out, capturing, offset, sem, buf, size, nfail>> /\ KeepCallback

\* A buffer that the port does not take, disabled since is_enabled was read or
\* failing, is lost.
Resend ==
    /\ Sane /\ cb.pc = "resend" /\ cb' = [cb EXCEPT !.pc = "post"]
    /\ \/ pool = 0 /\ UNCHANGED <<pool, out, nfail>>
       \/ pool > 0 /\ enabled /\ pool' = pool - 1 /\ out' = out + 1 /\ UNCHANGED nfail
       \/ pool > 0 /\ enabled /\ Fails /\ pool' = pool - 1 /\ UNCHANGED out
       \/ pool > 0 /\ ~enabled /\ pool' = pool - 1 /\ UNCHANGED <<out, nfail>>
    /\ UNCHANGED <<frameVars, capturing, offset, sem, buf, size>> /\ KeepCallback

\* Nobody waits for the count in the video mode, where it is left out.
PostComplete ==
    /\ Sane /\ cb.pc = "post" /\ cb' = Idle
    /\ sem' = IF cb.end /\ usestills THEN sem + 1 ELSE sem
    /\ UNCHANGED <<frameVars, pool, out, capturing, offset, buf, size, nfail>> /\ KeepCallback

encoder_buffer_callback ==
    CopyPart \/ EndOfPicture \/ Release \/ Resend \/ PostComplete

Next == input_init \/ Unrecognized \/ input_run \/ worker_thread \/ Deliver \/ encoder_buffer_callback

-----------------------------------------------------------------------------
(* Properties, about the shared picture too: see Cameras.                   *)

\* Type correctness of the buffers, the callback and the components.
TypeOK ==
    /\ pool \in 0..NBuffers /\ out \in 0..NBuffers /\ num \in 0..NBuffers /\ q \in 0..num
    /\ offset \in 0..Parts /\ part \in 0..Parts /\ sem \in 0..MaxFail + 1
    /\ live \subseteq {"camera", "preview", "encoder", "pool", "preview connection",
                       "encoder connection"}
    /\ cb.pc \in {"none", "given", "copied", "release", "resend", "post"}

\* The worker never takes more buffers out of the queue than there are, though the
\* callback takes from it as well: it would send NULL (input_raspicam.c:966).
NoNull == nfail = 0 => proc # "crashed"

Count(condition) == IF condition THEN 1 ELSE 0

\* The buffer that the callback has.
InCallback == Count(cb.pc \in {"given", "copied", "release"})

\* As long as the port is enabled and nothing has failed, every buffer is in the queue,
\* in the encoder or with the callback: the encoder never starves.
BuffersKept ==
    (nfail = 0 /\ enabled) => pool + out + InCallback = NBuffers

\* When the picture is freed no callback runs or is to come, and the camera's
\* components are gone.
FreedLast == wpc \in {"cleanup", "ended"} => out = 0 /\ cb.pc = "none" /\ live = {}

-----------------------------------------------------------------------------
(* What every step keeps, where this plugin is loaded.                      *)

Before  == {"options", "camera", "settings", "preview", "encoder", "pool"}
Filling == {"connect", "enable"}
Working == {"loop", "start", "send", "wait", "poll", "closing"}

FlagsOK == usestills \in BOOLEAN /\ capturing \in BOOLEAN /\ enabled \in BOOLEAN

\* No buffer is given to a port that is not enabled yet, and MMAL goes when all are back.
WorkerInv ==
    /\ wpc \in Before \cup Filling \cup Working \cup {"disable", "destroy", "cleanup", "ended"}
    /\ wpc \in Before \cup Filling =>
          out = 0 /\ cb.pc = "none" /\ offset = 0 /\ ~enabled /\ ~capturing
    /\ wpc \in Working => enabled
    /\ wpc \in {"destroy", "cleanup", "ended"} => out = 0 /\ cb.pc = "none" /\ ~enabled

\* What exists at each place of the worker.
LiveInv ==
    /\ live \subseteq {"camera", "preview", "encoder", "pool", "preview connection",
                       "encoder connection"}
    /\ wpc \in {"disable", "destroy"} => "preview connection" \notin live
    /\ wpc = "destroy" => "encoder connection" \notin live
    /\ wpc \in {"cleanup", "ended"} => live = {}

\* Buffers may get lost but never become more.
BufferInv ==
    /\ pool \in Nat /\ out \in Nat /\ pool + out + InCallback <= NBuffers
    /\ wpc \in Before => pool = 0
    /\ wpc \in Filling => pool = NBuffers
    /\ BuffersKept

\* Until something fails the callback is idle when the worker counts the queue, so that
\* what is counted is still there when it is taken out.
QueueInv ==
    /\ num \in 0..NBuffers /\ q \in 0..num
    /\ wpc \in {"loop", "wait"} => usestills
    /\ wpc \in {"start", "send"} /\ ~usestills => cb.pc = "none" /\ ~capturing
    /\ nfail = 0 /\ wpc \in {"loop", "start", "send"} /\ usestills => cb.pc = "none" /\ ~capturing
    /\ nfail = 0 /\ wpc = "send" => num - q <= pool
    /\ NoNull

\* Each capture and each failed transfer posts the semaphore once.
SemInv ==
    /\ sem \in Nat /\ (~usestills => sem = 0)
    /\ usestills => sem + Count(cb.end) + Count(capturing) <= nfail + Count(wpc = "wait")
    /\ nfail = 0 /\ usestills /\ enabled /\ cb.pc # "none" => capturing \/ cb.end

\* The part the callback has is the next one of its picture.
CallbackInv ==
    /\ cb \in [pc : {"none", "given", "copied", "release", "resend", "post"}, len : 0..1,
               end : BOOLEAN]
    /\ cb.pc = "none" => ~cb.end
    /\ tag \in {"a", "b"} /\ part \in 0..(Parts - 1) /\ offset \in 0..Parts
    /\ cb.pc = "given" /\ cb.len = 1 => IF cb.end THEN offset < Parts ELSE offset < part
    /\ (cb.pc \in {"given", "copied"} /\ cb.len = 1 /\ cb.end) \/ offset <= part
    /\ cb.pc = "copied" => cb.len = 1 /\ offset > 0
    /\ cb.pc \in {"release", "resend", "post"} /\ cb.end => offset = 0
    /\ nfail = 0 /\ cb.end => cb.len = 1

\* Until a transfer fails the callback holds db as long as a picture is not complete,
\* and all its parts so far are of that picture.
PictureInv ==
    nfail = 0 =>
        /\ offset > 0 <=> db = "encoder"
        /\ wpc # "ended" => \A p \in 1..offset :
              buf[p] = IF cb.pc \in {"given", "copied"} /\ cb.end THEN Other(tag) ELSE tag

IndInv ==
    /\ FlagsOK /\ WorkerInv /\ LiveInv /\ BufferInv /\ QueueInv /\ SemInv /\ CallbackInv
    /\ PictureInv

=============================================================================
