------------------------------ MODULE Cameras -------------------------------
(***************************************************************************)
(* MJPG-streamer with one of its other cameras, the Raspberry Pi's         *)
(* (Raspicam) or one on USB (Uvc), clients of the web server that copy its *)
(* pictures, and the signal that ends it.  Both plugins fill the same      *)
(* picture buffer under the same mutex; the one that is not loaded does    *)
(* nothing.                                                                *)
(***************************************************************************)
EXTENDS Frame, Integers, Sequences, FiniteSets

CONSTANTS
    Clients,    \* connections of the web server
    NBuffers, NB_BUFFER, Parts, MaxCmd, MaxFail   \* see Raspicam and Uvc

VARIABLES
    proc, stop, buf, size, nfail,
    usestills, wpc, given, setting, live, pool, out, num, q, capturing, enabled, cb, offset, part,
    tag, sem,
    dv, upc, rpc, want, cmd, ncmd, state, fd, streaming, queued, held, mapped, tmp, grabbed, last,
    res, allocres, vd, i, cancelled, raced, ctl, shown,
    camera,     \* the plugin that has been loaded
    cpc, got    \* for each client, where it is, and the picture as it found it

ASSUME CamerasAssumption ==
    /\ NBuffers \in Nat \ {0} /\ NB_BUFFER \in Nat \ {0} /\ Parts \in Nat \ {0}
    /\ MaxCmd \in Nat /\ MaxFail \in Nat
    /\ {Nobody, "cam", "encoder"} \cap Clients = {} /\ Nobody \notin {"cam", "encoder"}

R == INSTANCE Raspicam
U == INSTANCE Uvc

clientVars == <<cpc, got>>
raspiVars == <<usestills, given, setting, wpc, live, pool, out, num, q, capturing, enabled, cb,
               offset, part, tag, sem>>
uvcVars == <<dv, upc, rpc, want, cmd, ncmd, ctl, shown, state, fd, streaming, queued, held, mapped,
             tmp, res, grabbed, last, allocres, vd, i, cancelled, raced>>
vars == <<frameVars, proc, stop, buf, size, nfail, raspiVars, uvcVars, camera, clientVars>>

Init ==
    /\ db = Nobody /\ asleep = {} /\ proc = "run" /\ stop = FALSE /\ nfail = 0
    /\ buf = [p \in 1..Parts |-> "none"] /\ size = 0
    /\ camera \in {"raspicam", "uvc"}
    /\ R!Init /\ U!Init
    /\ camera = "uvc" => usestills = FALSE
    /\ camera = "raspicam" => dv = FALSE
    /\ cpc = [c \in Clients |-> "idle"] /\ got = [c \in Clients |-> <<>>]

Sane    == proc = "run"
Started == wpc # "options" \/ upc \notin {"init", "run"}
\* The camera's thread has not ended, and with it the picture buffer.
Alive   == wpc # "ended" /\ upc # "ended"

-----------------------------------------------------------------------------
(* The clients.                                                             *)

KeepClient == UNCHANGED <<raspiVars, uvcVars, camera, proc, stop, buf, size, nfail>>

WaitPicture(c) ==
    /\ Sane /\ Started /\ ~stop /\ cpc[c] = "idle"
    /\ cpc' = [cpc EXCEPT ![c] = "wait"] /\ WaitFresh(c) /\ UNCHANGED got /\ KeepClient

\* The memory for the picture is found, or the client is given up.
Woken(c) ==
    /\ Sane /\ cpc[c] = "wait" /\ WakeUp(c)
    /\ cpc' = [cpc EXCEPT ![c] = "copying"] /\ got' = [got EXCEPT ![c] = <<buf, size>>]
    /\ KeepClient

\* The mutex may have been taken from the client, see EndOfPicture.
Copied(c) ==
    /\ Sane /\ cpc[c] = "copying"
    /\ cpc' = [cpc EXCEPT ![c] = "idle"] /\ got' = [got EXCEPT ![c] = <<>>]
    /\ db' = Nobody /\ UNCHANGED asleep /\ KeepClient

-----------------------------------------------------------------------------
(* The signal, and the specification.                                       *)

Signal ==
    /\ Sane /\ Started /\ ~stop /\ stop' = TRUE
    /\ IF camera = "uvc" THEN U!input_stop ELSE UNCHANGED cancelled    \* worker_thread() refuses
    /\ UNCHANGED <<frameVars, proc, buf, size, nfail, raspiVars, dv, upc, rpc, want, cmd, ncmd, ctl,
                   shown, state, fd, streaming, queued, held, mapped, tmp, res, grabbed, last,
                   allocres, vd, i, raced, camera, clientVars>>

Raspicam(A) == camera = "raspicam" /\ A /\ UNCHANGED <<uvcVars, camera, clientVars>>
Uvc(A)      == camera = "uvc" /\ A /\ UNCHANGED <<raspiVars, camera, clientVars>>
Client   == \E c \in Clients : WaitPicture(c) \/ Woken(c) \/ Copied(c)
\* The handler's exit() is in Streamer.
Ended    == (proc # "run" \/ ~Alive) /\ UNCHANGED vars

Next == Raspicam(R!Next) \/ Uvc(U!Next) \/ Client \/ Signal \/ Ended

\* The threads run; nothing makes a client ask, a command come or the signal.
Threads ==
    /\ WF_vars(Raspicam(R!worker_thread)) /\ WF_vars(Raspicam(R!Deliver))
    /\ WF_vars(Raspicam(R!encoder_buffer_callback))
    /\ WF_vars(Uvc(U!cam_thread)) /\ WF_vars(Uvc(U!setResolution("cmd") \/ U!CmdDone))
    /\ \A c \in Clients : WF_vars(Woken(c)) /\ WF_vars(Copied(c))

Spec == Init /\ [][Next]_vars /\ Threads

-----------------------------------------------------------------------------
(* Properties.                                                              *)

\* Type correctness of the picture buffer and of both plugins.
TypeOK ==
    /\ db \in {Nobody, "cam", "encoder"} \cup Clients /\ asleep \subseteq Clients
    /\ size \in 0..Parts /\ nfail \in 0..MaxFail
    /\ R!TypeOK /\ U!TypeOK

\* While a client copies the picture nobody changes it (httpd.c:415, and the plugins'
\* use of db), as long as the camera's thread lives: both plugins free the picture
\* without the mutex.  A transfer that fails breaks the mutex, see EndOfPicture.
CopyStable ==
    \A c \in Clients : (cpc[c] = "copying" /\ Alive /\ (camera = "uvc" \/ nfail = 0)) =>
        got[c] = <<buf, size>>

\* What a client copies is one picture, though the Raspberry Pi's camera gives it in
\* several calls: no part of it is an older or a newer one's.
PicturesWhole ==
    \A c \in Clients : (cpc[c] = "copying" /\ Alive /\ (camera = "uvc" \/ nfail = 0)) =>
        \A p, r \in 1..size : buf[p] = buf[r]

\* Raspicam: the worker never takes a buffer out of the queue that the callback has
\* taken since it counted them (input_raspicam.c:966).
NoNull == camera = "raspicam" => R!NoNull

\* Raspicam: no buffer is lost between the queue, the encoder and the callback.
BuffersKept == camera = "raspicam" => R!BuffersKept

\* Raspicam: the picture is freed after the last callback, and after MMAL.
FreedLast == R!FreedLast

\* Uvc: a change of the resolution and a grab never meet on the device if the pause
\* was seen.
CrashesKnown == camera = "uvc" => U!CrashesKnown

\* Uvc: an empty buffer of the driver is never shown.
NoEmptyFrame == U!NoEmptyFrame

\* Uvc: the driver keeps its buffers.
DriverBuffersKept == U!BuffersKept

\* Uvc: a cancelled thread does not take the mutex with it.
EndsUnlocked == U!EndsUnlocked

\* Uvc: a pause for a change of the resolution ends, unless a call has failed.
PauseEnds == (state = "PAUSED") ~> (state # "PAUSED" \/ nfail > 0 \/ upc = "ended" \/ proc # "run")

\* The signal ends the camera's thread, in every mode and wherever it is, unless a
\* transfer of Raspicam has failed (the wait for a still has no timeout).
StopEnds ==
    stop ~> (wpc = "ended" \/ upc = "ended" \/ proc # "run" \/ (camera = "raspicam" /\ nfail > 0))

\* What a client copies is one picture, not changed under it, and not an empty one.
PicturesRight == CopyStable /\ PicturesWhole /\ NoEmptyFrame

\* Buffers, device, memory and mutex are used only as long as they are there, and no
\* buffer is lost, but for the races that CrashesKnown names.
MemoryKept ==
    /\ TypeOK /\ NoNull /\ BuffersKept /\ FreedLast
    /\ CrashesKnown /\ DriverBuffersKept /\ EndsUnlocked

\* The camera's thread gets out of a pause and, on the signal, ends.
ThreadsEnd == PauseEnds /\ StopEnds

-----------------------------------------------------------------------------
(* What every step keeps.                                                   *)

SharedOK ==
    /\ camera \in {"raspicam", "uvc"} /\ proc \in {"run", "exited", "crashed"}
    /\ db \in {Nobody, "cam", "encoder"} \cup Clients /\ asleep \subseteq Clients
    /\ size \in 0..Parts /\ nfail \in 0..MaxFail
    /\ buf \in [1..Parts -> {"none", "a", "b", "freed"}]

\* The plugin that is not loaded stands still, and nobody has the mutex in its name.
OtherIdle ==
    /\ camera = "uvc" => R!Init /\ db # "encoder"
    /\ camera = "raspicam" => U!Init /\ db # "cam"

\* Nothing has broken the mutex.
Sound == camera = "uvc" \/ nfail = 0

\* A client that copies has the mutex, the picture that it found, and one picture.
ClientInv ==
    /\ cpc \in [Clients -> {"idle", "wait", "copying"}] /\ DOMAIN got = Clients
    /\ \A c \in Clients : cpc[c] # "idle" => Started
    /\ \A c \in Clients : cpc[c] = "copying" /\ Sound => db = c
    /\ CopyStable
    /\ db \notin {"cam", "encoder"} /\ Alive /\ Sound => \A p, r \in 1..size : buf[p] = buf[r]

IndInv ==
    /\ stop \in BOOLEAN /\ SharedOK /\ OtherIdle /\ ClientInv
    /\ camera = "raspicam" => R!IndInv
    /\ camera = "uvc" => U!IndInv

=============================================================================
