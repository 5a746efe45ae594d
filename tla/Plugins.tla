------------------------------ MODULE Plugins -------------------------------
(***************************************************************************)
(* MJPG-streamer with one of the other input plugins (Inputs) and one of   *)
(* the other output plugins (Outputs), which meet at the picture buffer    *)
(* and its mutex, and the signal that ends it; or with the plugin that     *)
(* turns a camera's motors (PanTilt), which has no pictures.               *)
(***************************************************************************)
EXTENDS Frame, Integers, Sequences

CONSTANTS
    Loads,                                \* pairs of an input and an output to be loaded
    Files, Folders, FileSize, Sizes, Streamed, Resolutions, MaxNew,   \* see Inputs
    Rings, Exceeds, Found, FocusMax, FocusStep, Sharpness, ZmqSizes, MaxZmqBufferSize,  \* see Outputs
    Commanders, Degrees, MinRes,          \* see PanTilt
    MaxFail                               \* bound: calls that fail

VARIABLES
    proc, sig, buf, size, nfail,
    in, ipc, mode, rm, list, cur, has, files, made, events, name, got, seen, part, held, len, sp,
    sent, cm, empties, zpc, tag,
    out, opc, mjpg, ring, exceed, folder, counter, back, missed, frames, caps, pos, max_frame_size,
    mine, req, zsize, packed, tpc, raced, lens,
    mutex, where, todo, valid, known, motor,
    loaded     \* "pictures" (an input and an output), or "control"

ASSUME PluginsAssumption ==
    /\ Folders \subseteq Seq(Files \cup {"other"}) /\ <<>> \notin Folders
    /\ FileSize \in [Files -> Nat]
    /\ Sizes \subseteq Nat /\ Streamed \subseteq Nat /\ MaxNew \in Nat /\ MaxFail \in Nat /\ Resolutions \subseteq 1..4
    /\ Rings \subseteq Int /\ -1 \in Rings /\ MinRes \in Nat /\ Degrees \subseteq Int
    /\ Exceeds \subseteq Int /\ Found \subseteq Nat
    /\ FocusMax \in Nat \ {0} /\ FocusStep \in Nat \ {0}
    /\ Sharpness \subseteq Int /\ \A sv \in Sharpness : sv >= -1
    /\ ZmqSizes \subseteq Int /\ MaxZmqBufferSize \in Nat \ {0}
    /\ Nobody \notin Commanders \cup {"input", "output"}

Home == Nobody
I == INSTANCE Inputs
O == INSTANCE Outputs
P == INSTANCE PanTilt

inVars  == <<in, ipc, mode, rm, list, cur, has, files, made, events, name, got, seen, part, held,
             len, sp, sent, cm, empties, zpc, tag>>
outVars == <<out, opc, mjpg, ring, exceed, folder, counter, back, missed, frames, caps, pos,
             max_frame_size, mine, req, zsize, packed, tpc, raced, lens>>
panVars == <<mutex, where, todo, valid, known, motor>>
vars == <<frameVars, proc, sig, buf, size, nfail, inVars, outVars, panVars, loaded>>

Init ==
    /\ db = Nobody /\ asleep = {} /\ proc = "run" /\ sig = "no" /\ buf = "null" /\ size = 0 /\ nfail = 0
    /\ loaded \in {"pictures", "control"}
    /\ I!Init /\ O!Init /\ P!Init
    /\ IF loaded = "control" THEN in = "file" /\ out = "file" ELSE <<in, out>> \in Loads

\* main() loads the input and the output, and then starts them in the same order.
InOrder  == ipc = "run" => opc # "init"
OutOrder == (opc = "init" => ipc # "init") /\ (opc = "run" => ipc \notin {"init", "run"})
Running == ipc \notin {"init", "run"} /\ opc \notin {"init", "run"}

\* signal_handler(): stop is set, and a second later the threads are cancelled.
Signal ==
    /\ loaded = "pictures" /\ proc = "run" /\ Running
    /\ sig # "cancel" /\ sig' = IF sig = "no" THEN "stop" ELSE "cancel"
    /\ UNCHANGED <<frameVars, proc, buf, size, nfail, inVars, outVars, panVars, loaded>>

Input(A)   == loaded = "pictures" /\ A /\ UNCHANGED <<outVars, panVars, loaded>>
Output(A)  == loaded = "pictures" /\ A /\ UNCHANGED <<inVars, panVars, loaded>>
Control(A) ==
    /\ loaded = "control" /\ A
    /\ UNCHANGED <<frameVars, proc, sig, buf, size, inVars, outVars, loaded>>

Next ==
    \/ Input(InOrder /\ I!Next) \/ Output(OutOrder /\ O!Next) \/ Control(P!Next)
    \/ Signal

\* The threads run, and get a mutex that is free again and again; nothing makes a file,
\* a datagram, a picture of the other server, a command or the signal come.
Threads ==
    /\ SF_vars(Input(I!Thread)) /\ SF_vars(Input(I!Zoom))
    /\ SF_vars(Output(O!Thread))

Spec == Init /\ [][Next]_vars /\ Threads

-----------------------------------------------------------------------------
(* Properties.                                                              *)

InputPlaces ==
    {"init", "run", "scan", "top", "event", "pick", "open", "lock", "load", "publish", "remove", "sleep",
     "quit", "leave", "ended", "absent", "connect", "recv", "image", "copy", "closed", "fill",
     "control", "preview", "data", "restart", "control_done", "settings", "read", "encode"}
OutputPlaces ==
    {"init", "run", "start", "wait", "asleep", "copy", "open", "write", "ring", "delay", "leave",
     "ended", "recv", "reply", "pack", "send", "decode", "show", "measure"}

\* Type correctness: the places of the threads, the file in hand, the counters.
TypeOK ==
    /\ db \in {Nobody, "input", "output"} /\ asleep \subseteq {"output"}
    /\ ipc \in InputPlaces /\ opc \in OutputPlaces
    /\ (in = "file" /\ list # <<>>) => cur \in 1..Len(list)
    /\ pos \in 0..MaxZmqBufferSize /\ nfail \in 0..MaxFail
    /\ P!TypeOK

\* While an output copies the picture nobody changes it
\* (the use of db in all the plugins), as long as the input's thread lives: it frees
\* the picture without the mutex.
CopyStable ==
    (ipc # "ended" /\ opc = "copy") => mine = <<buf, size>>

\* The inputs with a buffer of 256 KB never claim more, nor less than nothing
\* (input_http.c:137, where the length goes to memcpy(); input_testpicture.c:243).
SizeFits == in \in {"http", "testpicture"} => 0 <= size /\ size <= I!BUFFER_SIZE

\* What input_http shows is one picture of the other server with its own length, or
\* the text at the start of a connection; never parts of two (extract_data()).
HttpWhole ==
    (in = "http" /\ ipc = "publish") => buf = "text" \/ (buf \in {"even", "odd"} /\ size = sent)

\* A copy is never larger than its memory (the realloc() of output_file, output_udp and
\* output_rtsp), as long as none has failed.  zmqserver notes one limit for all its
\* copies, and viewer and autofocus have memory of a fixed size.
FrameFits ==
    (out \in {"file", "udp", "rtsp"} /\ nfail = 0) => \A s \in DOMAIN frames : frames[s][2] <= caps[s]

\* A picture that is saved is the one that the thread has found, unless the snapshot
\* command has used the same memory meanwhile (output_file.c:602).
SavedWhole ==
    (opc \in {"open", "write"} /\ ~raced /\ ipc # "ended") => frames[pos] = mine

\* The ring buffer holds no more than it may and may exceed (output_file.c:322), and one
\* picture more between its writing and the look at the folder, or if the thread ends
\* there; unless the folder could not be read or not all could be removed the last time.
RingBound ==
    (out = "file" /\ ~mjpg /\ ring >= 0 /\ counter # -1 /\ ~missed) =>
        Len(folder) <= ring + (IF exceed > 0 THEN exceed ELSE 0)
                            + (IF opc \in {"ring", "ended"} THEN 1 ELSE 0)

\* The pictures with less than ring newer ones in the folder.
Recent(pictures) == {pictures[i] : i \in DOMAIN pictures} \cap 0..(ring - 1)

\* The most recent pictures are kept ("delete oldest files, just keep size most recent
\* files", output_file.c:148), unless the clock has gone back since the start, as the local
\* time does once a year: then wrong files may be deleted.
RingNewest ==
    [][(out = "file" /\ opc = "ring" /\ ~back) => Recent(folder) \subseteq Recent(folder')]_vars

\* The pictures of a package are copies of their own, a package that is sent is full
\* (output_zmqserver.c, where pbPackage points into frames[]), and no picture is kept
\* outside frames[] or the package for a size from 1 to MAX_ZMQ_BUFFER_SIZE.
PackageDistinct ==
    /\ \A j, k \in DOMAIN packed : packed[j] = packed[k] => j = k
    /\ opc = "send" => Len(packed) = zsize
    /\ proc = "undefined" => out = "zmqserver" /\ zsize \notin 1..MaxZmqBufferSize

\* When no search is under way the focus is where the search measured the most, of all the
\* positions but 0, which it does not look at.  The exception is a first search that
\* measured nothing above 100: it ends at 100, measured or not (output_autofocus.c:103).
FocusBest ==
    ~lens.search =>
        \/ \E m \in lens.measured :
               m[1] = lens.focus /\ \A n \in lens.measured : n[2] <= m[2]
        \/ /\ lens.first /\ lens.focus = 100
           /\ \A m \in lens.measured : m[2] <= 100

\* A thread that has ended holds the mutex only if it is ptp2's giving up, a call has
\* failed, input_file was cancelled in the read() of a picture (input_file.c:346), or the
\* output was cancelled while it waited.
OrphanKnown ==
    /\ (db = "input" /\ ipc = "ended") =>
           in = "ptp2" \/ nfail > 0 \/ (in = "file" /\ sig = "cancel")
    /\ (db = "output" /\ opc = "ended") => sig = "cancel"

Removed(f) == files[f] > 0 /\ files'[f] = 0

\* What input_file removes with -r has been shown, unless somebody has written or moved
\* another file of that name there since the thread read it: then the one it has read has
\* been shown, and the other one is lost (input_file.c:365).
RemovedWasShown ==
    [][\A f \in Files : Removed(f) =>
           \/ <<f, files[f]>> \in seen
           \/ f = name /\ files[f] # got /\ <<f, got>> \in seen]_vars

\* Every picture of the list is shown, again and again (-e of input_file.c), unless a file
\* of it is gone or cannot be read.
EachFileShown ==
    \A f \in Files :
        (in = "file" /\ ipc = "top" /\ mode = "ExistingFiles" /\ ~rm /\ \E k \in DOMAIN list : list[k] = f)
            ~> ((ipc = "remove" /\ name = f) \/ sig # "no" \/ nfail > 0 \/ proc # "run")

\* An output that waits gets a picture as long as the input makes them.
WaitersWoken ==
    (opc = "asleep" /\ in \in {"testpicture", "ptp2", "opencv"})
        ~> (opc # "asleep" \/ ipc \in {"ended", "absent"} \/ sig # "no" \/ proc # "run")

\* A command of ptp2 gets its answer, unless the thread has ended with a mutex.
ZoomReturns ==
    (zpc = "lock") ~> (zpc = "idle" \/ ipc = "ended" \/ (db = "output" /\ opc = "ended") \/ proc # "run")

\* The signal ends the input's thread, unless an output has taken the mutex with it.
StopEnds ==
    (sig = "cancel")
        ~> (ipc \in {"ended", "absent"} \/ (db = "output" /\ opc = "ended") \/ proc # "run")

\* input_control: the position that is kept is the camera's.
PositionKnown == P!PositionKnown

\* What an input shows is one picture of a size that fits, and it does not change
\* while it is copied.
PicturesRight == TypeOK /\ CopyStable /\ SizeFits /\ HttpWhole

\* What an output saves or sends is a copy of its own that fits its memory, and the
\* folder keeps the newest, but for the exceptions that are named.
CopiesRight == [](FrameFits /\ SavedWhole /\ RingBound /\ PackageDistinct) /\ RingNewest

\* The positions that are kept of lens and motors are the best and the true ones.
MotorsRight == FocusBest /\ PositionKnown

\* Threads and commands get on: waiters are woken, commands answered and the signal
\* ends the input, but for the mutexes that OrphanKnown names.
ThreadsEnd == []OrphanKnown /\ WaitersWoken /\ ZoomReturns /\ StopEnds

\* What the threads of the plugins owe each other and the user: every file is shown, and
\* threads and commands get on (input_file.c:298-365, output_file.c:220).
PluginsServe == EachFileShown /\ ThreadsEnd

-----------------------------------------------------------------------------
(* The inductive invariant of the safety properties.                        *)

Contents == Files \cup {"null", "freed"} \cup I!Held

\* The plugins start in order, and pictures and copies are what they can be.
SharedInv ==
    /\ nfail \in 0..MaxFail /\ db \in {Nobody, "input", "output"} /\ asleep \subseteq {"output"}
    /\ ipc \in InputPlaces /\ opc \in OutputPlaces
    /\ buf \in Contents /\ mine \in Contents \X Nat /\ frames \in [O!Slots -> Contents \X Nat]
    /\ opc # "init" => ipc # "init"
    /\ opc \notin {"init", "run"} => ipc \notin {"init", "run"}

IndInv ==
    /\ SharedInv /\ CopyStable /\ SavedWhole
    /\ I!KeptOK /\ I!FileInv /\ I!HttpInv /\ I!SizeInv /\ I!LockInv
    /\ O!FlagsOK /\ O!KeptOK /\ O!PackInv /\ O!RoomInv /\ O!RingInv /\ O!LensInv /\ O!LockInv
    /\ P!TypeOK /\ P!CommandInv /\ P!MotorInv

=============================================================================
