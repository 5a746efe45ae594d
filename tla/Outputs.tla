------------------------------ MODULE Outputs -------------------------------
(***************************************************************************)
(* The output plugins of MJPG-streamer other than the web server:          *)
(*   file       a file for each picture, the oldest removed, or one file   *)
(*              for all; and the command that takes a snapshot             *)
(*   udp, rtsp  a file for each datagram, which says its name              *)
(*   zmqserver  packages of several pictures, published over ZeroMQ        *)
(*   viewer     a window                                                   *)
(*   autofocus  a search for the sharpest focus                            *)
(* One of them is loaded.  Its thread waits for a picture, copies it under *)
(* the mutex and works on the copy.  rtsp is the code of udp, with a port. *)
(***************************************************************************)
EXTENDS Frame, Integers, Sequences

CONSTANTS
    Rings, Exceeds,       \* file, zmqserver: sizes of the ring buffer, -1 for none; --exceed
    Found,                \* bound: how many pictures of earlier runs are in the folder
    FocusMax, FocusStep,  \* autofocus: the first position, 255, and the step, 10
    Sharpness,            \* bound: what getFrameSharpnessValue() returns, -1 for an error
    ZmqSizes,             \* zmqserver: the sizes of a package that are asked for
    MaxZmqBufferSize,     \* zmqserver: MAX_ZMQ_BUFFER_SIZE, 10
    MaxFail               \* bound: calls that fail

VARIABLES
    proc, sig, buf, size, nfail,   \* see Inputs
    out, opc,          \* the plugin, and where its thread is
    mjpg, ring, exceed,\* file: mjpgFileName is given, ringbuffer_size, ringbuffer_exceed
    frames, caps,      \* frame (zmqserver: frames[]): the copies, and the memory for each
    pos,               \* zmqserver: zmqBufferPos, 0 for the others
    max_frame_size,
    mine,              \* the picture and the size that the thread has found
    counter,           \* pictures, modulo ringbuffer_exceed + 1; -1 before the first
    folder,            \* the pictures in the folder, in the order of their names, if there is
                       \* a ring buffer: for each, how many came after it (ring: that or more)
    back, missed,      \* history: a name was not the last in order; pictures were left over
    req,               \* udp: what the datagram holds
    zsize,             \* zmqserver: zmqBufferSize, the pictures of a package
    packed,            \* zmqserver: the places that pbPackage points to
    tpc,               \* the command that takes a snapshot
    raced,             \* it has used frame while the thread had its picture there
    lens               \* autofocus: focus, max_focus, max_sv, search_focus; whether it is the
                       \* first search, and the <<focus, sv>> that it has measured

fileVars  == <<mjpg, ring, exceed, folder, counter, back, missed>>
copyVars  == <<frames, caps, pos, max_frame_size, mine>>
takeVars  == <<tpc, raced>>
zmqVars   == <<zsize, packed>>
outputVars == <<out, opc, fileVars, copyVars, req, zmqVars, takeVars, lens>>
shared    == <<proc, sig, buf, size, nfail>>

Plugins == {"file", "udp", "rtsp", "zmqserver", "viewer", "autofocus"}
Udp     == {"udp", "rtsp"}
stop    == sig # "no"
Slots   == 0..(MaxZmqBufferSize - 1)
NoPicture == <<"none", 0>>

\* The memory that a plugin takes at its start.
FirstCaps == [file |-> 0, udp |-> 0, rtsp |-> 0, zmqserver |-> 0, viewer |-> 4096 * 1024,
              autofocus |-> 256 * 1024]

Init ==
    /\ out \in Plugins /\ opc = "init"
    /\ mjpg = FALSE /\ ring = -1 /\ exceed = 0 /\ folder = <<>> /\ back = FALSE /\ missed = FALSE
    /\ frames = [s \in Slots |-> NoPicture] /\ caps = [s \in Slots |-> 0]
    /\ pos = 0 /\ max_frame_size = 0 /\ mine = NoPicture /\ counter = -1 /\ req = "none"
    /\ zsize = 3 /\ packed = <<>>
    /\ tpc = "idle" /\ raced = FALSE
    /\ lens = [focus |-> FocusMax, max_focus |-> 100, max_sv |-> 100, search |-> TRUE,
               first |-> TRUE, measured |-> {}]

At(p, place) == proc = "run" /\ out = p /\ opc = place
Fail == nfail < MaxFail /\ nfail' = nfail + 1

Go(p, from, to) ==
    /\ At(p, from) /\ opc' = to
    /\ UNCHANGED <<frameVars, shared, out, fileVars, copyVars, req, zmqVars, takeVars, lens>>

\* The thread returns from within its loop, and does not clean up.
Return(p, from) ==
    /\ At(p, from) /\ Fail /\ opc' = "ended"
    /\ UNCHANGED <<frameVars, proc, sig, buf, size, out, fileVars, copyVars, req, zmqVars,
                   takeVars, lens>>

\* An unknown option, no input of that number, no file for the film, no screen.
output_fails(p) ==
    /\ At(p, "init") /\ Fail /\ proc' = "exited"
    /\ UNCHANGED <<frameVars, sig, buf, size, outputVars>>

\* (zmqserver's thread begins with its package, and cannot for a negative size.)
output_run(p) ==
    /\ At(p, "run") /\ opc' = "start" /\ caps' = [s \in Slots |-> FirstCaps[p]]
    /\ p = "zmqserver" => zsize >= 0
    /\ UNCHANGED <<frameVars, shared, out, fileVars, frames, pos, max_frame_size, mine, req,
                   zmqVars, takeVars, lens>>

\* The head of each plugin's loop, where it goes on with a picture (or a datagram).
LoopTop(p, from) ==
    Go(p, from, IF stop THEN "leave" ELSE IF p \in Udp THEN "recv" ELSE "wait")

worker_cleanup(p) == Go(p, "leave", "ended")

-----------------------------------------------------------------------------
(* The copy of a picture, which all the plugins make in the same way.       *)

WaitPicture(p) ==
    /\ At(p, "wait") /\ WaitFresh("output") /\ opc' = "asleep"
    /\ UNCHANGED <<shared, out, fileVars, copyVars, req, zmqVars, takeVars, lens>>

Woken(p) ==
    /\ At(p, "asleep") /\ WakeUp("output") /\ opc' = "copy" /\ mine' = <<buf, size>>
    /\ UNCHANGED <<shared, out, fileVars, frames, caps, pos, max_frame_size, req, zmqVars,
                   takeVars, lens>>

MoreRoom(n) == max_frame_size' = IF n > max_frame_size THEN n + 65536 ELSE max_frame_size

\* The copy is enlarged when a picture is larger than all before; zmqserver takes the
\* memory of each of its copies when it first needs it.
Grow(p, n) ==
    /\ MoreRoom(n)
    /\ IF n > max_frame_size \/ (p = "zmqserver" /\ caps[pos] = 0)
       THEN caps' = [caps EXCEPT ![pos] = max_frame_size'] ELSE UNCHANGED caps

Growing(p) == p \notin {"viewer", "autofocus"}

\* The picture is copied and the mutex unlocked,
CopyPicture(p, to) ==
    /\ At(p, "copy") /\ pos \in Slots /\ opc' = to /\ db' = Nobody /\ UNCHANGED asleep
    /\ IF Growing(p) THEN Grow(p, mine[2]) ELSE UNCHANGED <<caps, max_frame_size>>
    /\ frames' = [frames EXCEPT ![pos] = <<buf, mine[2]>>] /\ raced' = FALSE
    /\ UNCHANGED <<shared, out, fileVars, pos, mine, req, zmqVars, tpc, lens>>

NeedsMemory(p) == pos \in Slots /\ Growing(p) /\ (mine[2] > max_frame_size \/ (p = "zmqserver" /\ caps[pos] = 0))

\* or there is no memory for it.
NoMemory(p) ==
    /\ At(p, "copy") /\ NeedsMemory(p) /\ Fail
    /\ opc' = "ended" /\ UnlockDb("output") /\ MoreRoom(mine[2])
    /\ UNCHANGED <<proc, sig, buf, size, out, fileVars, frames, caps, pos, mine, req, zmqVars,
                   takeVars, lens>>

Fetch(p, to) == WaitPicture(p) \/ Woken(p) \/ CopyPicture(p, to) \/ NoMemory(p)

\* pthread_cancel().  A thread that is cancelled while it waits for a picture takes
\* the mutex first, and no cleanup handler gives it back.
Cancelled ==
    /\ proc = "run" /\ sig = "cancel"
    /\ \/ opc = "asleep" /\ db = Nobody /\ db' = "output" /\ asleep' = asleep \ {"output"}
       \/ opc \in {"recv", "open", "write", "send", "ring", "delay"} /\ UNCHANGED frameVars
    /\ opc' = "ended"
    /\ UNCHANGED <<shared, out, fileVars, copyVars, req, zmqVars, takeVars, lens>>

\* The thread is done with its copies (what they held is forgotten).
Forget == mine' = NoPicture /\ frames' = [s \in Slots |-> NoPicture]

-----------------------------------------------------------------------------
(* output_file.c.                                                           *)

\* The options: a film, or pictures, with a ring buffer or without.  There is a folder to
\* look after only for pictures with a ring buffer.
RingOptions ==
    /\ mjpg' \in BOOLEAN /\ ring' \in Rings /\ exceed' \in Exceeds
    /\ IF ~mjpg' /\ ring' >= 0
       THEN \E n \in Found : folder' = [i \in 1..n |-> IF n - i < ring' THEN n - i ELSE ring']
       ELSE folder' = <<>>
    /\ UNCHANGED <<counter, back, missed>>

file_init ==
    /\ At("file", "init") /\ opc' = "run" /\ RingOptions
    /\ UNCHANGED <<frameVars, shared, out, copyVars, req, zmqVars, takeVars, lens>>

\* The pictures that are there when another one comes.
Older(list) == [i \in DOMAIN list |-> IF list[i] < ring THEN list[i] + 1 ELSE ring]

\* The name of a picture is made from the local time and the counter: as long as the
\* clock does not go back it is the last in the order of the names.  Otherwise it can be
\* at any place, or that of a picture of an earlier run, which is overwritten.
AtPlace(list, k)  == SubSeq(list, 1, k - 1) \o <<0>> \o SubSeq(list, k, Len(list))
Instead(list, k)  == [list EXCEPT ![k] = 0]

NewName ==
    LET list == Older(folder) IN
    IF mjpg \/ ring < 0 THEN UNCHANGED <<folder, back>>
    ELSE \/ folder' = Append(list, 0) /\ UNCHANGED back
         \/ /\ back' = TRUE
            /\ \/ \E k \in 1..Len(list) : folder' = AtPlace(list, k)
               \/ \E k \in 1..Len(list) : folder' = Instead(list, k)

\* The picture is written, to the end of the film or to a file of its own.
WritePicture ==
    /\ At("file", "write") /\ opc' = (IF mjpg THEN "delay" ELSE "ring") /\ Forget
    /\ raced' = FALSE /\ NewName
    /\ UNCHANGED <<frameVars, shared, out, mjpg, ring, exceed, counter, missed, caps, pos,
                   max_frame_size, req, zmqVars, tpc, lens>>

\* If it cannot be written the thread returns; the file may be there.
CannotWrite ==
    /\ At("file", "write") /\ Fail /\ opc' = "ended"
    /\ (NewName \/ UNCHANGED <<folder, back>>)
    /\ UNCHANGED <<frameVars, proc, sig, buf, size, out, mjpg, ring, exceed, counter, missed,
                   copyVars, req, zmqVars, takeVars, lens>>

\* The number of pictures (only the ring buffer depends on it).
Period == IF exceed <= 0 THEN 1 ELSE exceed + 1
Count ==
    LET n == IF counter = -1 THEN 1 ELSE counter + 1 IN
    counter' = IF n = Period THEN 0 ELSE n

\* The folder is not looked at for each picture, but for the first one.
MaintainNow == counter = -1 \/ counter' = 0

\* Mutant of maintain_ringbuffer: the last of the names are removed.
maintain_ringbuffer_Newest(list, n) == SubSeq(list, 1, n)

\* The first of the names are removed, so that n are left.
maintain_ringbuffer(list, n) == SubSeq(list, Len(list) - n + 1, Len(list))

\* The folder cannot be read, or some of the names cannot be removed: others stay too.
LeftOver(list, n, kept) ==
    \E m \in (n + 1)..Len(list) : \E at \in [1..m -> 1..Len(list)] :
        /\ \A j, k \in 1..m : j < k => at[j] < at[k]
        /\ \A j \in 0..(n - 1) : at[m - j] = Len(list) - j
        /\ kept = [j \in 1..m |-> list[at[j]]]

\* After a picture come the command of the options and the ring buffer (zmqserver's looks
\* at files that somebody else has written).
KeepRing(p, to) ==
    /\ At(p, "ring") /\ opc' = to /\ Count
    /\ \/ /\ ~MaintainNow \/ ring < 0
          /\ UNCHANGED <<folder, missed, nfail>>
       \/ /\ MaintainNow /\ ring >= 0 /\ missed' = FALSE /\ UNCHANGED nfail
          /\ folder' = IF Len(folder) <= ring THEN folder ELSE maintain_ringbuffer(folder, ring)
       \/ /\ MaintainNow /\ 0 <= ring /\ ring < Len(folder) /\ Fail /\ missed' = TRUE
          /\ LeftOver(folder, ring, folder')
    /\ UNCHANGED <<frameVars, proc, sig, buf, size, out, mjpg, ring, exceed, back, copyVars, req,
                   zmqVars, takeVars, lens>>

file_thread ==
    \/ LoopTop("file", "start") \/ Fetch("file", "write") \/ WritePicture \/ CannotWrite
    \/ KeepRing("file", "delay") \/ LoopTop("file", "delay") \/ worker_cleanup("file")

\* output_cmd(), OUT_FILE_CMD_TAKE: a client of the web server has the last picture
\* written to a file.  It is copied to the thread's frame, under the mutex.  Without
\* memory the command ends, and max_frame_size is larger than the frame.
TakeCopies ==
    /\ proc = "run" /\ out = "file" /\ opc \notin {"init", "run"} /\ ~stop /\ tpc = "idle"
    /\ db = Nobody
    /\ \/ /\ Grow("file", size) /\ frames' = [frames EXCEPT ![pos] = <<buf, size>>]
          /\ tpc' = "write" /\ raced' = (raced \/ opc = "write") /\ UNCHANGED nfail
       \/ /\ size > max_frame_size /\ Fail /\ MoreRoom(size)
          /\ UNCHANGED <<caps, frames, raced, tpc>>
    /\ UNCHANGED <<frameVars, proc, sig, buf, size, out, opc, fileVars, pos, mine, req,
                   zmqVars, lens>>

\* The file is written, without the mutex.
TakeWritten ==
    /\ proc = "run" /\ tpc = "write" /\ tpc' = "idle"
    /\ IF mine = NoPicture THEN Forget ELSE UNCHANGED <<mine, frames>>
    /\ UNCHANGED <<frameVars, shared, out, opc, fileVars, caps, pos, max_frame_size, req,
                   zmqVars, raced, lens>>

-----------------------------------------------------------------------------
(* output_udp.c, and output_rtsp.c.                                         *)

udp_init == Go("udp", "init", "run")
rtsp_init == Go("rtsp", "init", "run")

\* A datagram: the name of a file, or nothing.
Receive(p) ==
    /\ At(p, "recv") /\ opc' = "wait" /\ req' \in {"name", "empty"}
    /\ UNCHANGED <<frameVars, shared, out, fileVars, copyVars, zmqVars, takeVars, lens>>

\* The picture is saved under the name, if there is one,
SaveNamed(p) ==
    /\ At(p, "open") /\ opc' = "reply" /\ Forget
    /\ UNCHANGED <<frameVars, shared, out, fileVars, caps, pos, max_frame_size, req, zmqVars,
                   takeVars, lens>>

\* and the name is sent back; then come the command and the delay.
Reply(p) ==
    /\ At(p, "reply") /\ opc' = "delay" /\ req' = "none"
    /\ UNCHANGED <<frameVars, shared, out, fileVars, copyVars, zmqVars, takeVars, lens>>

DatagramThread(p) ==
    \/ LoopTop(p, "start") \/ Fetch(p, "open") \/ SaveNamed(p)
    \/ (req = "name" /\ Return(p, "open")) \/ Reply(p) \/ LoopTop(p, "delay") \/ worker_cleanup(p)

udp_thread == DatagramThread("udp")
rtsp_thread == DatagramThread("rtsp")

-----------------------------------------------------------------------------
(* output_zmqserver.c.                                                      *)

\* The options.  Any size of a package is taken, though frames[] has ten places.
zmqserver_init ==
    /\ At("zmqserver", "init") /\ opc' = "run" /\ RingOptions /\ zsize' \in ZmqSizes
    /\ UNCHANGED <<frameVars, shared, out, copyVars, req, packed, takeVars, lens>>

\* For a negative size, or without memory, the first picture of the package is written
\* through a null pointer.
NoPackage ==
    /\ At("zmqserver", "run") /\ proc' = "crashed"
    /\ \/ zsize < 0 /\ UNCHANGED nfail
       \/ zsize >= 0 /\ Fail
    /\ UNCHANGED <<frameVars, sig, buf, size, outputVars>>

\* With more than ten pictures the eleventh is kept behind frames[], and a package of size
\* 0 has no room for the first one: what comes then is not followed.
OutOfBounds ==
    /\ \/ At("zmqserver", "copy") /\ pos \notin Slots
       \/ At("zmqserver", "pack") /\ ~mjpg /\ zsize = 0
    /\ proc' = "undefined"
    /\ UNCHANGED <<frameVars, sig, buf, size, nfail, outputVars>>

\* The package points to the copy; the next one goes to the next place,
Pack ==
    /\ At("zmqserver", "pack") /\ ~mjpg /\ zsize # 0 /\ packed' = Append(packed, pos)
    /\ pos' = pos + 1 /\ opc' = IF pos' = zsize THEN "send" ELSE "ring"
    /\ UNCHANGED <<frameVars, shared, out, fileVars, frames, caps, max_frame_size, mine, req,
                   zsize, takeVars, lens>>

\* and a package that is full is sent, or lost if that fails.
SendPackage ==
    /\ At("zmqserver", "send") /\ pos' = 0 /\ packed' = <<>> /\ opc' = "ring" /\ Forget
    /\ UNCHANGED <<frameVars, shared, out, fileVars, caps, max_frame_size, req, zsize, takeVars,
                   lens>>

\* With the option of a film the pictures go to the standard output instead.
WriteFilm == mjpg /\ Go("zmqserver", "pack", "start")

zmqserver_thread ==
    \/ LoopTop("zmqserver", "start") \/ Fetch("zmqserver", "pack") \/ Pack \/ SendPackage
    \/ KeepRing("zmqserver", "start") \/ WriteFilm \/ OutOfBounds \/ worker_cleanup("zmqserver")

-----------------------------------------------------------------------------
(* output_viewer.c.                                                         *)

viewer_init == Go("viewer", "init", "run")

\* A picture that cannot be decompressed is passed over,
decompress_jpeg ==
    /\ At("viewer", "decode") /\ opc' \in {"start", "show"} /\ Forget
    /\ UNCHANGED <<frameVars, shared, out, fileVars, caps, pos, max_frame_size, req, zmqVars, takeVars, lens>>

\* the others are shown; the first makes the window.
ShowPicture == Go("viewer", "show", "start")

viewer_thread ==
    \/ LoopTop("viewer", "start") \/ Fetch("viewer", "decode") \/ decompress_jpeg \/ ShowPicture
    \/ worker_cleanup("viewer")

-----------------------------------------------------------------------------
(* output_autofocus.c and processJPEG_onlyCenter.c.                         *)

autofocus_init == Go("autofocus", "init", "run")

Abs(x) == IF x < 0 THEN -x ELSE x

\* Mutant of Search: the best value of the last search is kept.
Search_KeepsBest(sv) ==
    LET again == IF lens.search THEN lens
                 ELSE [lens EXCEPT !.focus = FocusMax, !.max_focus = FocusMax, !.search = TRUE,
                                   !.first = FALSE, !.measured = {}]
        done  == [again EXCEPT !.focus = again.max_focus, !.search = FALSE]
        better == IF sv > again.max_sv
                  THEN [again EXCEPT !.max_focus = again.focus, !.max_sv = sv] ELSE again
    IN IF again.focus <= 0 THEN done
       ELSE [better EXCEPT !.focus = IF again.focus - FocusStep < 0 THEN 0 ELSE again.focus - FocusStep,
                           !.measured = @ \cup {<<again.focus, sv>>}]

\* What a measurement does to a search, which starts again if none is under way.  At
\* the last position the search ends, whatever the measurement says.
Search(sv) ==
    LET again == IF lens.search THEN lens
                 ELSE [focus |-> FocusMax, max_focus |-> FocusMax, max_sv |-> -1, search |-> TRUE,
                       first |-> FALSE, measured |-> {}]
        done  == [again EXCEPT !.focus = again.max_focus, !.search = FALSE]
        better == IF sv > again.max_sv
                  THEN [again EXCEPT !.max_focus = again.focus, !.max_sv = sv] ELSE again
    IN IF again.focus <= 0 THEN done
       ELSE [better EXCEPT !.focus = IF again.focus - FocusStep < 0 THEN 0 ELSE again.focus - FocusStep,
                           !.measured = @ \cup {<<again.focus, sv>>}]

\* A search goes on, or starts because the sharpness has changed by more than delta.
Measure(sv) ==
    /\ At("autofocus", "measure")
    /\ lens' = IF lens.search \/ Abs(sv - lens.max_sv) > 500 THEN Search(sv) ELSE lens
    /\ opc' = (IF lens'.search THEN "start" ELSE "delay") /\ Forget
    /\ UNCHANGED <<frameVars, shared, out, fileVars, caps, pos, max_frame_size, req, zmqVars,
                   takeVars>>

\* A JPEG with tables or samplings that are not known ends the process.
CannotMeasure ==
    /\ At("autofocus", "measure") /\ Fail /\ proc' = "exited"
    /\ UNCHANGED <<frameVars, sig, buf, size, outputVars>>

autofocus_thread ==
    \/ LoopTop("autofocus", "start") \/ Fetch("autofocus", "measure")
    \/ (\E sv \in Sharpness : Measure(sv)) \/ CannotMeasure
    \/ LoopTop("autofocus", "delay") \/ worker_cleanup("autofocus")

-----------------------------------------------------------------------------

Start ==
    \/ file_init \/ udp_init \/ rtsp_init \/ zmqserver_init \/ viewer_init \/ autofocus_init
    \/ NoPackage \/ \E p \in Plugins : output_fails(p) \/ output_run(p)

Thread ==
    \/ file_thread \/ udp_thread \/ rtsp_thread \/ zmqserver_thread \/ viewer_thread
    \/ autofocus_thread \/ Cancelled

Datagram == \E p \in Udp : Receive(p)
Next == Start \/ Thread \/ Datagram \/ TakeCopies \/ TakeWritten

-----------------------------------------------------------------------------
(* What is true of the outputs at every step, and makes the properties of   *)
(* module Plugins inductive.                                                *)

Unused == [s \in Slots |-> NoPicture]

FlagsOK == mjpg \in BOOLEAN /\ raced \in BOOLEAN

KeptOK ==
    /\ out \in Plugins /\ caps \in [Slots -> Nat] /\ max_frame_size \in Nat
    /\ ring \in Int /\ exceed \in Int /\ folder \in Seq(Int)
    /\ packed \in Seq(Nat) /\ zsize \in Int

\* The places of the plugins that save their pictures, and the package so far.
PackInv ==
    /\ out = "zmqserver" => opc \notin {"open", "write"}
    /\ out = "file" => opc # "open"
    /\ (out # "zmqserver" \/ opc \in {"init", "run"}) => pos = 0
    /\ (out = "zmqserver" /\ opc \notin {"init", "run"}) => zsize >= 0
    /\ pos \in 0..MaxZmqBufferSize /\ (pos > 0 => pos <= zsize)
    /\ opc = "pack" => out = "zmqserver" /\ pos \in Slots
    /\ opc = "send" => pos = zsize
    /\ pos > 0 /\ pos = zsize => opc \in {"send", "ended"}
    /\ Len(packed) = pos /\ \A k \in 1..pos : packed[k] = k - 1
    /\ proc = "undefined" => out = "zmqserver" /\ zsize \notin 1..MaxZmqBufferSize

\* Of those that enlarge their one copy: max_frame_size is the memory that it has.
RoomInv ==
    /\ opc \in {"init", "run"} => max_frame_size = 0 /\ frames = Unused
    /\ (out \in {"file", "udp", "rtsp"} /\ nfail = 0) =>
           caps[0] = max_frame_size /\ \A s \in Slots : frames[s][2] <= caps[s]

\* As long as the clock does not go back the order of the names is that of the pictures.
NewestLast(list, n) ==
    \A i \in 1..Len(list) : list[i] = IF Len(list) - i < n THEN Len(list) - i ELSE n

\* The folder between two looks at it, and the names in it.
RingInv ==
    out = "file" =>
        /\ counter \in -1..(Period - 1)
        /\ opc \in {"init", "run"} => counter = -1
        /\ (~mjpg /\ ring >= 0 /\ counter # -1 /\ ~missed) =>
               Len(folder) <= ring + counter + (IF opc \in {"ring", "ended"} THEN 1 ELSE 0)
        /\ (ring >= 0 /\ ~back) => NewestLast(folder, ring)

\* The position that a search has found is the best of those it has measured, or the
\* 100 that the first search begins with.
Best ==
    \/ /\ <<lens.max_focus, lens.max_sv>> \in lens.measured
       /\ \A m \in lens.measured : m[2] <= lens.max_sv
    \/ /\ lens.first /\ lens.max_focus = 100 /\ lens.max_sv = 100
       /\ \A m \in lens.measured : m[2] <= 100

LensInv ==
    /\ lens \in [focus : Int, max_focus : Int, max_sv : Int, search : BOOLEAN, first : BOOLEAN,
                 measured : SUBSET (Int \X Int)]
    /\ Best
    /\ ~lens.search => lens.focus = lens.max_focus

\* The mutex is with the thread while it copies, or was taken along by the signal.
LockInv ==
    /\ opc = "copy" => db = "output"
    /\ db = "output" => opc = "copy" \/ (opc = "ended" /\ sig = "cancel")

=============================================================================
