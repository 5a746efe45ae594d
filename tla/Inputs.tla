------------------------------- MODULE Inputs -------------------------------
(***************************************************************************)
(* The input plugins of MJPG-streamer that need no camera of their own:    *)
(*   file         pictures found in a folder (input_file.c)                *)
(*   http         the stream of another server (input_http.c, mjpg-proxy.c)*)
(*   testpicture  two pictures in turn (input_testpicture.c)               *)
(*   ptp2         the preview of a photo camera (input_ptp2.c)             *)
(*   opencv       a camera or a film read by OpenCV (input_opencv.cpp)     *)
(* One of them is loaded, and its thread fills the picture buffer.  Sizes  *)
(* are in bytes, as in the code.                                           *)
(***************************************************************************)
EXTENDS Frame, Integers, Sequences

CONSTANTS
    Files,      \* files that may appear in the folder
    Folders,    \* what scandir() may find: ".", ".." and others (all "other"), and pictures
    FileSize,   \* the size of each
    Sizes,      \* sizes of the pictures of films and cameras
    Streamed,   \* sizes of the pictures of the other server
    Resolutions,\* entries of picture_lookup
    MaxNew,     \* bound: times a file is written
    MaxFail     \* bound: calls that fail

VARIABLES
    proc, sig,        \* the process; the signal: "no", "stop", or "cancel" a second later
    buf, size,        \* the picture buffer, "null" or "freed" or what it holds; its length
    nfail,            \* calls that have failed (bound)
    in, ipc,          \* the plugin, and where its thread is
    mode, rm,         \* file: the mode, and the option -r
    list, cur, has,   \* file: fileList, currentFileNumber, hasJpgFile
    files, events,    \* file: the contents of each, by number (0: not there); inotify's queue
    made,             \* file: the number of its last contents
    name, got,        \* file: the file in hand, and the contents it has, or had when it was read
    seen,             \* history: <<file, contents>> that have been shown
    part, held, len,  \* http: the place in the stream, the buffer's content and length
    sp, sent,         \* http: what the server sends next; its last picture's size
    cm, empties, zpc, \* ptp2: control_mutex, i, and where a zoom command is
    tag               \* which of two pictures is next

fileVars == <<mode, rm, list, cur, has, files, made, events, name, got, seen>>
httpVars == <<part, held, len, sp, sent>>
ptpVars  == <<cm, empties, zpc>>
inputVars == <<in, ipc, fileVars, httpVars, ptpVars, tag>>
shared   == <<proc, sig, buf, size, nfail>>

Plugins == {"file", "http", "testpicture", "ptp2", "opencv"}
stop    == sig # "no"

\* Two pictures that follow each other are told apart by their tags.
Other   == [even |-> "odd", odd |-> "even"]

Init ==
    /\ in \in Plugins /\ ipc = "init"
    /\ mode = "NewFilesOnly" /\ rm = FALSE /\ list = <<>> /\ cur = 1 /\ has = FALSE
    /\ files = [f \in Files |-> 0] /\ made = [f \in Files |-> 0] /\ events = <<>>
    /\ name = "none" /\ got = 0 /\ seen = {}
    /\ part = "HEADER" /\ held = "none" /\ len = 0 /\ sp = "status" /\ sent = 0
    /\ cm = Nobody /\ empties = 0 /\ zpc = "idle" /\ tag = "even"

At(p, place) == proc = "run" /\ in = p /\ ipc = place
Fail == nfail < MaxFail /\ nfail' = nfail + 1

\* A step of the thread that only brings it further.
Go(p, from, to) ==
    /\ At(p, from) /\ ipc' = to
    /\ UNCHANGED <<frameVars, shared, in, fileVars, httpVars, ptpVars, tag>>

\* The plugin, or main() because of it, ends the process.
ExitFailure(p, places) ==
    /\ in = p /\ ipc \in places /\ proc = "run" /\ Fail /\ proc' = "exited"
    /\ UNCHANGED <<frameVars, sig, buf, size, inputVars>>

\* The head of each plugin's loop.
LoopTop(p, from, to) == Go(p, from, IF stop THEN "leave" ELSE to)

\* The thread locks the picture buffer,
Lock(p, from, to) ==
    /\ At(p, from) /\ LockDb("input") /\ ipc' = to
    /\ UNCHANGED <<shared, in, fileVars, httpVars, ptpVars, tag>>

\* Mutant of PublishPicture: nobody is told.
PublishPicture_Silent(p, from, to) ==
    /\ At(p, from) /\ UnlockDb("input") /\ ipc' = to
    /\ UNCHANGED <<shared, in, fileVars, httpVars, ptpVars, tag>>

\* and broadcasts and unlocks when it has filled it.
PublishPicture(p, from, to) ==
    /\ At(p, from) /\ Publish("input") /\ ipc' = to
    /\ UNCHANGED <<shared, in, fileVars, httpVars, ptpVars, tag>>

\* input_run(): the buffer of 256 KB, if the plugin takes one, and the thread.
StartThread(p, content, to) ==
    /\ At(p, "run") /\ buf' = content /\ size' = 0 /\ ipc' = to
    /\ UNCHANGED <<frameVars, proc, sig, nfail, in, fileVars, httpVars, ptpVars, tag>>

Freed == IF buf = "null" THEN "null" ELSE "freed"

\* The cleanup handler frees the picture, without the mutex, and leaves in[].buf as it is.
worker_cleanup(p) ==
    /\ At(p, "leave") /\ ipc' = "ended" /\ buf' = Freed
    /\ UNCHANGED <<frameVars, proc, sig, size, nfail, in, fileVars, httpVars, ptpVars, tag>>

\* Where each thread can be cancelled; input_file's in the read() of a picture, with the
\* mutex, which its cleanup does not give back.
CancelPoints ==
    [file |-> {"event", "open", "load", "remove", "sleep"}, http |-> {"connect", "recv", "closed"},
     testpicture |-> {"sleep"}, ptp2 |-> {"preview", "restart", "sleep"}, opencv |-> {"read"}]

\* pthread_cancel(), and the cleanup handler.
Cancelled ==
    /\ proc = "run" /\ sig = "cancel" /\ ipc \in CancelPoints[in]
    /\ ipc' = "ended" /\ buf' = Freed
    /\ UNCHANGED <<frameVars, proc, sig, size, nfail, in, fileVars, httpVars, ptpVars, tag>>

-----------------------------------------------------------------------------
(* input_file.c.                                                            *)

file_init ==
    /\ At("file", "init") /\ ipc' = "run"
    /\ mode' \in {"NewFilesOnly", "ExistingFiles"} /\ rm' \in BOOLEAN
    /\ UNCHANGED <<frameVars, shared, in, list, cur, has, files, made, events, name, got, seen,
                   httpVars, ptpVars, tag>>

file_run == StartThread("file", "null", "scan")

\* The thread begins with the list of the folder, with -e.  If it cannot be read the
\* thread ends without its cleanup handler.
ScanFolder ==
    /\ At("file", "scan")
    /\ \/ mode = "NewFilesOnly" /\ ipc' = "top" /\ UNCHANGED <<list, files, made, nfail>>
       \/ /\ mode = "ExistingFiles" /\ ipc' = "top" /\ list' \in Folders /\ UNCHANGED nfail
          /\ files' = [f \in Files |-> IF \E k \in 1..Len(list') : list'[k] = f THEN 1 ELSE 0]
          /\ made' = files'
       \/ /\ mode = "ExistingFiles" /\ Fail /\ ipc' = "ended" /\ UNCHANGED <<list, files, made>>
    /\ UNCHANGED <<frameVars, proc, sig, buf, size, in, mode, rm, cur, has, events, name, got, seen,
                   httpVars, ptpVars, tag>>

\* Somebody writes a file in the folder, in place, or moves another one there; the watch
\* is there before the thread is.  An open file has the new contents only in the first
\* case.
WriteFile(f) ==
    /\ in = "file" /\ ipc \notin {"init", "run", "ended"} /\ proc = "run" /\ made[f] < MaxNew
    /\ (mode = "ExistingFiles" => ipc # "scan")
    /\ made' = [made EXCEPT ![f] = @ + 1] /\ files' = [files EXCEPT ![f] = made'[f]]
    /\ events' = IF mode = "NewFilesOnly" THEN Append(events, f) ELSE events
    /\ \/ UNCHANGED got
       \/ ipc \in {"lock", "load"} /\ name = f /\ files[f] = got /\ got' = made'[f]
    /\ UNCHANGED <<frameVars, shared, in, ipc, mode, rm, list, cur, has, name, seen, httpVars,
                   ptpVars, tag>>

\* read() returns all the events of the queue, and the thread looks at the first.
\* One of another folder or name is passed over; the last one says that the watch is
\* over.
ReadEvent ==
    /\ At("file", "event") /\ events # <<>> /\ events' = <<>>
    /\ \/ ipc' = "open" /\ name' = Head(events) /\ UNCHANGED nfail
       \/ ipc' = "top" /\ UNCHANGED <<name, nfail>>
       \/ ipc' = "quit" /\ Fail /\ UNCHANGED name
    /\ UNCHANGED <<frameVars, proc, sig, buf, size, in, mode, rm, list, cur, has, files,
                   made, got, seen, httpVars, ptpVars, tag>>

\* The next file of the list, from the first again after the last.  A list without a
\* picture is given up.
PickFile ==
    /\ At("file", "pick")
    /\ LET next == IF cur = Len(list) THEN 1 ELSE cur + 1 IN
       \/ /\ list[cur] # "other" /\ has' = TRUE /\ name' = list[cur] /\ cur' = next /\ ipc' = "open"
       \/ /\ list[cur] = "other" /\ UNCHANGED <<has, name>>
          /\ ipc' = IF cur = Len(list) /\ ~has THEN "quit" ELSE "top"
          /\ cur' = IF ipc' = "quit" THEN cur ELSE next
    /\ UNCHANGED <<frameVars, shared, in, mode, rm, list, files, made, events, got, seen, httpVars,
                   ptpVars, tag>>

\* A file that is gone, or cannot be looked at, ends the thread.
OpenFile ==
    /\ At("file", "open")
    /\ \/ files[name] > 0 /\ ipc' = "lock" /\ got' = files[name] /\ UNCHANGED nfail
       \/ files[name] = 0 /\ ipc' = "quit" /\ UNCHANGED <<got, nfail>>
       \/ ipc' = "quit" /\ Fail /\ UNCHANGED got
    /\ UNCHANGED <<frameVars, proc, sig, buf, size, in, mode, rm, list, cur, has, files, made, events,
                   name, seen, httpVars, ptpVars, tag>>

\* The old picture is freed.  Without memory for the new one the thread leaves with
\* the mutex; if the file cannot be read it unlocks first.
ReadFile ==
    /\ At("file", "load")
    /\ \/ /\ buf' = name /\ size' = FileSize[name] /\ ipc' = "publish" /\ UNCHANGED <<nfail, frameVars>>
       \/ Fail /\ buf' = "null" /\ ipc' = "quit" /\ UNCHANGED <<size, frameVars>>
       \/ Fail /\ buf' = "null" /\ size' = 0 /\ ipc' = "quit" /\ UnlockDb("input")
    /\ UNCHANGED <<proc, sig, in, fileVars, httpVars, ptpVars, tag>>

ShowFile ==
    /\ At("file", "publish") /\ Publish("input") /\ ipc' = "remove"
    /\ seen' = seen \cup {<<name, got>>}
    /\ UNCHANGED <<shared, in, mode, rm, list, cur, has, files, made, events, name, got, httpVars,
                   ptpVars, tag>>

\* Mutant of RemoveFile: the next name of the queue is removed.
RemoveFile_Next ==
    /\ At("file", "remove") /\ ipc' = "sleep" /\ name' = "none" /\ got' = 0
    /\ files' = IF rm THEN [files EXCEPT ![IF events = <<>> THEN name ELSE Head(events)] = 0] ELSE files
    /\ UNCHANGED <<frameVars, shared, in, mode, rm, list, cur, has, made, events, seen, httpVars,
                   ptpVars, tag>>

\* The file is closed and, with -r, what has its name now is removed.
RemoveFile ==
    /\ At("file", "remove") /\ ipc' = "sleep" /\ name' = "none" /\ got' = 0
    /\ files' = IF rm THEN [files EXCEPT ![name] = 0] ELSE files
    /\ UNCHANGED <<frameVars, shared, in, mode, rm, list, cur, has, made, events, seen, httpVars,
                   ptpVars, tag>>

\* thread_quit: the list is freed.  When new files are watched there is none, and
\* fileList has not been given a value.
FreeList ==
    /\ At("file", "quit") /\ ipc' = "leave"
    /\ proc' \in IF mode = "NewFilesOnly" THEN {"run", "crashed"} ELSE {"run"}
    /\ UNCHANGED <<frameVars, sig, buf, size, nfail, in, fileVars, httpVars, ptpVars, tag>>

file_thread ==
    \/ \E from \in {"top", "sleep"} :
            LoopTop("file", from, IF mode = "NewFilesOnly" THEN "event" ELSE "pick")
    \/ ScanFolder \/ ReadEvent \/ PickFile \/ OpenFile \/ Lock("file", "lock", "load") \/ ReadFile \/ ShowFile
    \/ RemoveFile \/ FreeList \/ worker_cleanup("file")

-----------------------------------------------------------------------------
(* input_http.c, mjpg-proxy.c and misc.c.                                   *)

BUFFER_SIZE == 256 * 1024

\* The stream of an MJPG-streamer (send_stream() of httpd.c): the status line and the
\* other fields of the response, an empty line, the boundary; and for each picture its
\* fields, an empty line, the picture, a line's end and the boundary.
NextToken ==
    [status |-> "fields", fields |-> "blank", blank |-> "boundary", boundary |-> "pfields",
     pfields |-> "pblank", pblank |-> "data", data |-> "crlf", crlf |-> "boundary"]

\* The lengths, and the last four bytes, of what is not a picture.
Length   == [status |-> 17, fields |-> 300, blank |-> 2, boundary |-> 20, pfields |-> 70,
             pblank |-> 2, crlf |-> 2]
LastFour == [status |-> <<79, 75, 13, 10>>,    \* OK, and the line's end
             fields |-> <<115, 115, 13, 10>>, pfields |-> <<48, 48, 13, 10>>,
             blank |-> <<13, 10, 13, 10>>, pblank |-> <<13, 10, 13, 10>>]

\* The bits of the two bytes are tested, so that other pairs pass too: "OK" does.
Bits(byte) == {w \in {1, 2, 4, 8, 16, 32, 64, 128} : (byte \div w) % 2 = 1}
is_crlf(a, b) == Bits(13) \subseteq Bits(a) /\ Bits(10) \subseteq Bits(b)

is_crlfcrlf(t) == is_crlf(LastFour[t][3], LastFour[t][4]) /\ is_crlf(LastFour[t][1], LastFour[t][2])

http_init == Go("http", "init", "run")

http_run == StartThread("http", "none", "connect")

\* connect_and_stream(): as long as there is no server it tries again every five
\* seconds, whatever stop says; then init_extractor_state() and the request.
Connect ==
    /\ At("http", "connect") /\ ipc' = "recv" /\ sp' = "status"
    /\ part' = "HEADER" /\ held' = "none" /\ len' = 0 /\ sent' = 0
    /\ UNCHANGED <<frameVars, shared, in, fileVars, ptpVars, tag>>

\* What the content buffer holds, after something more has come.
Holding(t) ==
    LET new == IF t = "data" THEN tag ELSE "text" IN
    IF held = "none" THEN new ELSE IF t = "data" THEN "mixed" ELSE held

\* n bytes have come.  In a header only its end counts.  In the content they are
\* stored, as far as there is room, until the whole boundary has been: then the
\* picture is what came before the line's end and the boundary.  Bytes for which there
\* is no room are not looked at.
extract_data(t, n) ==
    IF part = "HEADER"
    THEN /\ part' = IF is_crlfcrlf(t) THEN "CONTENT" ELSE part
         /\ ipc' = "recv" /\ UNCHANGED <<held, len>>
    ELSE /\ len' = IF len + n < BUFFER_SIZE THEN len + n ELSE BUFFER_SIZE - 1
         /\ held' = (IF len < BUFFER_SIZE - 1 THEN Holding(t) ELSE held) /\ part' = part
         /\ ipc' = IF t = "boundary" /\ len + n < BUFFER_SIZE THEN "image" ELSE "recv"

\* recv(), and what it brings; or the connection ends.  stop is looked at after each.
Receive ==
    /\ At("http", "recv")
    /\ \/ /\ stop \/ sp # "status"
          /\ ipc' = "closed" /\ UNCHANGED <<part, held, len, sp, sent, tag>>
       \/ /\ ~stop /\ sp' = NextToken[sp]
          /\ \E n \in IF sp = "data" THEN Streamed ELSE {Length[sp]} :
                /\ extract_data(sp, n)
                /\ sent' = IF sp = "data" THEN n ELSE IF sp \in {"crlf", "boundary"} THEN sent ELSE 0
          /\ tag' = IF sp = "crlf" THEN Other[tag] ELSE tag
    /\ UNCHANGED <<frameVars, shared, in, fileVars, ptpVars>>

\* Mutant of CopyImage: the line's end before the boundary is part of the picture.
CopyImage_LineEnd ==
    /\ At("http", "copy") /\ size' = len - Length["boundary"] /\ buf' = held
    /\ ipc' = "publish" /\ part' = "HEADER" /\ held' = "none" /\ len' = 0
    /\ UNCHANGED <<frameVars, proc, sig, nfail, in, sp, sent, fileVars, ptpVars, tag>>

\* on_image_received().
CopyImage ==
    /\ At("http", "copy") /\ size' = len - (Length["boundary"] + 2) /\ buf' = held
    /\ ipc' = "publish" /\ part' = "HEADER" /\ held' = "none" /\ len' = 0
    /\ UNCHANGED <<frameVars, proc, sig, nfail, in, sp, sent, fileVars, ptpVars, tag>>

\* The connection is closed; a second later comes the next.
CloseConnection == Go("http", "closed", IF stop THEN "leave" ELSE "connect")

http_thread ==
    \/ Lock("http", "image", "copy") \/ CopyImage \/ PublishPicture("http", "publish", "recv")
    \/ CloseConnection \/ worker_cleanup("http")

\* What waits for the other server.
Server == Connect \/ Receive

-----------------------------------------------------------------------------
(* input_testpicture.c.                                                     *)

\* The sizes of the pictures in testpictures.h.
PIC_160x120_1 == 3836
PIC_320x240_1 == 9576
PIC_640x480_1 == 23950
PIC_960x720_1 == 39581
PIC_160x120_2 == 3906
PIC_320x240_2 == 9943
PIC_640x480_2 == 24756
PIC_960x720_2 == 41180

picture_lookup ==
    <<[even |-> PIC_960x720_1, odd |-> PIC_960x720_2], [even |-> PIC_640x480_1, odd |-> PIC_640x480_2],
      [even |-> PIC_320x240_1, odd |-> PIC_320x240_2], [even |-> PIC_160x120_1, odd |-> PIC_160x120_2]>>

\* -r chooses the resolution; without it, or with one that is not listed, 640x480.
\* cur is the entry.
testpicture_init ==
    /\ At("testpicture", "init") /\ ipc' = "run" /\ cur' \in Resolutions
    /\ UNCHANGED <<frameVars, shared, in, mode, rm, list, has, files, made, events, name, got, seen,
                   httpVars, ptpVars, tag>>

testpicture_run == StartThread("testpicture", "none", "sleep")

\* The other picture.
NextPicture ==
    /\ At("testpicture", "fill") /\ ipc' = "publish" /\ tag' = Other[tag]
    /\ size' = picture_lookup[cur][tag'] /\ buf' = tag'
    /\ UNCHANGED <<frameVars, proc, sig, nfail, in, fileVars, httpVars, ptpVars>>

testpicture_thread ==
    \/ LoopTop("testpicture", "sleep", "lock") \/ Lock("testpicture", "lock", "fill") \/ NextPicture
    \/ PublishPicture("testpicture", "publish", "sleep")
    \/ worker_cleanup("testpicture")

-----------------------------------------------------------------------------
(* input_ptp2.c.                                                            *)

ptp2_init == Go("ptp2", "init", "run")

\* No camera is not an error: there is just no thread.
DetectCamera ==
    \/ StartThread("ptp2", "none", "sleep")
    \/ At("ptp2", "run") /\ Fail /\ ipc' = "absent"
       /\ UNCHANGED <<frameVars, proc, sig, buf, size, in, fileVars, httpVars, ptpVars, tag>>

\* The camera's settings are changed under control_mutex.
LockControl ==
    /\ At("ptp2", "control") /\ cm = Nobody /\ cm' = "input" /\ ipc' = "preview"
    /\ UNCHANGED <<frameVars, shared, in, fileVars, httpVars, empties, zpc, tag>>

\* A preview; a call that fails ends the thread, with the mutex and without cleanup.
CapturePreview ==
    /\ At("ptp2", "preview")
    /\ \/ ipc' = "lock" /\ UNCHANGED nfail
       \/ ipc' = "ended" /\ Fail
    /\ UNCHANGED <<frameVars, proc, sig, buf, size, in, fileVars, httpVars, ptpVars, tag>>

\* A failure ends the thread, with both mutexes.  An empty picture: the camera is restarted, with both mutexes held.  The fifth time
\* in a row the thread returns, and keeps them.
GetData ==
    /\ At("ptp2", "data")
    /\ \/ ipc' = "copy" /\ empties' = 0 /\ UNCHANGED nfail
       \/ /\ empties' = empties + 1 /\ UNCHANGED nfail
          /\ ipc' = IF empties > 3 THEN "ended" ELSE "restart"
       \/ ipc' = "ended" /\ Fail /\ UNCHANGED empties
    /\ UNCHANGED <<frameVars, proc, sig, buf, size, in, fileVars, httpVars, cm, zpc, tag>>

\* The empty one is shown too.
Restarted ==
    /\ At("ptp2", "restart") /\ ipc' = "control_done" /\ size' = 0
    /\ UNCHANGED <<frameVars, proc, sig, buf, nfail, in, fileVars, httpVars, ptpVars, tag>>

\* The buffer is enlarged if need be; without memory the thread returns.
CopyPreview ==
    /\ At("ptp2", "copy")
    /\ \/ /\ ipc' = "control_done" /\ tag' = Other[tag] /\ buf' = tag' /\ size' \in Sizes
          /\ UNCHANGED nfail
       \/ Fail /\ ipc' = "ended" /\ UNCHANGED <<buf, size, tag>>
    /\ UNCHANGED <<frameVars, proc, sig, in, fileVars, httpVars, ptpVars>>

\* If the library cannot let go of the picture the thread returns, with db.
UnlockControl ==
    /\ At("ptp2", "control_done") /\ cm' = Nobody
    /\ \/ ipc' = "publish" /\ UNCHANGED nfail
       \/ ipc' = "ended" /\ Fail
    /\ UNCHANGED <<frameVars, proc, sig, buf, size, in, fileVars, httpVars, empties, zpc, tag>>

ptp2_thread ==
    \/ LoopTop("ptp2", "sleep", "control") \/ LockControl \/ CapturePreview \/ Lock("ptp2", "lock", "data")
    \/ GetData \/ Restarted \/ CopyPreview \/ UnlockControl
    \/ PublishPicture("ptp2", "publish", "sleep") \/ worker_cleanup("ptp2")

\* input_cmd(): a client of the web server asks for another zoom.
ZoomAsked ==
    /\ in = "ptp2" /\ ipc \notin {"init", "run"} /\ proc = "run" /\ zpc = "idle" /\ ~stop
    /\ zpc' = "lock"
    /\ UNCHANGED <<frameVars, shared, in, ipc, fileVars, httpVars, cm, empties, tag>>

ZoomLocked ==
    /\ proc = "run" /\ zpc = "lock" /\ cm = Nobody /\ cm' = "zoom" /\ zpc' = "set"
    /\ UNCHANGED <<frameVars, shared, in, ipc, fileVars, httpVars, empties, tag>>

\* camera_set() changes the camera's configuration, or fails; either way:
ZoomSet ==
    /\ proc = "run" /\ zpc = "set" /\ cm' = Nobody /\ zpc' = "idle"
    /\ UNCHANGED <<frameVars, shared, in, ipc, fileVars, httpVars, empties, tag>>

-----------------------------------------------------------------------------
(* input_opencv.cpp.                                                        *)

\* The options, the film or camera, and the functions of the filter.
opencv_init == Go("opencv", "init", "run")

opencv_run == StartThread("opencv", "null", "settings")

\* The options that were given are handed to the camera.
CameraSettings == Go("opencv", "settings", "top")

\* The next picture and the filter, or the end of the film.
ReadCapture ==
    /\ At("opencv", "read") /\ ipc' \in {"lock", "leave"}
    /\ UNCHANGED <<frameVars, shared, in, fileVars, httpVars, ptpVars, tag>>

\* The picture is encoded into a vector of the thread, and in[].buf points into it:
\* it is gone when the thread ends.
Encode ==
    /\ At("opencv", "encode") /\ ipc' = "publish"
    /\ tag' = Other[tag] /\ buf' = tag' /\ size' \in Sizes
    /\ UNCHANGED <<frameVars, proc, sig, nfail, in, fileVars, httpVars, ptpVars>>

opencv_thread ==
    \/ CameraSettings \/ LoopTop("opencv", "top", "read") \/ ReadCapture \/ Lock("opencv", "lock", "encode")
    \/ Encode \/ PublishPicture("opencv", "publish", "top") \/ worker_cleanup("opencv")

-----------------------------------------------------------------------------

Start ==
    \/ file_init \/ http_init \/ testpicture_init \/ ptp2_init \/ opencv_init
    \/ file_run \/ http_run \/ testpicture_run \/ DetectCamera \/ opencv_run
    \/ \E p \in Plugins : ExitFailure(p, {"init", "run"})

Thread ==
    \/ file_thread \/ http_thread \/ testpicture_thread \/ ptp2_thread \/ opencv_thread
    \/ Cancelled

Zoom == ZoomLocked \/ ZoomSet
Next == Start \/ Thread \/ Server \/ (\E f \in Files : WriteFile(f)) \/ ZoomAsked \/ Zoom

-----------------------------------------------------------------------------
(* What is true of the inputs at every step, and makes the properties of    *)
(* module Plugins inductive.                                                *)

Tags == {"even", "odd"}
Held == {"none", "text", "mixed"} \cup Tags

\* The places where the thread has the mutex.
Locked == {"load", "publish", "copy", "fill", "data", "restart", "control_done", "encode"}

KeptOK ==
    /\ in \in Plugins /\ tag \in Tags /\ cur \in Nat /\ mode \in {"NewFilesOnly", "ExistingFiles"}
    /\ list \in Seq(Files \cup {"other"}) /\ events \in Seq(Files) /\ files \in [Files -> Nat]
    /\ made \in [Files -> Nat] /\ got \in Nat /\ seen \subseteq Files \X Nat
    /\ part \in {"HEADER", "CONTENT"} /\ held \in Held /\ len \in Nat /\ len < BUFFER_SIZE
    /\ sp \in DOMAIN NextToken /\ sent \in Nat

\* The thread has a file in hand, and the list is not left.
FileInv ==
    in = "file" =>
        /\ ipc \in {"open", "lock", "load", "publish", "remove"} => name \in Files
        /\ ipc \in {"init", "run", "scan"} => cur = 1
        /\ ipc = "init" => mode = "NewFilesOnly"
        /\ (ipc \in {"init", "run"} \/ (mode = "ExistingFiles" /\ ipc = "scan")) =>
               \A f \in Files : files[f] = 0
        /\ (mode = "ExistingFiles" /\ ipc \notin {"init", "run", "scan", "ended"}) => list # <<>>
        /\ ipc = "pick" => list # <<>>
        /\ list # <<>> => cur \in 1..Len(list)
        /\ ipc = "remove" => <<name, got>> \in seen

\* The content buffer is full, and stays so; or it holds a picture and n bytes.
Full     == len = BUFFER_SIZE - 1
Whole(n) == held \in Tags /\ len = sent + n

\* What the content buffer holds before each thing that the other server sends.
Received ==
    /\ sp # "status"
    /\ sp = "fields" => held = "none" /\ len = 0
    /\ sp = "blank" => held = "text" /\ len = 300
    /\ sp = "boundary" => (held = "text" /\ len = 302) \/ Whole(2) \/ Full
    /\ sp \in {"pfields", "pblank"} => Full
    /\ sp = "data" => (held = "none" /\ len = 0) \/ Full
    /\ sp = "crlf" => Whole(0) \/ Full

HttpInv ==
    in = "http" =>
        /\ part = "HEADER" => held = "none" /\ len = 0
        /\ (ipc = "recv" /\ part = "HEADER") => sp \in {"status", "pfields", "pblank"}
        /\ (ipc = "recv" /\ part = "CONTENT") => Received
        /\ ipc \in {"image", "copy"} =>
               /\ sp = "pfields" /\ part = "CONTENT" /\ len >= 22
               /\ held = "text" \/ Whole(22)
        /\ ipc = "publish" =>
               /\ sp = "pfields" /\ part = "HEADER"
               /\ buf = "text" \/ (buf \in Tags /\ size = sent)

\* The size fits the buffer of those who take one, and the entry is in the table.
SizeInv ==
    /\ size \in Nat
    /\ in \in {"http", "testpicture"} => size <= BUFFER_SIZE
    /\ in = "testpicture" => cur \in 1..4

\* The mutex is where the thread is, or was taken along by one that has failed.
LockInv ==
    /\ ipc \in Locked => db = "input"
    /\ db = "input" =>
           ipc \in Locked \/ in = "ptp2" \/ nfail > 0 \/ (in = "file" /\ sig = "cancel")

=============================================================================
