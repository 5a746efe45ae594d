------------------------------- MODULE Daemon -------------------------------
(***************************************************************************)
(* What outlives one run of alarm4pi: the two log files and the port       *)
(* mapping in the router, over several runs that may be killed anywhere.   *)
(*                                                                         *)
(* log_msgs.c opens, shortens and writes the files; port_mapping.c asks    *)
(* the router; public_ip.c asks a name server; proc_helper.c reads what    *)
(* the tunneling program prints.  Messages are written by the main thread, *)
(* by the polling thread and by the signal handler, which may interrupt    *)
(* either of them in the middle of a message: msg_printf() is divided at   *)
(* the lock of localtime(), which, unlike those of stdio, a thread cannot  *)
(* take twice.  The services and the supervision of the children are in    *)
(* modules Services and Supervisor.                                        *)
(***************************************************************************)
EXTENDS Integers, Sequences, FiniteSets

CONSTANTS
    MaxRuns,     \* bound: runs of the daemon
    MaxSignals,  \* bound: signals during one run
    MaxEvents,   \* bound: messages of the polling thread during one run
    MaxPrev,     \* MAX_PREV_MSG_FILE_SIZE, in messages
    ArrayLen,    \* size of the array for the output of the tunneling program
    MinOutput,   \* MIN_VALID_PROC_OUTPUT
    ReadTimeout, \* PROC_OUTPUT_READ_TIMEOUT, in rounds of select()
    Address      \* IPv4 addresses

ASSUME DaemonAssumption ==
    /\ MaxRuns \in Nat \ {0} /\ MaxSignals \in Nat /\ MaxEvents \in Nat
    /\ MaxPrev \in Nat \ {0} /\ ArrayLen \in Nat \ {0} /\ MinOutput \in Nat
    /\ ReadTimeout \in Nat \ {0} /\ 0 \notin Address

Files   == {"log", "event"}              \* Log_file_handle, Event_file_handle
Threads == {"main", "poll"}
Nobody  == "nobody"

VARIABLES
    run,         \* number of the run
    pc,          \* where main() is; "off" between two runs
    disk,        \* messages in each file, MaxPrev + 1 standing for more
    buf,         \* messages in the buffer of each handle
    handle,      \* "null", "append" (unbuffered), "write" (buffered) or "closed"
    owner,       \* the thread that holds the lock of localtime()
    frames,      \* the calls of msg_printf() of each thread, the handler's on top
    tst,         \* the polling thread: "none", "run", "stalled" or "ended"
    exit,        \* Exit_daemon_loop
    lan,         \* Lan_address is not empty
    mapped,      \* the router maps the port
    out, time,   \* num_output_chars and the rounds without output
    ip,          \* Msg_info_str: the public address, 0 if unknown
    answer,      \* history: what the name server answered
    said,        \* history: messages completed, counted like disk
    torn,        \* history: files that a crash has cut
    refused,     \* history: the last run did not find the router, was refused the
                 \* deletion or was killed
    misused,     \* history: who has used a closed handle
    sigs, events \* signals and events of this run

logVars  == <<disk, buf, handle, said, torn, misused>>
thrVars  == <<owner, frames>>
upnpVars == <<lan, mapped, refused>>
readVars == <<out, time>>
ipVars   == <<ip, answer>>
cntVars  == <<sigs, events>>
vars == <<run, pc, logVars, thrVars, tst, exit, upnpVars, readVars, ipVars, cntVars>>

Places == {"off", "open", "cut", "open_event", "cut_event", "handlers", "upnp", "add",
           "web", "tunnel", "read", "tunneled", "address", "polling", "join", "joined", "children",
           "deinit", "delete", "terminate", "close_event", "close", "end"}
Phases == {"want", "stamp", "write", "kill"}
Frame  == [who : {"code", "handler"}, file : Files, ph : Phases]
Size   == 0..(MaxPrev + 1)

\* Answers of the name server: the replies that hostname_to_ip_at_dns() tells
\* apart, each with the records it carries.
Answers ==
    [reply : {"none", "unparsed", "error"}, records : {<<>>}]
        \cup [reply : {"ok"},
              records : {<<>>} \cup {<<[type |-> t, addr |-> a]>> : t \in {"A", "CNAME"}, a \in Address}
                    \cup {<<[type |-> "A", addr |-> a], [type |-> "A", addr |-> a]>> : a \in Address}]
NoAnswer == [reply |-> "none", records |-> <<>>]

FlagsOK == exit \in BOOLEAN /\ lan \in BOOLEAN /\ mapped \in BOOLEAN /\ refused \in BOOLEAN
FilesOK ==
    /\ disk \in [Files -> Size] /\ buf \in [Files -> Size] /\ said \in [Files -> Size]
    /\ handle \in [Files -> {"null", "append", "write", "closed"}] /\ torn \subseteq Files
FramesOK ==
    /\ owner \in Threads \cup {Nobody} /\ frames \in [Threads -> Seq(Frame)]
    /\ \A t \in Threads : Len(frames[t]) <= MaxSignals + 1
    /\ misused \subseteq {"code", "handler"} /\ sigs \in 0..MaxSignals
PlacesOK ==
    /\ run \in 1..MaxRuns /\ pc \in Places /\ tst \in {"none", "run", "stalled", "ended"}
    /\ out \in 0..(ArrayLen - 1) /\ time \in 0..ReadTimeout
    /\ ip \in Address \cup {0} /\ answer \in Answers /\ events \in 0..MaxEvents

\* Type correctness of the messages, the files, the router and the places of the threads.
TypeOK == FlagsOK /\ FilesOK /\ FramesOK /\ PlacesOK

\* The first run finds files of any size, both alike.
Init ==
    /\ run = 1 /\ pc = "open" /\ (\E n \in Size : disk = [f \in Files |-> n]) /\ said = disk
    /\ buf = [f \in Files |-> 0] /\ handle = [f \in Files |-> "null"]
    /\ owner = Nobody /\ frames = [t \in Threads |-> <<>>] /\ tst = "none" /\ exit = FALSE
    /\ lan = FALSE /\ mapped = FALSE /\ refused = FALSE /\ out = 0 /\ time = 0
    /\ ip = 0 /\ answer = NoAnswer /\ torn = {} /\ misused = {} /\ sigs = 0 /\ events = 0

Plus(a, b) == IF a + b > MaxPrev THEN MaxPrev + 1 ELSE a + b

Least(a, b) == IF a < b THEN a ELSE b

-----------------------------------------------------------------------------
(* Messages.                                                                *)

Idle(t) == frames[t] = <<>>

Push(t, frame) == frames' = [frames EXCEPT ![t] = Append(@, frame)]

\* msg_printf() by the code of a thread: nothing without a file.  What happens
\* on a closed handle is undefined: here the message is lost.
msg_printf(t, f) ==
    /\ IF handle[f] \in {"append", "write"}
       THEN Push(t, [who |-> "code", file |-> f, ph |-> "want"])
       ELSE UNCHANGED frames
    /\ misused' = IF handle[f] = "closed" THEN misused \cup {"code"} ELSE misused

Top(t) == frames[t][Len(frames[t])]

SetPhase(t, ph) == frames' = [frames EXCEPT ![t][Len(frames[t])].ph = ph]

Pop(t) == frames' = [frames EXCEPT ![t] = SubSeq(@, 1, Len(@) - 1)]

InPhase(t, ph) == pc # "off" /\ ~Idle(t) /\ Top(t).ph = ph

\* get_localtime_stamp(): the lock of localtime() is taken, and released.
LockTime(t) ==
    /\ InPhase(t, "want") /\ owner = Nobody /\ owner' = t /\ SetPhase(t, "stamp")
    /\ UNCHANGED <<run, pc, logVars, tst, exit, upnpVars, readVars, ipVars, cntVars>>

UnlockTime(t) ==
    /\ InPhase(t, "stamp") /\ owner' = Nobody /\ SetPhase(t, "write")
    /\ UNCHANGED <<run, pc, logVars, tst, exit, upnpVars, readVars, ipVars, cntVars>>

\* The message is written and flushed, with what the buffer held.
Write(t) ==
    LET f == Top(t).file IN
    /\ InPhase(t, "write")
    /\ disk' = [disk EXCEPT ![f] = Plus(@, buf[f] + 1)] /\ buf' = [buf EXCEPT ![f] = 0]
    /\ said' = [said EXCEPT ![f] = Plus(@, 1)]
    /\ IF Top(t).who = "code" THEN Pop(t) ELSE SetPhase(t, "kill")
    /\ UNCHANGED <<run, pc, handle, torn, misused, owner, tst, exit, upnpVars, readVars,
                   ipVars, cntVars>>

\* exit_deamon_handler() interrupts a thread, its own earlier call included.
Signal(t) ==
    /\ pc \notin {"off", "open", "cut", "open_event", "cut_event", "handlers"}
    /\ t = "poll" => tst \in {"run", "stalled"}
    /\ sigs < MaxSignals /\ sigs' = sigs + 1
    /\ Push(t, [who |-> "handler", file |-> "log",
                ph |-> IF handle["log"] \in {"append", "write"} THEN "want" ELSE "kill"])
    /\ misused' = IF handle["log"] = "closed" THEN misused \cup {"handler"} ELSE misused
    /\ UNCHANGED <<run, pc, disk, buf, handle, said, torn, owner, tst, exit, upnpVars,
                   readVars, ipVars, events>>

\* Mutant of HandlerEnds: the flag is not set.
HandlerEnds_NoFlag(t) ==
    /\ InPhase(t, "kill") /\ Pop(t)
    /\ UNCHANGED <<run, pc, logVars, owner, tst, exit, upnpVars, readVars, ipVars, cntVars>>

\* kill_processes(), and the flag.
HandlerEnds(t) ==
    /\ InPhase(t, "kill") /\ exit' = TRUE /\ Pop(t)
    /\ UNCHANGED <<run, pc, logVars, owner, tst, upnpVars, readVars, ipVars, cntVars>>

Message(t) == LockTime(t) \/ UnlockTime(t) \/ Write(t) \/ HandlerEnds(t)

-----------------------------------------------------------------------------
(* open_log_files().                                                        *)

MainAt(p) == pc = p /\ Idle("main")

Follow(p) == pc' = p

Quiet == UNCHANGED <<run, tst, exit, owner, cntVars>>

\* fopen("a+t"); a file that is too long is shortened before it is used.
OpenMsgFile(f, here, cut, next) ==
    /\ MainAt(here) /\ Quiet /\ UNCHANGED <<frames, upnpVars, readVars, ipVars, buf, torn, misused>>
    /\ \/ handle' = [handle EXCEPT ![f] = "null"] /\ Follow(next) /\ UNCHANGED <<disk, said>>
       \/ /\ handle' = [handle EXCEPT ![f] = "append"]
          /\ IF disk[f] > MaxPrev
             THEN Follow(cut) /\ UNCHANGED <<disk, said>>
             ELSE /\ Follow(next) /\ disk' = [disk EXCEPT ![f] = Plus(@, 1)]
                  /\ said' = [said EXCEPT ![f] = Plus(@, 1)]

\* Without memory the file stays as it is; otherwise its last MaxPrev messages
\* are read and the file is emptied (fopen("wt")) and written again: what the
\* new buffer still holds is written by the first flush.
CutMsgFile(f, here, next) ==
    /\ MainAt(here) /\ Quiet /\ Follow(next)
    /\ UNCHANGED <<frames, upnpVars, readVars, ipVars, torn, misused>>
    /\ \/ UNCHANGED <<handle, buf>> /\ disk' = [disk EXCEPT ![f] = Plus(@, 1)]
          /\ said' = [said EXCEPT ![f] = Plus(@, 1)]
       \/ handle' = [handle EXCEPT ![f] = "null"] /\ UNCHANGED <<disk, buf, said>>
       \/ \E n \in 0..MaxPrev :
            /\ handle' = [handle EXCEPT ![f] = "write"]
            /\ disk' = [disk EXCEPT ![f] = n]
            /\ buf' = [buf EXCEPT ![f] = MaxPrev - n + 1] /\ UNCHANGED said

open_log_files ==
    \/ OpenMsgFile("log", "open", "cut", "open_event") \/ CutMsgFile("log", "cut", "open_event")
    \/ OpenMsgFile("event", "open_event", "cut_event", "handlers")
    \/ CutMsgFile("event", "cut_event", "handlers")

set_signal_handler ==
    /\ MainAt("handlers") /\ Follow("upnp") /\ Quiet
    /\ UNCHANGED <<logVars, frames, upnpVars, readVars, ipVars>>

-----------------------------------------------------------------------------
(* port_mapping.c.                                                          *)

\* A router is found; or none is, and the address may be set all the same.
init_UPNP ==
    /\ MainAt("upnp") /\ Quiet /\ msg_printf("main", "log")
    /\ \/ lan' = TRUE /\ Follow("add") /\ refused' = FALSE
       \/ lan' \in BOOLEAN /\ Follow("web") /\ refused' = TRUE
    /\ UNCHANGED <<disk, buf, handle, said, torn, mapped, readVars, ipVars>>

\* The lease is for ever.  print_UPNP_mapping() lists the result.
add_UPNP_mapping ==
    /\ MainAt("add") /\ Quiet /\ Follow("web") /\ msg_printf("main", "log")
    /\ mapped' \in IF lan THEN {mapped, TRUE} ELSE {mapped}
    /\ UNCHANGED <<disk, buf, handle, said, torn, lan, refused, readVars, ipVars>>

\* Mutant of delete_UPNP_mapping: the connection is tested the wrong way round.
delete_UPNP_mapping_Inverted ==
    /\ MainAt("delete") /\ Quiet /\ Follow("terminate")
    /\ IF ~lan THEN mapped' = FALSE /\ UNCHANGED <<refused, frames, misused>>
               ELSE UNCHANGED <<mapped, refused, frames, misused>>
    /\ UNCHANGED <<disk, buf, handle, said, torn, lan, readVars, ipVars>>

delete_UPNP_mapping ==
    /\ MainAt("delete") /\ Quiet /\ Follow("terminate")
    /\ \/ lan /\ ~refused /\ mapped' = FALSE /\ UNCHANGED <<refused, frames, misused>>
       \/ lan /\ refused' = TRUE /\ msg_printf("main", "log") /\ UNCHANGED mapped
       \/ ~lan /\ UNCHANGED <<mapped, refused, frames, misused>>
    /\ UNCHANGED <<disk, buf, handle, said, torn, lan, readVars, ipVars>>

terminate_UPNP ==
    /\ MainAt("terminate") /\ Quiet /\ Follow("close_event") /\ lan' = FALSE
    /\ UNCHANGED <<logVars, frames, mapped, refused, readVars, ipVars>>

-----------------------------------------------------------------------------
(* The children that main() starts.                                         *)

Flush ==
    /\ disk' = [f \in Files |-> IF handle[f] = "write" THEN Plus(disk[f], buf[f]) ELSE disk[f]]
    /\ buf' = [f \in Files |-> 0]

\* Mutant of StartWebServer: the files are not flushed before fork().
StartWebServer_NoFlush ==
    /\ MainAt("web") /\ Quiet
    /\ Follow("tunnel") \/ Follow("address")
    /\ UNCHANGED <<logVars, frames, upnpVars, readVars, ipVars>>

\* run_background_command_out_log(): the files are flushed before fork(), so
\* that the child has no message to write a second time.
StartWebServer ==
    /\ MainAt("web") /\ Quiet /\ Flush
    /\ Follow("tunnel") \/ Follow("address")
    /\ UNCHANGED <<handle, said, torn, misused, frames, upnpVars, readVars, ipVars>>

\* run_background_command_out_fd(): pipe() or fork() may fail.
StartTunneling ==
    /\ MainAt("tunnel") /\ Quiet /\ Flush
    /\ \/ Follow("read") /\ out' = 0 /\ time' = 0
       \/ Follow("address") /\ UNCHANGED readVars
    /\ UNCHANGED <<handle, said, torn, misused, frames, upnpVars, ipVars>>

\* After a round of the loop of run_background_command_out_array(), which has
\* brought it to o characters and t rounds without any.  At the end the array is
\* terminated, and the pipe is left open.
AfterRound(o, t, silent) ==
    IF t < ReadTimeout /\ o < ArrayLen - 1 /\ ~(silent /\ o >= MinOutput)
    THEN Follow("read") /\ out' = o /\ time' = t /\ UNCHANGED <<frames, misused>>
    ELSE Follow("tunneled") /\ out' = o /\ time' = 0 /\ UNCHANGED <<frames, misused>>

\* "Tunneling process output": out characters of the array.
TunnelingRead ==
    /\ MainAt("tunneled") /\ Quiet /\ Follow("address") /\ msg_printf("main", "log")
    /\ out' = 0 /\ UNCHANGED <<disk, buf, handle, said, torn, upnpVars, time, ipVars>>

\* select() finds data: as much is read as there is place for.
ReadOutput(n) ==
    /\ MainAt("read") /\ Quiet /\ n \in 1..(ArrayLen - 1 - out)
    /\ AfterRound(out + n, time, FALSE)
    /\ UNCHANGED <<disk, buf, handle, said, torn, upnpVars, ipVars>>

\* select() finds none for half a second.
NoOutput ==
    /\ MainAt("read") /\ Quiet /\ AfterRound(out, time + 1, TRUE)
    /\ UNCHANGED <<disk, buf, handle, said, torn, upnpVars, ipVars>>

\* The program closes its end of the pipe, or read() fails.
EndOfOutput ==
    /\ MainAt("read") /\ Quiet /\ Follow("tunneled") /\ time' = 0
    /\ UNCHANGED <<logVars, frames, out, upnpVars, ipVars>>

-----------------------------------------------------------------------------
(* public_ip.c and the polling thread.                                      *)

\* The address of a single A record; 0 for an error.
PublicIp(a) ==
    IF a.reply = "ok" /\ Len(a.records) = 1 /\ a.records[1].type = "A"
    THEN a.records[1].addr ELSE 0

\* get_public_ip(), from update_ip_msg(): it is asked for once in a run.
get_public_ip(a) ==
    /\ MainAt("address") /\ Quiet /\ Follow("polling") /\ msg_printf("main", "log")
    /\ answer' = a /\ ip' = PublicIp(a)
    /\ UNCHANGED <<disk, buf, handle, said, torn, upnpVars, readVars>>

\* init_polling() creates the thread, or fails somewhere before.  The address
\* has been announced: the model forgets it.
init_polling ==
    /\ MainAt("polling") /\ msg_printf("main", "log")
    /\ \/ tst' = "run" /\ Follow("join")
       \/ tst' = "none" /\ Follow("joined")
    /\ ip' = 0 /\ answer' = NoAnswer
    /\ UNCHANGED <<run, exit, owner, cntVars, disk, buf, handle, said, torn, upnpVars,
                   readVars>>

\* event_printf() and log_printf() by the polling thread.
PollingMessage(f) ==
    /\ tst = "run" /\ Idle("poll") /\ ~exit /\ events < MaxEvents
    /\ events' = events + 1 /\ msg_printf("poll", f)
    /\ UNCHANGED <<run, pc, disk, buf, handle, said, torn, owner, tst, exit, upnpVars,
                   readVars, ipVars, sigs>>

\* The thread is in the upload of a photo, curl_easy_perform() of owncloud.c, which has
\* no timeout, and never comes back.
PollingStalls ==
    /\ tst = "run" /\ Idle("poll") /\ tst' = "stalled"
    /\ UNCHANGED <<run, pc, logVars, thrVars, exit, upnpVars, readVars, ipVars, cntVars>>

PollingEnds ==
    /\ tst = "run" /\ Idle("poll") /\ exit /\ tst' = "ended"
    /\ UNCHANGED <<run, pc, logVars, thrVars, exit, upnpVars, readVars, ipVars, cntVars>>

wait_polling_end ==
    /\ MainAt("join") /\ tst = "ended" /\ Quiet /\ Follow("joined") /\ msg_printf("main", "log")
    /\ UNCHANGED <<disk, buf, handle, said, torn, upnpVars, readVars, ipVars>>

-----------------------------------------------------------------------------
(* The end of main().                                                       *)

\* "Waiting for child processes to finish".
WaitChildren ==
    /\ MainAt("joined") /\ Quiet /\ Follow("children") /\ msg_printf("main", "log")
    /\ UNCHANGED <<disk, buf, handle, said, torn, upnpVars, readVars, ipVars>>

\* wait_child_processes() returns: module Supervisor says when.
ChildrenEnded ==
    /\ MainAt("children") /\ Quiet /\ Follow("deinit") /\ msg_printf("main", "log")
    /\ UNCHANGED <<disk, buf, handle, said, torn, upnpVars, readVars, ipVars>>

deinit_polling ==
    /\ MainAt("deinit") /\ Quiet /\ Follow("delete")
    /\ UNCHANGED <<logVars, frames, upnpVars, readVars, ipVars>>

\* A last message, and the buffer is written; the handle keeps its value.
close_log_file(f, here, next) ==
    /\ MainAt(here) /\ Quiet /\ Follow(next)
    /\ IF handle[f] = "null" THEN UNCHANGED <<handle, disk, buf, said>>
       ELSE /\ handle' = [handle EXCEPT ![f] = "closed"]
            /\ disk' = [disk EXCEPT ![f] = Plus(@, buf[f] + 1)]
            /\ buf' = [buf EXCEPT ![f] = 0] /\ said' = [said EXCEPT ![f] = Plus(@, 1)]
    /\ UNCHANGED <<frames, torn, misused, upnpVars, readVars, ipVars>>

close_log_files ==
    close_log_file("event", "close_event", "close") \/ close_log_file("log", "close", "end")

\* The memory of the process goes; what is not on the disk is lost.
Off ==
    /\ pc' = "off" /\ owner' = Nobody /\ frames' = [t \in Threads |-> <<>>]
    /\ buf' = [f \in Files |-> 0] /\ handle' = [f \in Files |-> "null"]
    /\ tst' = "none" /\ exit' = FALSE /\ lan' = FALSE /\ out' = 0 /\ time' = 0
    /\ ip' = 0 /\ answer' = NoAnswer /\ sigs' = 0 /\ events' = 0 /\ misused' = {}

Return ==
    /\ MainAt("end") /\ Off
    /\ UNCHANGED <<run, disk, said, torn, mapped, refused>>

\* The process is killed, or the power fails.  A crash also ends a run in which
\* a closed handle is used.
Crash ==
    /\ pc # "off" /\ Off /\ refused' = TRUE
    /\ torn' = torn \cup {f \in Files : buf[f] > 0}
    /\ UNCHANGED <<run, disk, said, mapped>>

\* The next run.
Restart ==
    /\ pc = "off" /\ run < MaxRuns /\ run' = run + 1 /\ pc' = "open"
    /\ UNCHANGED <<logVars, thrVars, tst, exit, upnpVars, readVars, ipVars, cntVars>>

Main ==
    \/ open_log_files \/ set_signal_handler \/ init_UPNP \/ add_UPNP_mapping
    \/ StartWebServer \/ StartTunneling \/ NoOutput \/ TunnelingRead \/ (\E a \in Answers : get_public_ip(a)) \/ init_polling
    \/ wait_polling_end \/ WaitChildren \/ deinit_polling \/ delete_UPNP_mapping
    \/ terminate_UPNP \/ close_log_files \/ Return

Next ==
    \/ Main \/ (\E n \in 1..ArrayLen : ReadOutput(n)) \/ EndOfOutput \/ ChildrenEnded \/ Crash \/ Restart
    \/ PollingStalls \/ PollingEnds
    \/ \E f \in Files : PollingMessage(f)
    \/ \E t \in Threads : Message(t) \/ Signal(t)

\* The threads are scheduled.  Nothing says that the children print or end, that
\* there is an event or a signal, that an upload comes back once it has stalled, or
\* that a run follows another.
Fairness ==
    /\ WF_vars(Main) /\ WF_vars(PollingEnds)
    /\ \A t \in Threads : WF_vars(LockTime(t) \/ UnlockTime(t) \/ Write(t) \/ HandlerEnds(t))

Spec == Init /\ [][Next]_vars /\ Fairness

-----------------------------------------------------------------------------
(* Safety.                                                                  *)

\* The last MaxPrev messages are in the file between two runs and from the
\* start of the web server on, however often files are shortened.  Only a
\* crash between fopen("wt") and the next flush can cut them.
LogKept ==
    pc \in {"off", "tunnel", "read", "tunneled", "address", "polling", "join", "joined", "children",
            "deinit", "delete", "terminate", "close_event", "close", "end"} =>
        \A f \in Files \ torn : disk[f] >= Least(said[f], MaxPrev)

\* The files are closed when no thread is left that could write in them: only
\* the handler of a late signal uses a closed handle (its value is kept).
ClosedLast == "code" \notin misused

\* After a run that has found the router, and whose deletion it has not
\* refused, the port is not mapped, even if an earlier run was killed.
PortClosed == (pc = "off" /\ mapped) => refused

\* An address is announced only if the name server has answered with exactly
\* one record, and that of the right type.
AddressKnown ==
    /\ ip # 0 => answer.reply = "ok" /\ answer.records = <<[type |-> "A", addr |-> ip]>>
    /\ ip = 0 /\ answer.reply = "ok" =>
        \/ Len(answer.records) # 1 \/ answer.records[1].type # "A"

-----------------------------------------------------------------------------
(* Liveness.                                                                *)

\* A thread whose handler waits for the lock that the thread itself holds.
Stuck == \E t \in Threads : InPhase(t, "want") /\ owner = t

\* A signal brings main() to the end of the polling, and the end of the
\* children brings it to its own; the exceptions are a handler that has interrupted
\* its thread inside localtime(), and an upload of the polling thread that never ends
\* (owncloud.c:264), for which main() waits in pthread_join().
SignalEnds ==
    /\ (exit \/ \E t \in Threads : \E i \in 1..Len(frames[t]) : frames[t][i].who = "handler")
            ~> (pc \in {"off", "children"} \/ Stuck \/ tst = "stalled")
    /\ pc = "deinit" ~> (pc = "off" \/ Stuck)

\* Reading the output of the tunneling program ends, whatever it prints.
ReadEnds == pc = "read" ~> (pc # "read" \/ Stuck)

\* What is left outside the process is right: the log keeps its last messages and
\* nobody writes after it is closed, and only an address that was answered is sent.
TracesRight == TypeOK /\ LogKept /\ ClosedLast /\ AddressKnown

\* main() gets on to its end: out of the polling after a signal, out of reading the
\* tunneling program's output, and out of the clean-up; but for the two exceptions of
\* SignalEnds.
MainReturns == SignalEnds /\ ReadEnds

-----------------------------------------------------------------------------
(* What every step keeps.                                                   *)

\* Only a file that was shortened has something in its buffer, until the next message
\* or the flush before fork(), and then disk and buffer hold MaxPrev messages and the
\* mark of the cut.
LogInv ==
    /\ \A f \in Files :
        /\ buf[f] > 0 => handle[f] = "write" /\ disk[f] + buf[f] = MaxPrev + 1
        /\ buf[f] = 0 /\ f \notin torn => disk[f] >= Least(said[f], MaxPrev)
        /\ pc \notin {"open_event", "cut_event", "handlers", "upnp", "add", "web"} => buf[f] = 0
    /\ pc \in {"open_event", "cut_event"} => buf["event"] = 0

\* Each thread has one message of its own, below those of the handlers.
DepthInv == \A t \in Threads : Len(frames[t]) <= sigs + 1

\* The files are closed last, and the polling thread runs only while main() waits for
\* it.
OrderInv ==
    /\ \A f \in Files : handle[f] = "closed" => pc \in {"close", "end"}
    /\ tst \in {"run", "stalled"} => pc = "join"
    /\ ClosedLast

\* A mapping that nobody has refused to delete is deleted by the run that found it.
PortInv ==
    mapped /\ ~refused =>
        /\ lan
        /\ pc \in {"add", "web", "tunnel", "read", "tunneled", "address", "polling", "join",
                  "joined", "children", "deinit", "delete"}

IndInv == TypeOK /\ LogInv /\ DepthInv /\ OrderInv /\ PortInv /\ AddressKnown

=============================================================================
