# A TLA+ verification of alarm4pi

alarm4pi turns a Raspberry Pi into a house alarm: a daemon (`src/src/`) polls
sensor pins, notifies the user over Telegram or Pushover, takes a photo through
a web server it runs as a child process, and uploads it to ownCloud. The web
server is MJPG-streamer, which the repository carries with all its plugins and
with the MMAL library that one of them uses (`src/mjpg-streamer-master/`). This
directory holds TLA+ models of that code, the TLC configurations that check them
on small instances, and proofs, checked by TLAPS, that hold for every value of
the constants. File names and line numbers refer to the sources; `PROJECT.json`
maps every definition to the lines it models.

## 1. Inventory

### The daemon

| Component | State it keeps | Operations | Interacts with | What is hard |
|---|---|---|---|---|
| Life cycle (`alarm4pi.c`) | `Child_process_ids`, `Exit_daemon_loop` | `main`, `exit_deamon_handler` | everything | a handler that may run between any two steps of `main()`, and in a forked child until `execvp` |
| Child processes (`proc_helper.c`) | PIDs, retries left, the blocked `SIGCHLD` | `run_background_command_out_log`, `update_child_processes_state`, `exec_exited_child_processes`, `wait_child_processes`, `kill_processes`, `run_background_command_out_array` | life cycle, log files | reaping, restarting, coalesced signals, PIDs that are stale |
| Polling thread (`gpio_polling.c`) | `last_pin_value`, the pin being handled | `polling_thread`, `on_alarm_event` | GPIO, clients, the web scripts (through the arming pin) | pins that change while an event of another pin takes seconds; uploads without a timeout |
| GPIO library (`gpio_control.c`) | chip, request and direction of each line | `open_gpios`, `close_gpios`, `gpio_direction`, `gpio_read`, `gpio_write`, `configure_gpios` | kernel (libgpiod), `pinctrl` | a change of direction that fails half way |
| Start and end of the services (`gpio_polling.c`) | which clients are started | `init_polling`, `wait_polling_end`, `deinit_polling` | GPIO library, libcurl clients, thread | every combination of failures |
| Clients (`owncloud.c`, `pushover2.c`, `telegram.c`, `capturer.c`) | an initialised flag each, a shared reference count in libcurl | `*_init`, `*_deinit`, `send_*`, `upload_capture`, `capturer_get_frame` | the network, the captures directory | who cleans libcurl up, and when |
| Photos (`capturer.c`) | `<name>` and `<name>.tmp` in the captures directory | `capturer_get_frame`, `capture_erase.cgi` | ownCloud client, web scripts | crash between files and rename, concurrent erasure, names with a resolution of one second |
| Log files (`log_msgs.c`) | two file handles, two files | open with truncation, print, close | everything | printing from a signal handler; a crash while the file is being shortened |
| UPnP (`port_mapping.c`) | the mapping in the router | init, add, delete, terminate | router | a mapping left by a crash |
| Public address (`public_ip.c`) | none | `get_public_ip` | a name server | what counts as an answer |

### The web server and its libraries

| Component | State it keeps | Operations | What is hard |
|---|---|---|---|
| Main program and camera (`mjpg_streamer.c`, `input_libcamera`) | the picture buffer with its mutex and condition variable, the camera's buffers | load, run and stop plugins; grab, publish, switch resolution for a snapshot | a wait for a broadcast that looks at no condition; a restart of the camera while clients wait; SIGINT at any point |
| HTTP server (`output_http`) | connections, a block of memory handed to each thread, the request | accept, parse, authorise, answer | two sockets ready at once; a dozen return paths |
| Other cameras (`input_raspicam`, `input_uvc`) | pool of encoder buffers; the V4L2 device and its buffers | worker, encoder callback; grab thread, commands | pictures that come in parts; a device closed under a thread that reads it |
| Other inputs (file, http, testpicture, ptp2, opencv, control) | list of files, position in a stream, camera position | a thread each, commands | files that come and go, boundaries in a stream, mutexes not given back |
| Other outputs (file, udp, rtsp, zmqserver, viewer, autofocus) | a private copy of the picture, a ring of files, a package | a thread each, the snapshot command | memory shared between thread and command; cancellation inside a wait |
| MMAL core (`mmal/core`, `mmal/util`) | buffer headers in pools, queues and ports; transit counts; reference counts | send, callback, enable, disable, flush, connect, reconfigure, release | buffers that are handed round while a port is being disabled; failures half way |
| MMAL's wrapper (`mmal/util/mmal_component_wrapper.c`) | a pool for each port, a queue, one semaphore, a status | create, enable, disable, get an empty or a full buffer, callbacks | one semaphore for all who wait; pools that are resized while buffers come back |
| MMAL on the VideoCore (`mmal/vc`) | waiters, bulk transfers, use count of the service | request and reply, port operations, callback thread | replies that find the wrong waiter; data that a flush overtakes |
| MMAL clock (`mmal_clock.c`, `mmal_port_clock.c`) | time, speed, request slots, timer | add, flush, set time, offset and speed, start, stop, destroy | time updated without a lock; lost wake-ups; the end of the clock |

What makes each one correct, in a sentence: a stop request ends the daemon and
leaves no web server; the web server is restarted within its retries, never
twice at once; every lasting sensor value is reported exactly once; a GPIO line
is never driven that nobody asked for; the services end as they began whatever
failed; a stored photo is whole; the log keeps its last messages and the router
no mapping; a client gets one whole picture and its own answer; a buffer header
is always in exactly one place; a request to the clock is answered exactly once.

## 2. Modules

| Module | Models | Checked by | Proofs |
|---|---|---|---|
| `Supervisor` | `main()`, the signal handler, fork, exec, reap and restart of the web server | `MCSupervisor`, `Supervisor_all.cfg` | in `DaemonProofs` |
| `Polling` | the polling thread, sensors, arming; implements `Alarm` | `MCPolling`, `Polling_all.cfg` | `PollingProofs` |
| `Alarm` | what the user is promised, with no thread in it | as a property of `Polling` | in `PollingProofs` |
| `GpioControl` | the GPIO library under any calls (`GpioLevels`: the values of a line) | `MCGpioUsers`, in `MCParts`, `Parts_safety.cfg` | in `PollingProofs` |
| `Services` | `init_polling()` to `deinit_polling()`; uses the actions of `GpioControl` | the same | the same |
| `Capturer` | photos on the disk and on the server | `MCParts` | in `PollingProofs` |
| `Daemon` | log files, port mapping, public address and the tunnelling program's output, over several runs | `MCDaemon`, `Daemon_all.cfg` | `DaemonProofs` |
| `Frame` | the mutex and condition variable of an input's picture; extended by the modules that use it | with them | - |
| `Streamer` | MJPG-streamer as alarm4pi runs it: camera thread, clients, SIGINT | `MCStreamer`, `Streamer_all.cfg` | `StreamerProofs` |
| `HttpServer` | accept loop, a thread per connection, all kinds of requests | `MCHttpServer`, `HttpServer_all.cfg` | `HttpServerProofs` |
| `Raspicam`, `Uvc` | the other two cameras; composed by `Cameras` with clients and the signal | `MCCameras`, `Cameras_all.cfg` | `CamerasProofs` |
| `Inputs`, `Outputs`, `PanTilt` | the other plugins; composed by `Plugins`, an input with an output | `MCPlugins`, `Plugins_safety.cfg` and `Plugins_threads.cfg` | `PluginsProofs` |
| `Mmal` | ports, pool, connection and graph of MMAL | `MCMmal`, `Mmal_all.cfg` | - |
| `MmalWrapper` | the wrapper of a component, with an input and an output port | `MCParts` | - |
| `MmalVc` | MMAL's client of the VideoCore | `MCMmalVc`, `MmalVc_all.cfg` | `MmalVcProofs` |
| `MmalClock` | MMAL's clock and clock port | `MCMmalClock`, `MmalClock_all.cfg` | `MmalClockProofs` |

### Supervisor

One action per step between which a signal or a child can get in. `mpc` is
`main()`'s position; `ids`, `num`, `retries` and `blocked` are
`Child_process_ids`, `num_child_processes`, `exec_retries_left` and the signal
mask. `kind` and `st` are the process table: a child is *forked* (it still has
its parent's handler and its own copy of the PID list), then *running* its
program, then a zombie, then gone. `exit_deamon_handler` is three steps (log,
kill, set the flag) that interrupt `main()`. The tunnelling program is a child
that is reaped but not in the list. The polling thread, while `main()` waits for
it, may stall in an upload for ever, and a handler that interrupts it inside
`localtime()` is stuck in its own message. The store of a restarted child's PID is a
step after its fork, because `*new_proc_id = fork()` is not atomic.

### Polling

`level` and `arming` are the pins, changed at any time by the sensors and by
`alarm_on.cgi` and `alarm_off.cgi`. Reading a pin, notifying, capturing and
uploading are steps of their own, because each takes time and the pins go on
changing. An upload may stall for ever (`tpc = "stalled"`): `upload_capture()`
sets no timeout, the other transfers do. `reported` and `late` are history
variables: what the user was told last about each pin, and how many
notifications have gone out since the alarm was disarmed.

### GpioControl

`req` is what the kernel has been asked for, `dir` what the library recorded,
`out` the level an output is driven to. The body of `gpio_direction()` after the
release of the line has three outcomes: the new request, the old one restored,
the line lost. `Pinctrl` is the web interface setting a level behind the
library's back. `asked` is a history variable.

### Services

`main()` from `init_polling()` to `deinit_polling()`, with any step failing.
`refs` is libcurl's count of global initialisations, `flag` the initialised
flag of each client. `todo` and `busy` are the transfers of the message or event
being sent, by `main()` for the first message and by the thread afterwards. What
a configuration file holds is reduced to what the init functions make of it.
GPIO calls are the actions of `GpioControl`, by `INSTANCE`.

### Capturer

`final` and `tmp` are the contents of the files by name, where a name is a
second of the local clock. `stat()`, `unlink()` and `rename()` are steps, so that
`capture_erase.cgi` (list the files, then remove them one at a time) can come in
between, and so can a kill of the daemon. The clock may be set to any value,
which is also what happens to local time when summer time ends.

### Alarm

Four variables: is it armed, what was told of each sensor, which sensors the
round under way may still tell of, is a photograph owed. `Polling` maps its own
state to them (`A == INSTANCE Alarm WITH ...`): a round is the pins the scan has
still to report, the photograph is owed until `capturer_get_frame()` returns.

### Daemon

`main()` once more, this time with what it writes outside the process: `disk` and
`said` are the messages in each file and those written so far, `mapped` the port in
the router. A message is several steps, divided at the lock of `localtime()`, and
a signal may interrupt the main or the polling thread at any of them (`frames` is
each thread's stack). The polling thread may stall here too, so that `main()` waits
in `pthread_join()`. A kill may come anywhere, and another run follows. The array
that holds the tunnelling program's output, its minimum and its deadline are small
numbers.

### Streamer and HttpServer

`Streamer` is the life of a picture: `requestComplete` (libcamera's thread) puts
filled buffers in `requestQueue`, `worker_thread` takes one, copies it into the
picture buffer under the mutex and gives it back; a client waits, copies and
sends. A snapshot of another resolution makes the worker stop and start the
camera with one buffer, and again to go back. The signal handler stops the plugins
one after the other, destroys mutex and condition variable of the input, and
exits; when a client is waiting on them, to destroy them may end the process, crash
it, or block. `HttpServer` is the rest of a
client thread: what is read, refused, answered and closed, with the block
(`block`, `arg`) that the server thread passes to it. The number of a plugin is
what `strtol()` makes of the request, negative numbers included, and a plugin may
export no `cmd()`: `called` holds what was called, `alive` whether the process
survived it.

### Cameras and Plugins

Each plugin is a module whose actions are its thread's steps, its callbacks and
its commands; all of them extend `Frame` and meet at `buf`, `size`, `db` and
`asleep`. `Cameras` loads one of two cameras and adds clients that copy pictures;
`Plugins` loads an input with an output, or the motor control. What is not loaded
stands still. The driver, the encoder, the other server, datagrams and files are
environment. A picture is a value per part, so that a torn one can be told.
The files of `input_file` are contents under a name (`files`, `got`, `seen`), each
new one a number of its own, and a file may be written again under its name at any
moment. The name that `output_file` gives a picture comes from a clock that may go
back; `scandir()` and `unlink()` may fail. `CancelPoints` are the places where a
cancelled thread ends; if it holds the mutex there, nobody unlocks it.

### Mmal, MmalWrapper, MmalVc, MmalClock

`Mmal` follows the headers of one pool over an output and an input port, tunnelled
or driven by the worker of a graph; a call of the client is a list of steps
(`todo`), so that what it leaves half done is seen by the other threads. In
`MmalWrapper` the component is external and keeps the headers it is sent; the
client's threads look at the status, take a header from a queue or wait for the
semaphore, each a step, between which callbacks put headers back. In
`MmalVc` three threads share waiters and the service; VCHIQ delivers in order and
the server, which is external, answers. `MmalClock` is the worker thread, its
timer and any number of callers; time is a counter in units of 10 ms.

## 3. Runs

| Run | Instance | Distinct states | What holds |
|---|---|---|---|
| `Supervisor_all` | 3 PIDs, 2 signals, 1 failing fork, 2 retries | 326 k | `NoLostWakeup`, `NothingLeftBehind`, `StrayOnlyInWindow`; `SignalsServed` (`SettledStopEnds`, `DeadChildRestarted`: a stop in a settled state ends the daemon, a child that ended is run again) |
| `Polling_all` | 3 pins, 1 failing read | 25 k | `NoDuplicateReport`, `LateReportsBounded`; `ThreadProgress` (a lasting value is reported, the exit flag is seen or an upload stalls); `ImplementsAlarm` |
| `Parts_safety` | three parts, one at a time: any calls on 2 lines of the GPIO library, and alarm4pi on its 8 lines with all contents of its files; 3 photos in 2 seconds; the wrapper with 2 threads, pools of 1 and of 1 or 2 headers, 3 calls that enable or disable, 1 failure or error | 2.7 M | `DrivenOnlyIfAsked`, `ServicesCovered` (no transfer without libcurl and its client, no thread without its lines), `EndsClean`; `FinalComplete`, `TmpAccounted`, `DistinctSecondsKept`; `WrapperRight` (`WakeUpKept`, `HeadersKept`) |
| `Daemon_all` | 2 runs, 2 signals and 1 event in each | 632 k | `TracesRight` (`LogKept`, `ClosedLast`, `AddressKnown`), `PortClosed`, `MainReturns` (`SignalEnds`, `ReadEnds`) |
| `Streamer_all` | 2 clients, 2 camera buffers, 1 SIGINT | 108 k | `PicturesRight` (`NoEmptyPicture`, `PicturesWhole`), `CameraKept` (`BuffersKept`, `SwitchKnown`), `StreamerServes` (`SnapshotAnswered`, `StreamRestored`, `InterruptEnds`) |
| `HttpServer_all` | 2 connections (symmetric), 3 configurations, 1 input, 2 outputs | 1.5 M | `ConnectionsServed` (`OneThreadPerClient`, `EndsClean`), `AnswersRight` (`AnsweredOnce`, `OnlyGranted`, `PluginInRange`, `ProcessSurvives`) |
| `Cameras_all` | 1 client, 2 buffers, pictures in 2 parts, 1 command, 1 failure | 279 k | `PicturesRight` (`CopyStable`, `PicturesWhole`, `NoEmptyFrame`), `MemoryKept` (`NoNull`, `BuffersKept`, `FreedLast`, `CrashesKnown`, `DriverBuffersKept`, `EndsUnlocked`), `ThreadsEnd` (`PauseEnds`, `StopEnds`) |
| `Plugins_safety` | 9 pairs of an input and an output and the motor control, 2 file names with new contents twice, 2 sizes, rings of 1 with an excess of 0 or 2, packages of -1, 0, 2 and 3, 1 failure | 955 k | `PicturesRight` (`CopyStable`, `SizeFits`, `HttpWhole`), `CopiesRight` (`FrameFits`, `SavedWhole`, `RingBound`, `RingNewest`, `PackageDistinct`), `MotorsRight` (`FocusBest`, `PositionKnown`), `RemovedWasShown` |
| `Plugins_threads` | 6 pairs and the motor control, 2 files, no ring, 1 failure | 123 k | `PluginsServe` (`EachFileShown`, and `ThreadsEnd`: `OrphanKnown`, `WaitersWoken`, `ZoomReturns`, `StopEnds`) |
| `Mmal_all` | 2 headers, 1 failure | 399 k | `HeadersKept` (`Conserved`, `HeadersHome`, `DestroyedOnce`), `TransitRight` (`TransitCounts`, `CallbackSet`), `CallReturns` |
| `MmalVc_all` | 1 header, 1 waiter for 3 threads, 1 failure | 397 k | `RepliesRight` (`WaiterFound`, `OwnReply`, `ServiceUsed`), `BulksRight` (`BulksMatch`, `FlushComplete`, `PoolSafe`), `CallsReturn` |
| `MmalClock_all` | 2 callers, 14 scripts of calls, 2 slots, 2 units of time | 169 k | `RequestsServed` (`RequestKept`, `SlotsKept`, `EndsServed`), `TimerRight` (`PendingOrdered`, `TimerInTime`), `ClockProgress` (`DueServed`, `DestroyReturns`) |

A property that a run checks is one promise of a component; where it has several
parts they are named definitions of the module, in parentheses above, and its
conjunction is what is checked. The type invariant `TypeOK` of a module is such a
part, or is proved (section 4), as are `PidsOwned`, `OneWebServer`, `RetryBudget`,
`LastIsReported`, `HeldOnlyWhileOpen`, `DirectionMatches`, `FailedCallKeepsLevel`
and `RemoteStored`, for all values of the constants. So are the invariants of all runs
but those of `Mmal` and `MmalWrapper`, and the refinement `ImplementsAlarm` (`Refinement`).

Each property has a mutant: an operator `X_Something` beside the definition `X` it
replaces, with a plausible mistake in it, under which TLC finds the property
violated.

Several properties hold only with an exception, which they name: `SettledStopEnds`,
`ThreadProgress` and `SignalEnds` (an upload that never ends; the first and the last
also a handler inside `localtime()`), `PicturesWhole` of `Streamer` (unless the
snapshot has a resolution of its own), `InterruptEnds` (a client that waits when the
condition variable is destroyed), `OneThreadPerClient` (unless two sockets were ready
in one round), `ProcessSurvives` (a command for a negative plugin number, or for a
plugin without `cmd()`), `CrashesKnown`, `SavedWhole`, `RingBound` (a folder that could
not be tidied, until the next look), `RingNewest` (a clock that went back), `FocusBest`
(a first search that measures nothing above 100), `RemovedWasShown` (a file written
again after it was read), `OrphanKnown`, `WakeUpKept` (a post that another waiter took,
and a resize, which posts nothing), `CallReturns` (two deadlocks), `TimerInTime`,
`PendingOrdered`. The exceptions are faults of the code, section 5.

**Bounds.** Two signals allow one handler to be followed or interrupted by another.
Three PIDs allow the web server, its replacement and the tunnelling program at
once, and PIDs that were used before. With three pins one can change while another
is handled and a third waits. Two lines show that a call on one leaves the other
alone; `Services` has no bound but the eight pins of the code. Three photos in two
seconds have two of the same name and one of another. Two runs of the daemon let
one find what the other left. Two clients let one ask while the other is served;
two connections let both sockets be ready in one round. Pictures of two parts can
be torn. Two headers can overtake each other and leave one on each side of a port;
with one waiter every second request has to wait for it. The sizes of the stream
of `Plugins` are those on both sides of what its 256 KB buffer holds, those of the
files on both sides of 64 KB. Two new contents let a file be written again after it
was read; a ring of one with an excess of two is looked at while it is full, over its
bound and tidied; the package sizes are one too small for any picture, none, and both
sides of the (smaller) array of frames; the focus is measured below, between and above
the 100 that the search begins with. The liveness run of `Plugins` leaves the rings,
most measurements and package sizes out, on which no thread waits. Two threads of the
wrapper's client, on different queues, are enough for one to take the other's post;
enabling, disabling and enabling again with another number resizes a pool that was
in use. Each script of the clock is one thing that can come
in the way of a request, run by a second thread at every possible point. Failures
are bounded by one, anywhere: error paths are reached from everywhere, not two of
them one after the other.

**Deadlock** is checked where the system goes on for ever or its end stutters
explicitly (`Supervisor`, `Polling`, `Parts`, `Cameras`). The other
models may stop: the last run of the daemon is over, the bounded connections are
closed, the scripts of calls are done, the process has exited or crashed. There
liveness properties look for what must not stop.

**Fairness.** `Supervisor`: `main()`, the handler, the polling thread and a
forked child make progress (the kernel schedules them; `sigtimedwait()` has a
timeout, and the thread looks at the flag every second), and a program that gets
SIGTERM with the default action ends. That does not make the polling thread end: at
any time it may stall in an upload for good (`PollingThreadStalls`), and a handler may be
stuck, from where there is no step. Nothing forces a child to end by itself or
a signal to be sent. `Polling`: the thread makes progress, since every transfer
but the upload has a timeout; the upload may stall, and nothing is assumed of
sensors and web interface. `Daemon`: both threads and their handlers are
scheduled, but the polling thread may stall (`PollingStalls`) and then has no step;
children print and end, and runs begin, if they like. `Streamer`: the
threads run, the camera fills the buffers it has, and the lock is strongly fair:
a thread that waits for a mutex which is free again and again gets it. The same
for the mutexes of `Mmal`, `MmalVc`, `MmalClock` and `Plugins` (strong fairness of
the threads' steps); in `Cameras` weak fairness of the threads is enough. Commands,
connections, datagrams, files, events, the other server and the signal are never
fair, nor is the start of a call. `GpioControl`, `Services`, `Capturer`,
`HttpServer` and `MmalWrapper` are checked for safety only, and the rings, packages and
measurements of `Plugins`.

## 4. Proofs

All theorems have the form `Spec => []P` (or an action property, or a refinement), for
every value of the constants; each rests on `Init => IndInv`,
`IndInv /\ [Next]_vars => IndInv'` and `IndInv => P`, with `IndInv` defined at the end
of the component's module (`SupervisorInv` of
`Supervisor`, `LibraryInv` of `GpioControl`, `UsersInv` of `MCGpioUsers`,
`CaptureInv` of `Capturer`; `RightInv` of `MmalClock` holds on top of its `IndInv`).
Every `IndInv` was checked by TLC, on the bounds of its run or larger ones, before it was
proved. All safety properties of the daemon's parts,
of `Streamer`, `HttpServer`, `Cameras`, `Plugins`, `MmalClock` and `MmalVc` are theorems.

- `DaemonProofs`, of `Supervisor`: `SupervisorTypes`, `PidsOwned`, `OneWebServer`, `NoLostWakeup`,
  `NothingLeftBehind`, `RetryBudget`, `StrayOnlyInWindow`, for any number of PIDs,
  signals, failing forks and retries. `PidsOwned` is not inductive by itself: `SlotInv`
  says that a web server that was not reaped is in the first slot or is the one about to
  be stored there, never both. From it follows `StrayOnlyInWindow`: a slot whose process
  is gone is the one between `waitpid()` and the store of -1. `NoLostWakeup` needs
  `WakeInv`: from the first look after blocking `SIGCHLD` on, a zombie means a pending
  signal, in every place of the loop and not only where it sleeps. `RetryBudget` needs
  `RetryInv`, which ties the loop variables of a restart to the place in the code. The
  assumption is that the bounds are natural numbers and that the special values -1 and 0
  of a PID are not PIDs of processes.
- `PollingProofs`: `TypeOK`, `NoDuplicateReport`, `LateReportsBounded`,
  `LastIsReported`, for any number of pins. `ReportInv`: only for the pin being
  handled may `last` lag behind `reported`. `LateInv`: a scan has sent at most one
  late notification for each pin it has passed. `Refinement` is `Spec =>
  ImplementsAlarm`: the initial state maps to one of `Alarm`, and under `IndInv` every
  action of the thread, the pins and the web interface maps to one action of `Alarm` or
  leaves its four variables alone.
- `PollingProofs`, of `GpioControl` and `MCGpioUsers`: of the library, under any calls and for any set of lines, the type
  invariant, three invariants and the action property; `AskedInv` covers lost lines: they
  keep their direction, and a later failure may restore it. Of the services on top of it,
  for any contents of the files and any failures, `ServicesCovered` and `EndsClean`, from
  `UsersInv`: which lines are held at each place of `init_polling()` (`LinesInv`), that the
  library is open in between (`OpenInv`), where a client's flag may be set (`FlagInv`; ownCloud's is
  never cleared), that `refs` counts the flags whose clients have not ended (`RefsInv`), and
  who transfers (`UseInv`). `UsersCallLibrary` is the link: the composed system
  implements the library's own specification, so that what is proved of the library under
  any calls (`DrivenOnlyIfAsked` among it) holds for alarm4pi. The assumption is that the
  chip has the lines of the code's table.
- `PollingProofs`, of `Capturer` (the photos that the thread takes): the type invariant
  and the four invariants, for any number of photos and seconds. `TmpInv`: after the download the temporary file is whole or
  gone. `FileInv`: a file holds a stored photo of the second it is named after.
  `PhotoInv`: the photo being taken is not stored yet and its name is its second;
  so what `unlink()` removes is another photo of that second.
- `DaemonProofs`, of `Daemon`: `TracesRight` and `PortClosed`, for any number of runs, signals and
  events. `LogInv`: only a file that was shortened has something in its buffer, and then
  disk and buffer together hold what must be kept. `OrderInv`: the polling thread runs
  only while `main()` waits for it, so nobody writes when the files are closed. `PortInv`:
  a mapping that nobody refused to delete belongs to the run that found the router. The
  stacks of calls are followed by lemmas on pushing and popping a frame. The assumption
  is that 0, which stands for no answer, is not an address.
- `StreamerProofs`: `PicturesRight` and `CameraKept`, for any clients, camera buffers and
  number of SIGINTs. `BuffersEverywhere` counts the buffers at each place of
  `worker_thread()`, in the middle of a switch too; `SwitchEverywhere` says where
  `is_switch` is known to be right; `CopiesFresh` that a client which was woken finds a
  picture, though it looks at no condition.
- `HttpServerProofs`: `ConnectionsServed` and `AnswersRight`, for any finite set of
  connections. `OwnInv`: until `select()` returns two sockets no block is handed out
  twice. `AnswerInv`: nothing is sent before credentials and plugin number are checked
  but the refusal of a bad request, and only two kinds of request are answered twice.
  The numbers that a request may ask for are any integers: `CalledInv` says that no
  plugin past the last is called, and that the process has ended only by a case that
  `ProcessSurvives` names, the negative numbers among them.
- `CamerasProofs`: `PicturesRight` and `MemoryKept`, with either camera,
  for any number of clients, buffers, parts of a picture, commands and failures. Each
  plugin has an invariant of its own, proved part by part; `OtherIdle` says that the
  plugin which is not loaded stands still. For the Raspberry Pi's: `WorkerInv` (no
  buffer is out before the port is enabled or after it is disabled), `BufferInv` (they
  never become more), `QueueInv` (the callback is idle when the worker counts the queue,
  so the count is still true when it takes them out), `SemInv` (a capture and a failed
  transfer post the semaphore once each, which is why the callback is idle),
  `CallbackInv` and `PictureInv` (db is held as long as a picture is not complete). For
  the camera on USB: `PauseInv` (a change of the resolution that nobody raced keeps
  `cam_thread()` waiting, and when it streams again the buffers are mapped), `DriverInv`,
  `PictureInv`. The clients see a plugin only through `PictureStep`, the five things a
  step of it may do to the picture, and one lemma (`ClientsKept`) serves both.

- `PluginsProofs`: `PicturesRight`, `CopiesRight`, `MotorsRight`, `OrphanKnown` and the action
  property `RemovedWasShown`, with any of the five inputs and six outputs, any files, sizes,
  options, commands and failures. Each plugin sees the others only through the effect of
  their steps (`InputEffect`, `OutputEffect`: what becomes of the picture, the mutex and the
  place of the thread), so that the invariants of one side are kept by one lemma while the
  other moves. Of the inputs: `FileInv` (the list is never left, and at the place where a
  file is removed the contents that were read have been shown), `HttpInv` (what the
  content buffer holds at each place of the other server's stream, which must have overflowed
  where it does not hold a picture so far; `HeaderEnds` is the bit test of `is_crlf()`),
  `SizeInv` and `LockInv`. Of the outputs: `PackInv` (the package points to the places before
  `pos`, and only a size that is not one of 1 to `MaxZmqBufferSize` leads outside them),
  `RoomInv` (`max_frame_size` is the memory of the only copy), `RingInv` (how many files there
  are at each value of the counter, whatever excess is allowed, and that their order is that
  of the pictures as long as the clock did not go back), `LensInv` (`Best`: the position found
  so far was measured, and nothing measured was sharper). `MotorInv` says how far the camera
  has still to turn between the note of the position and the move. The assumptions are that
  the options and the sizes are integers, whatever their sign (`-1`, for no ring, among those
  of the ring), that the largest package is at least one, that the sharpness is at least the
  -1 that stands for none, that the resolutions of `input_testpicture` are in its table, and
  that the threads and clients differ.

- `MmalClockProofs`: `RequestsServed`, for any number of callers, slots and buffers, any
  times and thresholds, and any scripts of at most four calls of a caller (the names of
  requests are numbered so). What is left of a call keeps a shape, which says where in it a
  request is inserted, a buffer returned and the clock freed (`Shaped`); each of the
  programs has it and every step keeps it. A request that is about to be inserted is
  a new one (`FreshInv`), so it is in the list, in the hand of the worker or called, and in
  one of them (`KeptInv`); `mmal_clock_request_insert()` is shown to put it in one place of
  the list. Slots are counted with the callers that are between taking one and inserting
  (`SlotsInv`), buffers with the callers that are to return one (`BuffersInv`). `EndInv` says
  what `mmal_clock_destroy()` has done before each of its steps, so that the worker has
  ended and the list is empty when the clock is freed. The assumptions are that the
  callers are finitely many and the worker is none of them, that thresholds and bounds are
  natural numbers, and that scripts are made of the calls there are.
- `MmalClockProofs`, `TimerRight`, from the same assumptions: the worker tests the list
  without the lock and sleeps, and the time is changed without the lock, yet it does not
  oversleep. The invariant `RightInv` has five parts. `LockInv`: the lock is the worker's
  from `LockRequests` to the end of its round. `OrderInv`: the list is in order, and the
  request that the worker has taken out comes before it, so it may be put back in front.
  `TellingInv`: each step of a call that changes the list or the time is followed by one
  that posts the semaphore. `SampleInv`: what a thread has sampled and not yet applied is
  of now. `AlarmInv`: unless a wake-up is under way (`Waking`: a post made or the next step
  of some call), the worker that serves a request has the right time, and for the one that
  sleeps over requests the speed times the time to the timer is at most the media time to the first
  request; each unit of time takes the same from both. `InsertedSorted` shows that
  `mmal_clock_request_insert()` keeps the order. The exceptions are in the property: a
  speed that was turned round (`turned`), and time that two threads counted (`mixed`).
- `MmalVcProofs`, `RepliesRight`, for any number of waiters, any finite set of buffers and
  any number of failures; its invariant is `RepliesInv`, a part of `IndInv`. `TodoInv` gives the calls of C and Q their shape, `AskInv` says
  that a thread asks what its call is at. `ClientInv` counts the references and the uses of
  the service by the calls and requests that hold one: so it is in use while a component
  exists, unless a `vchiq_use_service()` has failed. `WaitInv` counts the semaphore with the
  threads that are between its wait and its post, and says that a waiter in use is that of
  one thread: three threads cannot all be in the way, so the scan of `get_waiter()` finds
  a free one (`FreeWaiter`). `PlaceInv` is a place for every buffer and for the message
  that each waiter waits for: a queue holds what is placed there, once, so a waiter
  gets one answer and no second. `MessageInv` ties a message with a waiter to the request that is
  under way with it (`RightKept`: that request cannot end before its message arrives),
  from which `OwnReply` follows when it is delivered. The lemmas on a part do not look at
  single actions but at their effects on requests, calls, places and messages.
- `MmalVcProofs`, `BulksRight`, from the same assumptions; its invariant is `IndInv`, which
  adds six parts to `RepliesInv`. `LockInv`: the send lock is C's from `sendlock` to the end
  of its flush and S's while it sends, and a thread with data to announce holds `bulk_lock`
  until the transfer is queued. So at most one thread owes a transfer, and `BulkInv` can
  speak of the `Line` of transfers with the owed one at its end: its n-th transfer is that of
  the n-th message that announces data, and there are as many (`MatchedMore`, `MatchedTake`
  and `MatchedRest` for a message that is sent or taken and for data that arrives).
  `BulksMatch` is what remains of it without the owed one. `BehindInv`: behind a request of
  C's flush or disable no buffer is sent, and data of an earlier buffer is on its way only if
  `sent` is set. `FlushInv`: from the server's consent (`Accepted`) to the end of the flush it
  has no buffer. `ContextInv`: a buffer with a context is on its way or in the hands of S, so
  a disable that finds nothing on its way leaves no context; `DisableInv` follows that
  through the replies (no message of a buffer is behind the consent) to `PoolSafe`.

Only model-checked: liveness under fairness (the properties with `~>` or `<>` of all
runs), which is beyond the prover; `HeadersKept` and `TransitRight` of `Mmal`, whose
inductive invariant has not been found yet; and `WrapperRight`, whose proof has not been
tried.

## 5. Disagreements between the code and what is said of it

Seen while modelling; the models behave as the code does, and the properties name
the cases as exceptions or leave them out.

The daemon:

- `alarm4pi.c:55`: the flag is set "to exit loops". A signal served between `fork()`
  and the store of the PID (`alarm4pi.c:141-146`, `proc_helper.c:464`), between the
  test of the flag and a restart (`proc_helper.c:427-429`), or while the child still
  has the inherited handler (before `execvp`, `proc_helper.c:495`) leaves a web
  server that got no SIGTERM, for which `wait_child_processes()` waits whatever the
  flag says. `SettledStopEnds` (a part of `SignalsServed`) is what
  holds.
- `alarm4pi.c:46`: the slots are -1 "in order not to send signals if no child process
  was created". `waitpid()` releases the PID at `proc_helper.c:290`, -1 is stored at
  line 305: the handler may signal a stranger in between. `StrayOnlyInWindow`.
- `alarm4pi.c:50`, `:161`: children are "restarted in the main loop". `main()` is in
  `wait_polling_end()` (line 173) all through normal operation: a web server that
  ends stays a zombie, and when the loop is reached the flag is set.
- `owncloud.c:246-264` sets no timeout, unlike the other clients: a server that does
  not answer keeps the polling thread from ever looking at the flag, and `main()` in
  `pthread_join()`.
- `alarm4pi.c:65`: the handler logs, and `localtime()` takes a lock. Served while the
  interrupted code holds it, the handler never returns, so the flag is not set.
- `gpio_polling.c:198`: a notification that fails is not sent again.
- `README.md:36` says that a short circuit to ground "triggers an alarm event" and
  lines 9-12 that then "a photograph is taken": `gpio_polling.c:200` photographs only
  a change to high.
- `README.md:11`: a photograph is "stored"; a second one of the same second replaces
  it (`gpio_polling.c:118`, `capturer.c:337-345`), and if the rename then fails both
  are lost.
- `proc_helper.c:349-352`: a failed fork makes `exec_exited_child_processes()`
  return 0 and not the -1 its comment names, and is not counted as a retry.
- `gpio_polling.c:233`: pins are assumed low at the start, but contact pins idle
  high: the first armed scan reports changes that never happened.
- `gpio_polling.c:45` promises that "any change" is an event; a change undone
  before the next read is not. `StableValueReported` is what holds.
- `gpio_polling.h:19`: `deinit_polling()` does not close the GPIO library when
  `init_polling()` failed after opening it (`EndsClean` leaves that case out).
- `README.md:120` gives `http://` for Pushover; `pushover2.c:142` wants `https://`.
  `telegram.h:12` shows a file without the token that `telegram.c:86` needs, and
  `owncloud.h:8` allows URL prefixes that `owncloud.c:126` rejects.

MJPG-streamer:

- The help of `input_libcamera` speaks of "the snapshot resolution", but a client may
  get the picture of the stream; `switch_resolution()` reallocates the picture buffer
  without the mutex that "synchronize[s] access to the global picture buffer".
- `mjpg_streamer.c:113-116`: the handler destroys mutex and condition variable under
  clients that wait on them, which is undefined, and with the C library in use may
  block: then `exit()` is never reached.
- SIGINT before the input runs crashes in `input_stop()`, where the handler wants
  plugins to "tidily shutdown".
- `httpd.c:1547`, "create a child for every client that connects": with two sockets
  ready in one round two threads share one block. `action=take` without a file name
  is answered twice; a repeated `Authorization` header leaks a string, and so do
  `filenamearg` (line 1391) and `svalue` (lines 911-985).
- `httpd.c:978-994`: only the upper bound of a plugin number is checked, and `strtol()`
  takes negative ones; that a plugin exports `cmd()` is not checked either.
- `input_raspicam`: a zero-length last buffer unlocks a mutex that is not locked;
  the semaphore is deleted before the callbacks end; stopped within a picture, the
  mutex stays locked; the wait for a still has no timeout; negative angles do not
  become one of "0,90,180 or 270".
- `input_uvc`: a change of resolution races a grab; `in[].buf` does not grow with it;
  a command after the end of the thread uses a null pointer; a failed change leaves
  the stream paused; `input_cmd` notes every value at the first control; only the upper
  bound of the resolution index is checked; `-pl` sets the vertical flip.
- `input_file`: only the first event of a read is used, though the help says "folder
  to watch for new JPEG files"; a failed `malloc()` leaves the mutex locked;
  `fileList` is freed uninitialised in the mode for new files. Cancelled in `read()`
  (line 346) it keeps the mutex, which the cleanup does not unlock; `scandir()` failing
  (line 251) ends the thread without the cleanup; `-r` removes whatever bears the name by
  then (line 365), which need not be what was shown.
- `input_http`: `is_crlf()` is a bit mask, so the first "picture" of a connection is
  header text (with an exact test its length would be negative); a picture too large
  blocks those after it; the stop flag is not looked at while no server answers.
- `input_ptp2` returns with mutexes held and publishes empty pictures; `input_opencv`
  leaves `in->buf` dangling, swaps contrast and brightness and reports success as
  failure; `input_control` ignores failed moves and drifts.
- `output_file`: the snapshot command and the thread share `frame`. All outputs, when
  cancelled in `pthread_cond_wait()`, keep the mutex. `output_zmqserver` has one size
  limit for ten frames, and does not check the length of a package
  against ten (line 293), nor that it is positive (lines 269, 542).
  `output_viewer` sizes its pixels by the first picture. `output_autofocus` ignores
  the measurement at the last position, its focus command is commented out, and a first
  search that measures nothing above 100 (lines 102-103) ends at a position it need not
  have looked at. The ring of `output_file` deletes by the order of names, which are
  times (line 149 says so), and goes on without tidying when `scandir()` fails (line 163);
  a file that cannot be removed stays.

MMAL:

- `mmal_component_wrapper.c`: the memory for the arrays of pointers is too small (line
  154); one semaphore serves all who wait, so that a post for one queue may wake a thread
  that waits on another (line 339); resizing a pool posts nothing (line 253), nor does a
  disable; an error noted between the look at the status and the return loses the buffer
  that was taken (lines 342, 367). `mmal_component_wrapper.h:141` declares a
  `mmal_wrapper_cancel()` that is nowhere defined. `mmal_pool_resize()` (line 257 of
  `mmal_pool.c`) ignores an allocation that succeeded in part.
- A format-changed event deadlocks with a port being disabled, and a flush that hands
  a buffer back to the same port with itself. A paused port queues a header with a
  stale `next`. After a failed disable of one end a connection can never be disabled,
  and a graph's reconfiguration may resize a pool whose headers are out.
- `mmal_vc_client.c`, about line 408: a short message is used after its release; a
  failing `vchiq_use_service` is ignored and the use count drifts; a pool is deleted
  twice after a failed enable and a connect; a reply that never comes is waited for
  (the code's own FIXME). An event that is too large or not configured loses its buffer
  (lines 224-240), a buffer sent with bad handles leaks its context
  (`mmal_vc_api.c:633-643`).
- `mmal_clock.c`: "Earliest request is always at the front" fails once the speed
  changes its sign over waiting requests; late requests of before a discontinuity are
  not "fired immediately" behind a head that is not due; media time 0 is taken for
  "no timer"; a callback that adds a request deadlocks; a call under way when
  `mmal_clock_destroy()` frees the clock uses freed memory; a message of unknown kind
  returns the buffer and reports failure as well.

## 6. Plan

Done: the daemon, the web server with its plugins, and MMAL are modelled. The safety
properties of the daemon, of the web server as alarm4pi runs it, of the HTTP server, of
the other cameras and plugins, of the clock of MMAL and of its client of the VideoCore are
proved, and the refinement of `Alarm`. Next, in this order:

1. `Mmal`: `Conserved` and `TransitCounts`, from an invariant that follows the list of
   steps of a call (`todo`).
2. `MmalWrapper`: `HeadersKept`, then `WakeUpKept`, which has to count the posts of each
   queue with the waiters that may take them.
3. `ConfigFile`: the `fscanf` loop of the three clients as a function of the lines
   of a file; it would replace the verdicts of `Services`.

## 7. Not modelled

- The string and path helpers of `proc_helper.c`, `utils.c`, the decoding of URLs and
  base64, the text of messages and pages: data the properties do not tell apart.
- Contents of pictures and formats: JPEG compression (`jpeg_utils.c`), the Huffman
  tables, the filters of `input_opencv`, MMAL formats and their conversion, encodings
  and parameters.
- `capture_images_cmd()`, `upload_captures()`, `daemonize()` and code that is not
  compiled (`RELAY1_ON_ALARM_EVENT`, `WXP_COMPAT`, `MANAGMENT`): not called.
- Of MMAL: `mmal_list` and `mmal_util_rational` (plain data structures and arithmetic),
  `set_format`, `info_set`, shared memory, opaque and payload allocation,
  clones of headers, the setters of the clock's thresholds, statistics. Of the VCOS
  layer: everything; its mutexes, semaphores and threads are taken as they are meant.
- The installation scripts: run by hand. `src/src/bak/` is an old copy.
- libgpiod, libcurl, miniupnpc, libcamera, V4L2, VCHIQ, gphoto2, OpenCV, SDL, ZeroMQ
  and the kernel: external, modelled from how the code uses them.
