------------------------------ MODULE Services ------------------------------
(***************************************************************************)
(* What init_polling() starts and deinit_polling() ends: the GPIO lines,   *)
(* the four clients of libcurl (ownCloud, Pushover, Telegram and the       *)
(* capturer) and the polling thread that uses all of them.  Any step may   *)
(* fail: a client that cannot be started is disabled and the daemon goes   *)
(* on without it, a failure of the GPIO lines or of the thread ends        *)
(* init_polling().                                                         *)
(*                                                                         *)
(* libcurl is external: curl_global_init() and curl_global_cleanup() count *)
(* references, and a transfer needs the library alive.  Configuration      *)
(* files are abstracted to what the init functions tell apart.             *)
(***************************************************************************)
EXTENDS Naturals, Sequences

CONSTANTS
    Lines           \* the lines of the chip

VARIABLES opened, req, dir, out, call, ret, asked   \* of the GPIO library

gpio == <<opened, req, dir, out, call, ret, asked>>
Gpio == INSTANCE GpioControl

VARIABLES
    mpc,            \* where main() is
    pin,            \* configure_gpios(): index of the pin being configured
    conf,           \* what each configuration file holds
    flag,           \* Owncloud_, Pushover_, Telegram_initialized, g_initialized
    curl_flag,      \* g_curl_global_initialized of the capturer
    refs,           \* libcurl's count of global initialisations
    thread,         \* "none", "running" or "ended"
    todo,           \* clients the current message or event has yet to use
    busy            \* the client whose transfer is in progress, or "none"

clientVars == <<flag, curl_flag, refs>>
useVars    == <<todo, busy>>
vars       == <<gpio, mpc, pin, conf, clientVars, thread, useVars>>

Clients == {"owncloud", "pushover", "telegram", "capturer"}
Files   == Clients \ {"capturer"}

\* The pins configure_gpios() configures, in its order.
Conf_gpios ==
    << [line |-> "PIR",      dir |-> "in"],
       [line |-> "RELAY1",   dir |-> "out"],
       [line |-> "RELAY2",   dir |-> "out"],
       [line |-> "RELAY3",   dir |-> "out"],
       [line |-> "RELAY4",   dir |-> "out"],
       [line |-> "CONTACT1", dir |-> "in_pullup"],
       [line |-> "CONTACT2", dir |-> "in_pullup"],
       [line |-> "ARMING",   dir |-> "out"] >>
NumPins == Len(Conf_gpios)

\* What an init function makes of its file: rejected (it cannot be opened, has an
\* unknown variable or lacks one that is needed, a token has no ':', the URL starts
\* in no known way) or complete, told apart by how its server URL starts if it has
\* one.  An unknown variable has a path of its own in pushover_init().
ContentsOf(f) ==
    CASE f = "owncloud" -> {"rejected", "http", "https"}
      [] f = "pushover" -> {"rejected", "unknown", "http", "https"}
      [] f = "telegram" -> {"rejected", "complete"}
Contents == UNION {ContentsOf(f) : f \in Files}

Places == {"begin", "open", "pin", "write", "owncloud", "pushover", "telegram",
           "capturer", "update_ip", "message", "create", "joining", "failed",
           "children", "deinit_owncloud", "deinit_pushover", "deinit_telegram",
           "deinit_capturer", "ended"}

\* Type correctness of the flags, the references to libcurl and the thread.
TypeOK ==
    /\ mpc \in Places /\ pin \in 1..(NumPins + 1)
    /\ conf \in [Files -> Contents]
    /\ flag \in [Clients -> 0..1] /\ curl_flag \in 0..1
    /\ refs \in 0..4    \* at most one for each client
    /\ thread \in {"none", "running", "ended"}
    /\ todo \in Seq(Clients) /\ busy \in Clients \union {"none"}

Init ==
    /\ Gpio!LibraryInit
    /\ mpc = "begin" /\ pin = 1
    /\ conf \in {c \in [Files -> Contents] : \A f \in Files : c[f] \in ContentsOf(f)}
    /\ flag = [c \in Clients |-> 0] /\ curl_flag = 0
    /\ refs = 0
    /\ thread = "none" /\ todo = << >> /\ busy = "none"

-----------------------------------------------------------------------------
(* init_polling().                                                          *)

\* The path and the directory of the captures: an error ends init_polling().
MakeCaptureDir ==
    /\ mpc = "begin" /\ mpc' \in {"open", "failed"}
    /\ UNCHANGED <<gpio, pin, conf, clientVars, thread, useVars>>

OpenGpios ==
    /\ mpc = "open" /\ Gpio!open_gpios
    /\ mpc' = IF ret' = "ok" THEN "pin" ELSE "failed"
    /\ UNCHANGED <<pin, conf, clientVars, thread, useVars>>

AfterPin(i) == IF i = NumPins THEN "owncloud" ELSE "pin"

\* configure_gpios(): the first direction that fails ends it.
ConfigurePin ==
    /\ mpc = "pin"
    /\ LET g == Conf_gpios[pin] IN
         /\ Gpio!gpio_direction(g.line, g.dir)
         /\ \/ ret' = "error" /\ mpc' = "failed" /\ pin' = pin
            \/ ret' = "ok" /\ g.dir = "out" /\ mpc' = "write" /\ pin' = pin
            \/ ret' = "ok" /\ g.dir # "out" /\ mpc' = AfterPin(pin) /\ pin' = pin + 1
    /\ UNCHANGED <<conf, clientVars, thread, useVars>>

\* Outputs are set to high; nobody looks at the result.
WritePin ==
    /\ mpc = "write"
    /\ Gpio!gpio_write(Conf_gpios[pin].line, Gpio!HIGH)
    /\ mpc' = AfterPin(pin) /\ pin' = pin + 1
    /\ UNCHANGED <<conf, clientVars, thread, useVars>>

-----------------------------------------------------------------------------
(* The clients.                                                             *)

\* The file is rejected, or curl_global_init() fails.
Disabled(c) ==
    /\ flag' = [flag EXCEPT ![c] = 0]
    /\ UNCHANGED <<curl_flag, refs>>

owncloud_init ==
    /\ mpc = "owncloud" /\ mpc' = "pushover"
    /\ \/ Disabled("owncloud")
       \/ /\ conf["owncloud"] \in {"http", "https"}
          /\ flag' = [flag EXCEPT !["owncloud"] = 1] /\ refs' = refs + 1
          /\ UNCHANGED curl_flag
    /\ UNCHANGED <<gpio, pin, conf, thread, useVars>>

\* An unknown variable leaves the flag as it is; success increments it.  Unlike
\* ownCloud's, the server URL must be https.
pushover_init ==
    /\ mpc = "pushover" /\ mpc' = "telegram"
    /\ \/ conf["pushover"] = "unknown" /\ UNCHANGED clientVars
       \/ conf["pushover"] # "unknown" /\ Disabled("pushover")
       \/ /\ conf["pushover"] = "https"
          /\ flag' = [flag EXCEPT !["pushover"] = @ + 1] /\ refs' = refs + 1
          /\ UNCHANGED curl_flag
    /\ UNCHANGED <<gpio, pin, conf, thread, useVars>>

telegram_init ==
    /\ mpc = "telegram" /\ mpc' = "capturer"
    /\ \/ Disabled("telegram")
       \/ /\ conf["telegram"] = "complete"
          /\ flag' = [flag EXCEPT !["telegram"] = 1] /\ refs' = refs + 1
          /\ UNCHANGED curl_flag
    /\ UNCHANGED <<gpio, pin, conf, thread, useVars>>

\* Mutant of capturer_init: the reference is taken and not recorded.
capturer_init_NotRecorded ==
    /\ mpc = "capturer" /\ mpc' = "update_ip"
    /\ flag' = [flag EXCEPT !["capturer"] = 1] /\ refs' = refs + 1
    /\ UNCHANGED <<gpio, pin, conf, curl_flag, thread, useVars>>

\* The directory or libcurl may fail, which leaves the flags as they are; a
\* reference already taken is not taken again.
capturer_init ==
    /\ mpc = "capturer" /\ mpc' = "update_ip"
    /\ \/ UNCHANGED clientVars
       \/ /\ flag' = [flag EXCEPT !["capturer"] = 1] /\ curl_flag' = 1
          /\ refs' = IF curl_flag = 0 THEN refs + 1 ELSE refs
    /\ UNCHANGED <<gpio, pin, conf, thread, useVars>>

\* send_info_notif(): Telegram first, then Pushover.
send_info_notif == <<"telegram", "pushover">>

\* update_ip_msg(): the message is sent if the public address was obtained.
UpdateIpMsg ==
    /\ mpc = "update_ip"
    /\ \/ mpc' = "message" /\ todo' = send_info_notif
       \/ mpc' = "create" /\ UNCHANGED todo
    /\ UNCHANGED <<gpio, pin, conf, clientVars, thread, busy>>

MessageSent ==
    /\ mpc = "message" /\ todo = << >> /\ busy = "none"
    /\ mpc' = "create"
    /\ UNCHANGED <<gpio, pin, conf, clientVars, thread, useVars>>

CreateThread ==
    /\ mpc = "create"
    /\ \/ mpc' = "joining" /\ thread' = "running"
       \/ mpc' = "failed" /\ UNCHANGED thread
    /\ UNCHANGED <<gpio, pin, conf, clientVars, useVars>>

-----------------------------------------------------------------------------
(* Whoever sends: main() for the first message, the thread for the events.  *)

\* A client that is not initialised returns EPERM (ENODEV) at once.
BeginTransfer ==
    /\ todo # << >> /\ busy = "none"
    /\ busy' = IF flag[Head(todo)] # 0 THEN Head(todo) ELSE "none"
    /\ todo' = Tail(todo)
    /\ UNCHANGED <<gpio, mpc, pin, conf, clientVars, thread>>

EndTransfer ==
    /\ busy # "none" /\ busy' = "none"
    /\ UNCHANGED <<gpio, mpc, pin, conf, clientVars, thread, todo>>

Idle == thread = "running" /\ todo = << >> /\ busy = "none"

\* A pin changed; a high value is photographed and uploaded too.
on_alarm_event ==
    /\ Idle
    /\ todo' \in {send_info_notif, send_info_notif \o <<"capturer", "owncloud">>}
    /\ UNCHANGED <<gpio, mpc, pin, conf, clientVars, thread, busy>>

ThreadEnds ==
    /\ Idle /\ thread' = "ended"
    /\ UNCHANGED <<gpio, mpc, pin, conf, clientVars, useVars>>

-----------------------------------------------------------------------------
(* The end.                                                                 *)

\* Mutant of wait_polling_end: the thread is not waited for.
wait_polling_end_NoJoin ==
    /\ mpc = "joining" /\ Gpio!close_gpios /\ mpc' = "children"
    /\ UNCHANGED <<pin, conf, clientVars, thread, useVars>>

wait_polling_end ==
    /\ mpc = "joining" /\ thread = "ended"
    /\ Gpio!close_gpios
    /\ mpc' = "children"
    /\ UNCHANGED <<pin, conf, clientVars, thread, useVars>>

\* init_polling() failed: main() goes on to wait for the web server.
InitFailed ==
    /\ mpc = "failed" /\ mpc' = "children"
    /\ UNCHANGED <<gpio, pin, conf, clientVars, thread, useVars>>

ChildrenEnded ==
    /\ mpc = "children" /\ mpc' = "deinit_owncloud"
    /\ UNCHANGED <<gpio, pin, conf, clientVars, thread, useVars>>

\* The flag stays set.
owncloud_deinit ==
    /\ mpc = "deinit_owncloud" /\ mpc' = "deinit_pushover"
    /\ refs' = IF flag["owncloud"] # 0 THEN refs - 1 ELSE refs
    /\ UNCHANGED <<gpio, pin, conf, flag, curl_flag, thread, useVars>>

\* pushover_deinit() and telegram_deinit() decrement the flag.
Deinit(c) ==
    IF flag[c] # 0
    THEN refs' = refs - 1 /\ flag' = [flag EXCEPT ![c] = @ - 1]
    ELSE UNCHANGED <<refs, flag>>

pushover_deinit ==
    /\ mpc = "deinit_pushover" /\ mpc' = "deinit_telegram"
    /\ Deinit("pushover")
    /\ UNCHANGED <<gpio, pin, conf, curl_flag, thread, useVars>>

telegram_deinit ==
    /\ mpc = "deinit_telegram" /\ mpc' = "deinit_capturer"
    /\ Deinit("telegram")
    /\ UNCHANGED <<gpio, pin, conf, curl_flag, thread, useVars>>

capturer_deinit ==
    /\ mpc = "deinit_capturer" /\ mpc' = "ended"
    /\ refs' = IF curl_flag # 0 THEN refs - 1 ELSE refs
    /\ curl_flag' = 0 /\ flag' = [flag EXCEPT !["capturer"] = 0]
    /\ UNCHANGED <<gpio, pin, conf, thread, useVars>>

configure_gpios == ConfigurePin \/ WritePin

init_polling ==
    \/ MakeCaptureDir \/ OpenGpios \/ configure_gpios
    \/ owncloud_init \/ pushover_init \/ telegram_init \/ capturer_init
    \/ UpdateIpMsg \/ MessageSent \/ CreateThread

deinit_polling ==
    owncloud_deinit \/ pushover_deinit \/ telegram_deinit \/ capturer_deinit

Terminated == mpc = "ended" /\ UNCHANGED vars

Next ==
    \/ init_polling \/ wait_polling_end \/ InitFailed \/ ChildrenEnded
    \/ deinit_polling
    \/ BeginTransfer \/ EndTransfer \/ on_alarm_event \/ ThreadEnds
    \/ Terminated

Spec == Init /\ [][Next]_vars

-----------------------------------------------------------------------------

\* A transfer is in progress only while libcurl is alive, and only for a client
\* that was started: however many clients are disabled, and in whatever order
\* the four are started and ended, none pulls libcurl from under another.
TransferCovered == busy # "none" => refs > 0 /\ flag[busy] # 0

\* While the polling thread runs every line that configure_gpios() was to set
\* up is held with its direction: the thread never starts on half of them, and
\* they are not closed under it.
ThreadHasLines ==
    thread = "running" =>
        /\ opened
        /\ \A i \in 1..NumPins : req[Conf_gpios[i].line] = Conf_gpios[i].dir

\* When main() returns every global initialisation of libcurl has its clean-up,
\* whichever clients failed to start and wherever init_polling() gave up; and if
\* the thread was started the lines have been given back.
EndsClean ==
    mpc = "ended" => refs = 0 /\ (thread # "none" => ~opened)

-----------------------------------------------------------------------------
(* What every step keeps.                                                   *)

Configuring  == {"pin", "write"}
Configured   == {"owncloud", "pushover", "telegram", "capturer", "update_ip", "message",
                 "create", "joining"}
Ending       == {"children", "deinit_owncloud", "deinit_pushover", "deinit_telegram",
                 "deinit_capturer", "ended"}
OwncloudOver == {"deinit_pushover", "deinit_telegram", "deinit_capturer", "ended"}
PushoverOver == OwncloudOver \ {"deinit_pushover"}
TelegramOver == PushoverOver \ {"deinit_telegram"}

\* configure_gpios() has set up the pins before this one, and after it all of them.
Set(i) == req[Conf_gpios[i].line] = Conf_gpios[i].dir
LinesInv ==
    /\ req \in [Lines -> Gpio!Dirs \union {"none"}] /\ dir \in [Lines -> Gpio!Dirs]
    /\ mpc \in {"begin", "open"} => pin = 1
    /\ mpc \in Configuring => pin \in 1..NumPins /\ \A i \in 1..NumPins : i < pin => Set(i)
    /\ mpc = "write" => Set(pin)
    /\ mpc \in Configured => \A i \in 1..NumPins : Set(i)

OpenInv ==
    /\ mpc \in Configuring \union Configured => opened = TRUE
    /\ thread # "none" /\ mpc \in Ending => opened = FALSE

\* A client's flag is set by its init function, and cleared, but for ownCloud's, by
\* its deinit function: libcurl is held once for each that is started and not ended.
FlagInv ==
    /\ mpc \in {"begin", "open", "pin", "write", "owncloud"} => flag["owncloud"] = 0
    /\ mpc \in {"begin", "open", "pin", "write", "owncloud", "pushover"}
           \union PushoverOver => flag["pushover"] = 0
    /\ mpc \in {"begin", "open", "pin", "write", "owncloud", "pushover", "telegram"}
           \union TelegramOver => flag["telegram"] = 0
    /\ mpc = "ended" => curl_flag = 0
    /\ flag["capturer"] = curl_flag
RefsInv ==
    refs = (IF mpc \in OwncloudOver THEN 0 ELSE flag["owncloud"])
           + flag["pushover"] + flag["telegram"] + curl_flag

\* Transfers are made for the first message or by the running thread.
UseInv ==
    /\ thread = "running" => mpc = "joining"
    /\ thread = "ended" => mpc \in Ending \union {"joining"}
    /\ mpc = "joining" => thread # "none"
    /\ busy # "none" \/ todo # << >> => mpc = "message" \/ thread = "running"
    /\ busy # "none" => flag[busy] # 0

IndInv == TypeOK /\ LinesInv /\ OpenInv /\ FlagInv /\ RefsInv /\ UseInv

=============================================================================
