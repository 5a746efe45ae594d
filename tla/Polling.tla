------------------------------ MODULE Polling ------------------------------
(***************************************************************************)
(* The polling thread of gpio_polling.c: it reads the arming pin and the   *)
(* sensor pins, and for every pin whose value differs from the one of the  *)
(* last event it notifies the user, and takes and uploads a photo if the   *)
(* new value is high.                                                      *)
(*                                                                         *)
(* Around it: the sensors, which change at any time; the web interface,    *)
(* whose scripts alarm_on.cgi and alarm_off.cgi set the arming pin from    *)
(* another process; the exit flag that the signal handler of the daemon    *)
(* sets.  A notification and a photo take time (they are HTTP requests     *)
(* with a timeout), so each is a step of its own; the upload has no        *)
(* timeout and may never return.                                           *)
(***************************************************************************)
EXTENDS GpioLevels, Integers

CONSTANTS
    N,              \* NUM_ALARM_GPIOS
    MaxReadErrors   \* bound: calls of gpio_read() that fail

ASSUME PollingAssumption == N \in Nat \ {0} /\ MaxReadErrors \in Nat

Values == {LOW, HIGH}
Pins == 1..N        \* indices of Alarm_gpios

VARIABLES
    level,          \* the level of each sensor pin
    arming,         \* the level of the arming pin: LOW means armed
    exitFlag,       \* *exit_polling
    tpc,            \* where the thread is
    ind,            \* pin_ind
    cur,            \* curr_pin_value
    last,           \* last_pin_value
    readErr,        \* read_err # 0
    nerr,           \* reads that failed (bound)
    reported,       \* history: value of the last notification of each pin
    late            \* history: notifications sent since the alarm was disarmed

envVars    == <<level, arming, exitFlag>>
threadVars == <<tpc, ind, cur, last, readErr>>
histVars   == <<reported, late>>
vars       == <<envVars, threadVars, nerr, histVars>>

Places == {"head", "arming", "scan", "notify", "capture", "upload", "stalled",
           "update", "sleep", "ended"}

\* Type correctness of the pins, the thread and what was reported.
TypeOK ==
    /\ level \in [Pins -> Values] /\ arming \in Values /\ exitFlag \in BOOLEAN
    /\ tpc \in Places /\ ind \in 1..(N + 1) /\ cur \in Values
    /\ last \in [Pins -> Values] /\ readErr \in BOOLEAN
    /\ nerr \in 0..MaxReadErrors
    /\ reported \in [Pins -> Values] /\ late \in Nat

\* The sensors may be at any level: the pins have pull-ups and what is wired to
\* them decides.  configure_gpios() leaves the arming pin high, or low if its
\* gpio_write() failed, since the result is not looked at.
Init ==
    /\ level \in [Pins -> Values] /\ arming \in Values /\ exitFlag = FALSE
    /\ tpc = "head" /\ ind = 1 /\ cur = LOW
    /\ last = [p \in Pins |-> LOW] /\ readErr = FALSE
    /\ nerr = 0
    /\ reported = [p \in Pins |-> LOW] /\ late = 0

-----------------------------------------------------------------------------
(* The environment.                                                         *)

SensorChanges(p) ==
    /\ level' = [level EXCEPT ![p] = 1 - level[p]]
    /\ UNCHANGED <<arming, exitFlag, threadVars, nerr, reported, late>>

alarm_on ==
    /\ arming' = LOW /\ late' = 0
    /\ UNCHANGED <<level, exitFlag, threadVars, nerr, reported>>

alarm_off ==
    /\ arming' = HIGH
    /\ late' = IF arming = LOW THEN 0 ELSE late
    /\ UNCHANGED <<level, exitFlag, threadVars, nerr, reported>>

SetExitFlag ==
    /\ exitFlag' = TRUE
    /\ UNCHANGED <<level, arming, threadVars, nerr, histVars>>

-----------------------------------------------------------------------------
(* polling_thread().                                                        *)

\* The flag is looked at once per iteration.
LoopHead ==
    /\ tpc = "head"
    /\ tpc' = IF exitFlag THEN "ended" ELSE "arming"
    /\ UNCHANGED <<envVars, ind, cur, last, readErr, nerr, histVars>>

\* gpio_read() fails: only the first error is logged and kept for the return
\* value of the thread.
ReadFails ==
    /\ nerr < MaxReadErrors /\ nerr' = nerr + 1
    /\ readErr' = TRUE

ReadArming ==
    /\ tpc = "arming"
    /\ \/ arming = LOW /\ tpc' = "scan" /\ UNCHANGED <<readErr, nerr>>
       \/ arming = HIGH /\ tpc' = "sleep" /\ UNCHANGED <<readErr, nerr>>
       \/ ReadFails /\ tpc' = "sleep"
    /\ ind' = 1
    /\ UNCHANGED <<envVars, cur, last, histVars>>

\* The value read is kept in curr_pin_value while the event is handled.
ReadPin ==
    /\ tpc = "scan" /\ ind <= N
    /\ \/ /\ level[ind] # last[ind]
          /\ cur' = level[ind] /\ tpc' = "notify"
          /\ UNCHANGED <<ind, readErr, nerr>>
       \/ /\ level[ind] = last[ind]
          /\ cur' = level[ind] /\ ind' = ind + 1
          /\ UNCHANGED <<tpc, readErr, nerr>>
       \/ /\ ReadFails
          /\ ind' = ind + 1
          /\ UNCHANGED <<tpc, cur>>
    /\ UNCHANGED <<envVars, last, histVars>>

\* Mutant of Notify: the photograph is left for the next event.
Notify_PhotoLater ==
    /\ tpc = "notify"
    /\ reported' = [reported EXCEPT ![ind] = cur]
    /\ late' = IF arming = HIGH THEN late + 1 ELSE late
    /\ tpc' = "update"
    /\ UNCHANGED <<envVars, ind, cur, last, readErr, nerr>>

\* on_alarm_event(): the event is logged and sent, whatever comes of it.  Only
\* a high value goes on to the camera.
Notify ==
    /\ tpc = "notify"
    /\ reported' = [reported EXCEPT ![ind] = cur]
    /\ late' = IF arming = HIGH THEN late + 1 ELSE late
    /\ tpc' = IF cur # LOW THEN "capture" ELSE "update"
    /\ UNCHANGED <<envVars, ind, cur, last, readErr, nerr>>

\* capturer_get_frame() returns, with or without a photo.
Capture ==
    /\ tpc = "capture" /\ tpc' = "upload"
    /\ UNCHANGED <<envVars, ind, cur, last, readErr, nerr, histVars>>

\* upload_capture() returns, or waits for the server for ever.
Upload ==
    /\ tpc = "upload" /\ tpc' \in {"update", "stalled"}
    /\ UNCHANGED <<envVars, ind, cur, last, readErr, nerr, histVars>>

\* Mutants of UpdateLast: the value is forgotten; the pin is read again.
UpdateLast_Forgets ==
    /\ tpc = "update" /\ tpc' = "scan"
    /\ ind' = ind + 1
    /\ UNCHANGED <<envVars, cur, last, readErr, nerr, histVars>>
UpdateLast_ReadsAgain ==
    /\ tpc = "update" /\ tpc' = "scan"
    /\ last' = [last EXCEPT ![ind] = level[ind]]
    /\ ind' = ind + 1
    /\ UNCHANGED <<envVars, cur, readErr, nerr, histVars>>

\* Back in the loop over the pins.
UpdateLast ==
    /\ tpc = "update" /\ tpc' = "scan"
    /\ last' = [last EXCEPT ![ind] = cur]
    /\ ind' = ind + 1
    /\ UNCHANGED <<envVars, cur, readErr, nerr, histVars>>

ScanDone ==
    /\ tpc = "scan" /\ ind > N
    /\ tpc' = "sleep"
    /\ UNCHANGED <<envVars, ind, cur, last, readErr, nerr, histVars>>

\* Mutant of Sleep: the arming pin is read only before the first scan.
Sleep_ScansAgain ==
    /\ tpc = "sleep" /\ tpc' = "scan" /\ ind' = 1
    /\ UNCHANGED <<envVars, cur, last, readErr, nerr, histVars>>

Sleep ==
    /\ tpc = "sleep" /\ tpc' = "head"
    /\ UNCHANGED <<envVars, ind, cur, last, readErr, nerr, histVars>>

on_alarm_event == Notify \/ Capture \/ Upload

polling_thread ==
    \/ LoopHead \/ ReadArming \/ ReadPin \/ on_alarm_event \/ UpdateLast
    \/ ScanDone \/ Sleep

Environment ==
    (\E p \in Pins : SensorChanges(p)) \/ alarm_on \/ alarm_off \/ SetExitFlag

Next == polling_thread \/ Environment

Spec == Init /\ [][Next]_vars

\* The thread runs whenever it can; nothing is assumed of its environment, and
\* an upload may stall.
FairSpec == Spec /\ WF_vars(polling_thread)

-----------------------------------------------------------------------------
(* Safety.                                                                  *)

\* A pin is never reported twice in a row with the same value: each
\* notification tells the user something new, however the pins and the
\* arming change while events are being handled (gpio_polling.c:249-252).
NoDuplicateReport == tpc = "notify" => cur # reported[ind]

\* The arming pin is read once per scan, so a scan that has begun goes on after
\* the user disarms the alarm; but no more than one notification per pin comes
\* after that, and none of a later scan.
LateReportsBounded == late <= N

\* Between the scans last_pin_value is exactly what the user was told, so the
\* next scan reports the difference with that: no value is forgotten when the
\* alarm is disarmed and armed again, or when a read fails.
LastIsReported ==
    tpc \in {"head", "arming", "sleep", "ended"} => last = reported

\* The strengthening that makes the three inductive.  While an event is being
\* handled the pin's last value lags behind what was reported; a scan has sent
\* at most one late notification for each pin it has passed.
Handling == tpc \in {"capture", "upload", "stalled", "update"}

ReportInv ==
    /\ tpc = "notify" => ind \in Pins /\ cur # last[ind]
    /\ Handling => ind \in Pins /\ reported[ind] = cur
    /\ \A p \in Pins : (Handling /\ p = ind) \/ last[p] = reported[p]

LateInv ==
    /\ arming = LOW => late = 0
    /\ late <= N
    /\ tpc \in {"scan", "notify"} => late <= ind - 1
    /\ Handling => late <= ind

IndInv == TypeOK /\ ReportInv /\ LateInv

-----------------------------------------------------------------------------
(* The abstract alarm, and the state of the thread seen as its state.       *)

\* A round is the pins the scan has still to report; the photograph is owed
\* from the notification until capturer_get_frame() has returned.
Round ==
    IF tpc \in {"scan", "notify"} THEN ind..N
    ELSE IF tpc \in {"capture", "upload", "update"} THEN (ind + 1)..N
    ELSE {}

A == INSTANCE Alarm WITH
    Sensors <- Pins, armed <- (arming = LOW), told <- reported,
    round <- Round, owed <- (tpc = "capture")

\* The polling thread implements the alarm its user is promised (module Alarm):
\* rounds begin only while it is armed, a round tells of each sensor at most
\* once, in order, and only of news, and the photograph of a high value comes
\* before the next notification, whatever the scripts, the sensors and failing
\* reads do meanwhile.
ImplementsAlarm == A!Spec

-----------------------------------------------------------------------------
(* Liveness.                                                                *)

Stalled == tpc = "stalled"

\* If the alarm stays armed and a pin stays at a value, the user is told that
\* value in the end, unless the thread is told to exit or is stuck in an
\* upload: a change during the handling of another event is not lost.
StableValueReported ==
    \A p \in Pins, v \in Values :
        <>[](arming = LOW /\ level[p] = v /\ ~exitFlag /\ ~Stalled)
            => <>[](reported[p] = v)

\* Once the flag is set the thread ends, unless an upload is stuck.
ExitEndsThreadOrStalls == exitFlag ~> (tpc = "ended" \/ Stalled)

\* The thread gets on: a value that lasts is reported, and the exit flag is seen
\* unless an upload stalls (polling_thread(), which does one thing at a time).
ThreadProgress == StableValueReported /\ ExitEndsThreadOrStalls

=============================================================================
