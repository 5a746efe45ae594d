--------------------------- MODULE PollingProofs ---------------------------
(***************************************************************************)
(* Proofs about the alarm itself (gpio_polling.c and what it is built on): *)
(*   - the polling thread, for any number of pins and of failing reads;    *)
(*   - the photos it has taken (Capturer), for any number of photos and of *)
(*     seconds;                                                            *)
(*   - the GPIO library, for any set of lines and any sequence of calls;   *)
(*   - the services on top of it (MCGpioUsers), for any chip that has the  *)
(*     lines of configure_gpios(), any contents of the configuration files *)
(*     and any sequence of failures.                                       *)
(* IndInv of module Polling, CaptureInv of Capturer, LibraryInv of         *)
(* GpioControl and UsersInv of MCGpioUsers are inductive.                  *)
(***************************************************************************)
EXTENDS MCGpioUsers, Polling, Capturer, TLAPS

\* The initial states satisfy the inductive invariant.
LEMMA InitInv == Init => IndInv
<1> SUFFICES ASSUME Init PROVE IndInv
  OBVIOUS
<1>1. TypeOK
  <2>1. exitFlag \in BOOLEAN /\ readErr \in BOOLEAN
    BY DEF Init
  <2>2. /\ last \in [Pins -> Values] /\ reported \in [Pins -> Values]
        /\ level \in [Pins -> Values] /\ arming \in Values /\ cur \in Values
    BY DEF Init, Values, LOW, HIGH
  <2>3. ind \in 1..(N + 1) /\ nerr \in 0..MaxReadErrors /\ late \in Nat
    BY PollingAssumption DEF Init
  <2>4. tpc \in Places
    BY DEF Init, Places
  <2> QED
    BY <2>1, <2>2, <2>3, <2>4 DEF TypeOK
<1>2. ReportInv
  BY DEF Init, ReportInv, Handling
<1>3. LateInv
  BY PollingAssumption DEF Init, LateInv, Handling
<1> QED
  BY <1>1, <1>2, <1>3 DEF IndInv

\* A step of the environment (a sensor, the web interface, the signal handler)
\* preserves it.
LEMMA EnvironmentInv == IndInv /\ Environment => IndInv'
<1> SUFFICES ASSUME IndInv, Environment PROVE IndInv'
  OBVIOUS
<1> USE PollingAssumption DEF Values, LOW, HIGH, Pins
<1>1. ASSUME NEW p \in Pins, SensorChanges(p) PROVE IndInv'
  BY <1>1 DEF SensorChanges, IndInv, TypeOK, ReportInv, LateInv, Handling,
     threadVars
<1>2. CASE alarm_on
  BY <1>2 DEF alarm_on, IndInv, TypeOK, ReportInv, LateInv, Handling, threadVars
<1>3. CASE alarm_off
  BY <1>3 DEF alarm_off, IndInv, TypeOK, ReportInv, LateInv, Handling, threadVars
<1>4. CASE SetExitFlag
  BY <1>4 DEF SetExitFlag, IndInv, TypeOK, ReportInv, LateInv, Handling,
     threadVars, histVars
<1> QED
  BY <1>1, <1>2, <1>3, <1>4 DEF Environment

\* A step of the thread preserves it.
LEMMA ThreadInv == IndInv /\ polling_thread => IndInv'
<1> SUFFICES ASSUME IndInv, polling_thread PROVE IndInv'
  OBVIOUS
<1> USE PollingAssumption DEF Values, LOW, HIGH, Pins, Places, envVars, histVars,
        IndInv, TypeOK, ReportInv, LateInv, Handling
<1>1. CASE LoopHead
  BY <1>1 DEF LoopHead
<1>2. CASE ReadArming
  <2>1. TypeOK'
    <3>1. readErr' \in BOOLEAN /\ exitFlag' \in BOOLEAN
      BY <1>2 DEF ReadArming, ReadFails
    <3>2. nerr' \in 0..MaxReadErrors
      BY <1>2 DEF ReadArming, ReadFails
    <3> QED
      BY <1>2, <3>1, <3>2 DEF ReadArming
  <2>2. ReportInv'
    BY <1>2 DEF ReadArming
  <2>3. LateInv'
    BY <1>2 DEF ReadArming
  <2> QED
    BY <2>1, <2>2, <2>3
<1>3. CASE ReadPin
  <2>1. TypeOK'
    <3>1. readErr' \in BOOLEAN /\ exitFlag' \in BOOLEAN
      BY <1>3 DEF ReadPin, ReadFails
    <3>2. nerr' \in 0..MaxReadErrors
      BY <1>3 DEF ReadPin, ReadFails
    <3> QED
      BY <1>3, <3>1, <3>2 DEF ReadPin
  <2>2. ReportInv'
    BY <1>3 DEF ReadPin
  <2>3. LateInv'
    BY <1>3 DEF ReadPin
  <2> QED
    BY <2>1, <2>2, <2>3
<1>4. CASE Notify
  BY <1>4 DEF Notify
<1>5. CASE Capture
  BY <1>5 DEF Capture
<1>6. CASE Upload
  BY <1>6 DEF Upload
<1>7. CASE UpdateLast
  BY <1>7 DEF UpdateLast
<1>8. CASE ScanDone
  BY <1>8 DEF ScanDone
<1>9. CASE Sleep
  BY <1>9 DEF Sleep
<1> QED
  BY <1>1, <1>2, <1>3, <1>4, <1>5, <1>6, <1>7, <1>8, <1>9
     DEF polling_thread, on_alarm_event

\* The inductive invariant holds in every behaviour of the thread.
THEOREM Invariance == Spec => []IndInv
<1>1. IndInv /\ [Next]_vars => IndInv'
  <2> SUFFICES ASSUME IndInv, [Next]_vars PROVE IndInv'
    OBVIOUS
  <2>1. CASE Next
    BY <2>1, EnvironmentInv, ThreadInv DEF Next
  <2>2. CASE UNCHANGED vars
    BY <2>2 DEF vars, envVars, threadVars, histVars, IndInv, TypeOK, ReportInv,
       LateInv, Handling
  <2> QED
    BY <2>1, <2>2
<1> QED
  BY <1>1, InitInv, PTL DEF Spec

\* Every variable keeps its type: in particular pin_ind stays within the array
\* of pins whenever it is used as an index.
THEOREM TypeCorrect == Spec => []TypeOK
<1>1. IndInv => TypeOK
  BY DEF IndInv
<1> QED
  BY <1>1, Invariance, PTL

\* No pin is reported twice in a row with the same value.
THEOREM NoDuplicateReportHolds == Spec => []NoDuplicateReport
<1>1. IndInv => NoDuplicateReport
  BY DEF IndInv, ReportInv, NoDuplicateReport, Handling
<1> QED
  BY <1>1, Invariance, PTL

\* At most one notification per pin is sent after the alarm is disarmed.
THEOREM LateReportsBoundedHolds == Spec => []LateReportsBounded
<1>1. IndInv => LateReportsBounded
  BY DEF IndInv, LateInv, LateReportsBounded
<1> QED
  BY <1>1, Invariance, PTL

\* Between scans the thread remembers exactly what the user was told.
THEOREM LastIsReportedHolds == Spec => []LastIsReported
<1>1. IndInv => LastIsReported
  <2> SUFFICES ASSUME IndInv, tpc \in {"head", "arming", "sleep", "ended"}
               PROVE  last = reported
    BY DEF LastIsReported
  <2>1. \A p \in Pins : last[p] = reported[p]
    BY DEF IndInv, ReportInv, Handling
  <2>2. last \in [Pins -> Values] /\ reported \in [Pins -> Values]
    BY DEF IndInv, TypeOK
  <2> QED
    BY <2>1, <2>2
<1> QED
  BY <1>1, Invariance, PTL

-----------------------------------------------------------------------------
(* The polling thread implements the alarm of module Alarm.                 *)

\* The initial states of the thread are initial states of the alarm.
LEMMA RefinesInit == Init => A!Init
  BY DEF Init, A!Init, Round, LOW, HIGH, Values, Pins

\* Every step of the sensors, the web interface and the handler arms, disarms,
\* or changes nothing that the user is promised.
LEMMA RefinesEnvironment == IndInv /\ Environment => [A!Next]_(A!alarmVars)
<1> SUFFICES ASSUME IndInv, Environment PROVE [A!Next]_(A!alarmVars)
  OBVIOUS
<1> USE DEF A!alarmVars, Round, threadVars
<1>1. ASSUME NEW p \in Pins, SensorChanges(p) PROVE UNCHANGED A!alarmVars
  BY <1>1 DEF SensorChanges
<1>2. CASE alarm_on
  <2>1. A!Arm
    BY <1>2 DEF alarm_on, A!Arm
  <2> QED
    BY <2>1 DEF A!Next
<1>3. CASE alarm_off
  <2>1. A!Disarm
    BY <1>3 DEF alarm_off, A!Disarm, LOW, HIGH
  <2> QED
    BY <2>1 DEF A!Next
<1>4. CASE SetExitFlag
  BY <1>4 DEF SetExitFlag, histVars
<1> QED
  BY <1>1, <1>2, <1>3, <1>4 DEF Environment

\* Every step of the thread is a step of the alarm or changes nothing of it.
LEMMA RefinesThread == IndInv /\ polling_thread => [A!Next]_(A!alarmVars)
<1> SUFFICES ASSUME IndInv, polling_thread PROVE [A!Next]_(A!alarmVars)
  OBVIOUS
<1> USE PollingAssumption DEF A!alarmVars, Round, envVars, histVars, Pins
<1>1. CASE LoopHead
  BY <1>1 DEF LoopHead
<1>2. CASE ReadArming
  <2>1. CASE tpc' = "scan"
    <3>1. A!BeginRound
      BY <1>2, <2>1 DEF ReadArming, A!BeginRound
    <3> QED
      BY <3>1 DEF A!Next
  <2>2. CASE tpc' = "sleep"
    BY <1>2, <2>2 DEF ReadArming
  <2> QED
    BY <1>2, <2>1, <2>2 DEF ReadArming
<1>3. CASE ReadPin
  <2>1. CASE tpc' = "notify"
    BY <1>3, <2>1 DEF ReadPin
  <2>2. CASE ind' = ind + 1
    <3>1. ind \in Pins /\ tpc = "scan" /\ tpc' = "scan"
      BY <1>3, <2>2 DEF ReadPin, IndInv, TypeOK
    <3>2. A!Pass(ind)
      BY <1>3, <2>2, <3>1 DEF ReadPin, A!Pass, A!After
    <3> QED
      BY <3>1, <3>2 DEF A!Next
  <2> QED
    BY <1>3, <2>1, <2>2 DEF ReadPin
<1>4. CASE Notify
  <2>1. ind \in Pins /\ cur # reported[ind] /\ cur \in Values
    BY <1>4 DEF Notify, IndInv, TypeOK, ReportInv, Handling
  <2>2. reported \in [Pins -> Values]
    BY DEF IndInv, TypeOK
  <2>3. cur = 1 - reported[ind]
    BY <2>1, <2>2 DEF Values, LOW, HIGH
  <2>4. A!Tell(ind)
    BY <1>4, <2>1, <2>2, <2>3 DEF Notify, A!Tell, A!After, LOW
  <2> QED
    BY <2>1, <2>4 DEF A!Next
<1>5. CASE Capture
  <2>1. A!Photograph
    BY <1>5 DEF Capture, A!Photograph
  <2> QED
    BY <2>1 DEF A!Next
<1>6. CASE Upload
  <2>1. CASE tpc' = "update"
    BY <1>6, <2>1 DEF Upload
  <2>2. CASE tpc' = "stalled" /\ ind = N
    BY <1>6, <2>2 DEF Upload
  <2>3. CASE tpc' = "stalled" /\ ind # N
    <3>1. ind \in Pins
      BY <1>6 DEF Upload, IndInv, ReportInv, Handling
    <3>2. N \in Pins /\ A!Pass(N)
      BY <1>6, <2>3, <3>1 DEF Upload, A!Pass, A!After
    <3> QED
      BY <3>2 DEF A!Next
  <2> QED
    BY <1>6, <2>1, <2>2, <2>3 DEF Upload
<1>7. CASE UpdateLast
  BY <1>7 DEF UpdateLast
<1>8. CASE ScanDone
  BY <1>8 DEF ScanDone, IndInv, TypeOK
<1>9. CASE Sleep
  BY <1>9 DEF Sleep
<1> QED
  BY <1>1, <1>2, <1>3, <1>4, <1>5, <1>6, <1>7, <1>8, <1>9
     DEF polling_thread, on_alarm_event

\* Whatever the sensors, the scripts and failing reads do, what the user sees of
\* polling_thread() is the alarm that module Alarm promises, for any number of
\* pins.
THEOREM Refinement == Spec => ImplementsAlarm
<1>1. IndInv /\ [Next]_vars => [A!Next]_(A!alarmVars)
  <2> SUFFICES ASSUME IndInv, [Next]_vars PROVE [A!Next]_(A!alarmVars)
    OBVIOUS
  <2>1. CASE Next
    BY <2>1, RefinesEnvironment, RefinesThread DEF Next
  <2>2. CASE UNCHANGED vars
    BY <2>2 DEF vars, envVars, threadVars, histVars, A!alarmVars, Round
  <2> QED
    BY <2>1, <2>2
<1> QED
  BY <1>1, Invariance, RefinesInit, PTL DEF Spec, ImplementsAlarm, A!Spec

-----------------------------------------------------------------------------
(* The photos: what the thread leaves in the directory of the captures and   *)
(* on the server.                                                            *)

\* The initial state: an empty directory.
LEMMA CaptureInitInv == CaptureInit => CaptureInv
BY CapturerAssumption
   DEF CaptureInit, CaptureInv, CaptureTypeOK, TmpInv, FileInv, PhotoInv, Capturing, FinalComplete,
       RemoteStored, TmpAccounted, DistinctSecondsKept, Seconds, Photos, Contents,
       Kinds, CapturePlaces, None, Partial

\* What the error paths after fopen() share.
LEMMA DiscardKeepsInv ==
    ASSUME CaptureInv, DiscardTmp, cpc \in {"download", "unlink", "rename"}
    PROVE  CaptureInv'
BY CapturerAssumption
   DEF DiscardTmp, CaptureInv, CaptureTypeOK, TmpInv, FileInv, PhotoInv, Capturing, FinalComplete,
       RemoteStored, TmpAccounted, DistinctSecondsKept, Seconds, Photos, Contents,
       Kinds, CapturePlaces, None, Partial, photoVars

\* One step per action.
LEMMA CaptureStepInv == CaptureInv /\ [CaptureNext]_capturerVars => CaptureInv'
<1> SUFFICES ASSUME CaptureInv, [CaptureNext]_capturerVars PROVE CaptureInv'
    OBVIOUS
<1> USE CapturerAssumption
    DEF CaptureInv, CaptureTypeOK, TmpInv, FileInv, PhotoInv, Capturing, FinalComplete,
        RemoteStored, TmpAccounted, DistinctSecondsKept, Seconds, Photos, Contents,
        Kinds, CapturePlaces, None, Partial, dirVars, captureVars, photoVars
<1>1. CASE compose_capture_filename
    <2>1. CaptureTypeOK'
        BY <1>1, SMTT(30) DEF compose_capture_filename
    <2>2. TmpInv'
        BY <1>1 DEF compose_capture_filename
    <2>3. FileInv'
        BY <1>1 DEF compose_capture_filename
    <2>4. PhotoInv'
        BY <1>1 DEF compose_capture_filename
    <2>5. FinalComplete'
        BY <1>1 DEF compose_capture_filename
    <2>6. RemoteStored'
        BY <1>1 DEF compose_capture_filename
    <2>7. TmpAccounted'
        BY <1>1 DEF compose_capture_filename
    <2>8. DistinctSecondsKept'
        <3> SUFFICES ASSUME NEW p \in stored \ erased
                     PROVE  \/ \E n \in Seconds : final[n] = p
                            \/ \E q \in Photos \ {p} :
                                  q <= photo' /\ second'[q] = second'[p]
            BY <1>1 DEF compose_capture_filename
        <3>1. \A q \in Photos : q <= photo => second'[q] = second[q]
            BY <1>1 DEF compose_capture_filename
        <3>2. photo' = photo + 1
            BY <1>1 DEF compose_capture_filename
        <3>3. p \in Photos /\ p <= photo
            OBVIOUS
        <3>4. ASSUME NEW q \in Photos \ {p}, q <= photo, second[q] = second[p]
              PROVE  q <= photo' /\ second'[q] = second'[p]
            <4>1. q <= photo'
                BY <3>2, <3>4
            <4>2. second'[q] = second'[p]
                BY <3>1, <3>3, <3>4
            <4> QED
                BY <4>1, <4>2
        <3> QED
            BY <3>4
    <2> QED
        BY <2>1, <2>2, <2>3, <2>4, <2>5, <2>6, <2>7, <2>8
<1>2. CASE CannotCreate
    BY <1>2 DEF CannotCreate
<1>3. CASE CreateTmp
    BY <1>3 DEF CreateTmp
<1>4. CASE Downloaded
    BY <1>4 DEF Downloaded
<1>5. CASE DownloadFails \/ UnlinkFails \/ RenameFails
    BY <1>5, DiscardKeepsInv DEF DownloadFails, UnlinkFails, RenameFails
<1>6. CASE StatFinal
    BY <1>6 DEF StatFinal
<1>7. CASE UnlinkFinal
    <2>1. CaptureTypeOK'
        BY <1>7 DEF UnlinkFinal
    <2>2. TmpInv'
        BY <1>7 DEF UnlinkFinal
    <2>3. FileInv'
        BY <1>7 DEF UnlinkFinal
    <2>4. PhotoInv'
        BY <1>7 DEF UnlinkFinal
    <2>5. FinalComplete'
        BY <1>7 DEF UnlinkFinal
    <2>6. RemoteStored'
        BY <1>7 DEF UnlinkFinal
    <2>7. TmpAccounted'
        BY <1>7 DEF UnlinkFinal
    <2>8. DistinctSecondsKept'
        <3> SUFFICES ASSUME NEW p \in stored \ erased
                     PROVE  \/ \E n \in Seconds : final'[n] = p
                            \/ \E q \in Photos \ {p} :
                                  q <= photo /\ second[q] = second[p]
            BY <1>7 DEF UnlinkFinal
        <3>1. ASSUME NEW n \in Seconds, final[n] = p, n # name
              PROVE  final'[n] = p
            BY <1>7, <3>1 DEF UnlinkFinal
        <3>2. ASSUME final[name] = p
              PROVE  photo \in Photos \ {p} /\ photo <= photo /\ second[photo] = second[p]
            BY <1>7, <3>2 DEF UnlinkFinal
        <3> QED
            BY <3>1, <3>2
    <2> QED
        BY <2>1, <2>2, <2>3, <2>4, <2>5, <2>6, <2>7, <2>8
<1>8. CASE Rename
    <2>1. CaptureTypeOK'
        BY <1>8 DEF Rename
    <2>2. TmpInv'
        BY <1>8 DEF Rename
    <2>3. FileInv'
        BY <1>8 DEF Rename
    <2>4. PhotoInv'
        BY <1>8 DEF Rename
    <2>5. FinalComplete'
        BY <1>8 DEF Rename
    <2>6. RemoteStored'
        BY <1>8 DEF Rename
    <2>7. TmpAccounted'
        BY <1>8 DEF Rename
    <2>8. DistinctSecondsKept'
        <3> SUFFICES ASSUME NEW p \in (stored \union {photo}) \ erased
                     PROVE  \/ \E n \in Seconds : final'[n] = p
                            \/ \E q \in Photos \ {p} :
                                  q <= photo /\ second[q] = second[p]
            BY <1>8 DEF Rename
        <3>1. final'[name] = photo
            BY <1>8 DEF Rename
        <3>2. ASSUME p \in stored, NEW n \in Seconds, final[n] = p
              PROVE  final'[n] = p
            BY <1>8, <3>2 DEF Rename
        <3> QED
            BY <3>1, <3>2
    <2> QED
        BY <2>1, <2>2, <2>3, <2>4, <2>5, <2>6, <2>7, <2>8
<1>9. CASE upload_capture
    BY <1>9, ZenonT(40) DEF upload_capture
<1>10. CASE EraseBegins
    <2>1. CaptureTypeOK'
        <3>1. victims' \subseteq (Kinds \X Seconds)
            BY <1>10 DEF EraseBegins
        <3> QED
            BY <1>10, <3>1 DEF EraseBegins
    <2>2. TmpInv'
        BY <1>10 DEF EraseBegins
    <2>3. FileInv'
        BY <1>10 DEF EraseBegins
    <2>4. PhotoInv'
        BY <1>10 DEF EraseBegins
    <2>5. FinalComplete'
        BY <1>10 DEF EraseBegins
    <2>6. RemoteStored'
        BY <1>10 DEF EraseBegins
    <2>7. TmpAccounted'
        BY <1>10 DEF EraseBegins
    <2>8. DistinctSecondsKept'
        BY <1>10 DEF EraseBegins
    <2> QED
        BY <2>1, <2>2, <2>3, <2>4, <2>5, <2>6, <2>7, <2>8
<1>11. CASE Restart
    BY <1>11 DEF Restart
<1>12. ASSUME NEW n \in Seconds, EraseFinal(n)
       PROVE  CaptureInv'
    <2>1. CaptureTypeOK'
        BY <1>12 DEF EraseFinal
    <2>2. TmpInv'
        BY <1>12 DEF EraseFinal
    <2>3. FileInv'
        BY <1>12 DEF EraseFinal
    <2>4. PhotoInv'
        BY <1>12 DEF EraseFinal
    <2>5. FinalComplete'
        BY <1>12 DEF EraseFinal
    <2>6. RemoteStored'
        BY <1>12 DEF EraseFinal
    <2>7. TmpAccounted'
        BY <1>12 DEF EraseFinal
    <2>8. DistinctSecondsKept'
        BY <1>12, SMTT(30) DEF EraseFinal
    <2> QED
        BY <2>1, <2>2, <2>3, <2>4, <2>5, <2>6, <2>7, <2>8
<1>13. ASSUME NEW n \in Seconds, EraseTmp(n)
       PROVE  CaptureInv'
    BY <1>13 DEF EraseTmp
<1>14. ASSUME NEW n \in Seconds, SetClock(n)
       PROVE  CaptureInv'
    BY <1>14 DEF SetClock
<1>15. CASE UNCHANGED capturerVars
    BY <1>15 DEF capturerVars
<1> QED
    BY <1>1, <1>2, <1>3, <1>4, <1>5, <1>6, <1>7, <1>8, <1>9, <1>10, <1>11, <1>12,
       <1>13, <1>14, <1>15
    DEF CaptureNext, capturer_get_frame, CaptureEnvironment

\* The inductive invariant holds in every reachable state.
THEOREM CaptureInvariant == CaptureSpec => []CaptureInv
BY CaptureInitInv, CaptureStepInv, PTL DEF CaptureSpec

\* Files, names and counters keep their type.
THEOREM CaptureTypeCorrect == CaptureSpec => []CaptureTypeOK
<1>1. CaptureInv => CaptureTypeOK
    BY DEF CaptureInv
<1> QED
    BY CaptureInvariant, <1>1, PTL

\* No file under its final name is ever part of a photo.
THEOREM FinalCompleteHolds == CaptureSpec => []FinalComplete
<1>1. CaptureInv => FinalComplete
    BY DEF CaptureInv
<1> QED
    BY CaptureInvariant, <1>1, PTL

\* Only stored photos reach the server.
THEOREM RemoteStoredHolds == CaptureSpec => []RemoteStored
<1>1. CaptureInv => RemoteStored
    BY DEF CaptureInv
<1> QED
    BY CaptureInvariant, <1>1, PTL

\* No error path leaves a temporary file.
THEOREM TmpAccountedHolds == CaptureSpec => []TmpAccounted
<1>1. CaptureInv => TmpAccounted
    BY DEF CaptureInv
<1> QED
    BY CaptureInvariant, <1>1, PTL

\* A stored photo is lost only to the user or to another of its second.
THEOREM DistinctSecondsKeptHolds == CaptureSpec => []DistinctSecondsKept
<1>1. CaptureInv => DistinctSecondsKept
    BY DEF CaptureInv
<1> QED
    BY CaptureInvariant, <1>1, PTL

-----------------------------------------------------------------------------
(* The library, called by anybody.                                          *)

\* The initial state: nothing is requested.
LEMMA LibraryInitInv == LibraryInit => LibraryInv
BY DEF LibraryInit, LibraryInv, LibraryTypeOK, HeldOnlyWhileOpen, DirectionMatches,
       DrivenOnlyIfAsked, AskedInv, Dirs, Calls, LOW, HIGH

\* One step per call; the three ways gpio_direction() can end after it has
\* released the line are told apart.
LEMMA LibraryStepInv == LibraryInv /\ [LibraryNext]_libraryVars => LibraryInv'
<1> SUFFICES ASSUME LibraryInv, [LibraryNext]_libraryVars PROVE LibraryInv'
    OBVIOUS
<1> USE DEF LibraryInv, LibraryTypeOK, HeldOnlyWhileOpen, DirectionMatches,
            DrivenOnlyIfAsked, AskedInv, Dirs, Calls, LOW, HIGH, gpioVars
<1>1. CASE open_gpios
    <2>1. CASE UNCHANGED <<opened, req, dir, out, asked>>
        BY <1>1, <2>1 DEF open_gpios
    <2>2. CASE ~opened /\ opened'
        <3>1. /\ opened' = TRUE /\ call' = "open" /\ ret' = "ok"
              /\ req' = [l \in Lines |-> "none"] /\ dir' = [l \in Lines |-> "in"]
              /\ out' = out /\ asked' = asked
            BY <1>1, <2>2 DEF open_gpios
        <3> QED
            BY <3>1
    <2> QED
        BY <1>1, <2>1, <2>2 DEF open_gpios
<1>2. CASE close_gpios
    BY <1>2, ZenonT(40) DEF close_gpios
<1>3. ASSUME NEW l \in Lines, NEW d \in Dirs \union {Invalid}, gpio_direction(l, d)
      PROVE  LibraryInv'
    <2>1. CASE opened /\ Reconfigured(l, d)
        BY <1>3, <2>1 DEF gpio_direction, Reconfigured, LineRequested, Invalid
    <2>2. CASE opened /\ Restored(l, d)
        BY <1>3, <2>2 DEF gpio_direction, Restored, LineRequested, OldValue, Invalid
    <2>3. CASE opened /\ Lost(l, d)
        BY <1>3, <2>3 DEF gpio_direction, Lost
    <2>4. CASE Refused(l)
        BY <1>3, <2>4 DEF gpio_direction, Refused
    <2> QED
        BY <1>3, <2>1, <2>2, <2>3, <2>4 DEF gpio_direction
<1>4. ASSUME NEW l \in Lines, gpio_read(l)
      PROVE  LibraryInv'
    BY <1>4 DEF gpio_read
<1>5. ASSUME NEW l \in Lines, NEW v \in {LOW, HIGH}, gpio_write(l, v)
      PROVE  LibraryInv'
    BY <1>5 DEF gpio_write
<1>6. ASSUME NEW l \in Lines, NEW v \in {LOW, HIGH}, Pinctrl(l, v)
      PROVE  LibraryInv'
    BY <1>6 DEF Pinctrl
<1>7. CASE UNCHANGED libraryVars
    BY <1>7 DEF libraryVars
<1> QED
    BY <1>1, <1>2, <1>3, <1>4, <1>5, <1>6, <1>7 DEF LibraryNext

\* The inductive invariant holds in every reachable state.
THEOREM LibraryInvariant == LibrarySpec => []LibraryInv
BY LibraryInitInv, LibraryStepInv, PTL DEF LibrarySpec

\* Whatever sequence of calls is made and whatever fails, the state of the
\* library keeps its type.
THEOREM LibraryTypeCorrect == LibrarySpec => []LibraryTypeOK
<1>1. LibraryInv => LibraryTypeOK
    BY DEF LibraryInv
<1> QED
    BY LibraryInvariant, <1>1, PTL

\* No line is held by a closed library.
THEOREM HeldOnlyWhileOpenHolds == LibrarySpec => []HeldOnlyWhileOpen
<1>1. LibraryInv => HeldOnlyWhileOpen
    BY DEF LibraryInv
<1> QED
    BY LibraryInvariant, <1>1, PTL

\* The recorded direction of a held line is the kernel's.
THEOREM DirectionMatchesHolds == LibrarySpec => []DirectionMatches
<1>1. LibraryInv => DirectionMatches
    BY DEF LibraryInv
<1> QED
    BY LibraryInvariant, <1>1, PTL

\* A failed call of gpio_direction() leaves outputs at their level: the level is
\* read before the line is released, because its recorded direction is right.
THEOREM FailedCallKeepsLevelHolds == LibrarySpec => FailedCallKeepsLevel
<1> DEFINE Keeps ==
        \A l \in Lines :
            /\ call' = "direction" /\ ret' = "error"
            /\ req[l] = "out" /\ req'[l] = "out"
            => out'[l] = out[l]
<1>1. ASSUME LibraryInv, [LibraryNext]_libraryVars
      PROVE  [Keeps]_libraryVars
    <2> SUFFICES ASSUME LibraryNext, call' = "direction", ret' = "error",
                        NEW l \in Lines, req[l] = "out", req'[l] = "out"
                 PROVE  out'[l] = out[l]
        BY <1>1
    <2>1. PICK m \in Lines, d \in Dirs \union {Invalid} : gpio_direction(m, d)
        BY DEF LibraryNext, open_gpios, close_gpios, gpio_read, gpio_write, Pinctrl
    <2>2. CASE Restored(m, d)
        BY <1>1, <2>2 DEF Restored, LineRequested, OldValue, LibraryInv, LibraryTypeOK,
                          DirectionMatches, Dirs
    <2>3. CASE Lost(m, d) \/ Refused(m)
        BY <2>3 DEF Lost, Refused
    <2> QED
        BY <2>1, <2>2, <2>3 DEF gpio_direction, Reconfigured
<1> QED
    BY LibraryInvariant, <1>1, PTL DEF LibrarySpec, FailedCallKeepsLevel

-----------------------------------------------------------------------------
(* The services.                                                            *)

\* The table of configure_gpios(): its pins are lines of the chip, each in it once.
LEMMA PinsDistinct ==
    /\ S!NumPins = 8
    /\ \A i \in 1..8 : S!Conf_gpios[i].line \in Lines
    /\ \A i \in 1..8 : S!Conf_gpios[i].dir \in Dirs
    /\ \A i, j \in 1..8 : S!Conf_gpios[i].line = S!Conf_gpios[j].line => i = j
BY LinesAssumption DEF S!NumPins, S!Conf_gpios, Dirs

\* The lines of the other program are lines of the chip.
LEMMA TestedAreLines == TestedLines \subseteq Lines
<1>1. S!Conf_gpios[2].line = "RELAY1" /\ S!Conf_gpios[6].line = "CONTACT1"
    BY DEF S!Conf_gpios
<1> QED
    BY <1>1, PinsDistinct DEF TestedLines

\* What the transfers of a message and of an event are made with.
LEMMA TransfersAreClients ==
    /\ S!send_info_notif \in Seq(S!Clients)
    /\ S!send_info_notif \o <<"capturer", "owncloud">> \in Seq(S!Clients)
BY DEF S!send_info_notif, S!Clients

\* Nothing is started yet.
LEMMA UsersInitInv == UsersInit => UsersInv
<1> SUFFICES ASSUME UsersInit PROVE UsersInv
    OBVIOUS
<1>0. S!Init
    BY DEF UsersInit
<1>1. S!TypeOK
    BY PinsDistinct, <1>0 DEF S!Init, S!TypeOK, S!Places
<1>2. S!LinesInv /\ S!OpenInv
    BY <1>0 DEF S!Init, S!Gpio!LibraryInit, S!LinesInv, S!OpenInv, S!Configuring,
           S!Configured, S!Ending, S!Gpio!Dirs
<1>3. S!FlagInv
    BY <1>0 DEF S!Init, S!FlagInv, S!Clients, S!OwncloudOver, S!PushoverOver,
           S!TelegramOver
<1>4. S!RefsInv
    BY <1>0 DEF S!Init, S!RefsInv, S!Clients, S!OwncloudOver
<1>5. S!UseInv
    BY <1>0 DEF S!Init, S!UseInv
<1> QED
    BY <1>1, <1>2, <1>3, <1>4, <1>5 DEF UsersInit, UsersInv, S!Init, S!IndInv

\* configure_gpios(): a direction that is set leaves the lines before it alone.
LEMMA PinStep ==
    ASSUME S!IndInv, S!ConfigurePin
    PROVE  S!IndInv'
<1>1. /\ UNCHANGED <<conf, flag, curl_flag, refs, thread, todo, busy>>
      /\ mpc = "pin" /\ mpc' \in {"failed", "write", "owncloud", "pin"}
    BY DEF S!ConfigurePin, S!AfterPin, S!clientVars, S!useVars
<1>2. S!FlagInv'
    BY <1>1 DEF S!IndInv, S!FlagInv, S!PushoverOver, S!TelegramOver, S!OwncloudOver
<1>3. S!RefsInv'
    BY <1>1 DEF S!IndInv, S!RefsInv, S!OwncloudOver
<1>4. S!TypeOK'
    BY <1>1, PinsDistinct
    DEF S!ConfigurePin, S!IndInv, S!TypeOK, S!LinesInv, S!Configuring, S!Places
<1>5. S!LinesInv'
    BY PinsDistinct
    DEF S!ConfigurePin, S!AfterPin, S!Gpio!gpio_direction, S!Gpio!Reconfigured,
        S!Gpio!Restored, S!Gpio!Lost, S!Gpio!Refused, S!Gpio!LineRequested, S!IndInv,
        S!LinesInv, S!Set, S!Gpio!Dirs, Dirs, S!Configuring, S!Configured
<1>6. S!OpenInv'
    BY <1>1 DEF S!ConfigurePin, S!Gpio!gpio_direction, S!IndInv, S!OpenInv, S!UseInv,
                S!Configuring, S!Configured, S!Ending
<1>7. S!UseInv'
    BY <1>1 DEF S!IndInv, S!UseInv, S!Ending
<1> QED
    BY <1>2, <1>3, <1>4, <1>5, <1>6, <1>7 DEF S!IndInv

\* init_polling(): the lines, the clients, the first message and the thread.
LEMMA StartStep ==
    ASSUME S!IndInv, S!init_polling
    PROVE  S!IndInv'
<1> USE PinsDistinct, TransfersAreClients
    DEF S!IndInv, S!TypeOK, S!LinesInv, S!OpenInv, S!FlagInv, S!RefsInv, S!UseInv, S!Set,
        S!Configuring, S!Configured, S!Ending, S!OwncloudOver, S!PushoverOver,
        S!TelegramOver, S!Places, S!Clients, S!clientVars, S!useVars, S!gpio,
        S!Gpio!gpioVars, S!Gpio!Dirs, Dirs
<1>1. CASE S!MakeCaptureDir
    BY <1>1 DEF S!MakeCaptureDir
<1>2. CASE S!OpenGpios
    BY <1>2 DEF S!OpenGpios, S!Gpio!open_gpios
<1>3. CASE S!ConfigurePin
    BY <1>3, PinStep
<1>4. CASE S!WritePin
    BY <1>4 DEF S!WritePin, S!AfterPin, S!Gpio!gpio_write
<1>5. CASE S!owncloud_init
    BY <1>5 DEF S!owncloud_init, S!Disabled
<1>6. CASE S!pushover_init
    BY <1>6 DEF S!pushover_init, S!Disabled
<1>7. CASE S!telegram_init
    BY <1>7 DEF S!telegram_init, S!Disabled
<1>8. CASE S!capturer_init
    BY <1>8 DEF S!capturer_init
<1>9. CASE S!UpdateIpMsg
    BY <1>9 DEF S!UpdateIpMsg, S!send_info_notif
<1>10. CASE S!MessageSent
    BY <1>10 DEF S!MessageSent
<1>11. CASE S!CreateThread
    BY <1>11 DEF S!CreateThread
<1> QED
    BY <1>1, <1>2, <1>3, <1>4, <1>5, <1>6, <1>7, <1>8, <1>9, <1>10, <1>11 DEF
       S!init_polling, S!configure_gpios

\* The transfers, of main() or of the thread.
LEMMA UseStep ==
    ASSUME S!IndInv, S!BeginTransfer \/ S!EndTransfer \/ S!on_alarm_event \/ S!ThreadEnds
    PROVE  S!IndInv'
<1> USE PinsDistinct, TransfersAreClients
    DEF S!IndInv, S!TypeOK, S!LinesInv, S!OpenInv, S!FlagInv, S!RefsInv, S!UseInv, S!Set,
        S!Configuring, S!Configured, S!Ending, S!OwncloudOver, S!PushoverOver,
        S!TelegramOver, S!Places, S!Clients, S!clientVars, S!useVars, S!gpio,
        S!Gpio!gpioVars, S!Gpio!Dirs, Dirs
<1>1. CASE S!BeginTransfer
    BY <1>1 DEF S!BeginTransfer
<1>2. CASE S!EndTransfer
    BY <1>2 DEF S!EndTransfer
<1>3. CASE S!on_alarm_event
    BY <1>3 DEF S!on_alarm_event, S!send_info_notif, S!Idle
<1>4. CASE S!ThreadEnds
    BY <1>4 DEF S!ThreadEnds, S!Idle
<1> QED
    BY <1>1, <1>2, <1>3, <1>4 DEF S!Idle

\* The end of the services.
LEMMA ServicesEndStep ==
    ASSUME S!IndInv, S!wait_polling_end \/ S!InitFailed \/ S!ChildrenEnded \/
       S!deinit_polling
    PROVE  S!IndInv'
<1> USE PinsDistinct, TransfersAreClients
    DEF S!IndInv, S!TypeOK, S!LinesInv, S!OpenInv, S!FlagInv, S!RefsInv, S!UseInv, S!Set,
        S!Configuring, S!Configured, S!Ending, S!OwncloudOver, S!PushoverOver,
        S!TelegramOver, S!Places, S!Clients, S!clientVars, S!useVars, S!gpio,
        S!Gpio!gpioVars, S!Gpio!Dirs, Dirs
<1>1. CASE S!wait_polling_end
    BY <1>1 DEF S!wait_polling_end, S!Gpio!close_gpios
<1>2. CASE S!InitFailed \/ S!ChildrenEnded
    BY <1>2 DEF S!InitFailed, S!ChildrenEnded
<1>3. CASE S!owncloud_deinit
    BY <1>3 DEF S!owncloud_deinit
<1>4. CASE S!pushover_deinit
    <2>1. S!FlagInv'
        BY <1>4 DEF S!pushover_deinit, S!Deinit
    <2>2. flag' \in [S!Clients -> 0..1] /\ curl_flag' \in 0..1
        BY <1>4 DEF S!pushover_deinit, S!Deinit
    <2>3. S!RefsInv'
        BY <1>4 DEF S!pushover_deinit, S!Deinit
    <2>4. refs' \in 0..4
        BY <2>2, <2>3 DEF S!RefsInv, S!Clients
    <2>5. S!TypeOK'
        BY <1>4, <2>2, <2>4 DEF S!pushover_deinit, S!Deinit
    <2>6. S!LinesInv'
        BY <1>4 DEF S!pushover_deinit, S!Deinit
    <2>7. S!OpenInv'
        BY <1>4 DEF S!pushover_deinit, S!Deinit
    <2>8. S!UseInv'
        BY <1>4 DEF S!pushover_deinit, S!Deinit
    <2> QED
        BY <2>1, <2>3, <2>5, <2>6, <2>7, <2>8 DEF S!IndInv
<1>5. CASE S!telegram_deinit
    <2>1. S!FlagInv'
        BY <1>5 DEF S!telegram_deinit, S!Deinit
    <2>2. flag' \in [S!Clients -> 0..1] /\ curl_flag' \in 0..1
        BY <1>5 DEF S!telegram_deinit, S!Deinit
    <2>3. S!RefsInv'
        BY <1>5 DEF S!telegram_deinit, S!Deinit
    <2>4. refs' \in 0..4
        BY <2>2, <2>3 DEF S!RefsInv, S!Clients
    <2>5. S!TypeOK'
        BY <1>5, <2>2, <2>4 DEF S!telegram_deinit, S!Deinit
    <2>6. S!LinesInv'
        BY <1>5 DEF S!telegram_deinit, S!Deinit
    <2>7. S!OpenInv'
        BY <1>5 DEF S!telegram_deinit, S!Deinit
    <2>8. S!UseInv'
        BY <1>5 DEF S!telegram_deinit, S!Deinit
    <2> QED
        BY <2>1, <2>3, <2>5, <2>6, <2>7, <2>8 DEF S!IndInv
<1>6. CASE S!capturer_deinit
    <2>1. S!FlagInv'
        BY <1>6 DEF S!capturer_deinit
    <2>2. flag' \in [S!Clients -> 0..1] /\ curl_flag' \in 0..1
        BY <1>6 DEF S!capturer_deinit
    <2>3. S!RefsInv'
        BY <1>6 DEF S!capturer_deinit
    <2>4. refs' \in 0..4
        BY <2>2, <2>3 DEF S!RefsInv, S!Clients
    <2>5. S!TypeOK'
        BY <1>6, <2>2, <2>4 DEF S!capturer_deinit
    <2>6. S!LinesInv'
        BY <1>6 DEF S!capturer_deinit
    <2>7. S!OpenInv'
        BY <1>6 DEF S!capturer_deinit
    <2>8. S!UseInv'
        BY <1>6 DEF S!capturer_deinit
    <2> QED
        BY <2>1, <2>3, <2>5, <2>6, <2>7, <2>8 DEF S!IndInv
<1> QED
    BY <1>1, <1>2, <1>3, <1>4, <1>5, <1>6 DEF S!deinit_polling

\* A call of another program, which leaves the services alone.
LEMMA AnyCallStep ==
    ASSUME S!IndInv, mpc = "begin", AnyCall, UNCHANGED serviceVars
    PROVE  S!IndInv'
<1> USE PinsDistinct, TestedAreLines
    DEF serviceVars, gpioVars, Invalid, S!IndInv, S!TypeOK, S!LinesInv, S!OpenInv,
        S!FlagInv, S!RefsInv, S!UseInv, S!Set,
        S!Configuring, S!Configured, S!Ending, S!OwncloudOver, S!PushoverOver,
        S!TelegramOver, S!Places, S!Clients, S!clientVars, S!useVars, S!gpio,
        S!Gpio!gpioVars, S!Gpio!Dirs, Dirs
<1>1. CASE open_gpios
    BY <1>1 DEF open_gpios
<1>2. CASE close_gpios
    BY <1>2 DEF close_gpios
<1>3. ASSUME NEW l \in TestedLines, NEW d \in Dirs \union {Invalid}, gpio_direction(l, d)
      PROVE  S!IndInv'
    BY <1>3 DEF gpio_direction, Reconfigured, Restored, Lost, Refused, LineRequested
<1>4. ASSUME NEW l \in TestedLines, NEW v \in {LOW, HIGH},
             gpio_read(l) \/ gpio_write(l, v) \/ Pinctrl(l, v)
      PROVE  S!IndInv'
    BY <1>4 DEF gpio_read, gpio_write, Pinctrl
<1> QED
    BY <1>1, <1>2, <1>3, <1>4 DEF AnyCall

\* One step per user.
LEMMA UsersStepInv == UsersInv /\ [UsersNext]_allVars => UsersInv'
<1> SUFFICES ASSUME UsersInv, [UsersNext]_allVars PROVE UsersInv'
    OBVIOUS
<1>1. CASE user = "any program" /\ AnyCall /\ UNCHANGED <<serviceVars, user>>
    BY <1>1, AnyCallStep DEF UsersInv, serviceVars
<1>2. CASE user = "alarm4pi" /\ S!Next /\ UNCHANGED user
    <2>1. S!IndInv'
        <3>1. CASE S!Terminated
            BY <3>1 DEF UsersInv, S!Terminated, S!vars, S!IndInv, S!TypeOK, S!LinesInv,
                        S!OpenInv, S!FlagInv, S!RefsInv, S!UseInv, S!Set, S!clientVars, S!useVars,
                        S!gpio
        <3> QED
            BY <1>2, <3>1, StartStep, UseStep, ServicesEndStep DEF S!Next, UsersInv
    <2> QED
        BY <1>2, <2>1 DEF UsersInv
<1>3. CASE UNCHANGED allVars
    BY <1>3, ZenonT(40) DEF UsersInv, allVars, libraryVars, serviceVars, gpioVars, S!IndInv, S!TypeOK,
                S!LinesInv, S!OpenInv, S!FlagInv, S!RefsInv, S!UseInv, S!Set
<1> QED
    BY <1>1, <1>2, <1>3 DEF UsersNext

\* The inductive invariant holds in every reachable state.
THEOREM UsersInvariance == UsersSpec => []UsersInv
<1> QED
    BY UsersInitInv, UsersStepInv, PTL DEF UsersSpec

\* A transfer never finds libcurl cleaned up or its client disabled, and the polling
\* thread runs only on the lines configure_gpios() set up, whatever init_polling()
\* could not start.
THEOREM ServicesCoveredHolds == UsersSpec => []ServicesCovered
<1>1. UsersInv => ServicesCovered
    <2> SUFFICES ASSUME UsersInv PROVE ServicesCovered
        OBVIOUS
    <2>1. ASSUME busy # "none"
          PROVE  refs > 0
        <3>1. busy \in S!Clients /\ flag[busy] \in 0..1 /\ flag[busy] # 0
            BY <2>1 DEF UsersInv, S!IndInv, S!TypeOK, S!UseInv
        <3>2. \A c \in S!Clients : flag[c] \in 0..1
            BY DEF UsersInv, S!IndInv, S!TypeOK
        <3>3. refs = flag["owncloud"] + flag["pushover"] + flag["telegram"] +
           flag["capturer"]
            BY <2>1 DEF UsersInv, S!IndInv, S!UseInv, S!RefsInv, S!FlagInv, S!OwncloudOver
        <3> QED
            BY <3>1, <3>2, <3>3 DEF S!Clients
    <2>2. S!ThreadHasLines
        BY PinsDistinct DEF UsersInv, S!ThreadHasLines, S!IndInv, S!TypeOK, S!LinesInv,
                            S!OpenInv, S!FlagInv, S!UseInv, S!Set, S!Configured
    <2> QED
        BY <2>1, <2>2 DEF ServicesCovered, UsersInv, S!TransferCovered, S!UseInv, S!IndInv
<1> QED
    BY <1>1, UsersInvariance, PTL

\* When main() returns every curl_global_init() has had its curl_global_cleanup(), and
\* the lines are given back if the thread ran (deinit_polling(), wait_polling_end()).
THEOREM EndsCleanHolds == UsersSpec => []EndsClean
<1>1. UsersInv => EndsClean
    <2> SUFFICES ASSUME UsersInv, mpc = "ended"
                 PROVE  refs = 0 /\ (thread # "none" => ~opened)
        BY DEF EndsClean, S!EndsClean
    <2>1. S!TypeOK /\ S!FlagInv /\ S!RefsInv /\ S!OpenInv
        BY DEF UsersInv, S!IndInv
    <2>2. refs = 0
        BY <2>1 DEF S!TypeOK, S!FlagInv, S!RefsInv, S!OwncloudOver, S!PushoverOver,
                    S!TelegramOver, S!Clients
    <2> QED
        BY <2>1, <2>2 DEF S!OpenInv, S!Ending
<1> QED
    BY <1>1, UsersInvariance, PTL

-----------------------------------------------------------------------------
(* alarm4pi uses the library as any program may.                            *)

\* A step of init_polling() up to deinit_polling() calls the library once or not at
\* all, with a line and a direction of its table.
LEMMA ServicesCall ==
    ASSUME S!IndInv, S!Next
    PROVE  [LibraryNext]_libraryVars
<1> USE DEF libraryVars, gpioVars, S!gpio, S!Gpio!libraryVars, S!Gpio!gpioVars
<1>1. CASE S!OpenGpios
    BY <1>1 DEF S!OpenGpios, S!Gpio!open_gpios, open_gpios, LibraryNext
<1>2. CASE S!ConfigurePin
    <2> DEFINE l == S!Conf_gpios[pin].line
               d == S!Conf_gpios[pin].dir
    <2>1. l \in Lines /\ d \in Dirs
        BY <1>2, PinsDistinct DEF S!ConfigurePin, S!IndInv, S!TypeOK, S!LinesInv, S!OpenInv,
                                  S!Configuring
    <2>2. S!Gpio!gpio_direction(l, d)
        BY <1>2 DEF S!ConfigurePin
    <2> HIDE DEF l, d
    <2>3. gpio_direction(l, d)
        BY <2>2 DEF S!Gpio!gpio_direction, gpio_direction,
                    S!Gpio!Reconfigured, Reconfigured, S!Gpio!Restored, Restored, S!Gpio!Lost, Lost,
                    S!Gpio!Refused, Refused, S!Gpio!LineRequested, LineRequested,
                    S!Gpio!OldValue, OldValue, S!Gpio!LOW, LOW, S!Gpio!Invalid, Invalid
    <2> QED
        BY <2>1, <2>3 DEF LibraryNext
<1>3. CASE S!WritePin
    <2> DEFINE l == S!Conf_gpios[pin].line
    <2>1. l \in Lines
        BY <1>3, PinsDistinct DEF S!WritePin, S!IndInv, S!TypeOK, S!LinesInv, S!OpenInv,
                                  S!Configuring
    <2>2. S!Gpio!gpio_write(l, S!Gpio!HIGH)
        BY <1>3 DEF S!WritePin
    <2> HIDE DEF l
    <2>3. gpio_write(l, HIGH)
        BY <2>2 DEF S!Gpio!gpio_write, gpio_write, S!Gpio!HIGH, HIGH
    <2> QED
        BY <2>1, <2>3 DEF LibraryNext
<1>4. CASE S!wait_polling_end
    BY <1>4 DEF S!wait_polling_end, S!Gpio!close_gpios, close_gpios, LibraryNext
<1>5. CASE UNCHANGED libraryVars
    BY <1>5
<1> QED
    BY <1>1, <1>2, <1>3, <1>4, <1>5
       DEF S!Next, S!init_polling, S!configure_gpios, S!deinit_polling, S!MakeCaptureDir,
           S!owncloud_init, S!pushover_init, S!telegram_init, S!capturer_init, S!UpdateIpMsg,
           S!MessageSent, S!CreateThread, S!InitFailed, S!ChildrenEnded, S!owncloud_deinit,
           S!pushover_deinit, S!telegram_deinit, S!capturer_deinit, S!BeginTransfer,
           S!EndTransfer, S!on_alarm_event, S!ThreadEnds, S!Terminated, S!vars

\* Whatever is proved of the library under any calls holds under alarm4pi: every run
\* of the services is a run of the library's specification.
THEOREM UsersCallLibrary == UsersSpec => LibrarySpec
<1>1. UsersInit => LibraryInit
    BY DEF UsersInit, S!Init, S!Gpio!LibraryInit, LibraryInit, S!Gpio!LOW, LOW
<1>2. UsersInv /\ [UsersNext]_allVars => [LibraryNext]_libraryVars
    <2> SUFFICES ASSUME UsersInv, [UsersNext]_allVars PROVE [LibraryNext]_libraryVars
        OBVIOUS
    <2>1. CASE AnyCall
        BY <2>1, TestedAreLines DEF AnyCall, LibraryNext
    <2>2. CASE S!Next
        BY <2>2, ServicesCall DEF UsersInv
    <2>3. CASE UNCHANGED allVars
        BY <2>3 DEF allVars
    <2> QED
        BY <2>1, <2>2, <2>3 DEF UsersNext
<1> QED
    BY <1>1, <1>2, UsersInvariance, PTL DEF UsersSpec, LibrarySpec

\* No failed call of gpio_direction() drives a line that was not an output, neither
\* under alarm4pi nor under any other sequence of calls.
THEOREM DrivenOnlyIfAskedHolds == UsersSpec => []DrivenOnlyIfAsked
<1>1. LibraryInv => DrivenOnlyIfAsked
    BY DEF LibraryInv
<1> QED
    BY UsersCallLibrary, LibraryInvariant, <1>1, PTL

=============================================================================
