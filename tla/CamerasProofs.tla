---------------------------- MODULE CamerasProofs ---------------------------
(***************************************************************************)
(* Proofs about Cameras, for any number of clients, buffers, parts of a    *)
(* picture, commands and failures.                                         *)
(***************************************************************************)
EXTENDS Cameras, TLAPS

-----------------------------------------------------------------------------
(* The Raspberry Pi's camera: what the steps of the worker and of the       *)
(* callback do.                                                             *)

\* The steps of the setup that create something, or end the process.
SetupSteps ==
    \/ R!CreateCamera \/ R!CreatePreview \/ R!CreateEncoder \/ R!CreatePool \/ R!connect_ports
    \/ R!EnablePort

\* What a step of the set-up changes, and where it leads.
LEMMA SetupEffect ==
    ASSUME SetupSteps
    PROVE  /\ UNCHANGED <<usestills, out, num, q, capturing, cb, offset, part, tag, sem, db, asleep,
                          stop, buf, size>>
           /\ \/ /\ UNCHANGED <<wpc, live, pool, enabled, given, setting>>
                 /\ nfail' = nfail + 1 /\ nfail < MaxFail /\ proc' = "exited"
              \/ /\ UNCHANGED <<nfail, proc>>
                 /\ live' \subseteq live \cup {"camera", "preview", "encoder", "pool",
                                               "encoder connection"}
                 /\ \/ /\ enabled' = FALSE /\ UNCHANGED <<pool, given, setting>>
                       /\ \/ wpc = "camera" /\ wpc' = "settings"
                          \/ wpc = "encoder" /\ wpc' = "pool"
                          \/ wpc = "connect" /\ wpc' = "enable"
                    \/ /\ wpc = "preview" /\ wpc' = "encoder" /\ enabled' = FALSE /\ UNCHANGED pool
                       /\ given' = R!raspicamcontrol_set_defaults /\ setting' = R!NoSetting
                    \/ /\ wpc = "pool" /\ wpc' = "connect" /\ enabled' = FALSE /\ pool' = NBuffers
                       /\ UNCHANGED <<given, setting>>
                    \/ /\ wpc = "enable" /\ wpc' = (IF usestills THEN "loop" ELSE "start")
                       /\ enabled' = TRUE /\ UNCHANGED <<pool, given, setting>>
<1> USE DEF R!Setup, R!ExitFailure, R!Sane, R!Fails, R!shared, R!frameVars, R!rvars, R!setupVars
<1>1. CASE R!CreateCamera
    BY <1>1 DEF R!CreateCamera
<1>2. CASE R!CreatePreview
    BY <1>2 DEF R!CreatePreview
<1>3. CASE R!CreateEncoder
    BY <1>3 DEF R!CreateEncoder
<1>4. CASE R!CreatePool
    BY <1>4 DEF R!CreatePool
<1>5. CASE R!connect_ports
    BY <1>5 DEF R!connect_ports
<1>6. CASE R!EnablePort
    BY <1>6 DEF R!EnablePort
<1> QED
    BY <1>1, <1>2, <1>3, <1>4, <1>5, <1>6 DEF SetupSteps

\* A buffer of the encoder: a part of a picture, its last part, a transfer that failed, or
\* an unused one.
NextPart ==
    /\ enabled /\ capturing /\ capturing' = TRUE /\ UNCHANGED <<nfail, tag>>
    /\ cb'.end = FALSE /\ cb'.len = 1 /\ part + 1 < Parts /\ part' = part + 1
LastPart ==
    /\ enabled /\ capturing /\ capturing' \in BOOLEAN /\ (capturing' <=> ~usestills)
    /\ UNCHANGED nfail /\ cb'.end = TRUE /\ cb'.len = 1 /\ part' = 0 /\ tag' = R!Other(tag)
FailedPart ==
    /\ enabled /\ capturing /\ capturing' = TRUE /\ nfail' = nfail + 1 /\ nfail < MaxFail
    /\ cb'.end = TRUE /\ cb'.len = 0 /\ UNCHANGED <<part, tag>>
UnusedBuffer ==
    ~enabled /\ cb'.end = FALSE /\ cb'.len = 0 /\ UNCHANGED <<nfail, part, tag, capturing>>

\* What the delivery of a buffer to the callback changes.
LEMMA DeliverEffect ==
    ASSUME R!FlagsOK, R!Deliver
    PROVE  /\ UNCHANGED <<usestills, given, setting, wpc, live, num, q, enabled, proc, stop, pool,
                          offset, sem, db, asleep, buf, size>>
           /\ cb.pc = "none" /\ out > 0 /\ out' = out - 1 /\ cb'.pc = "given"
           /\ cb' \in [pc : {"given"}, len : 0..1, end : BOOLEAN]
           /\ NextPart \/ LastPart \/ FailedPart \/ UnusedBuffer
           /\ nfail' \in {nfail, nfail + 1} /\ capturing' \in BOOLEAN /\ (enabled => capturing)
<1> USE DEF R!Deliver, R!FlagsOK, R!Fails, R!frameVars, R!setupVars
<1>0. /\ UNCHANGED <<usestills, given, setting, wpc, live, num, q, enabled, proc, stop, pool,
                     offset, sem, db, asleep, buf, size>>
      /\ cb.pc = "none" /\ out > 0 /\ out' = out - 1
    OBVIOUS
<1>1. ASSUME NEW end \in BOOLEAN, enabled, capturing, end \/ part + 1 < Parts,
             cb' = [pc |-> "given", len |-> 1, end |-> end],
             part' = IF end THEN 0 ELSE part + 1, tag' = IF end THEN R!Other(tag) ELSE tag,
             capturing' = ~(usestills /\ end), nfail' = nfail
      PROVE  /\ cb'.pc = "given" /\ cb' \in [pc : {"given"}, len : 0..1, end : BOOLEAN]
             /\ NextPart \/ LastPart
  <2>1. CASE end = TRUE
    <3>1. capturing' \in BOOLEAN /\ (capturing' <=> ~usestills)
      BY <1>1, <2>1
    <3>2. part' = 0 /\ tag' = R!Other(tag)
      BY <1>1, <2>1
    <3> QED
      BY <1>1, <2>1, <3>1, <3>2 DEF LastPart
  <2>2. CASE end = FALSE
    <3>1. capturing' = TRUE
      BY <1>1, <2>2
    <3>2. part + 1 < Parts /\ part' = part + 1 /\ tag' = tag
      BY <1>1, <2>2
    <3> QED
      BY <1>1, <2>2, <3>1, <3>2 DEF NextPart
  <2> QED
    BY <1>1, <2>1, <2>2
<1>2. ASSUME enabled, capturing, capturing' = capturing, nfail' = nfail + 1, nfail < MaxFail,
             cb' = [pc |-> "given", len |-> 0, end |-> TRUE], UNCHANGED <<part, tag>>
      PROVE  /\ cb'.pc = "given" /\ cb' \in [pc : {"given"}, len : 0..1, end : BOOLEAN]
             /\ FailedPart
    BY <1>2 DEF FailedPart
<1>3. ASSUME ~enabled, cb' = [pc |-> "given", len |-> 0, end |-> FALSE],
             UNCHANGED <<part, tag, capturing, nfail>>
      PROVE  /\ cb'.pc = "given" /\ cb' \in [pc : {"given"}, len : 0..1, end : BOOLEAN]
             /\ UnusedBuffer
    BY <1>3 DEF UnusedBuffer
<1>4. NextPart \/ LastPart \/ FailedPart \/ UnusedBuffer
      => nfail' \in {nfail, nfail + 1} /\ capturing' \in BOOLEAN /\ (enabled => capturing)
    BY DEF NextPart, LastPart, FailedPart, UnusedBuffer
<1> QED
    BY <1>0, <1>1, <1>2, <1>3, <1>4

\* The buffer that the callback has.
LEMMA InCallbackFacts ==
    /\ R!InCallback \in 0..1 /\ (cb.pc = "none" => R!InCallback = 0)
    /\ cb' = cb => R!InCallback' = R!InCallback
    /\ cb.pc \in {"none", "resend", "post"} => R!InCallback = 0
    /\ cb.pc \in {"given", "copied", "release"} => R!InCallback = 1
    /\ cb'.pc \in {"none", "resend", "post"} => R!InCallback' = 0
    /\ cb'.pc \in {"given", "copied", "release"} => R!InCallback' = 1
BY DEF R!InCallback, R!Count

\* The setup, as the buffers see it: nothing happens, before and after the pool is filled,
\* as it is filled, and as the port is enabled.
SetupStays == UNCHANGED <<wpc, pool, enabled>>
SetupMoves ==
    /\ (wpc \in R!Before /\ wpc' \in R!Before) \/ (wpc \in R!Filling /\ wpc' \in R!Filling)
    /\ enabled' = FALSE /\ UNCHANGED pool
SetupFills == wpc \in R!Before /\ wpc' \in R!Filling /\ enabled' = FALSE /\ pool' = NBuffers
SetupEnables ==
    /\ wpc \in R!Filling /\ wpc' = (IF usestills THEN "loop" ELSE "start")
    /\ enabled' = TRUE /\ UNCHANGED <<pool, nfail>>

\* The set-up stays where it is, goes on, fills the pool or enables the port.
LEMMA SetupPlaces ==
    ASSUME SetupSteps
    PROVE  /\ UNCHANGED <<usestills, out, num, q, capturing, cb, offset, sem>>
           /\ nfail' \in {nfail, nfail + 1} /\ (proc' = proc \/ proc' = "exited")
           /\ SetupStays \/ SetupMoves \/ SetupFills \/ SetupEnables
<1>1. CASE UNCHANGED <<wpc, pool, enabled>>
    BY <1>1, SetupEffect DEF SetupStays
<1>2. CASE wpc = "preview" /\ wpc' = "encoder" /\ enabled' = FALSE /\ UNCHANGED pool
    BY <1>2, SetupEffect DEF SetupMoves, R!Before
<1>3. CASE wpc = "pool" /\ wpc' = "connect" /\ enabled' = FALSE /\ pool' = NBuffers
    BY <1>3, SetupEffect DEF SetupFills, R!Before, R!Filling
<1>4. CASE /\ wpc = "enable" /\ wpc' = (IF usestills THEN "loop" ELSE "start")
           /\ enabled' = TRUE /\ UNCHANGED <<pool, nfail>>
    BY <1>4, SetupEffect DEF SetupEnables, R!Filling
<1>5. CASE /\ enabled' = FALSE /\ UNCHANGED pool
           /\ \/ wpc = "camera" /\ wpc' = "settings"
              \/ wpc = "encoder" /\ wpc' = "pool"
              \/ wpc = "connect" /\ wpc' = "enable"
    BY <1>5, SetupEffect DEF SetupMoves, R!Before, R!Filling
<1> QED
    BY <1>1, <1>2, <1>3, <1>4, <1>5, SetupEffect

\* The port is disabled, and then all buffers are back.
LEMMA DisableEffect ==
    ASSUME R!FlagsOK, R!DisablePort
    PROVE  /\ UNCHANGED <<usestills, given, setting, pool, out, num, q, cb, offset, part, tag, sem,
                          db, asleep, proc, stop, buf, size, nfail>>
           /\ wpc = "disable" /\ enabled' = FALSE
           /\ \/ UNCHANGED <<wpc, live>> /\ capturing' = FALSE
              \/ /\ wpc' = "destroy" /\ out = 0 /\ cb.pc = "none" /\ enabled = FALSE
                 /\ live' = live \ {"encoder connection"} /\ UNCHANGED capturing
BY DEF R!DisablePort, R!FlagsOK, R!KeepWorker, R!setupVars, R!shared, R!frameVars

\* The worker and the options leave the callback and the mutex alone.
LEMMA WorkerFrame ==
    ASSUME SharedOK, R!FlagsOK, R!input_init \/ R!Unrecognized \/ R!input_run \/ R!worker_thread
    PROVE  /\ UNCHANGED <<usestills, cb, offset, part, tag, db, asleep, stop, size>>
           /\ nfail' \in {nfail, nfail + 1}
<1>1. CASE R!input_init
    BY <1>1 DEF R!input_init, R!Sane, R!Fails, R!shared, R!frameVars, R!setupVars, R!rvars,
       R!KeepWorker
<1>2. CASE R!Unrecognized
    BY <1>2 DEF R!Unrecognized, R!Sane, R!Fails, R!shared, R!frameVars, R!setupVars,
       R!rvars, R!KeepWorker
<1>3. CASE R!input_run
    BY <1>3 DEF R!input_run, R!Sane, R!Fails, R!shared, R!frameVars, R!setupVars, R!rvars,
       R!KeepWorker
<1>4. CASE SetupSteps
    BY <1>4, SetupEffect
<1>5. CASE R!ConnectPreview
    BY <1>5 DEF R!ConnectPreview, R!Sane, R!Fails, R!shared, R!frameVars, R!setupVars,
       R!rvars, R!KeepWorker
<1>6. CASE R!raspicamcontrol_set_all_parameters
    BY <1>6 DEF R!raspicamcontrol_set_all_parameters, R!Sane, R!Fails, R!shared,
       R!frameVars, R!setupVars, R!rvars, R!KeepWorker
<1>7. CASE R!CountBuffers
    BY <1>7 DEF R!CountBuffers, R!Sane, R!Fails, R!shared, R!frameVars, R!setupVars,
       R!rvars, R!KeepWorker
<1>8. CASE R!SendBuffer
    BY <1>8 DEF R!SendBuffer, R!Sane, R!Fails, R!shared, R!frameVars, R!setupVars, R!rvars,
       R!KeepWorker
<1>9. CASE R!Capture
    BY <1>9 DEF R!Capture, R!Sane, R!Fails, R!shared, R!frameVars, R!setupVars, R!rvars,
       R!KeepWorker
<1>10. CASE R!WaitCapture
    BY <1>10 DEF R!WaitCapture, R!Sane, R!Fails, R!shared, R!frameVars, R!setupVars,
       R!rvars, R!KeepWorker
<1>11. CASE R!LoopTest
    BY <1>11 DEF R!LoopTest, R!Sane, R!Fails, R!shared, R!frameVars, R!setupVars, R!rvars,
       R!KeepWorker
<1>12. CASE R!CloseVideo
    BY <1>12 DEF R!CloseVideo, R!Sane, R!Fails, R!shared, R!frameVars, R!setupVars, R!rvars,
       R!KeepWorker
<1>13. CASE R!DisablePort
    BY <1>13, DisableEffect
<1>14. CASE R!DestroyAll
    BY <1>14 DEF R!DestroyAll, R!Sane, R!Fails, R!shared, R!frameVars, R!setupVars, R!rvars,
       R!KeepWorker
<1>15. CASE R!worker_cleanup
    BY <1>15 DEF R!worker_cleanup, R!Sane, R!Fails, R!shared, R!frameVars, R!setupVars,
       R!rvars, R!KeepWorker
<1> QED
    BY <1>1, <1>2, <1>3, <1>4, <1>5, <1>6, <1>7, <1>8, <1>9, <1>10, <1>11, <1>12, <1>13,
       <1>14, <1>15 DEF R!Next, R!worker_thread, R!encoder_buffer_callback, SetupSteps

\* The callback leaves the worker alone.
LEMMA CallbackFrame ==
    ASSUME SharedOK, R!FlagsOK, R!Deliver \/ R!encoder_buffer_callback
    PROVE  /\ UNCHANGED <<usestills, given, setting, wpc, live, num, q, enabled, proc, stop>>
           /\ nfail' \in {nfail, nfail + 1}
<1>1. CASE R!Deliver
    BY <1>1, DeliverEffect
<1>2. CASE R!CopyPart
    BY <1>2 DEF R!CopyPart, R!LockDb, R!Sane, R!Fails, R!frameVars, R!setupVars,
       R!KeepCallback
<1>3. CASE R!EndOfPicture
    BY <1>3 DEF R!EndOfPicture, R!Sane, R!Fails, R!frameVars, R!setupVars, R!KeepCallback
<1>4. CASE R!Release
    BY <1>4 DEF R!Release, R!Sane, R!Fails, R!frameVars, R!setupVars, R!KeepCallback
<1>5. CASE R!Resend
    BY <1>5 DEF R!Resend, R!Sane, R!Fails, R!frameVars, R!setupVars, R!KeepCallback
<1>6. CASE R!PostComplete
    BY <1>6 DEF R!PostComplete, R!Sane, R!Fails, R!frameVars, R!setupVars, R!KeepCallback
<1> QED
    BY <1>1, <1>2, <1>3, <1>4, <1>5, <1>6 DEF R!Next, R!worker_thread,
       R!encoder_buffer_callback, SetupSteps

\* The worker changes the picture only before the first one and at its end.
LEMMA PictureFrame ==
    ASSUME SharedOK, R!FlagsOK, R!input_init \/ R!Unrecognized \/ R!input_run \/ R!worker_thread
    PROVE  IF wpc = "options" THEN TRUE ELSE wpc' # "ended" => buf' = buf /\ wpc # "ended"
<1>1. CASE R!input_init
    BY <1>1 DEF R!input_init, R!Sane, R!Fails, R!shared, R!frameVars, R!setupVars, R!rvars,
       R!KeepWorker
<1>2. CASE R!Unrecognized
    BY <1>2 DEF R!Unrecognized, R!Sane, R!Fails, R!shared, R!frameVars, R!setupVars,
       R!rvars, R!KeepWorker
<1>3. CASE R!input_run
    BY <1>3 DEF R!input_run, R!Sane, R!Fails, R!shared, R!frameVars, R!setupVars, R!rvars,
       R!KeepWorker
<1>4. CASE SetupSteps
    BY <1>4, SetupEffect
<1>5. CASE R!ConnectPreview
    BY <1>5 DEF R!ConnectPreview, R!Sane, R!Fails, R!shared, R!frameVars, R!setupVars,
       R!rvars, R!KeepWorker
<1>6. CASE R!raspicamcontrol_set_all_parameters
    BY <1>6 DEF R!raspicamcontrol_set_all_parameters, R!Sane, R!Fails, R!shared,
       R!frameVars, R!setupVars, R!rvars, R!KeepWorker
<1>7. CASE R!CountBuffers
    BY <1>7 DEF R!CountBuffers, R!Sane, R!Fails, R!shared, R!frameVars, R!setupVars,
       R!rvars, R!KeepWorker
<1>8. CASE R!SendBuffer
    BY <1>8 DEF R!SendBuffer, R!Sane, R!Fails, R!shared, R!frameVars, R!setupVars, R!rvars,
       R!KeepWorker
<1>9. CASE R!Capture
    BY <1>9 DEF R!Capture, R!Sane, R!Fails, R!shared, R!frameVars, R!setupVars, R!rvars,
       R!KeepWorker
<1>10. CASE R!WaitCapture
    BY <1>10 DEF R!WaitCapture, R!Sane, R!Fails, R!shared, R!frameVars, R!setupVars,
       R!rvars, R!KeepWorker
<1>11. CASE R!LoopTest
    BY <1>11 DEF R!LoopTest, R!Sane, R!Fails, R!shared, R!frameVars, R!setupVars, R!rvars,
       R!KeepWorker
<1>12. CASE R!CloseVideo
    BY <1>12 DEF R!CloseVideo, R!Sane, R!Fails, R!shared, R!frameVars, R!setupVars, R!rvars,
       R!KeepWorker
<1>13. CASE R!DisablePort
    BY <1>13, DisableEffect
<1>14. CASE R!DestroyAll
    BY <1>14 DEF R!DestroyAll, R!Sane, R!Fails, R!shared, R!frameVars, R!setupVars, R!rvars,
       R!KeepWorker
<1>15. CASE R!worker_cleanup
    BY <1>15 DEF R!worker_cleanup, R!Sane, R!Fails, R!shared, R!frameVars, R!setupVars,
       R!rvars, R!KeepWorker
<1> QED
    BY <1>1, <1>2, <1>3, <1>4, <1>5, <1>6, <1>7, <1>8, <1>9, <1>10, <1>11, <1>12, <1>13,
       <1>14, <1>15 DEF R!Next, R!worker_thread, R!encoder_buffer_callback, SetupSteps

-----------------------------------------------------------------------------
(* The Raspberry Pi's camera: each part of R!IndInv.                        *)

\* The flags.
LEMMA RaspiFlags ==
    ASSUME SharedOK, R!IndInv, R!Next
    PROVE  R!FlagsOK'
<1> USE DEF R!IndInv, R!FlagsOK
<1>1. CASE R!input_init
    BY <1>1 DEF R!input_init, R!Sane, R!Fails, R!shared, R!frameVars, R!setupVars, R!rvars,
       R!KeepWorker
<1>2. CASE R!Unrecognized
    BY <1>2 DEF R!Unrecognized, R!Sane, R!Fails, R!shared, R!frameVars, R!setupVars,
       R!rvars, R!KeepWorker
<1>3. CASE R!input_run
    BY <1>3 DEF R!input_run, R!Sane, R!Fails, R!shared, R!frameVars, R!setupVars, R!rvars,
       R!KeepWorker
<1>4. CASE SetupSteps
    BY <1>4, SetupEffect
<1>5. CASE R!ConnectPreview
    BY <1>5 DEF R!ConnectPreview, R!Sane, R!Fails, R!shared, R!frameVars, R!setupVars,
       R!rvars, R!KeepWorker
<1>6. CASE R!raspicamcontrol_set_all_parameters
    BY <1>6 DEF R!raspicamcontrol_set_all_parameters, R!Sane, R!Fails, R!shared,
       R!frameVars, R!setupVars, R!rvars, R!KeepWorker
<1>7. CASE R!CountBuffers
    BY <1>7 DEF R!CountBuffers, R!Sane, R!Fails, R!shared, R!frameVars, R!setupVars,
       R!rvars, R!KeepWorker
<1>8. CASE R!SendBuffer
    BY <1>8 DEF R!SendBuffer, R!Sane, R!Fails, R!shared, R!frameVars, R!setupVars, R!rvars,
       R!KeepWorker
<1>9. CASE R!Capture
    BY <1>9 DEF R!Capture, R!Sane, R!Fails, R!shared, R!frameVars, R!setupVars, R!rvars,
       R!KeepWorker
<1>10. CASE R!WaitCapture
    BY <1>10 DEF R!WaitCapture, R!Sane, R!Fails, R!shared, R!frameVars, R!setupVars,
       R!rvars, R!KeepWorker
<1>11. CASE R!LoopTest
    BY <1>11 DEF R!LoopTest, R!Sane, R!Fails, R!shared, R!frameVars, R!setupVars, R!rvars,
       R!KeepWorker
<1>12. CASE R!CloseVideo
    BY <1>12 DEF R!CloseVideo, R!Sane, R!Fails, R!shared, R!frameVars, R!setupVars, R!rvars,
       R!KeepWorker
<1>13. CASE R!DisablePort
    BY <1>13, DisableEffect
<1>14. CASE R!DestroyAll
    BY <1>14 DEF R!DestroyAll, R!Sane, R!Fails, R!shared, R!frameVars, R!setupVars, R!rvars,
       R!KeepWorker
<1>15. CASE R!worker_cleanup
    BY <1>15 DEF R!worker_cleanup, R!Sane, R!Fails, R!shared, R!frameVars, R!setupVars,
       R!rvars, R!KeepWorker
<1>16. CASE R!Deliver
    BY <1>16, DeliverEffect
<1>17. CASE R!CopyPart
    BY <1>17 DEF R!CopyPart, R!LockDb, R!Sane, R!Fails, R!frameVars, R!setupVars,
       R!KeepCallback
<1>18. CASE R!EndOfPicture
    BY <1>18 DEF R!EndOfPicture, R!Sane, R!Fails, R!frameVars, R!setupVars, R!KeepCallback
<1>19. CASE R!Release
    BY <1>19 DEF R!Release, R!Sane, R!Fails, R!frameVars, R!setupVars, R!KeepCallback
<1>20. CASE R!Resend
    BY <1>20 DEF R!Resend, R!Sane, R!Fails, R!frameVars, R!setupVars, R!KeepCallback
<1>21. CASE R!PostComplete
    BY <1>21 DEF R!PostComplete, R!Sane, R!Fails, R!frameVars, R!setupVars, R!KeepCallback
<1> QED
    BY <1>1, <1>2, <1>3, <1>4, <1>5, <1>6, <1>7, <1>8, <1>9, <1>10, <1>11, <1>12, <1>13,
       <1>14, <1>15, <1>16, <1>17, <1>18, <1>19, <1>20, <1>21 DEF R!Next, R!worker_thread,
       R!encoder_buffer_callback, SetupSteps

\* Nothing is in the encoder before the port is enabled or after it has been
\* disabled.
LEMMA WorkerStep ==
    ASSUME SharedOK, R!IndInv, R!Next
    PROVE  R!WorkerInv'
<1> USE DEF R!IndInv, R!WorkerInv, R!Before, R!Filling, R!Working
<1>1. CASE R!input_init
    BY <1>1 DEF R!input_init, R!Sane, R!Fails, R!shared, R!frameVars, R!setupVars, R!rvars,
       R!KeepWorker
<1>2. CASE R!Unrecognized
    BY <1>2 DEF R!Unrecognized, R!Sane, R!Fails, R!shared, R!frameVars, R!setupVars,
       R!rvars, R!KeepWorker
<1>3. CASE R!input_run
    BY <1>3 DEF R!input_run, R!Sane, R!Fails, R!shared, R!frameVars, R!setupVars, R!rvars,
       R!KeepWorker
<1>4. CASE SetupSteps
  <2>1. CASE SetupStays
    BY <1>4, <2>1, SetupPlaces DEF SetupStays
  <2>2. CASE SetupMoves
    BY <1>4, <2>2, SetupPlaces DEF SetupMoves
  <2>3. CASE SetupFills
    BY <1>4, <2>3, SetupPlaces DEF SetupFills
  <2>4. CASE SetupEnables
    BY <1>4, <2>4, SetupPlaces DEF SetupEnables
  <2> QED
    BY <1>4, <2>1, <2>2, <2>3, <2>4, SetupPlaces
<1>5. CASE R!ConnectPreview
    BY <1>5 DEF R!ConnectPreview, R!Sane, R!Fails, R!shared, R!frameVars, R!setupVars,
       R!rvars, R!KeepWorker
<1>6. CASE R!raspicamcontrol_set_all_parameters
    BY <1>6 DEF R!raspicamcontrol_set_all_parameters, R!Sane, R!Fails, R!shared,
       R!frameVars, R!setupVars, R!rvars, R!KeepWorker
<1>7. CASE R!CountBuffers
    BY <1>7 DEF R!CountBuffers, R!Sane, R!Fails, R!shared, R!frameVars, R!setupVars,
       R!rvars, R!KeepWorker
<1>8. CASE R!SendBuffer
    BY <1>8 DEF R!SendBuffer, R!Sane, R!Fails, R!shared, R!frameVars, R!setupVars, R!rvars,
       R!KeepWorker
<1>9. CASE R!Capture
    BY <1>9 DEF R!Capture, R!Sane, R!Fails, R!shared, R!frameVars, R!setupVars, R!rvars,
       R!KeepWorker
<1>10. CASE R!WaitCapture
    BY <1>10 DEF R!WaitCapture, R!Sane, R!Fails, R!shared, R!frameVars, R!setupVars,
       R!rvars, R!KeepWorker
<1>11. CASE R!LoopTest
    BY <1>11 DEF R!LoopTest, R!Sane, R!Fails, R!shared, R!frameVars, R!setupVars, R!rvars,
       R!KeepWorker
<1>12. CASE R!CloseVideo
    BY <1>12 DEF R!CloseVideo, R!Sane, R!Fails, R!shared, R!frameVars, R!setupVars, R!rvars,
       R!KeepWorker
<1>13. CASE R!DisablePort
    BY <1>13, DisableEffect
<1>14. CASE R!DestroyAll
    BY <1>14 DEF R!DestroyAll, R!Sane, R!Fails, R!shared, R!frameVars, R!setupVars, R!rvars,
       R!KeepWorker
<1>15. CASE R!worker_cleanup
    BY <1>15 DEF R!worker_cleanup, R!Sane, R!Fails, R!shared, R!frameVars, R!setupVars,
       R!rvars, R!KeepWorker
<1>16. CASE R!Deliver
    BY <1>16, DeliverEffect
<1>17. CASE R!CopyPart
    BY <1>17 DEF R!CopyPart, R!LockDb, R!Sane, R!Fails, R!frameVars, R!setupVars,
       R!KeepCallback
<1>18. CASE R!EndOfPicture
    BY <1>18 DEF R!EndOfPicture, R!Sane, R!Fails, R!frameVars, R!setupVars, R!KeepCallback
<1>19. CASE R!Release
    BY <1>19 DEF R!Release, R!Sane, R!Fails, R!frameVars, R!setupVars, R!KeepCallback
<1>20. CASE R!Resend
    BY <1>20 DEF R!Resend, R!Sane, R!Fails, R!frameVars, R!setupVars, R!KeepCallback
<1>21. CASE R!PostComplete
    BY <1>21 DEF R!PostComplete, R!Sane, R!Fails, R!frameVars, R!setupVars, R!KeepCallback,
       R!Idle
<1> QED
    BY <1>1, <1>2, <1>3, <1>4, <1>5, <1>6, <1>7, <1>8, <1>9, <1>10, <1>11, <1>12, <1>13,
       <1>14, <1>15, <1>16, <1>17, <1>18, <1>19, <1>20, <1>21 DEF R!Next, R!worker_thread,
       R!encoder_buffer_callback, SetupSteps

\* What exists at each place of the worker.
LEMMA LiveStep ==
    ASSUME SharedOK, R!IndInv, R!Next
    PROVE  R!LiveInv'
<1> USE DEF R!IndInv, R!LiveInv
<1>1. CASE R!input_init
    BY <1>1 DEF R!input_init, R!Sane, R!Fails, R!shared, R!frameVars, R!setupVars, R!rvars,
       R!KeepWorker
<1>2. CASE R!Unrecognized
    BY <1>2 DEF R!Unrecognized, R!Sane, R!Fails, R!shared, R!frameVars, R!setupVars,
       R!rvars, R!KeepWorker
<1>3. CASE R!input_run
    BY <1>3 DEF R!input_run, R!Sane, R!Fails, R!shared, R!frameVars, R!setupVars, R!rvars,
       R!KeepWorker
<1>4. CASE SetupSteps
    BY <1>4, SetupEffect
<1>5. CASE R!ConnectPreview
    BY <1>5 DEF R!ConnectPreview, R!Sane, R!Fails, R!shared, R!frameVars, R!setupVars,
       R!rvars, R!KeepWorker
<1>6. CASE R!raspicamcontrol_set_all_parameters
    BY <1>6 DEF R!raspicamcontrol_set_all_parameters, R!Sane, R!Fails, R!shared,
       R!frameVars, R!setupVars, R!rvars, R!KeepWorker
<1>7. CASE R!CountBuffers
    BY <1>7 DEF R!CountBuffers, R!Sane, R!Fails, R!shared, R!frameVars, R!setupVars,
       R!rvars, R!KeepWorker
<1>8. CASE R!SendBuffer
    BY <1>8 DEF R!SendBuffer, R!Sane, R!Fails, R!shared, R!frameVars, R!setupVars, R!rvars,
       R!KeepWorker
<1>9. CASE R!Capture
    BY <1>9 DEF R!Capture, R!Sane, R!Fails, R!shared, R!frameVars, R!setupVars, R!rvars,
       R!KeepWorker
<1>10. CASE R!WaitCapture
    BY <1>10 DEF R!WaitCapture, R!Sane, R!Fails, R!shared, R!frameVars, R!setupVars,
       R!rvars, R!KeepWorker
<1>11. CASE R!LoopTest
    BY <1>11 DEF R!LoopTest, R!Sane, R!Fails, R!shared, R!frameVars, R!setupVars, R!rvars,
       R!KeepWorker
<1>12. CASE R!CloseVideo
    BY <1>12 DEF R!CloseVideo, R!Sane, R!Fails, R!shared, R!frameVars, R!setupVars, R!rvars,
       R!KeepWorker
<1>13. CASE R!DisablePort
    BY <1>13, DisableEffect
<1>14. CASE R!DestroyAll
    BY <1>14 DEF R!DestroyAll, R!Sane, R!Fails, R!shared, R!frameVars, R!setupVars, R!rvars,
       R!KeepWorker
<1>15. CASE R!worker_cleanup
    BY <1>15 DEF R!worker_cleanup, R!Sane, R!Fails, R!shared, R!frameVars, R!setupVars,
       R!rvars, R!KeepWorker
<1>16. CASE R!Deliver \/ R!encoder_buffer_callback
    BY <1>16, CallbackFrame
<1> QED
    BY <1>1, <1>2, <1>3, <1>4, <1>5, <1>6, <1>7, <1>8, <1>9, <1>10, <1>11, <1>12, <1>13,
       <1>14, <1>15, <1>16 DEF R!Next, R!worker_thread, R!encoder_buffer_callback,
       SetupSteps

\* The buffers between the queue, the encoder and the callback.
LEMMA BufferStep ==
    ASSUME SharedOK, R!IndInv, R!Next
    PROVE  R!BufferInv'
<1> USE CamerasAssumption DEF SharedOK, R!IndInv, R!BufferInv, R!BuffersKept, R!WorkerInv,
        R!Before, R!Filling, R!Working
<1>1. CASE R!input_init
    BY <1>1, InCallbackFacts DEF R!input_init, R!Sane, R!Fails, R!shared, R!frameVars,
       R!setupVars, R!rvars, R!KeepWorker
<1>2. CASE R!Unrecognized
    BY <1>2, InCallbackFacts DEF R!Unrecognized, R!Sane, R!Fails, R!shared, R!frameVars,
       R!setupVars, R!rvars, R!KeepWorker
<1>3. CASE R!input_run
    BY <1>3, InCallbackFacts DEF R!input_run, R!Sane, R!Fails, R!shared, R!frameVars,
       R!setupVars, R!rvars, R!KeepWorker
<1>4. CASE SetupSteps
  <2>1. CASE SetupStays
    BY <1>4, <2>1, SetupPlaces, InCallbackFacts DEF SetupStays
  <2>2. CASE SetupMoves
    BY <1>4, <2>2, SetupPlaces, InCallbackFacts DEF SetupMoves
  <2>3. CASE SetupFills
    BY <1>4, <2>3, SetupPlaces, InCallbackFacts DEF SetupFills
  <2>4. CASE SetupEnables
    BY <1>4, <2>4, SetupPlaces, InCallbackFacts DEF SetupEnables
  <2> QED
    BY <1>4, <2>1, <2>2, <2>3, <2>4, SetupPlaces
<1>5. CASE R!ConnectPreview
    BY <1>5, InCallbackFacts DEF R!ConnectPreview, R!Sane, R!Fails, R!shared, R!frameVars,
       R!setupVars, R!rvars, R!KeepWorker
<1>6. CASE R!raspicamcontrol_set_all_parameters
    BY <1>6, InCallbackFacts DEF R!raspicamcontrol_set_all_parameters, R!Sane, R!Fails,
       R!shared, R!frameVars, R!setupVars, R!rvars, R!KeepWorker
<1>7. CASE R!CountBuffers
    BY <1>7, InCallbackFacts DEF R!CountBuffers, R!Sane, R!Fails, R!shared, R!frameVars,
       R!setupVars, R!rvars, R!KeepWorker
<1>8. CASE R!SendBuffer
    BY <1>8, InCallbackFacts DEF R!SendBuffer, R!Sane, R!Fails, R!shared, R!frameVars,
       R!setupVars, R!rvars, R!KeepWorker
<1>9. CASE R!Capture
    BY <1>9, InCallbackFacts DEF R!Capture, R!Sane, R!Fails, R!shared, R!frameVars,
       R!setupVars, R!rvars, R!KeepWorker
<1>10. CASE R!WaitCapture
    BY <1>10, InCallbackFacts DEF R!WaitCapture, R!Sane, R!Fails, R!shared, R!frameVars,
       R!setupVars, R!rvars, R!KeepWorker
<1>11. CASE R!LoopTest
    BY <1>11, InCallbackFacts DEF R!LoopTest, R!Sane, R!Fails, R!shared, R!frameVars,
       R!setupVars, R!rvars, R!KeepWorker
<1>12. CASE R!CloseVideo
    BY <1>12, InCallbackFacts DEF R!CloseVideo, R!Sane, R!Fails, R!shared, R!frameVars,
       R!setupVars, R!rvars, R!KeepWorker
<1>13. CASE R!DisablePort
    BY <1>13, DisableEffect, InCallbackFacts
<1>14. CASE R!DestroyAll
    BY <1>14, InCallbackFacts DEF R!DestroyAll, R!Sane, R!Fails, R!shared, R!frameVars,
       R!setupVars, R!rvars, R!KeepWorker
<1>15. CASE R!worker_cleanup
    BY <1>15, InCallbackFacts DEF R!worker_cleanup, R!Sane, R!Fails, R!shared, R!frameVars,
       R!setupVars, R!rvars, R!KeepWorker
<1>16. CASE R!Deliver
  <2>1. /\ UNCHANGED <<wpc, enabled, pool>> /\ nfail' \in {nfail, nfail + 1}
        /\ out > 0 /\ out' = out - 1 /\ R!InCallback = 0 /\ R!InCallback' = 1
    BY <1>16, DeliverEffect, InCallbackFacts
  <2> QED
    BY <2>1
<1>17. CASE R!CopyPart
    BY <1>17, InCallbackFacts DEF R!CopyPart, R!LockDb, R!Sane, R!Fails, R!frameVars,
       R!setupVars, R!KeepCallback, R!CallbackInv
<1>18. CASE R!EndOfPicture
    BY <1>18, InCallbackFacts DEF R!EndOfPicture, R!Sane, R!Fails, R!frameVars, R!setupVars,
       R!KeepCallback, R!CallbackInv
<1>19. CASE R!Release
    BY <1>19, InCallbackFacts DEF R!Release, R!Sane, R!Fails, R!frameVars, R!setupVars,
       R!KeepCallback, R!CallbackInv
<1>20. CASE R!Resend
    BY <1>20, InCallbackFacts, SMTT(30) DEF R!Resend, R!Sane, R!Fails, R!frameVars, R!setupVars,
       R!KeepCallback, R!CallbackInv
<1>21. CASE R!PostComplete
    BY <1>21, InCallbackFacts DEF R!PostComplete, R!Sane, R!Fails, R!frameVars, R!setupVars,
       R!KeepCallback, R!CallbackInv, R!Idle
<1> QED
    BY <1>1, <1>2, <1>3, <1>4, <1>5, <1>6, <1>7, <1>8, <1>9, <1>10, <1>11, <1>12, <1>13,
       <1>14, <1>15, <1>16, <1>17, <1>18, <1>19, <1>20, <1>21 DEF R!Next, R!worker_thread,
       R!encoder_buffer_callback, SetupSteps

\* The worker's count of the queue.
LEMMA QueueStep ==
    ASSUME SharedOK, R!IndInv, R!Next
    PROVE  R!QueueInv'
<1> USE CamerasAssumption DEF SharedOK, R!IndInv, R!QueueInv, R!NoNull
<1>1. CASE R!input_init
    BY <1>1 DEF R!input_init, R!Sane, R!Fails, R!shared, R!frameVars, R!setupVars, R!rvars,
       R!KeepWorker
<1>2. CASE R!Unrecognized
    BY <1>2 DEF R!Unrecognized, R!Sane, R!Fails, R!shared, R!frameVars, R!setupVars,
       R!rvars, R!KeepWorker
<1>3. CASE R!input_run
    BY <1>3 DEF R!input_run, R!Sane, R!Fails, R!shared, R!frameVars, R!setupVars, R!rvars,
       R!KeepWorker
<1>4. CASE SetupSteps
  <2>1. CASE SetupStays
    BY <1>4, <2>1, SetupPlaces DEF SetupStays, R!WorkerInv, R!Before, R!Filling
  <2>2. CASE SetupMoves
    BY <1>4, <2>2, SetupPlaces DEF SetupMoves, R!WorkerInv, R!Before, R!Filling
  <2>3. CASE SetupFills
    BY <1>4, <2>3, SetupPlaces DEF SetupFills, R!WorkerInv, R!Before, R!Filling
  <2>4. CASE SetupEnables
    BY <1>4, <2>4, SetupPlaces DEF SetupEnables, R!WorkerInv, R!Before, R!Filling
  <2> QED
    BY <1>4, <2>1, <2>2, <2>3, <2>4, SetupPlaces
<1>5. CASE R!ConnectPreview
    BY <1>5 DEF R!ConnectPreview, R!Sane, R!Fails, R!shared, R!frameVars, R!setupVars,
       R!rvars, R!KeepWorker
<1>6. CASE R!raspicamcontrol_set_all_parameters
    BY <1>6 DEF R!raspicamcontrol_set_all_parameters, R!Sane, R!Fails, R!shared,
       R!frameVars, R!setupVars, R!rvars, R!KeepWorker
<1>7. CASE R!CountBuffers
    BY <1>7, InCallbackFacts DEF R!CountBuffers, R!Sane, R!Fails, R!shared, R!frameVars,
       R!setupVars, R!rvars, R!KeepWorker, R!BufferInv
<1>8. CASE R!SendBuffer
    BY <1>8 DEF R!SendBuffer, R!Sane, R!Fails, R!shared, R!frameVars, R!setupVars, R!rvars,
       R!KeepWorker, R!BufferInv
<1>9. CASE R!Capture
    BY <1>9 DEF R!Capture, R!Sane, R!Fails, R!shared, R!frameVars, R!setupVars, R!rvars,
       R!KeepWorker
<1>10. CASE R!WaitCapture
  <2>1. /\ wpc = "wait" /\ sem > 0 /\ wpc' = "loop"
        /\ UNCHANGED <<usestills, num, q, pool, cb, capturing, nfail, proc>>
    BY <1>10 DEF R!WaitCapture, R!KeepWorker, R!setupVars, R!shared
  <2>2. nfail = 0 => ~capturing /\ ~cb.end
    BY <2>1 DEF R!SemInv, R!Count
  <2>3. nfail = 0 => cb.pc = "none"
    BY <2>1, <2>2 DEF R!SemInv, R!WorkerInv, R!Working
  <2> QED
    BY <2>1, <2>2, <2>3
<1>11. CASE R!LoopTest
    BY <1>11 DEF R!LoopTest, R!Sane, R!Fails, R!shared, R!frameVars, R!setupVars, R!rvars,
       R!KeepWorker
<1>12. CASE R!CloseVideo
    BY <1>12 DEF R!CloseVideo, R!Sane, R!Fails, R!shared, R!frameVars, R!setupVars, R!rvars,
       R!KeepWorker
<1>13. CASE R!DisablePort
    BY <1>13, DisableEffect
<1>14. CASE R!DestroyAll
    BY <1>14 DEF R!DestroyAll, R!Sane, R!Fails, R!shared, R!frameVars, R!setupVars, R!rvars,
       R!KeepWorker
<1>15. CASE R!worker_cleanup
    BY <1>15 DEF R!worker_cleanup, R!Sane, R!Fails, R!shared, R!frameVars, R!setupVars,
       R!rvars, R!KeepWorker
<1>16. CASE R!Deliver
  <2>1. /\ UNCHANGED <<wpc, usestills, num, q, pool, proc>> /\ nfail' \in {nfail, nfail + 1}
        /\ enabled => capturing
    BY <1>16, DeliverEffect
  <2>2. wpc \in {"loop", "start", "send"} => capturing
    BY <2>1 DEF R!WorkerInv, R!Working
  <2> QED
    BY <2>1, <2>2
<1>17. CASE R!CopyPart
    BY <1>17 DEF R!CopyPart, R!LockDb, R!Sane, R!Fails, R!frameVars, R!setupVars,
       R!KeepCallback
<1>18. CASE R!EndOfPicture
    BY <1>18 DEF R!EndOfPicture, R!Sane, R!Fails, R!frameVars, R!setupVars, R!KeepCallback
<1>19. CASE R!Release
    BY <1>19 DEF R!Release, R!Sane, R!Fails, R!frameVars, R!setupVars, R!KeepCallback
<1>20. CASE R!Resend
    BY <1>20 DEF R!Resend, R!Sane, R!Fails, R!frameVars, R!setupVars, R!KeepCallback
<1>21. CASE R!PostComplete
    BY <1>21 DEF R!PostComplete, R!Sane, R!Fails, R!frameVars, R!setupVars, R!KeepCallback
<1> QED
    BY <1>1, <1>2, <1>3, <1>4, <1>5, <1>6, <1>7, <1>8, <1>9, <1>10, <1>11, <1>12, <1>13,
       <1>14, <1>15, <1>16, <1>17, <1>18, <1>19, <1>20, <1>21 DEF R!Next, R!worker_thread,
       R!encoder_buffer_callback, SetupSteps

\* The semaphore.
LEMMA SemStep ==
    ASSUME SharedOK, R!IndInv, R!Next
    PROVE  R!SemInv'
<1> USE CamerasAssumption DEF SharedOK, R!IndInv, R!FlagsOK, R!SemInv, R!Count
<1>1. CASE R!input_init
    BY <1>1 DEF R!input_init, R!Sane, R!Fails, R!shared, R!frameVars, R!setupVars, R!rvars,
       R!KeepWorker
<1>2. CASE R!Unrecognized
    BY <1>2 DEF R!Unrecognized, R!Sane, R!Fails, R!shared, R!frameVars, R!setupVars,
       R!rvars, R!KeepWorker
<1>3. CASE R!input_run
    BY <1>3 DEF R!input_run, R!Sane, R!Fails, R!shared, R!frameVars, R!setupVars, R!rvars,
       R!KeepWorker
<1>4. CASE SetupSteps
  <2>1. CASE SetupStays
    BY <1>4, <2>1, SetupPlaces DEF SetupStays, R!WorkerInv, R!Before, R!Filling
  <2>2. CASE SetupMoves
    BY <1>4, <2>2, SetupPlaces DEF SetupMoves, R!WorkerInv, R!Before, R!Filling
  <2>3. CASE SetupFills
    BY <1>4, <2>3, SetupPlaces DEF SetupFills, R!WorkerInv, R!Before, R!Filling
  <2>4. CASE SetupEnables
    BY <1>4, <2>4, SetupPlaces DEF SetupEnables, R!WorkerInv, R!Before, R!Filling
  <2> QED
    BY <1>4, <2>1, <2>2, <2>3, <2>4, SetupPlaces
<1>5. CASE R!ConnectPreview
    BY <1>5 DEF R!ConnectPreview, R!Sane, R!Fails, R!shared, R!frameVars, R!setupVars,
       R!rvars, R!KeepWorker
<1>6. CASE R!raspicamcontrol_set_all_parameters
    BY <1>6 DEF R!raspicamcontrol_set_all_parameters, R!Sane, R!Fails, R!shared,
       R!frameVars, R!setupVars, R!rvars, R!KeepWorker
<1>7. CASE R!CountBuffers
    BY <1>7 DEF R!CountBuffers, R!Sane, R!Fails, R!shared, R!frameVars, R!setupVars,
       R!rvars, R!KeepWorker
<1>8. CASE R!SendBuffer
    BY <1>8 DEF R!SendBuffer, R!Sane, R!Fails, R!shared, R!frameVars, R!setupVars, R!rvars,
       R!KeepWorker
<1>9. CASE R!Capture
    BY <1>9 DEF R!Capture, R!Sane, R!Fails, R!shared, R!frameVars, R!setupVars, R!rvars,
       R!KeepWorker
<1>10. CASE R!WaitCapture
    BY <1>10 DEF R!WaitCapture, R!Sane, R!Fails, R!shared, R!frameVars, R!setupVars,
       R!rvars, R!KeepWorker
<1>11. CASE R!LoopTest
    BY <1>11 DEF R!LoopTest, R!Sane, R!Fails, R!shared, R!frameVars, R!setupVars, R!rvars,
       R!KeepWorker
<1>12. CASE R!CloseVideo
    BY <1>12 DEF R!CloseVideo, R!Sane, R!Fails, R!shared, R!frameVars, R!setupVars, R!rvars,
       R!KeepWorker
<1>13. CASE R!DisablePort
  <2>1. /\ UNCHANGED <<usestills, cb, sem, nfail>> /\ enabled' = FALSE
        /\ wpc # "wait" /\ wpc' # "wait" /\ (capturing' = FALSE \/ capturing' = capturing)
    BY <1>13, DisableEffect
  <2>2. R!Count(capturing') <= R!Count(capturing) /\ R!Count(capturing') \in 0..1
    BY <2>1
  <2>3. R!Count(wpc = "wait") = 0 /\ R!Count(wpc' = "wait") = 0 /\ R!Count(cb.end) \in 0..1
        /\ R!Count(capturing) \in 0..1
    BY <2>1
  <2> HIDE DEF R!Count
  <2> QED
    BY <2>1, <2>2, <2>3
<1>14. CASE R!DestroyAll
    BY <1>14 DEF R!DestroyAll, R!Sane, R!Fails, R!shared, R!frameVars, R!setupVars, R!rvars,
       R!KeepWorker
<1>15. CASE R!worker_cleanup
    BY <1>15 DEF R!worker_cleanup, R!Sane, R!Fails, R!shared, R!frameVars, R!setupVars,
       R!rvars, R!KeepWorker
<1>16. CASE R!Deliver
  <2>1. UNCHANGED <<wpc, usestills, enabled, sem>> /\ nfail' \in {nfail, nfail + 1}
    BY <1>16, DeliverEffect
  <2>2. usestills => /\ R!Count(cb'.end) + R!Count(capturing')
                            <= R!Count(capturing) + (nfail' - nfail)
                     /\ nfail' = 0 /\ enabled => capturing' \/ cb'.end
    <3>1. CASE NextPart
      BY <3>1, <1>16, DeliverEffect DEF NextPart
    <3>2. CASE LastPart
      BY <3>2, <1>16, DeliverEffect DEF LastPart
    <3>3. CASE FailedPart
      BY <3>3, <1>16, DeliverEffect DEF FailedPart
    <3>4. CASE UnusedBuffer
      BY <3>4, <1>16, DeliverEffect DEF UnusedBuffer
    <3> QED
      BY <1>16, <3>1, <3>2, <3>3, <3>4, DeliverEffect
  <2>3. cb.end = FALSE
    BY <1>16, DeliverEffect DEF R!CallbackInv
  <2>4. /\ R!Count(cb'.end) \in 0..1 /\ R!Count(capturing') \in 0..1 /\ R!Count(cb.end) = 0
        /\ R!Count(capturing) \in 0..1 /\ R!Count(wpc = "wait") \in 0..1
        /\ R!Count(wpc' = "wait") = R!Count(wpc = "wait")
    BY <2>1, <2>3
  <2> HIDE DEF R!Count
  <2>5. usestills => sem + R!Count(capturing) <= nfail + R!Count(wpc = "wait")
    BY <2>4
  <2>6. usestills => sem' + R!Count(cb'.end) + R!Count(capturing') <= nfail' + R!Count(wpc' = "wait")
    BY <2>1, <2>2, <2>4, <2>5
  <2> QED
    BY <2>1, <2>2, <2>6
<1>17. CASE R!CopyPart
    BY <1>17 DEF R!CopyPart, R!LockDb, R!Sane, R!Fails, R!frameVars, R!setupVars,
       R!KeepCallback, R!CallbackInv
<1>18. CASE R!EndOfPicture
    BY <1>18 DEF R!EndOfPicture, R!Sane, R!Fails, R!frameVars, R!setupVars, R!KeepCallback,
       R!CallbackInv
<1>19. CASE R!Release
    BY <1>19 DEF R!Release, R!Sane, R!Fails, R!frameVars, R!setupVars, R!KeepCallback,
       R!CallbackInv
<1>20. CASE R!Resend
    BY <1>20 DEF R!Resend, R!Sane, R!Fails, R!frameVars, R!setupVars, R!KeepCallback,
       R!CallbackInv
<1>21. CASE R!PostComplete
    BY <1>21 DEF R!PostComplete, R!Sane, R!Fails, R!frameVars, R!setupVars, R!KeepCallback,
       R!CallbackInv, R!Idle
<1> QED
    BY <1>1, <1>2, <1>3, <1>4, <1>5, <1>6, <1>7, <1>8, <1>9, <1>10, <1>11, <1>12, <1>13,
       <1>14, <1>15, <1>16, <1>17, <1>18, <1>19, <1>20, <1>21 DEF R!Next, R!worker_thread,
       R!encoder_buffer_callback, SetupSteps

\* The parts of a picture.
LEMMA CallbackStep ==
    ASSUME SharedOK, R!IndInv, R!Next
    PROVE  R!CallbackInv'
<1> USE CamerasAssumption DEF SharedOK, R!IndInv, R!CallbackInv
<1>1. CASE R!input_init \/ R!Unrecognized \/ R!input_run \/ R!worker_thread
    BY <1>1, WorkerFrame
<1>2. CASE R!Deliver
  <2>1. cb' \in [pc : {"none", "given", "copied", "release", "resend", "post"}, len : 0..1,
                  end : BOOLEAN]
    BY <1>2, DeliverEffect
  <2>2. offset' = offset /\ cb'.pc = "given" /\ cb.pc = "none"
    BY <1>2, DeliverEffect
  <2>3. /\ tag' \in {"a", "b"} /\ part' \in 0..(Parts - 1)
        /\ cb'.len = 1 => IF cb'.end THEN offset < Parts ELSE offset < part'
        /\ (cb'.len = 1 /\ cb'.end) \/ offset <= part'
        /\ nfail' = 0 /\ cb'.end => cb'.len = 1
    <3>1. CASE NextPart
      BY <2>2, <3>1, <1>2, DeliverEffect DEF NextPart, R!Other
    <3>2. CASE LastPart
      BY <2>2, <3>2, <1>2, DeliverEffect DEF LastPart, R!Other
    <3>3. CASE FailedPart
      BY <2>2, <3>3, <1>2, DeliverEffect DEF FailedPart, R!Other
    <3>4. CASE UnusedBuffer
      BY <2>2, <3>4, <1>2, DeliverEffect DEF UnusedBuffer, R!Other
    <3> QED
      BY <1>2, <3>1, <3>2, <3>3, <3>4, DeliverEffect
  <2> QED
    BY <2>1, <2>2, <2>3
<1>3. CASE R!CopyPart
    BY <1>3, SMTT(30) DEF R!CopyPart, R!LockDb, R!Sane, R!Fails, R!frameVars, R!setupVars,
       R!KeepCallback
<1>4. CASE R!EndOfPicture
    BY <1>4 DEF R!EndOfPicture, R!Sane, R!Fails, R!frameVars, R!setupVars, R!KeepCallback
<1>5. CASE R!Release
    BY <1>5 DEF R!Release, R!Sane, R!Fails, R!frameVars, R!setupVars, R!KeepCallback
<1>6. CASE R!Resend
    BY <1>6 DEF R!Resend, R!Sane, R!Fails, R!frameVars, R!setupVars, R!KeepCallback
<1>7. CASE R!PostComplete
    BY <1>7 DEF R!PostComplete, R!Sane, R!Fails, R!frameVars, R!setupVars, R!KeepCallback,
       R!Idle
<1> QED
    BY <1>1, <1>2, <1>3, <1>4, <1>5, <1>6, <1>7 DEF R!Next, R!worker_thread,
       R!encoder_buffer_callback, SetupSteps

\* The mutex and the picture.
LEMMA RaspiPictureStep ==
    ASSUME SharedOK, R!IndInv, R!Next
    PROVE  R!PictureInv'
<1> USE CamerasAssumption DEF SharedOK, R!IndInv, R!PictureInv
<1>1. CASE R!input_init \/ R!Unrecognized \/ R!input_run \/ R!worker_thread
  <2>1. UNCHANGED <<cb, offset, tag, db>> /\ nfail' \in {nfail, nfail + 1}
    BY <1>1, WorkerFrame
  <2>2. offset > 0 /\ wpc' # "ended" => buf' = buf /\ wpc # "ended"
    BY <1>1, PictureFrame DEF R!WorkerInv, R!Before
  <2> QED
    BY <2>1, <2>2 DEF R!CallbackInv
<1>2. CASE R!Deliver
  <2>1. UNCHANGED <<wpc, buf, offset, db>> /\ nfail' \in {nfail, nfail + 1} /\ cb.pc = "none"
    BY <1>2, DeliverEffect
  <2>2. nfail' = 0 => (cb'.end = TRUE /\ tag' = R!Other(tag)) \/ (cb'.end = FALSE /\ tag' = tag)
    <3>1. CASE NextPart
      BY <3>1, <1>2, DeliverEffect DEF NextPart
    <3>2. CASE LastPart
      BY <3>2, <1>2, DeliverEffect DEF LastPart
    <3>3. CASE FailedPart
      BY <3>3, <1>2, DeliverEffect DEF FailedPart
    <3>4. CASE UnusedBuffer
      BY <3>4, <1>2, DeliverEffect DEF UnusedBuffer
    <3> QED
      BY <1>2, <3>1, <3>2, <3>3, <3>4, DeliverEffect
  <2>3. R!Other(R!Other(tag)) = tag
    BY DEF R!Other, R!CallbackInv
  <2> QED
    BY <2>1, <2>2, <2>3, DeliverEffect, <1>2
<1>3. CASE R!CopyPart
  <2> DEFINE v == IF cb.end THEN R!Other(tag) ELSE tag
  <2>1. /\ cb.pc = "given" /\ cb'.pc = "copied" /\ cb'.end = cb.end /\ offset' = offset + 1
        /\ UNCHANGED <<wpc, tag, nfail>>
    BY <1>3 DEF R!CopyPart, R!CallbackInv, R!KeepCallback
  <2>2. buf' = [buf EXCEPT ![offset + 1] = v] /\ offset + 1 \in 1..Parts
    BY <1>3 DEF R!CopyPart, R!CallbackInv
  <2>3. nfail = 0 => db' = "encoder"
    BY <1>3 DEF R!CopyPart, R!CallbackInv, R!LockDb, R!frameVars
  <2>4. nfail = 0 /\ wpc # "ended" => \A p \in 1..offset' : buf'[p] = v
    BY <2>1, <2>2 DEF R!CallbackInv
  <2> QED
    BY <2>1, <2>3, <2>4 DEF R!CallbackInv
<1>4. CASE R!EndOfPicture
    BY <1>4 DEF R!EndOfPicture, R!Sane, R!Fails, R!frameVars, R!setupVars, R!KeepCallback,
       R!CallbackInv
<1>5. CASE R!Release
    BY <1>5 DEF R!Release, R!Sane, R!Fails, R!frameVars, R!setupVars, R!KeepCallback,
       R!CallbackInv
<1>6. CASE R!Resend
    BY <1>6 DEF R!Resend, R!Sane, R!Fails, R!frameVars, R!setupVars, R!KeepCallback,
       R!CallbackInv
<1>7. CASE R!PostComplete
    BY <1>7 DEF R!PostComplete, R!Sane, R!Fails, R!frameVars, R!setupVars, R!KeepCallback,
       R!Idle
<1> QED
    BY <1>1, <1>2, <1>3, <1>4, <1>5, <1>6, <1>7 DEF R!Next, R!worker_thread,
       R!encoder_buffer_callback, SetupSteps

-----------------------------------------------------------------------------
(* The camera on USB: each part of U!IndInv.                                *)

\* The flags.
LEMMA UvcFlags ==
    ASSUME SharedOK, U!IndInv, U!Next
    PROVE  U!FlagsOK'
<1> USE DEF U!IndInv, U!Sane, U!Fails, U!shared, U!frameVars, U!device, U!cmdVars,
        U!uvars, U!FlagsOK
<1>1. CASE U!input_init
    BY <1>1 DEF U!input_init, U!OpenDevice, U!NoDevice, U!KeepCam
<1>2. CASE U!Unrecognized
    BY <1>2 DEF U!Unrecognized, U!KeepCam
<1>3. CASE U!input_run
    BY <1>3 DEF U!input_run, U!KeepCam
<1>4. CASE U!FirstEnable
    BY <1>4 DEF U!FirstEnable, U!video_enable, U!KeepCam
<1>5. CASE U!LoopTest
    BY <1>5 DEF U!LoopTest, U!KeepCam
<1>6. CASE U!Select
    BY <1>6 DEF U!Select, U!Go, U!KeepCam
<1>7. CASE U!SourceChange
    BY <1>7 DEF U!SourceChange, U!Go, U!KeepCam
<1>8. CASE U!NoEvent
    BY <1>8 DEF U!NoEvent, U!KeepCam
<1>9. CASE U!ResolutionSet
    BY <1>9 DEF U!ResolutionSet, U!Go, U!KeepCam
<1>10. CASE U!Dequeue
    BY <1>10 DEF U!Dequeue, U!KeepCam
<1>11. CASE U!CopyFrame
    BY <1>11 DEF U!CopyFrame, U!Crash, U!KeepCam
<1>12. CASE U!Requeue
    BY <1>12 DEF U!Requeue, U!KeepCam
<1>13. CASE U!LockBuffer
    BY <1>13 DEF U!LockBuffer, U!LockDb, U!KeepCam
<1>14. CASE U!WritePart
    BY <1>14 DEF U!WritePart, U!Crash, U!KeepCam
<1>15. CASE U!Broadcast
    BY <1>15 DEF U!Broadcast, U!Publish, U!KeepCam
<1>16. CASE U!Cancelled
    BY <1>16 DEF U!Cancelled, U!Go, U!KeepCam
<1>17. CASE U!cam_cleanup
    BY <1>17 DEF U!cam_cleanup, U!video_disable, U!KeepCam
<1>18. CASE U!CmdResolution
    BY <1>18 DEF U!CmdResolution, U!Go, U!KeepCmd, U!Running
<1>19. CASE U!CmdDone
    BY <1>19 DEF U!CmdDone, U!Go, U!KeepCmd, U!Running
<1>20. CASE U!CmdControl
    BY <1>20 DEF U!CmdControl, U!KeepCmd, U!Running
<1>21. CASE U!CmdTooLate
    BY <1>21 DEF U!CmdTooLate, U!Crash, U!KeepCmd, U!Running
<1>22. CASE \E t \in U!Thread : U!Pause(t)
    BY <1>22 DEF U!Pause, U!Step, U!KeepRes, U!Go
<1>23. CASE \E t \in U!Thread : U!StreamOff(t)
    BY <1>23 DEF U!StreamOff, U!video_disable, U!Step, U!KeepRes, U!Go
<1>24. CASE \E t \in U!Thread : U!CloseDevice(t)
    BY <1>24 DEF U!CloseDevice, U!Step, U!KeepRes, U!Go
<1>25. CASE \E t \in U!Thread : U!init_v4l2(t)
    BY <1>25 DEF U!init_v4l2, U!OpenDevice, U!NoDevice, U!Step, U!KeepRes, U!Go
<1>26. CASE \E t \in U!Thread : U!init_framebuffer(t)
    BY <1>26 DEF U!init_framebuffer, U!Step, U!KeepRes, U!Go
<1>27. CASE \E t \in U!Thread : U!StreamOn(t)
    BY <1>27 DEF U!StreamOn, U!video_enable, U!Step, U!KeepRes, U!Go
<1>28. CASE \E t \in U!Thread : U!Orphaned(t)
    BY <1>28 DEF U!Orphaned, U!Crash, U!Go
<1> QED
    BY <1>1, <1>2, <1>3, <1>4, <1>5, <1>6, <1>7, <1>8, <1>9, <1>10, <1>11, <1>12, <1>13,
       <1>14, <1>15, <1>16, <1>17, <1>18, <1>19, <1>20, <1>21, <1>22, <1>23, <1>24, <1>25,
       <1>26, <1>27, <1>28 DEF U!Next, U!cam_thread, U!input_cmd, U!setResolution, U!Thread

\* The types.
LEMMA ValuesStep ==
    ASSUME SharedOK, U!IndInv, U!Next
    PROVE  U!ValuesOK'
<1> USE CamerasAssumption DEF U!IndInv, U!Sane, U!Fails, U!shared, U!frameVars, U!device,
        U!cmdVars, U!uvars, U!FlagsOK, U!ValuesOK, U!Waiting, U!Using, U!Resets, U!Thread,
        U!Res
<1>1. CASE U!input_init
    BY <1>1 DEF U!input_init, U!OpenDevice, U!NoDevice, U!KeepCam
<1>2. CASE U!Unrecognized
    BY <1>2 DEF U!Unrecognized, U!KeepCam
<1>3. CASE U!input_run
    BY <1>3 DEF U!input_run, U!KeepCam
<1>4. CASE U!FirstEnable
    BY <1>4 DEF U!FirstEnable, U!video_enable, U!KeepCam
<1>5. CASE U!LoopTest
    BY <1>5 DEF U!LoopTest, U!KeepCam
<1>6. CASE U!Select
    BY <1>6 DEF U!Select, U!Go, U!KeepCam
<1>7. CASE U!SourceChange
    BY <1>7 DEF U!SourceChange, U!Go, U!KeepCam
<1>8. CASE U!NoEvent
    BY <1>8 DEF U!NoEvent, U!KeepCam
<1>9. CASE U!ResolutionSet
    BY <1>9 DEF U!ResolutionSet, U!Go, U!KeepCam
<1>10. CASE U!Dequeue
    BY <1>10 DEF U!Dequeue, U!KeepCam, U!DriverInv, U!Dequeued, U!Other
<1>11. CASE U!CopyFrame
    BY <1>11 DEF U!CopyFrame, U!Crash, U!KeepCam
<1>12. CASE U!Requeue
    BY <1>12 DEF U!Requeue, U!KeepCam, U!DriverInv, U!Dequeued
<1>13. CASE U!LockBuffer
    BY <1>13 DEF U!LockBuffer, U!LockDb, U!KeepCam
<1>14. CASE U!WritePart
    BY <1>14 DEF U!WritePart, U!Crash, U!KeepCam
<1>15. CASE U!Broadcast
    BY <1>15 DEF U!Broadcast, U!Publish, U!KeepCam
<1>16. CASE U!Cancelled
    BY <1>16 DEF U!Cancelled, U!Go, U!KeepCam
<1>17. CASE U!cam_cleanup
    BY <1>17 DEF U!cam_cleanup, U!video_disable, U!KeepCam
<1>18. CASE U!CmdResolution
    BY <1>18 DEF U!CmdResolution, U!Go, U!KeepCmd, U!Running
<1>19. CASE U!CmdDone
    BY <1>19 DEF U!CmdDone, U!Go, U!KeepCmd, U!Running
<1>20. CASE U!CmdControl
    BY <1>20 DEF U!CmdControl, U!KeepCmd, U!Running
<1>21. CASE U!CmdTooLate
    BY <1>21 DEF U!CmdTooLate, U!Crash, U!KeepCmd, U!Running
<1>22. CASE \E t \in U!Thread : U!Pause(t)
    BY <1>22 DEF U!Pause, U!Step, U!KeepRes, U!Go
<1>23. CASE \E t \in U!Thread : U!StreamOff(t)
    BY <1>23 DEF U!StreamOff, U!video_disable, U!Step, U!KeepRes, U!Go
<1>24. CASE \E t \in U!Thread : U!CloseDevice(t)
    BY <1>24 DEF U!CloseDevice, U!Step, U!KeepRes, U!Go
<1>25. CASE \E t \in U!Thread : U!init_v4l2(t)
    BY <1>25 DEF U!init_v4l2, U!OpenDevice, U!NoDevice, U!Step, U!KeepRes, U!Go
<1>26. CASE \E t \in U!Thread : U!init_framebuffer(t)
    BY <1>26 DEF U!init_framebuffer, U!Step, U!KeepRes, U!Go
<1>27. CASE \E t \in U!Thread : U!StreamOn(t)
    BY <1>27 DEF U!StreamOn, U!video_enable, U!Step, U!KeepRes, U!Go
<1>28. CASE \E t \in U!Thread : U!Orphaned(t)
    BY <1>28 DEF U!Orphaned, U!Crash, U!Go
<1> QED
    BY <1>1, <1>2, <1>3, <1>4, <1>5, <1>6, <1>7, <1>8, <1>9, <1>10, <1>11, <1>12, <1>13,
       <1>14, <1>15, <1>16, <1>17, <1>18, <1>19, <1>20, <1>21, <1>22, <1>23, <1>24, <1>25,
       <1>26, <1>27, <1>28 DEF U!Next, U!cam_thread, U!input_cmd, U!setResolution, U!Thread

\* Who changes the resolution.
LEMMA PlaceStep ==
    ASSUME SharedOK, U!IndInv, U!Next
    PROVE  U!PlaceInv'
<1> USE DEF U!IndInv, U!Sane, U!Fails, U!shared, U!frameVars, U!device, U!cmdVars,
        U!uvars, U!ValuesOK, U!PlaceInv, U!Thread, U!Waiting, U!Using, U!Resets
<1>1. CASE U!input_init
    BY <1>1 DEF U!input_init, U!OpenDevice, U!NoDevice, U!KeepCam
<1>2. CASE U!Unrecognized
    BY <1>2 DEF U!Unrecognized, U!KeepCam
<1>3. CASE U!input_run
    BY <1>3 DEF U!input_run, U!KeepCam
<1>4. CASE U!FirstEnable
    BY <1>4 DEF U!FirstEnable, U!video_enable, U!KeepCam
<1>5. CASE U!LoopTest
    BY <1>5 DEF U!LoopTest, U!KeepCam
<1>6. CASE U!Select
    BY <1>6 DEF U!Select, U!Go, U!KeepCam
<1>7. CASE U!SourceChange
    BY <1>7 DEF U!SourceChange, U!Go, U!KeepCam
<1>8. CASE U!NoEvent
    BY <1>8 DEF U!NoEvent, U!KeepCam
<1>9. CASE U!ResolutionSet
    BY <1>9 DEF U!ResolutionSet, U!Go, U!KeepCam
<1>10. CASE U!Dequeue
    BY <1>10 DEF U!Dequeue, U!KeepCam
<1>11. CASE U!CopyFrame
    BY <1>11 DEF U!CopyFrame, U!Crash, U!KeepCam
<1>12. CASE U!Requeue
    BY <1>12 DEF U!Requeue, U!KeepCam
<1>13. CASE U!LockBuffer
    BY <1>13 DEF U!LockBuffer, U!LockDb, U!KeepCam
<1>14. CASE U!WritePart
    BY <1>14 DEF U!WritePart, U!Crash, U!KeepCam
<1>15. CASE U!Broadcast
    BY <1>15 DEF U!Broadcast, U!Publish, U!KeepCam
<1>16. CASE U!Cancelled
    BY <1>16 DEF U!Cancelled, U!Go, U!KeepCam
<1>17. CASE U!cam_cleanup
    BY <1>17 DEF U!cam_cleanup, U!video_disable, U!KeepCam
<1>18. CASE U!CmdResolution
    BY <1>18 DEF U!CmdResolution, U!Go, U!KeepCmd, U!Running
<1>19. CASE U!CmdDone
    BY <1>19 DEF U!CmdDone, U!Go, U!KeepCmd, U!Running
<1>20. CASE U!CmdControl
    BY <1>20 DEF U!CmdControl, U!KeepCmd, U!Running
<1>21. CASE U!CmdTooLate
    BY <1>21 DEF U!CmdTooLate, U!Crash, U!KeepCmd, U!Running
<1>22. CASE \E t \in U!Thread : U!Pause(t)
    BY <1>22 DEF U!Pause, U!Step, U!KeepRes, U!Go
<1>23. CASE \E t \in U!Thread : U!StreamOff(t)
    BY <1>23 DEF U!StreamOff, U!video_disable, U!Step, U!KeepRes, U!Go
<1>24. CASE \E t \in U!Thread : U!CloseDevice(t)
    BY <1>24 DEF U!CloseDevice, U!Step, U!KeepRes, U!Go
<1>25. CASE \E t \in U!Thread : U!init_v4l2(t)
    BY <1>25 DEF U!init_v4l2, U!OpenDevice, U!NoDevice, U!Step, U!KeepRes, U!Go
<1>26. CASE \E t \in U!Thread : U!init_framebuffer(t)
    BY <1>26 DEF U!init_framebuffer, U!Step, U!KeepRes, U!Go
<1>27. CASE \E t \in U!Thread : U!StreamOn(t)
    BY <1>27 DEF U!StreamOn, U!video_enable, U!Step, U!KeepRes, U!Go
<1>28. CASE \E t \in U!Thread : U!Orphaned(t)
    BY <1>28 DEF U!Orphaned, U!Crash, U!Go
<1> QED
    BY <1>1, <1>2, <1>3, <1>4, <1>5, <1>6, <1>7, <1>8, <1>9, <1>10, <1>11, <1>12, <1>13,
       <1>14, <1>15, <1>16, <1>17, <1>18, <1>19, <1>20, <1>21, <1>22, <1>23, <1>24, <1>25,
       <1>26, <1>27, <1>28 DEF U!Next, U!cam_thread, U!input_cmd, U!setResolution, U!Thread

\* The pause.
LEMMA PauseStep ==
    ASSUME SharedOK, U!IndInv, U!Next
    PROVE  U!PauseInv'
<1> USE DEF U!IndInv, U!Sane, U!Fails, U!shared, U!frameVars, U!device, U!cmdVars,
        U!uvars, U!FlagsOK, U!ValuesOK, U!PlaceInv, U!PauseInv, U!Thread, U!Waiting,
        U!Using, U!Resets
<1>1. CASE U!input_init
    BY <1>1 DEF U!input_init, U!OpenDevice, U!NoDevice, U!KeepCam
<1>2. CASE U!Unrecognized
    BY <1>2 DEF U!Unrecognized, U!KeepCam
<1>3. CASE U!input_run
    BY <1>3 DEF U!input_run, U!KeepCam
<1>4. CASE U!FirstEnable
    BY <1>4 DEF U!FirstEnable, U!video_enable, U!KeepCam
<1>5. CASE U!LoopTest
    BY <1>5 DEF U!LoopTest, U!KeepCam
<1>6. CASE U!Select
    BY <1>6 DEF U!Select, U!Go, U!KeepCam
<1>7. CASE U!SourceChange
    BY <1>7 DEF U!SourceChange, U!Go, U!KeepCam
<1>8. CASE U!NoEvent
    BY <1>8 DEF U!NoEvent, U!KeepCam
<1>9. CASE U!ResolutionSet
    BY <1>9 DEF U!ResolutionSet, U!Go, U!KeepCam
<1>10. CASE U!Dequeue
    BY <1>10 DEF U!Dequeue, U!KeepCam
<1>11. CASE U!CopyFrame
    BY <1>11 DEF U!CopyFrame, U!Crash, U!KeepCam
<1>12. CASE U!Requeue
    BY <1>12 DEF U!Requeue, U!KeepCam
<1>13. CASE U!LockBuffer
    BY <1>13 DEF U!LockBuffer, U!LockDb, U!KeepCam
<1>14. CASE U!WritePart
    BY <1>14 DEF U!WritePart, U!Crash, U!KeepCam
<1>15. CASE U!Broadcast
    BY <1>15 DEF U!Broadcast, U!Publish, U!KeepCam
<1>16. CASE U!Cancelled
    BY <1>16 DEF U!Cancelled, U!Go, U!KeepCam
<1>17. CASE U!cam_cleanup
    BY <1>17 DEF U!cam_cleanup, U!video_disable, U!KeepCam
<1>18. CASE U!CmdResolution
    BY <1>18 DEF U!CmdResolution, U!Go, U!KeepCmd, U!Running
<1>19. CASE U!CmdDone
    BY <1>19 DEF U!CmdDone, U!Go, U!KeepCmd, U!Running
<1>20. CASE U!CmdControl
    BY <1>20 DEF U!CmdControl, U!KeepCmd, U!Running
<1>21. CASE U!CmdTooLate
    BY <1>21 DEF U!CmdTooLate, U!Crash, U!KeepCmd, U!Running
<1>22. CASE \E t \in U!Thread : U!Pause(t)
    BY <1>22, ZenonT(40) DEF U!Pause, U!Step, U!KeepRes, U!Go
<1>23. CASE \E t \in U!Thread : U!StreamOff(t)
    BY <1>23 DEF U!StreamOff, U!video_disable, U!Step, U!KeepRes, U!Go
<1>24. CASE \E t \in U!Thread : U!CloseDevice(t)
    BY <1>24 DEF U!CloseDevice, U!Step, U!KeepRes, U!Go
<1>25. CASE \E t \in U!Thread : U!init_v4l2(t)
    BY <1>25 DEF U!init_v4l2, U!OpenDevice, U!NoDevice, U!Step, U!KeepRes, U!Go
<1>26. CASE \E t \in U!Thread : U!init_framebuffer(t)
    BY <1>26 DEF U!init_framebuffer, U!Step, U!KeepRes, U!Go
<1>27. CASE \E t \in U!Thread : U!StreamOn(t)
    BY <1>27 DEF U!StreamOn, U!video_enable, U!Step, U!KeepRes, U!Go
<1>28. CASE \E t \in U!Thread : U!Orphaned(t)
    BY <1>28 DEF U!Orphaned, U!Crash, U!Go
<1> QED
    BY <1>1, <1>2, <1>3, <1>4, <1>5, <1>6, <1>7, <1>8, <1>9, <1>10, <1>11, <1>12, <1>13,
       <1>14, <1>15, <1>16, <1>17, <1>18, <1>19, <1>20, <1>21, <1>22, <1>23, <1>24, <1>25,
       <1>26, <1>27, <1>28 DEF U!Next, U!cam_thread, U!input_cmd, U!setResolution, U!Thread

\* The buffers of the driver.
LEMMA DriverStep ==
    ASSUME SharedOK, U!IndInv, U!Next
    PROVE  U!DriverInv'
<1> USE CamerasAssumption DEF SharedOK, U!IndInv, U!Sane, U!Fails, U!shared, U!frameVars,
        U!device, U!cmdVars, U!uvars, U!FlagsOK, U!ValuesOK, U!PlaceInv, U!DriverInv,
        U!BuffersKept, U!Dequeued, U!Thread, U!Waiting, U!Using, U!Resets
<1>1. CASE U!input_init
    BY <1>1 DEF U!input_init, U!OpenDevice, U!NoDevice, U!KeepCam
<1>2. CASE U!Unrecognized
    BY <1>2 DEF U!Unrecognized, U!KeepCam
<1>3. CASE U!input_run
    BY <1>3 DEF U!input_run, U!KeepCam
<1>4. CASE U!FirstEnable
    BY <1>4 DEF U!FirstEnable, U!video_enable, U!KeepCam
<1>5. CASE U!LoopTest
    BY <1>5 DEF U!LoopTest, U!KeepCam
<1>6. CASE U!Select
    BY <1>6 DEF U!Select, U!Go, U!KeepCam
<1>7. CASE U!SourceChange
    BY <1>7 DEF U!SourceChange, U!Go, U!KeepCam
<1>8. CASE U!NoEvent
    BY <1>8 DEF U!NoEvent, U!KeepCam
<1>9. CASE U!ResolutionSet
    BY <1>9 DEF U!ResolutionSet, U!Go, U!KeepCam
<1>10. CASE U!Dequeue
    BY <1>10 DEF U!Dequeue, U!KeepCam
<1>11. CASE U!CopyFrame
    BY <1>11 DEF U!CopyFrame, U!Crash, U!KeepCam
<1>12. CASE U!Requeue
    BY <1>12 DEF U!Requeue, U!KeepCam
<1>13. CASE U!LockBuffer
    BY <1>13 DEF U!LockBuffer, U!LockDb, U!KeepCam
<1>14. CASE U!WritePart
    BY <1>14 DEF U!WritePart, U!Crash, U!KeepCam
<1>15. CASE U!Broadcast
    BY <1>15 DEF U!Broadcast, U!Publish, U!KeepCam
<1>16. CASE U!Cancelled
    BY <1>16 DEF U!Cancelled, U!Go, U!KeepCam
<1>17. CASE U!cam_cleanup
    BY <1>17 DEF U!cam_cleanup, U!video_disable, U!KeepCam, U!PauseInv
<1>18. CASE U!CmdResolution
    BY <1>18 DEF U!CmdResolution, U!Go, U!KeepCmd, U!Running
<1>19. CASE U!CmdDone
    BY <1>19 DEF U!CmdDone, U!Go, U!KeepCmd, U!Running
<1>20. CASE U!CmdControl
    BY <1>20 DEF U!CmdControl, U!KeepCmd, U!Running
<1>21. CASE U!CmdTooLate
    BY <1>21 DEF U!CmdTooLate, U!Crash, U!KeepCmd, U!Running
<1>22. CASE \E t \in U!Thread : U!Pause(t)
    BY <1>22 DEF U!Pause, U!Step, U!KeepRes, U!Go
<1>23. CASE \E t \in U!Thread : U!StreamOff(t)
    BY <1>23 DEF U!StreamOff, U!video_disable, U!Step, U!KeepRes, U!Go, U!PauseInv
<1>24. CASE \E t \in U!Thread : U!CloseDevice(t)
    BY <1>24 DEF U!CloseDevice, U!Step, U!KeepRes, U!Go, U!PauseInv
<1>25. CASE \E t \in U!Thread : U!init_v4l2(t)
    BY <1>25 DEF U!init_v4l2, U!OpenDevice, U!NoDevice, U!Step, U!KeepRes, U!Go
<1>26. CASE \E t \in U!Thread : U!init_framebuffer(t)
    BY <1>26 DEF U!init_framebuffer, U!Step, U!KeepRes, U!Go
<1>27. CASE \E t \in U!Thread : U!StreamOn(t)
    BY <1>27 DEF U!StreamOn, U!video_enable, U!Step, U!KeepRes, U!Go
<1>28. CASE \E t \in U!Thread : U!Orphaned(t)
    BY <1>28 DEF U!Orphaned, U!Crash, U!Go
<1> QED
    BY <1>1, <1>2, <1>3, <1>4, <1>5, <1>6, <1>7, <1>8, <1>9, <1>10, <1>11, <1>12, <1>13,
       <1>14, <1>15, <1>16, <1>17, <1>18, <1>19, <1>20, <1>21, <1>22, <1>23, <1>24, <1>25,
       <1>26, <1>27, <1>28 DEF U!Next, U!cam_thread, U!input_cmd, U!setResolution, U!Thread

\* The mutex and the picture.
LEMMA UvcPictureStep ==
    ASSUME SharedOK, U!IndInv, U!Next
    PROVE  U!PictureInv'
<1> USE CamerasAssumption DEF SharedOK, U!IndInv, U!Sane, U!Fails, U!shared, U!frameVars,
        U!device, U!cmdVars, U!uvars, U!ValuesOK, U!PlaceInv, U!PictureInv, U!Thread
<1>1. CASE U!input_init
    BY <1>1 DEF U!input_init, U!OpenDevice, U!NoDevice, U!KeepCam
<1>2. CASE U!Unrecognized
    BY <1>2 DEF U!Unrecognized, U!KeepCam
<1>3. CASE U!input_run
    BY <1>3 DEF U!input_run, U!KeepCam
<1>4. CASE U!FirstEnable
    BY <1>4 DEF U!FirstEnable, U!video_enable, U!KeepCam
<1>5. CASE U!LoopTest
    BY <1>5 DEF U!LoopTest, U!KeepCam
<1>6. CASE U!Select
    BY <1>6 DEF U!Select, U!Go, U!KeepCam
<1>7. CASE U!SourceChange
    BY <1>7 DEF U!SourceChange, U!Go, U!KeepCam
<1>8. CASE U!NoEvent
    BY <1>8 DEF U!NoEvent, U!KeepCam
<1>9. CASE U!ResolutionSet
    BY <1>9 DEF U!ResolutionSet, U!Go, U!KeepCam
<1>10. CASE U!Dequeue
    BY <1>10 DEF U!Dequeue, U!KeepCam
<1>11. CASE U!CopyFrame
    BY <1>11 DEF U!CopyFrame, U!Crash, U!KeepCam
<1>12. CASE U!Requeue
    BY <1>12 DEF U!Requeue, U!KeepCam
<1>13. CASE U!LockBuffer
    BY <1>13 DEF U!LockBuffer, U!LockDb, U!KeepCam
<1>14. CASE U!WritePart
    BY <1>14 DEF U!WritePart, U!Crash, U!KeepCam
<1>15. CASE U!Broadcast
    BY <1>15 DEF U!Broadcast, U!Publish, U!KeepCam
<1>16. CASE U!Cancelled
    BY <1>16 DEF U!Cancelled, U!Go, U!KeepCam
<1>17. CASE U!cam_cleanup
    BY <1>17 DEF U!cam_cleanup, U!video_disable, U!KeepCam
<1>18. CASE U!CmdResolution
    BY <1>18 DEF U!CmdResolution, U!Go, U!KeepCmd, U!Running
<1>19. CASE U!CmdDone
    BY <1>19 DEF U!CmdDone, U!Go, U!KeepCmd, U!Running
<1>20. CASE U!CmdControl
    BY <1>20 DEF U!CmdControl, U!KeepCmd, U!Running
<1>21. CASE U!CmdTooLate
    BY <1>21 DEF U!CmdTooLate, U!Crash, U!KeepCmd, U!Running
<1>22. CASE \E t \in U!Thread : U!Pause(t)
    BY <1>22 DEF U!Pause, U!Step, U!KeepRes, U!Go
<1>23. CASE \E t \in U!Thread : U!StreamOff(t)
    BY <1>23 DEF U!StreamOff, U!video_disable, U!Step, U!KeepRes, U!Go
<1>24. CASE \E t \in U!Thread : U!CloseDevice(t)
    BY <1>24 DEF U!CloseDevice, U!Step, U!KeepRes, U!Go
<1>25. CASE \E t \in U!Thread : U!init_v4l2(t)
    BY <1>25 DEF U!init_v4l2, U!OpenDevice, U!NoDevice, U!Step, U!KeepRes, U!Go
<1>26. CASE \E t \in U!Thread : U!init_framebuffer(t)
    BY <1>26 DEF U!init_framebuffer, U!Step, U!KeepRes, U!Go
<1>27. CASE \E t \in U!Thread : U!StreamOn(t)
    BY <1>27 DEF U!StreamOn, U!video_enable, U!Step, U!KeepRes, U!Go
<1>28. CASE \E t \in U!Thread : U!Orphaned(t)
    BY <1>28 DEF U!Orphaned, U!Crash, U!Go
<1> QED
    BY <1>1, <1>2, <1>3, <1>4, <1>5, <1>6, <1>7, <1>8, <1>9, <1>10, <1>11, <1>12, <1>13,
       <1>14, <1>15, <1>16, <1>17, <1>18, <1>19, <1>20, <1>21, <1>22, <1>23, <1>24, <1>25,
       <1>26, <1>27, <1>28 DEF U!Next, U!cam_thread, U!input_cmd, U!setResolution, U!Thread

\* The crashes.
LEMMA CrashStep ==
    ASSUME SharedOK, U!IndInv, U!Next
    PROVE  U!CrashesKnown'
<1> USE DEF U!IndInv, U!Sane, U!Fails, U!shared, U!frameVars, U!device, U!cmdVars,
        U!uvars, U!FlagsOK, U!ValuesOK, U!PlaceInv, U!PauseInv, U!CrashesKnown, U!Waiting,
        U!Using, U!Resets, U!Thread
<1>1. CASE U!input_init
    BY <1>1 DEF U!input_init, U!OpenDevice, U!NoDevice, U!KeepCam
<1>2. CASE U!Unrecognized
    BY <1>2 DEF U!Unrecognized, U!KeepCam
<1>3. CASE U!input_run
    BY <1>3 DEF U!input_run, U!KeepCam
<1>4. CASE U!FirstEnable
    BY <1>4 DEF U!FirstEnable, U!video_enable, U!KeepCam
<1>5. CASE U!LoopTest
    BY <1>5 DEF U!LoopTest, U!KeepCam
<1>6. CASE U!Select
    BY <1>6 DEF U!Select, U!Go, U!KeepCam
<1>7. CASE U!SourceChange
    BY <1>7 DEF U!SourceChange, U!Go, U!KeepCam
<1>8. CASE U!NoEvent
    BY <1>8 DEF U!NoEvent, U!KeepCam
<1>9. CASE U!ResolutionSet
    BY <1>9 DEF U!ResolutionSet, U!Go, U!KeepCam
<1>10. CASE U!Dequeue
    BY <1>10 DEF U!Dequeue, U!KeepCam
<1>11. CASE U!CopyFrame
    BY <1>11 DEF U!CopyFrame, U!Crash, U!KeepCam
<1>12. CASE U!Requeue
    BY <1>12 DEF U!Requeue, U!KeepCam
<1>13. CASE U!LockBuffer
    BY <1>13 DEF U!LockBuffer, U!LockDb, U!KeepCam
<1>14. CASE U!WritePart
    BY <1>14 DEF U!WritePart, U!Crash, U!KeepCam
<1>15. CASE U!Broadcast
    BY <1>15 DEF U!Broadcast, U!Publish, U!KeepCam
<1>16. CASE U!Cancelled
    BY <1>16 DEF U!Cancelled, U!Go, U!KeepCam
<1>17. CASE U!cam_cleanup
    BY <1>17 DEF U!cam_cleanup, U!video_disable, U!KeepCam
<1>18. CASE U!CmdResolution
    BY <1>18 DEF U!CmdResolution, U!Go, U!KeepCmd, U!Running
<1>19. CASE U!CmdDone
    BY <1>19 DEF U!CmdDone, U!Go, U!KeepCmd, U!Running
<1>20. CASE U!CmdControl
    BY <1>20 DEF U!CmdControl, U!KeepCmd, U!Running
<1>21. CASE U!CmdTooLate
    BY <1>21 DEF U!CmdTooLate, U!Crash, U!KeepCmd, U!Running
<1>22. CASE \E t \in U!Thread : U!Pause(t)
    BY <1>22 DEF U!Pause, U!Step, U!KeepRes, U!Go
<1>23. CASE \E t \in U!Thread : U!StreamOff(t)
    BY <1>23 DEF U!StreamOff, U!video_disable, U!Step, U!KeepRes, U!Go
<1>24. CASE \E t \in U!Thread : U!CloseDevice(t)
    BY <1>24 DEF U!CloseDevice, U!Step, U!KeepRes, U!Go
<1>25. CASE \E t \in U!Thread : U!init_v4l2(t)
    BY <1>25 DEF U!init_v4l2, U!OpenDevice, U!NoDevice, U!Step, U!KeepRes, U!Go
<1>26. CASE \E t \in U!Thread : U!init_framebuffer(t)
    BY <1>26 DEF U!init_framebuffer, U!Step, U!KeepRes, U!Go
<1>27. CASE \E t \in U!Thread : U!StreamOn(t)
    BY <1>27 DEF U!StreamOn, U!video_enable, U!Step, U!KeepRes, U!Go
<1>28. CASE \E t \in U!Thread : U!Orphaned(t)
    BY <1>28 DEF U!Orphaned, U!Crash, U!Go
<1> QED
    BY <1>1, <1>2, <1>3, <1>4, <1>5, <1>6, <1>7, <1>8, <1>9, <1>10, <1>11, <1>12, <1>13,
       <1>14, <1>15, <1>16, <1>17, <1>18, <1>19, <1>20, <1>21, <1>22, <1>23, <1>24, <1>25,
       <1>26, <1>27, <1>28 DEF U!Next, U!cam_thread, U!input_cmd, U!setResolution, U!Thread

-----------------------------------------------------------------------------
(* The clients, the signal, and the whole.                                  *)

\* What a step of a plugin does with the picture as long as the mutex is respected: t is
\* the plugin's thread, which has not begun (new) or ends with the step (over).
PictureStep(t, new, over) ==
    \/ UNCHANGED <<db, buf, size>>
    \/ db \in {Nobody, t} /\ db' = t
    \/ db = t /\ db' = Nobody /\ \A p, r \in 1..size' : buf'[p] = buf'[r]
    \/ new /\ UNCHANGED <<db, size>> /\ \A p, r \in 1..Parts : buf'[p] = buf'[r]
    \/ over /\ UNCHANGED db

\* The worker and the callback as the clients see them.
LEMMA RaspiPicture ==
    ASSUME SharedOK, R!IndInv, R!Next
    PROVE  /\ wpc' = "options" => wpc = "options"
           /\ wpc = "ended" => wpc' = "ended"
           /\ nfail' \in {nfail, nfail + 1}
           /\ nfail' = 0 => PictureStep("encoder", wpc = "options", wpc' = "ended")
<1> USE CamerasAssumption DEF SharedOK, R!IndInv, PictureStep
<1>1. CASE R!input_init
    BY <1>1 DEF R!input_init, R!Sane, R!Fails, R!shared, R!frameVars, R!setupVars, R!rvars,
       R!KeepWorker
<1>2. CASE R!Unrecognized
    BY <1>2 DEF R!Unrecognized, R!Sane, R!Fails, R!shared, R!frameVars, R!setupVars,
       R!rvars, R!KeepWorker
<1>3. CASE R!input_run
    BY <1>3 DEF R!input_run, R!Sane, R!Fails, R!shared, R!frameVars, R!setupVars, R!rvars,
       R!KeepWorker
<1>4. CASE SetupSteps
    BY <1>4, SetupEffect
<1>5. CASE R!ConnectPreview
    BY <1>5 DEF R!ConnectPreview, R!Sane, R!Fails, R!shared, R!frameVars, R!setupVars,
       R!rvars, R!KeepWorker
<1>6. CASE R!raspicamcontrol_set_all_parameters
    BY <1>6 DEF R!raspicamcontrol_set_all_parameters, R!Sane, R!Fails, R!shared,
       R!frameVars, R!setupVars, R!rvars, R!KeepWorker
<1>7. CASE R!CountBuffers
    BY <1>7 DEF R!CountBuffers, R!Sane, R!Fails, R!shared, R!frameVars, R!setupVars,
       R!rvars, R!KeepWorker
<1>8. CASE R!SendBuffer
    BY <1>8 DEF R!SendBuffer, R!Sane, R!Fails, R!shared, R!frameVars, R!setupVars, R!rvars,
       R!KeepWorker
<1>9. CASE R!Capture
    BY <1>9 DEF R!Capture, R!Sane, R!Fails, R!shared, R!frameVars, R!setupVars, R!rvars,
       R!KeepWorker
<1>10. CASE R!WaitCapture
    BY <1>10 DEF R!WaitCapture, R!Sane, R!Fails, R!shared, R!frameVars, R!setupVars,
       R!rvars, R!KeepWorker
<1>11. CASE R!LoopTest
    BY <1>11 DEF R!LoopTest, R!Sane, R!Fails, R!shared, R!frameVars, R!setupVars, R!rvars,
       R!KeepWorker
<1>12. CASE R!CloseVideo
    BY <1>12 DEF R!CloseVideo, R!Sane, R!Fails, R!shared, R!frameVars, R!setupVars, R!rvars,
       R!KeepWorker
<1>13. CASE R!DisablePort
    BY <1>13, DisableEffect
<1>14. CASE R!DestroyAll
    BY <1>14 DEF R!DestroyAll, R!Sane, R!Fails, R!shared, R!frameVars, R!setupVars, R!rvars,
       R!KeepWorker
<1>15. CASE R!worker_cleanup
    BY <1>15 DEF R!worker_cleanup, R!Sane, R!Fails, R!shared, R!frameVars, R!setupVars,
       R!rvars, R!KeepWorker
<1>16. CASE R!Deliver
    BY <1>16, DeliverEffect
<1>17. CASE R!CopyPart
    BY <1>17 DEF R!CopyPart, R!LockDb, R!Sane, R!Fails, R!frameVars, R!setupVars,
       R!KeepCallback, R!CallbackInv, R!PictureInv
<1>18. CASE R!EndOfPicture
  <2>1. /\ UNCHANGED <<wpc, buf, nfail, tag>> /\ cb.pc \in {"given", "copied"}
        /\ (cb.pc = "given" => cb.len = 0)
        /\ \/ cb.end /\ size' = offset /\ db' = Nobody
           \/ UNCHANGED <<size, db>>
    BY <1>18 DEF R!EndOfPicture, R!KeepCallback, R!frameVars
  <2>2. CASE cb.end /\ size' = offset /\ db' = Nobody
    <3>1. nfail = 0 => cb.pc = "copied" /\ offset > 0
      BY <2>1, <2>2 DEF R!CallbackInv
    <3>2. nfail = 0 => db = "encoder"
      BY <3>1 DEF R!PictureInv
    <3>3. nfail = 0 /\ wpc # "ended" => \A p, r \in 1..size' : buf'[p] = buf'[r]
      BY <2>1, <2>2 DEF R!PictureInv
    <3>4. wpc # "ended"
      BY <2>1 DEF R!WorkerInv
    <3> QED
      BY <2>1, <2>2, <3>2, <3>3, <3>4
  <2>3. CASE UNCHANGED <<size, db>>
    BY <2>1, <2>3
  <2> QED
    BY <2>1, <2>2, <2>3
<1>19. CASE R!Release
    BY <1>19 DEF R!Release, R!Sane, R!Fails, R!frameVars, R!setupVars, R!KeepCallback
<1>20. CASE R!Resend
    BY <1>20 DEF R!Resend, R!Sane, R!Fails, R!frameVars, R!setupVars, R!KeepCallback
<1>21. CASE R!PostComplete
    BY <1>21 DEF R!PostComplete, R!Sane, R!Fails, R!frameVars, R!setupVars, R!KeepCallback
<1> QED
    BY <1>1, <1>2, <1>3, <1>4, <1>5, <1>6, <1>7, <1>8, <1>9, <1>10, <1>11, <1>12, <1>13,
       <1>14, <1>15, <1>16, <1>17, <1>18, <1>19, <1>20, <1>21 DEF R!Next, R!worker_thread,
       R!encoder_buffer_callback, SetupSteps

\* cam_thread() and the commands as the clients see them.
LEMMA UvcPicture ==
    ASSUME SharedOK, U!IndInv, U!Next
    PROVE  /\ upc' \in {"init", "run"} => upc \in {"init", "run"}
           /\ upc = "ended" => upc' = "ended"
           /\ nfail' \in {nfail, nfail + 1}
           /\ PictureStep("cam", upc = "run", upc' = "ended")
<1> USE CamerasAssumption DEF SharedOK, U!IndInv, U!PlaceInv, U!PictureInv, PictureStep,
        U!Thread, U!Sane, U!Fails, U!shared, U!frameVars, U!device, U!cmdVars, U!uvars
<1>1. CASE U!input_init
    BY <1>1 DEF U!input_init, U!OpenDevice, U!NoDevice, U!KeepCam
<1>2. CASE U!Unrecognized
    BY <1>2 DEF U!Unrecognized, U!KeepCam
<1>3. CASE U!input_run
    BY <1>3 DEF U!input_run, U!KeepCam
<1>4. CASE U!FirstEnable
    BY <1>4 DEF U!FirstEnable, U!video_enable, U!KeepCam
<1>5. CASE U!LoopTest
    BY <1>5 DEF U!LoopTest, U!KeepCam
<1>6. CASE U!Select
    BY <1>6 DEF U!Select, U!Go, U!KeepCam
<1>7. CASE U!SourceChange
    BY <1>7 DEF U!SourceChange, U!Go, U!KeepCam
<1>8. CASE U!NoEvent
    BY <1>8 DEF U!NoEvent, U!KeepCam
<1>9. CASE U!ResolutionSet
    BY <1>9 DEF U!ResolutionSet, U!Go, U!KeepCam
<1>10. CASE U!Dequeue
    BY <1>10 DEF U!Dequeue, U!KeepCam
<1>11. CASE U!CopyFrame
    BY <1>11 DEF U!CopyFrame, U!Crash, U!KeepCam
<1>12. CASE U!Requeue
    BY <1>12 DEF U!Requeue, U!KeepCam
<1>13. CASE U!LockBuffer
    BY <1>13 DEF U!LockBuffer, U!LockDb, U!KeepCam
<1>14. CASE U!WritePart
    BY <1>14 DEF U!WritePart, U!Crash, U!KeepCam
<1>15. CASE U!Broadcast
    BY <1>15 DEF U!Broadcast, U!Publish, U!KeepCam
<1>16. CASE U!Cancelled
    BY <1>16 DEF U!Cancelled, U!Go, U!KeepCam
<1>17. CASE U!cam_cleanup
    BY <1>17 DEF U!cam_cleanup, U!video_disable, U!KeepCam
<1>18. CASE U!CmdResolution
    BY <1>18 DEF U!CmdResolution, U!Go, U!KeepCmd, U!Running
<1>19. CASE U!CmdDone
    BY <1>19 DEF U!CmdDone, U!Go, U!KeepCmd, U!Running
<1>20. CASE U!CmdControl
    BY <1>20 DEF U!CmdControl, U!KeepCmd, U!Running
<1>21. CASE U!CmdTooLate
    BY <1>21 DEF U!CmdTooLate, U!Crash, U!KeepCmd, U!Running
<1>22. CASE \E t \in U!Thread : U!Pause(t)
    BY <1>22 DEF U!Pause, U!Step, U!KeepRes, U!Go
<1>23. CASE \E t \in U!Thread : U!StreamOff(t)
    BY <1>23 DEF U!StreamOff, U!video_disable, U!Step, U!KeepRes, U!Go
<1>24. CASE \E t \in U!Thread : U!CloseDevice(t)
    BY <1>24 DEF U!CloseDevice, U!Step, U!KeepRes, U!Go
<1>25. CASE \E t \in U!Thread : U!init_v4l2(t)
    BY <1>25 DEF U!init_v4l2, U!OpenDevice, U!NoDevice, U!Step, U!KeepRes, U!Go
<1>26. CASE \E t \in U!Thread : U!init_framebuffer(t)
    BY <1>26 DEF U!init_framebuffer, U!Step, U!KeepRes, U!Go
<1>27. CASE \E t \in U!Thread : U!StreamOn(t)
    BY <1>27 DEF U!StreamOn, U!video_enable, U!Step, U!KeepRes, U!Go
<1>28. CASE \E t \in U!Thread : U!Orphaned(t)
    BY <1>28 DEF U!Orphaned, U!Crash, U!Go
<1> QED
    BY <1>1, <1>2, <1>3, <1>4, <1>5, <1>6, <1>7, <1>8, <1>9, <1>10, <1>11, <1>12, <1>13,
       <1>14, <1>15, <1>16, <1>17, <1>18, <1>19, <1>20, <1>21, <1>22, <1>23, <1>24, <1>25,
       <1>26, <1>27, <1>28 DEF U!Next, U!cam_thread, U!input_cmd, U!setResolution, U!Thread

\* A step of a plugin keeps what the clients rely on.
LEMMA ClientsKept ==
    ASSUME SharedOK, ClientInv, NEW t \in {"cam", "encoder"}, NEW new, NEW over,
           UNCHANGED <<cpc, got, camera>>, new => ~Started, over => ~Alive', Alive' => Alive,
           Started => Started', Sound' => Sound /\ PictureStep(t, new, over)
    PROVE  ClientInv'
<1>1. /\ cpc' \in [Clients -> {"idle", "wait", "copying"}] /\ DOMAIN got' = Clients
      /\ \A c \in Clients : cpc'[c] # "idle" => Started'
    BY DEF ClientInv
<1>2. \A c \in Clients : cpc[c] = "copying" /\ Sound => db = c /\ db \notin {Nobody, t} /\ Started
    BY CamerasAssumption DEF ClientInv
<1>3. ASSUME NEW c \in Clients, cpc'[c] = "copying", Sound'
      PROVE  db' = c /\ (Alive' => UNCHANGED <<buf, size>>)
    BY <1>2, <1>3 DEF PictureStep
<1>4. CopyStable'
    BY <1>3 DEF CopyStable, ClientInv, Sound
<1>5. ASSUME db' \notin {"cam", "encoder"}, Alive', Sound'
      PROVE  \A p, r \in 1..size' : buf'[p] = buf'[r]
  <2>1. CASE UNCHANGED <<db, buf, size>>
    BY <1>5, <2>1 DEF ClientInv
  <2>2. CASE new /\ UNCHANGED <<db, size>> /\ \A p, r \in 1..Parts : buf'[p] = buf'[r]
    <3>1. size' \in 0..Parts
      BY <2>2 DEF SharedOK
    <3> QED
      BY <2>2, <3>1, CamerasAssumption
  <2> QED
    BY <1>5, <2>1, <2>2 DEF PictureStep
<1> QED
    BY <1>1, <1>3, <1>4, <1>5 DEF ClientInv


\* Both plugins keep their part of the invariant.
LEMMA RaspiStep ==
    ASSUME SharedOK, R!IndInv, R!Next
    PROVE  R!IndInv'
BY RaspiFlags, WorkerStep, LiveStep, BufferStep, QueueStep, SemStep, CallbackStep, RaspiPictureStep DEF R!IndInv

\* A step of the USB camera keeps its invariant: one lemma per part.
LEMMA UvcStep ==
    ASSUME SharedOK, U!IndInv, U!Next
    PROVE  U!IndInv'
BY UvcFlags, ValuesStep, PlaceStep, PauseStep, DriverStep, UvcPictureStep, CrashStep
   DEF U!IndInv

\* What the worker and the callback do to the shared state.
LEMMA RaspiShared ==
    ASSUME SharedOK, R!IndInv, R!Next
    PROVE  /\ proc' \in {"run", "exited", "crashed"} /\ stop' = stop
           /\ db' \in {db, Nobody, "encoder"} /\ asleep' \in {asleep, {}}
           /\ size' \in 0..Parts /\ nfail' \in 0..MaxFail
           /\ buf' \in [1..Parts -> {"none", "a", "b", "freed"}]
<1> USE CamerasAssumption DEF SharedOK, R!IndInv, R!FlagsOK, R!CallbackInv
<1>1. CASE R!input_init
    BY <1>1 DEF R!input_init, R!Sane, R!Fails, R!shared, R!frameVars, R!setupVars, R!rvars,
       R!KeepWorker
<1>2. CASE R!Unrecognized
    BY <1>2 DEF R!Unrecognized, R!Sane, R!Fails, R!shared, R!frameVars, R!setupVars,
       R!rvars, R!KeepWorker
<1>3. CASE R!input_run
    BY <1>3 DEF R!input_run, R!Sane, R!Fails, R!shared, R!frameVars, R!setupVars, R!rvars,
       R!KeepWorker
<1>4. CASE SetupSteps
  <2>1. /\ UNCHANGED <<db, asleep, stop, buf, size>>
        /\ \/ UNCHANGED <<nfail, proc>>
           \/ nfail' = nfail + 1 /\ nfail < MaxFail /\ proc' = "exited"
    BY <1>4, SetupEffect
  <2> QED
    BY <2>1
<1>5. CASE R!ConnectPreview
    BY <1>5 DEF R!ConnectPreview, R!Sane, R!Fails, R!shared, R!frameVars, R!setupVars,
       R!rvars, R!KeepWorker
<1>6. CASE R!raspicamcontrol_set_all_parameters
    BY <1>6 DEF R!raspicamcontrol_set_all_parameters, R!Sane, R!Fails, R!shared,
       R!frameVars, R!setupVars, R!rvars, R!KeepWorker
<1>7. CASE R!CountBuffers
    BY <1>7 DEF R!CountBuffers, R!Sane, R!Fails, R!shared, R!frameVars, R!setupVars,
       R!rvars, R!KeepWorker
<1>8. CASE R!SendBuffer
    BY <1>8 DEF R!SendBuffer, R!Sane, R!Fails, R!shared, R!frameVars, R!setupVars, R!rvars,
       R!KeepWorker
<1>9. CASE R!Capture
    BY <1>9 DEF R!Capture, R!Sane, R!Fails, R!shared, R!frameVars, R!setupVars, R!rvars,
       R!KeepWorker
<1>10. CASE R!WaitCapture
    BY <1>10 DEF R!WaitCapture, R!Sane, R!Fails, R!shared, R!frameVars, R!setupVars,
       R!rvars, R!KeepWorker
<1>11. CASE R!LoopTest
    BY <1>11 DEF R!LoopTest, R!Sane, R!Fails, R!shared, R!frameVars, R!setupVars, R!rvars,
       R!KeepWorker
<1>12. CASE R!CloseVideo
    BY <1>12 DEF R!CloseVideo, R!Sane, R!Fails, R!shared, R!frameVars, R!setupVars, R!rvars,
       R!KeepWorker
<1>13. CASE R!DisablePort
    BY <1>13, DisableEffect
<1>14. CASE R!DestroyAll
    BY <1>14 DEF R!DestroyAll, R!Sane, R!Fails, R!shared, R!frameVars, R!setupVars, R!rvars,
       R!KeepWorker
<1>15. CASE R!worker_cleanup
    BY <1>15 DEF R!worker_cleanup, R!Sane, R!Fails, R!shared, R!frameVars, R!setupVars,
       R!rvars, R!KeepWorker
<1>16. CASE R!Deliver
  <2>1. UNCHANGED <<db, asleep, proc, stop, buf, size>>
    BY <1>16, DeliverEffect
  <2>2. nfail' = nfail \/ (nfail' = nfail + 1 /\ nfail < MaxFail)
    BY <1>16, DeliverEffect DEF NextPart, LastPart, FailedPart, UnusedBuffer
  <2> QED
    BY <2>1, <2>2
<1>17. CASE R!CopyPart
    BY <1>17 DEF R!CopyPart, R!LockDb, R!Sane, R!Fails, R!frameVars, R!setupVars,
       R!KeepCallback, R!Other
<1>18. CASE R!EndOfPicture
    BY <1>18 DEF R!EndOfPicture, R!Sane, R!Fails, R!frameVars, R!setupVars, R!KeepCallback
<1>19. CASE R!Release
    BY <1>19 DEF R!Release, R!Sane, R!Fails, R!frameVars, R!setupVars, R!KeepCallback
<1>20. CASE R!Resend
    BY <1>20 DEF R!Resend, R!Sane, R!Fails, R!frameVars, R!setupVars, R!KeepCallback
<1>21. CASE R!PostComplete
    BY <1>21 DEF R!PostComplete, R!Sane, R!Fails, R!frameVars, R!setupVars, R!KeepCallback
<1> QED
    BY <1>1, <1>2, <1>3, <1>4, <1>5, <1>6, <1>7, <1>8, <1>9, <1>10, <1>11, <1>12, <1>13,
       <1>14, <1>15, <1>16, <1>17, <1>18, <1>19, <1>20, <1>21 DEF R!Next, R!worker_thread,
       R!encoder_buffer_callback, SetupSteps

\* What cam_thread() and the commands do to the shared state.
LEMMA UvcShared ==
    ASSUME SharedOK, U!IndInv, U!Next
    PROVE  /\ proc' \in {"run", "exited", "crashed"} /\ stop' = stop
           /\ db' \in {db, Nobody, "cam"} /\ asleep' \in {asleep, {}}
           /\ size' \in 0..Parts /\ nfail' \in 0..MaxFail
           /\ buf' \in [1..Parts -> {"none", "a", "b", "freed"}]
<1> USE CamerasAssumption DEF SharedOK, U!IndInv, U!ValuesOK, U!Thread, U!Sane, U!Fails,
        U!shared, U!frameVars, U!device, U!cmdVars, U!uvars
<1>1. CASE U!input_init
    BY <1>1 DEF U!input_init, U!OpenDevice, U!NoDevice, U!KeepCam
<1>2. CASE U!Unrecognized
    BY <1>2 DEF U!Unrecognized, U!KeepCam
<1>3. CASE U!input_run
    BY <1>3 DEF U!input_run, U!KeepCam
<1>4. CASE U!FirstEnable
    BY <1>4 DEF U!FirstEnable, U!video_enable, U!KeepCam
<1>5. CASE U!LoopTest
    BY <1>5 DEF U!LoopTest, U!KeepCam
<1>6. CASE U!Select
    BY <1>6 DEF U!Select, U!Go, U!KeepCam
<1>7. CASE U!SourceChange
    BY <1>7 DEF U!SourceChange, U!Go, U!KeepCam
<1>8. CASE U!NoEvent
    BY <1>8 DEF U!NoEvent, U!KeepCam
<1>9. CASE U!ResolutionSet
    BY <1>9 DEF U!ResolutionSet, U!Go, U!KeepCam
<1>10. CASE U!Dequeue
    BY <1>10 DEF U!Dequeue, U!KeepCam
<1>11. CASE U!CopyFrame
    BY <1>11 DEF U!CopyFrame, U!Crash, U!KeepCam
<1>12. CASE U!Requeue
    BY <1>12 DEF U!Requeue, U!KeepCam
<1>13. CASE U!LockBuffer
    BY <1>13 DEF U!LockBuffer, U!LockDb, U!KeepCam
<1>14. CASE U!WritePart
    BY <1>14 DEF U!WritePart, U!Crash, U!KeepCam
<1>15. CASE U!Broadcast
    BY <1>15 DEF U!Broadcast, U!Publish, U!KeepCam
<1>16. CASE U!Cancelled
    BY <1>16 DEF U!Cancelled, U!Go, U!KeepCam
<1>17. CASE U!cam_cleanup
    BY <1>17 DEF U!cam_cleanup, U!video_disable, U!KeepCam
<1>18. CASE U!CmdResolution
    BY <1>18 DEF U!CmdResolution, U!Go, U!KeepCmd, U!Running
<1>19. CASE U!CmdDone
    BY <1>19 DEF U!CmdDone, U!Go, U!KeepCmd, U!Running
<1>20. CASE U!CmdControl
    BY <1>20 DEF U!CmdControl, U!KeepCmd, U!Running
<1>21. CASE U!CmdTooLate
    BY <1>21 DEF U!CmdTooLate, U!Crash, U!KeepCmd, U!Running
<1>22. CASE \E t \in U!Thread : U!Pause(t)
    BY <1>22 DEF U!Pause, U!Step, U!KeepRes, U!Go
<1>23. CASE \E t \in U!Thread : U!StreamOff(t)
    BY <1>23 DEF U!StreamOff, U!video_disable, U!Step, U!KeepRes, U!Go
<1>24. CASE \E t \in U!Thread : U!CloseDevice(t)
    BY <1>24 DEF U!CloseDevice, U!Step, U!KeepRes, U!Go
<1>25. CASE \E t \in U!Thread : U!init_v4l2(t)
    BY <1>25 DEF U!init_v4l2, U!OpenDevice, U!NoDevice, U!Step, U!KeepRes, U!Go
<1>26. CASE \E t \in U!Thread : U!init_framebuffer(t)
    BY <1>26 DEF U!init_framebuffer, U!Step, U!KeepRes, U!Go
<1>27. CASE \E t \in U!Thread : U!StreamOn(t)
    BY <1>27 DEF U!StreamOn, U!video_enable, U!Step, U!KeepRes, U!Go
<1>28. CASE \E t \in U!Thread : U!Orphaned(t)
    BY <1>28 DEF U!Orphaned, U!Crash, U!Go
<1> QED
    BY <1>1, <1>2, <1>3, <1>4, <1>5, <1>6, <1>7, <1>8, <1>9, <1>10, <1>11, <1>12, <1>13,
       <1>14, <1>15, <1>16, <1>17, <1>18, <1>19, <1>20, <1>21, <1>22, <1>23, <1>24, <1>25,
       <1>26, <1>27, <1>28 DEF U!Next, U!cam_thread, U!input_cmd, U!setResolution, U!Thread

\* The initial state.
LEMMA InitInv == Init => IndInv
<1> SUFFICES ASSUME Init
             PROVE  IndInv
    OBVIOUS
<1>0. stop \in BOOLEAN /\ SharedOK
  <2>1. stop \in BOOLEAN /\ buf \in [1..Parts -> {"none", "a", "b", "freed"}]
    BY DEF Init
  <2>2. size \in 0..Parts /\ nfail \in 0..MaxFail
    BY CamerasAssumption DEF Init
  <2> QED
    BY <2>1, <2>2 DEF Init, SharedOK
<1>1. OtherIdle
    BY CamerasAssumption DEF Init, OtherIdle
<1>2. ClientInv
    BY CamerasAssumption DEF Init, ClientInv, CopyStable
<1>3. ASSUME camera = "raspicam"
      PROVE  R!IndInv
  <2>1. R!FlagsOK /\ R!WorkerInv /\ R!LiveInv
    BY DEF Init, R!Init, R!FlagsOK, R!WorkerInv, R!LiveInv, R!Before, R!Filling, R!Working, R!Idle
  <2>2. R!BufferInv /\ R!QueueInv
    BY InCallbackFacts, CamerasAssumption DEF Init, R!Init, R!BufferInv, R!QueueInv, R!BuffersKept,
       R!NoNull, R!Before, R!Filling, R!Idle
  <2>3. R!SemInv /\ R!CallbackInv
    BY CamerasAssumption DEF Init, R!Init, R!SemInv, R!CallbackInv, R!Count, R!Idle
  <2>4. R!PictureInv
    BY CamerasAssumption DEF Init, R!Init, R!PictureInv
  <2> QED
    BY <2>1, <2>2, <2>3, <2>4 DEF R!IndInv
<1>4. ASSUME camera = "uvc"
      PROVE  U!IndInv
  <2> USE CamerasAssumption DEF Init, U!Init, U!Thread, U!Waiting, U!Using, U!Resets
  <2>1. U!FlagsOK
    BY DEF U!FlagsOK
  <2>2. U!ValuesOK
    BY DEF U!ValuesOK, U!Res
  <2>3. U!PlaceInv /\ U!PauseInv
    BY DEF U!PlaceInv, U!PauseInv
  <2>4. U!DriverInv
    BY DEF U!DriverInv, U!BuffersKept, U!Dequeued
  <2>5. U!PictureInv /\ U!CrashesKnown
    BY DEF U!PictureInv, U!CrashesKnown
  <2> QED
    BY <2>1, <2>2, <2>3, <2>4, <2>5 DEF U!IndInv
<1> QED
    BY <1>0, <1>1, <1>2, <1>3, <1>4 DEF IndInv, SharedOK


\* The plugin that is loaded moves.
LEMMA RaspiMoves ==
    ASSUME IndInv, Raspicam(R!Next)
    PROVE  IndInv'
<1>1. camera = "raspicam" /\ R!Next /\ UNCHANGED <<uvcVars, camera, cpc, got>>
    BY DEF Raspicam, clientVars
<1>2. SharedOK /\ OtherIdle /\ ClientInv /\ R!IndInv /\ U!Init /\ db # "cam"
    BY <1>1 DEF IndInv, OtherIdle
<1>3. stop' \in BOOLEAN /\ SharedOK' /\ db' # "cam"
    BY <1>1, <1>2, RaspiShared, CamerasAssumption DEF IndInv, SharedOK
<1>4. R!IndInv'
    BY <1>1, <1>2, RaspiStep
<1>5. U!Init'
    BY <1>1, <1>2 DEF U!Init, uvcVars, U!Thread
<1>6. ClientInv'
  <2>1. upc = "init" /\ upc' = "init"
    BY <1>2, <1>5 DEF U!Init
  <2>2. /\ wpc' = "options" => wpc = "options"
        /\ wpc = "ended" => wpc' = "ended"
        /\ nfail' \in {nfail, nfail + 1}
        /\ nfail' = 0 => PictureStep("encoder", wpc = "options", wpc' = "ended")
    BY <1>1, <1>2, RaspiPicture
  <2>3. Sound' => Sound /\ PictureStep("encoder", wpc = "options", wpc' = "ended")
    BY <1>1, <1>2, <2>2, CamerasAssumption DEF Sound, SharedOK
  <2>4. /\ wpc = "options" => ~Started
        /\ wpc' = "ended" => ~Alive'
        /\ Alive' => Alive
        /\ Started => Started'
    BY <2>1, <2>2 DEF Started, Alive
  <2> QED
    BY <1>1, <1>2, <2>3, <2>4, ClientsKept
<1> QED
    BY <1>1, <1>3, <1>4, <1>5, <1>6 DEF IndInv, OtherIdle

\* A step of the USB camera keeps the whole invariant.
LEMMA UvcMoves ==
    ASSUME IndInv, Uvc(U!Next)
    PROVE  IndInv'
<1>1. camera = "uvc" /\ U!Next /\ UNCHANGED <<raspiVars, camera, cpc, got>>
    BY DEF Uvc, clientVars
<1>2. SharedOK /\ OtherIdle /\ ClientInv /\ U!IndInv /\ R!Init /\ db # "encoder"
    BY <1>1 DEF IndInv, OtherIdle
<1>3. stop' \in BOOLEAN /\ SharedOK' /\ db' # "encoder"
    BY <1>1, <1>2, UvcShared, CamerasAssumption DEF IndInv, SharedOK
<1>4. U!IndInv'
    BY <1>1, <1>2, UvcStep
<1>5. R!Init'
    BY <1>1, <1>2 DEF R!Init, raspiVars
<1>6. ClientInv'
  <2>1. wpc = "options" /\ wpc' = "options"
    BY <1>2, <1>5 DEF R!Init
  <2>2. /\ upc' \in {"init", "run"} => upc \in {"init", "run"}
        /\ upc = "ended" => upc' = "ended"
        /\ PictureStep("cam", upc = "run", upc' = "ended")
    BY <1>1, <1>2, UvcPicture
  <2>3. Sound' => Sound /\ PictureStep("cam", upc = "run", upc' = "ended")
    BY <1>1, <2>2 DEF Sound
  <2>4. /\ upc = "run" => ~Started
        /\ upc' = "ended" => ~Alive'
        /\ Alive' => Alive
        /\ Started => Started'
    BY <2>1, <2>2 DEF Started, Alive
  <2> QED
    BY <1>1, <1>2, <2>3, <2>4, ClientsKept
<1> QED
    BY <1>1, <1>3, <1>4, <1>5, <1>6 DEF IndInv, OtherIdle


\* A step that leaves the plugin alone, and its hold of the mutex.
LEMMA RaspiAlone ==
    ASSUME R!IndInv, UNCHANGED <<raspiVars, proc, nfail, buf>>,
           nfail = 0 => (db' = "encoder" <=> db = "encoder")
    PROVE  R!IndInv'
<1> USE DEF R!IndInv, raspiVars
<1>1. R!FlagsOK' /\ R!WorkerInv' /\ R!LiveInv'
    BY DEF R!FlagsOK, R!WorkerInv, R!LiveInv
<1>2. R!BufferInv' /\ R!QueueInv'
    BY InCallbackFacts DEF R!BufferInv, R!QueueInv, R!BuffersKept, R!NoNull
<1>3. R!SemInv' /\ R!CallbackInv'
    BY DEF R!SemInv, R!CallbackInv, R!Count
<1>4. R!PictureInv'
    BY DEF R!PictureInv
<1> QED
    BY <1>1, <1>2, <1>3, <1>4

\* A step of a client or of the main thread leaves the USB camera alone.
LEMMA UvcAlone ==
    ASSUME U!IndInv, cancelled' \in BOOLEAN, db' = "cam" <=> db = "cam",
           UNCHANGED <<dv, upc, rpc, want, cmd, ncmd, ctl, shown, state, fd, streaming, queued, held,
                       mapped, tmp, res, grabbed, last, allocres, vd, i, raced, proc, nfail, buf>>
    PROVE  U!IndInv'
<1> USE DEF U!IndInv
<1>1. U!FlagsOK' /\ U!ValuesOK'
    BY DEF U!FlagsOK, U!ValuesOK
<1>2. U!PlaceInv' /\ U!PauseInv'
    BY DEF U!PlaceInv, U!PauseInv
<1>3. U!DriverInv'
    BY DEF U!DriverInv, U!BuffersKept, U!Dequeued
<1>4. U!PictureInv' /\ U!CrashesKnown'
    BY DEF U!PictureInv, U!CrashesKnown
<1> QED
    BY <1>1, <1>2, <1>3, <1>4

\* The signal sets the flag, and cancels the thread of a camera on USB.
LEMMA SignalStep ==
    ASSUME IndInv, Signal
    PROVE  IndInv'
<1>1. stop' \in BOOLEAN /\ SharedOK' /\ ClientInv'
  <2>1. /\ UNCHANGED <<frameVars, proc, buf, size, nfail, wpc, upc, camera, cpc, got>>
        /\ stop' = TRUE
    BY DEF Signal, raspiVars, clientVars
  <2> QED
    BY <2>1 DEF IndInv, SharedOK, ClientInv, CopyStable, Started, Alive, Sound, frameVars
<1>2. ASSUME camera = "raspicam"
      PROVE  R!IndInv' /\ U!Init' /\ db' # "cam"
  <2>1. UNCHANGED <<raspiVars, uvcVars, proc, nfail, buf, db>>
    BY <1>2 DEF Signal, uvcVars, frameVars
  <2>2. R!IndInv'
    BY <1>2, <2>1, RaspiAlone DEF IndInv
  <2>3. U!Init' /\ db' # "cam"
    BY <1>2, <2>1 DEF IndInv, OtherIdle, U!Init, uvcVars, U!Thread
  <2> QED
    BY <2>2, <2>3
<1>3. ASSUME camera = "uvc"
      PROVE  U!IndInv' /\ R!Init' /\ db' # "encoder"
  <2>1. UNCHANGED <<raspiVars, dv, upc, rpc, want, cmd, ncmd, ctl, shown, state, fd, streaming, queued,
                    held, mapped, tmp, res, grabbed, last, allocres, vd, i, raced, proc, nfail, buf, db>>
    BY DEF Signal, frameVars
  <2>2. cancelled' \in BOOLEAN
    BY <1>3 DEF Signal, U!input_stop
  <2>3. U!IndInv'
    BY <1>3, <2>1, <2>2, UvcAlone DEF IndInv
  <2>4. R!Init' /\ db' # "encoder"
    BY <1>3, <2>1 DEF IndInv, OtherIdle, R!Init, raspiVars
  <2> QED
    BY <2>3, <2>4
<1>4. camera' = camera
    BY DEF Signal
<1> QED
    BY <1>1, <1>2, <1>3, <1>4 DEF IndInv, OtherIdle, SharedOK

\* A client takes the mutex when nobody has it, and gives back what is its own.
LEMMA ClientStep ==
    ASSUME IndInv, NEW c \in Clients, WaitPicture(c) \/ Woken(c) \/ Copied(c)
    PROVE  IndInv'
<1>1. UNCHANGED <<raspiVars, uvcVars, camera, proc, stop, buf, size, nfail>>
    BY DEF WaitPicture, Woken, Copied, KeepClient
<1>2. /\ db' \in {db, Nobody, c} /\ asleep' \in {asleep, asleep \cup {c}}
      /\ Sound => db' = db \/ db \in {Nobody, c}
    BY DEF WaitPicture, Woken, Copied, IndInv, ClientInv, WaitFresh, WakeUp, LockDb
<1>3. stop' \in BOOLEAN /\ SharedOK'
    BY <1>1, <1>2 DEF IndInv, SharedOK
<1>4. /\ Sound => (db' = "encoder" <=> db = "encoder") /\ (db' = "cam" <=> db = "cam")
      /\ db # "encoder" => db' # "encoder"
      /\ db # "cam" => db' # "cam"
    BY <1>2, CamerasAssumption
<1>5. ASSUME camera = "raspicam"
      PROVE  R!IndInv' /\ U!Init' /\ db' # "cam"
  <2>1. R!IndInv'
    BY <1>1, <1>4, <1>5, RaspiAlone DEF IndInv, Sound
  <2>2. U!Init' /\ db' # "cam"
    BY <1>1, <1>4, <1>5 DEF IndInv, OtherIdle, U!Init, uvcVars, U!Thread
  <2> QED
    BY <2>1, <2>2
<1>6. ASSUME camera = "uvc"
      PROVE  U!IndInv' /\ R!Init' /\ db' # "encoder"
  <2>1. cancelled' \in BOOLEAN
    BY <1>1, <1>6 DEF uvcVars, IndInv, U!IndInv, U!FlagsOK
  <2>2. U!IndInv'
    BY <1>1, <1>4, <1>6, <2>1, UvcAlone DEF IndInv, Sound, uvcVars
  <2>3. R!Init' /\ db' # "encoder"
    BY <1>1, <1>4, <1>6 DEF IndInv, OtherIdle, R!Init, raspiVars
  <2> QED
    BY <2>2, <2>3
<1>7. UNCHANGED <<wpc, upc>>
    BY <1>1 DEF raspiVars, uvcVars
<1>8. ClientInv'
  <2> USE DEF IndInv, SharedOK, ClientInv, CopyStable, Started, Alive, Sound
  <2>1. CASE WaitPicture(c)
    BY <1>1, <1>7, <2>1 DEF WaitPicture, WaitFresh
  <2>2. CASE Woken(c)
    BY <1>1, <1>7, <2>2, CamerasAssumption DEF Woken, WakeUp, LockDb
  <2>3. CASE Copied(c)
    BY <1>1, <1>7, <2>3, CamerasAssumption DEF Copied
  <2> QED
    BY <2>1, <2>2, <2>3
<1> QED
    BY <1>1, <1>3, <1>5, <1>6, <1>8 DEF IndInv, OtherIdle, SharedOK


\* Every step keeps the inductive invariant.
LEMMA StepInv == IndInv /\ [Next]_vars => IndInv'
<1> SUFFICES ASSUME IndInv, [Next]_vars
             PROVE  IndInv'
    OBVIOUS
<1>1. CASE Raspicam(R!Next)
    BY <1>1, RaspiMoves
<1>2. CASE Uvc(U!Next)
    BY <1>2, UvcMoves
<1>3. CASE Client
    BY <1>3, ClientStep DEF Client
<1>4. CASE Signal
    BY <1>4, SignalStep
<1>5. CASE UNCHANGED vars
  <2>1. stop' \in BOOLEAN /\ SharedOK' /\ ClientInv'
    BY <1>5 DEF vars, frameVars, raspiVars, uvcVars, clientVars, IndInv, SharedOK, ClientInv, CopyStable,
       Started, Alive, Sound
  <2>2. UNCHANGED <<raspiVars, uvcVars, camera, proc, nfail, buf, db>>
    BY <1>5 DEF vars, frameVars
  <2>3. OtherIdle'
    BY <2>2 DEF IndInv, OtherIdle, R!Init, U!Init, raspiVars, uvcVars, U!Thread
  <2>4. camera = "raspicam" => R!IndInv'
    BY <2>2, RaspiAlone DEF IndInv
  <2>5. camera = "uvc" => U!IndInv'
    BY <2>2, UvcAlone DEF IndInv, uvcVars, U!IndInv, U!FlagsOK
  <2> QED
    BY <2>1, <2>2, <2>3, <2>4, <2>5 DEF IndInv
<1> QED
    BY <1>1, <1>2, <1>3, <1>4, <1>5 DEF Next, Ended

-----------------------------------------------------------------------------
(* The properties.                                                          *)

\* The invariant holds in every state of the web server with either camera.
THEOREM Invariance == Spec => []IndInv
BY InitInv, StepInv, PTL DEF Spec

\* A client that copies the picture under the mutex gets one whole picture, which nobody
\* changes meanwhile, and none that is an empty buffer of the driver (httpd.c:415, the
\* plugins' use of db), for any number of clients and parts of a picture.
THEOREM PicturesRightHolds == Spec => []PicturesRight
<1>1. IndInv => PicturesRight
  <2> SUFFICES ASSUME IndInv
               PROVE  PicturesRight
    OBVIOUS
  <2>1. CopyStable
    BY DEF IndInv, ClientInv
  <2>2. PicturesWhole
    BY CamerasAssumption DEF IndInv, SharedOK, ClientInv, PicturesWhole, Sound
  <2>3. NoEmptyFrame
    BY DEF IndInv, SharedOK, NoEmptyFrame, U!NoEmptyFrame
  <2> QED
    BY <2>1, <2>2, <2>3 DEF PicturesRight
<1> QED
    BY <1>1, Invariance, PTL

\* The worker of the Raspberry Pi's camera never sends NULL to the encoder and loses no
\* buffer until something fails, the picture is freed after the last callback, the device
\* of a camera on USB is not used while it is closed but in the cases that CrashesKnown
\* names, and no thread ends with the mutex (input_raspicam.c:966, input_uvc.c), for any
\* number of buffers, commands and failures.
THEOREM MemoryKeptHolds == Spec => []MemoryKept
<1>1. IndInv => MemoryKept
  <2> SUFFICES ASSUME IndInv
               PROVE  MemoryKept
    OBVIOUS
  <2>1. ASSUME camera = "raspicam"
        PROVE  /\ R!TypeOK /\ R!NoNull /\ R!BuffersKept /\ R!FreedLast
               /\ U!TypeOK /\ U!BuffersKept /\ U!EndsUnlocked
    <3>1. R!IndInv /\ U!Init /\ SharedOK
      BY <2>1 DEF IndInv, OtherIdle
    <3>2. R!NoNull /\ R!BuffersKept /\ R!FreedLast
      BY <3>1 DEF R!IndInv, R!BufferInv, R!QueueInv, R!FreedLast, R!WorkerInv, R!LiveInv
    <3>3. pool \in 0..NBuffers /\ out \in 0..NBuffers
      BY <3>1, InCallbackFacts, CamerasAssumption DEF R!IndInv, R!BufferInv
    <3>4. sem \in 0..MaxFail + 1
      BY <3>1, CamerasAssumption DEF R!IndInv, R!FlagsOK, R!SemInv, R!Count, SharedOK
    <3>5. /\ offset \in 0..Parts /\ part \in 0..Parts
          /\ cb.pc \in {"none", "given", "copied", "release", "resend", "post"}
      BY <3>1, CamerasAssumption DEF R!IndInv, R!CallbackInv
    <3>6. R!TypeOK
      BY <3>1, <3>3, <3>4, <3>5 DEF R!IndInv, R!QueueInv, R!LiveInv, R!TypeOK
    <3>7. U!BuffersKept /\ U!EndsUnlocked
      BY <3>1 DEF U!Init, U!BuffersKept, U!EndsUnlocked
    <3>8. held \in BOOLEAN /\ mapped \in BOOLEAN /\ streaming \in BOOLEAN
      BY <3>1 DEF U!Init
    <3>9. U!TypeOK
      BY <3>1, <3>8, CamerasAssumption DEF U!Init, U!TypeOK, U!Res
    <3> QED
      BY <3>2, <3>6, <3>7, <3>9
  <2>2. ASSUME camera = "uvc"
        PROVE  /\ U!TypeOK /\ U!CrashesKnown /\ U!BuffersKept /\ U!EndsUnlocked
               /\ R!TypeOK /\ R!FreedLast
    <3>1. U!IndInv /\ R!Init
      BY <2>2 DEF IndInv, OtherIdle
    <3>2. U!CrashesKnown /\ U!BuffersKept /\ U!EndsUnlocked
      BY <3>1 DEF U!IndInv, U!DriverInv, U!PictureInv, U!EndsUnlocked
    <3>3. U!TypeOK
      BY <3>1 DEF U!IndInv, U!ValuesOK, U!FlagsOK, U!TypeOK
    <3>4. R!TypeOK /\ R!FreedLast
      BY <3>1, CamerasAssumption DEF R!Init, R!TypeOK, R!FreedLast, R!Idle
    <3> QED
      BY <3>2, <3>3, <3>4
  <2>3. camera \in {"raspicam", "uvc"}
    BY DEF IndInv, SharedOK
  <2>4. TypeOK
    BY <2>1, <2>2, <2>3 DEF TypeOK, IndInv, SharedOK
  <2> QED
    BY <2>1, <2>2, <2>3, <2>4 DEF MemoryKept, NoNull, BuffersKept, FreedLast, CrashesKnown,
       DriverBuffersKept, EndsUnlocked
<1> QED
    BY <1>1, Invariance, PTL

=============================================================================
