--------------------------- MODULE StreamerProofs ---------------------------
(***************************************************************************)
(* Proofs about Streamer, for any set of clients, any number of camera     *)
(* buffers and any number of SIGINTs.                                      *)
(***************************************************************************)
EXTENDS Streamer, TLAPS

\* The initial state: nothing is loaded and no thread runs.
LEMMA InitIndInv == Init => IndInv
<1> SUFFICES ASSUME Init PROVE IndInv
    OBVIOUS
<1> USE StreamerAssumption
    DEF Init, IndInv, TypeOK, FlagsOK, BuffersEverywhere, SwitchEverywhere,
        SwitchedOnlyIfDifferent,
        StartOrder, MutexHeld, CopiesFresh, PicturesRight, NoEmptyPicture, PicturesWhole,
        Frames, Kinds, MainPlaces, WorkerPlaces, ClientPlaces, frameVars, mainVars,
        cameraVars, clientVars, Running
<1>1. TypeOK
    <2>1. FlagsOK
        OBVIOUS
    <2> QED
        BY <2>1
<1>2. BuffersEverywhere
    OBVIOUS
<1>3. SwitchEverywhere
    OBVIOUS
<1>4. SwitchedOnlyIfDifferent
    OBVIOUS
<1>5. StartOrder
    OBVIOUS
<1>6. MutexHeld
    OBVIOUS
<1>7. CopiesFresh
    OBVIOUS
<1>8. PicturesRight
    OBVIOUS
<1> QED
    BY <1>1, <1>2, <1>3, <1>4, <1>5, <1>6, <1>7, <1>8

\* The end of the process, at whatever place, resets what the invariant is about.
LEMMA EndIndInv ==
    ASSUME IndInv, NEW how \in {"exited", "crashed"}, End(how)
    PROVE  IndInv'
<1> USE StreamerAssumption
    DEF End, IndInv, TypeOK, FlagsOK, BuffersEverywhere, SwitchEverywhere,
        SwitchedOnlyIfDifferent,
        StartOrder, MutexHeld, CopiesFresh, PicturesRight, NoEmptyPicture, PicturesWhole,
        Frames, Kinds, MainPlaces, WorkerPlaces, ClientPlaces, frameVars, mainVars,
        cameraVars, clientVars, Running
<1>1. TypeOK'
    <2>1. FlagsOK'
        OBVIOUS
    <2> QED
        BY <2>1
<1>2. BuffersEverywhere'
    OBVIOUS
<1>3. SwitchEverywhere'
    OBVIOUS
<1>4. SwitchedOnlyIfDifferent'
    OBVIOUS
<1>5. StartOrder'
    OBVIOUS
<1>6. MutexHeld'
    OBVIOUS
<1>7. CopiesFresh'
    OBVIOUS
<1>8. PicturesRight'
    OBVIOUS
<1> QED
    BY <1>1, <1>2, <1>3, <1>4, <1>5, <1>6, <1>7, <1>8

\* The steps of main().
LEMMA MainStep ==
    ASSUME IndInv, Main
    PROVE  IndInv'
<1> USE StreamerAssumption
    DEF IndInv, TypeOK, FlagsOK, BuffersEverywhere, SwitchEverywhere,
        SwitchedOnlyIfDifferent,
        StartOrder, MutexHeld, CopiesFresh, PicturesRight, NoEmptyPicture, PicturesWhole,
        Frames, Kinds, MainPlaces, WorkerPlaces, ClientPlaces, frameVars, mainVars,
        cameraVars, clientVars, Running
<1>1. CASE LoadInput \/ initCamera \/ ApplySettings \/ LoadOutput \/ output_init \/
    output_run
    BY <1>1 DEF LoadInput, initCamera, ApplySettings, LoadOutput, output_init,
        output_run, Start, MainAt
<1>2. CASE input_init
    BY <1>2 DEF input_init, MainAt
<1>3. CASE input_run
    BY <1>3 DEF input_run, MainAt
<1> QED
    BY <1>1, <1>2, <1>3, EndIndInv DEF Main

\* The steps of the camera thread.
LEMMA WorkerStep ==
    ASSUME IndInv, worker_thread
    PROVE  IndInv'
<1> USE StreamerAssumption
    DEF IndInv, TypeOK, FlagsOK, BuffersEverywhere, SwitchEverywhere,
        SwitchedOnlyIfDifferent,
        StartOrder, MutexHeld, CopiesFresh, PicturesRight, NoEmptyPicture, PicturesWhole,
        Frames, Kinds, MainPlaces, WorkerPlaces, ClientPlaces, frameVars, mainVars,
        cameraVars, clientVars, Running
<1>1. CASE startCamera("start", "loop", FALSE)
    <2>1. TypeOK'
        <3>1. FlagsOK'
            BY <1>1 DEF startCamera, WorkerAt
        <3> QED
            BY <1>1, <3>1 DEF startCamera, WorkerAt
    <2>2. BuffersEverywhere'
        BY <1>1 DEF startCamera, WorkerAt
    <2>3. SwitchEverywhere'
        BY <1>1 DEF startCamera, WorkerAt
    <2>4. SwitchedOnlyIfDifferent'
        BY <1>1 DEF startCamera, WorkerAt
    <2>5. StartOrder'
        BY <1>1 DEF startCamera, WorkerAt
    <2>6. MutexHeld'
        BY <1>1 DEF startCamera, WorkerAt
    <2>7. CopiesFresh'
        BY <1>1 DEF startCamera, WorkerAt
    <2>8. PicturesRight'
        BY <1>1 DEF startCamera, WorkerAt
    <2> QED
        BY <2>1, <2>2, <2>3, <2>4, <2>5, <2>6, <2>7, <2>8
<1>2. CASE LoopTest
    <2>1. TypeOK'
        <3>1. FlagsOK'
            BY <1>2 DEF LoopTest, WorkerAt
        <3> QED
            BY <1>2, <3>1 DEF LoopTest, WorkerAt
    <2>2. BuffersEverywhere'
        BY <1>2 DEF LoopTest, WorkerAt
    <2>3. SwitchEverywhere'
        BY <1>2 DEF LoopTest, WorkerAt
    <2>4. SwitchedOnlyIfDifferent'
        BY <1>2 DEF LoopTest, WorkerAt
    <2>5. StartOrder'
        BY <1>2 DEF LoopTest, WorkerAt
    <2>6. MutexHeld'
        BY <1>2 DEF LoopTest, WorkerAt
    <2>7. CopiesFresh'
        BY <1>2 DEF LoopTest, WorkerAt
    <2>8. PicturesRight'
        BY <1>2 DEF LoopTest, WorkerAt
    <2> QED
        BY <2>1, <2>2, <2>3, <2>4, <2>5, <2>6, <2>7, <2>8
<1>3. CASE readFrame
    BY <1>3 DEF readFrame, WorkerAt
<1>4. CASE LockBuffer
    BY <1>4 DEF LockBuffer, WorkerAt, LockDb
<1>5. CASE WritePicture
    BY <1>5 DEF WritePicture, WorkerAt, TearCopies, Publish
<1>6. CASE returnFrameBuffer
    BY <1>6 DEF returnFrameBuffer, WorkerAt
<1>7. CASE stopCamera("s_stop", "s_start")
    BY <1>7 DEF stopCamera, WorkerAt
<1>8. CASE startCamera("s_start", "s_realloc", TRUE)
    BY <1>8 DEF startCamera, WorkerAt
<1>9. CASE switch_resolution("s_realloc", "read")
    BY <1>9, ZenonT(40) DEF switch_resolution, WorkerAt, TearCopies
<1>10. CASE stopCamera("b_stop", "b_start")
    BY <1>10 DEF stopCamera, WorkerAt
<1>11. CASE startCamera("b_start", "b_realloc", FALSE)
    <2>1. TypeOK'
        <3>1. FlagsOK'
            BY <1>11 DEF startCamera, WorkerAt
        <3> QED
            BY <1>11, <3>1 DEF startCamera, WorkerAt
    <2>2. BuffersEverywhere'
        BY <1>11 DEF startCamera, WorkerAt
    <2>3. SwitchEverywhere'
        BY <1>11 DEF startCamera, WorkerAt
    <2>4. SwitchedOnlyIfDifferent'
        BY <1>11 DEF startCamera, WorkerAt
    <2>5. StartOrder'
        BY <1>11 DEF startCamera, WorkerAt
    <2>6. MutexHeld'
        BY <1>11 DEF startCamera, WorkerAt
    <2>7. CopiesFresh'
        BY <1>11 DEF startCamera, WorkerAt
    <2>8. PicturesRight'
        BY <1>11 DEF startCamera, WorkerAt
    <2> QED
        BY <2>1, <2>2, <2>3, <2>4, <2>5, <2>6, <2>7, <2>8
<1>12. CASE switch_resolution("b_realloc", "loop")
    BY <1>12 DEF switch_resolution, WorkerAt, TearCopies
<1>13. CASE stopCamera("close", "cleanup")
    BY <1>13 DEF stopCamera, WorkerAt
<1>14. CASE worker_cleanup
    BY <1>14 DEF worker_cleanup, WorkerAt
<1> QED
    BY <1>1, <1>2, <1>3, <1>4, <1>5, <1>6, <1>7, <1>8, <1>9, <1>10, <1>11, <1>12, <1>13,
        <1>14, EndIndInv DEF worker_thread, ToSnapshot, BackToStream, WriteFreed

\* The steps of a client thread.
LEMMA ClientIndStep ==
    ASSUME IndInv, NEW c \in Client,
           Step(c) \/ NoMemory(c) \/ WriteFails(c) \/ \E k \in Kinds : Request(c, k)
    PROVE  IndInv'
<1> USE StreamerAssumption
    DEF IndInv, TypeOK, FlagsOK, BuffersEverywhere, SwitchEverywhere,
        SwitchedOnlyIfDifferent,
        StartOrder, MutexHeld, CopiesFresh, PicturesRight, NoEmptyPicture, PicturesWhole,
        Frames, Kinds, MainPlaces, WorkerPlaces, ClientPlaces, frameVars, mainVars,
        cameraVars, clientVars, Running
<1>1. CASE AskSnapshot(c)
    BY <1>1 DEF AskSnapshot, ClientStep
<1>2. CASE StreamHead(c)
    BY <1>2 DEF StreamHead, ClientStep
<1>3. CASE WaitPicture(c)
    BY <1>3 DEF WaitPicture, ClientStep, WaitFresh
<1>4. CASE Woken(c)
    BY <1>4 DEF Woken, ClientStep, WakeUp, LockDb
<1>5. CASE Copied(c)
    BY <1>5 DEF Copied, ClientStep, UnlockDb
<1>6. CASE Sent(c)
    BY <1>6 DEF Sent, ClientStep
<1>7. CASE NoMemory(c)
    BY <1>7 DEF NoMemory, ClientStep
<1>8. CASE WriteFails(c)
    BY <1>8 DEF WriteFails, ClientStep
<1>9. CASE \E k \in Kinds : Request(c, k)
    BY <1>9 DEF Request
<1> QED
    BY <1>1, <1>2, <1>3, <1>4, <1>5, <1>6, <1>7, <1>8, <1>9, EndIndInv DEF Step

\* One step per action outside main(), the camera thread and the clients.
LEMMA StepIndInv == IndInv /\ [Next]_vars => IndInv'
<1> SUFFICES ASSUME IndInv, [Next]_vars PROVE IndInv'
    OBVIOUS
<1> USE StreamerAssumption
    DEF IndInv, TypeOK, FlagsOK, BuffersEverywhere, SwitchEverywhere,
        SwitchedOnlyIfDifferent,
        StartOrder, MutexHeld, CopiesFresh, PicturesRight, NoEmptyPicture, PicturesWhole,
        Frames, Kinds, MainPlaces, WorkerPlaces, ClientPlaces, frameVars, mainVars,
        cameraVars, clientVars, Running
<1>1. CASE Interrupt
    BY <1>1 DEF Interrupt
<1>2. CASE input_stop
    BY <1>2 DEF input_stop, TearCopies
<1>3. CASE requestComplete
    BY <1>3 DEF requestComplete
<1>4. CASE PluginFails \/ CameraFails \/ HandlerCrashes \/ HandlerExits \/ DestroyedInUse
    BY <1>4, EndIndInv DEF PluginFails, CameraFails, HandlerCrashes, HandlerExits, DestroyedInUse
<1>5. CASE output_stop
    BY <1>5 DEF output_stop
<1>6. CASE UNCHANGED vars
    BY <1>6 DEF vars
<1> QED
    BY <1>1, <1>2, <1>3, <1>4, <1>5, <1>6, MainStep, WorkerStep, ClientIndStep
    DEF Next, signal_handler

\* The inductive invariant holds in every reachable state.
THEOREM Invariance == Spec => []IndInv
<1> QED
    BY InitIndInv, StepIndInv, PTL DEF Spec

\* A picture that is sent is one whole picture, whatever the clients and the camera
\* do (send_snapshot, send_stream): a torn one needs a change of resolution or a
\* shutdown, and the memory of a buffer without a picture is never sent.
THEOREM PicturesRightHolds == Spec => []PicturesRight
<1>1. IndInv => PicturesRight
    BY DEF IndInv
<1> QED
    BY <1>1, Invariance, PTL

\* No camera buffer is lost over any number of snapshots and restarts, and is_switch
\* tells the configuration they belong to (switch_resolution()).
THEOREM CameraKeptHolds == Spec => []CameraKept
<1>1. IndInv => CameraKept
    BY DEF IndInv, CameraKept, BuffersEverywhere, BuffersKept, SwitchEverywhere,
        SwitchKnown
<1> QED
    BY <1>1, Invariance, PTL

=============================================================================
