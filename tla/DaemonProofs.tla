---------------------------- MODULE DaemonProofs ----------------------------
(***************************************************************************)
(* Proofs about the daemon (alarm4pi.c):                                   *)
(*   - the log files, the router and the name server (Daemon), for any     *)
(*     number of runs, signals and events, any size of the files and of    *)
(*     the array, and any set of addresses;                                *)
(*   - the child processes (Supervisor), for any set of PIDs and any       *)
(*     number of signals, failing forks and retries.                       *)
(* IndInv of module Daemon and SupervisorInv of Supervisor are inductive.  *)
(***************************************************************************)
EXTENDS Daemon, Supervisor, SequenceTheorems, FiniteSetTheorems, TLAPS

-----------------------------------------------------------------------------
(* The calls of msg_printf() of a thread.                                   *)

\* The innermost call of a thread that has one.
LEMMA TopFrame ==
    ASSUME FramesOK, NEW t \in Threads, ~Idle(t)
    PROVE  /\ Len(frames[t]) \in Nat \ {0}
           /\ Top(t) \in Frame
<1>1. frames[t] \in Seq(Frame) /\ frames[t] # <<>>
    BY DEF FramesOK, Idle
<1>2. Len(frames[t]) \in Nat \ {0}
    BY <1>1, EmptySeq
<1>3. frames[t][Len(frames[t])] \in Frame
    BY <1>1, <1>2, ElementOfSeq
<1> QED
    BY <1>2, <1>3 DEF Top

\* A thread begins a message: its stack is one call deeper.
LEMMA PushFrame ==
    ASSUME FramesOK, NEW t \in Threads, NEW frame \in Frame, Push(t, frame)
    PROVE  /\ frames' \in [Threads -> Seq(Frame)]
           /\ \A u \in Threads :
                Len(frames'[u]) = IF u = t THEN Len(frames[u]) + 1 ELSE Len(frames[u])
<1>1. frames \in [Threads -> Seq(Frame)]
    BY DEF FramesOK
<1>2. Append(frames[t], frame) \in Seq(Frame) /\ Len(Append(frames[t], frame)) = Len(frames[t]) + 1
    BY <1>1, AppendProperties
<1> QED
    BY <1>1, <1>2 DEF Push

\* The innermost call gets on: the stack is as deep as before.
LEMMA SetPhaseFrame ==
    ASSUME FramesOK, NEW t \in Threads, ~Idle(t), NEW ph \in Phases, SetPhase(t, ph)
    PROVE  /\ frames' \in [Threads -> Seq(Frame)]
           /\ \A u \in Threads : Len(frames'[u]) = Len(frames[u])
<1>1. frames \in [Threads -> Seq(Frame)]
    BY DEF FramesOK
<1> DEFINE n == Len(frames[t])
           e == [frames[t][n] EXCEPT !.ph = ph]
<1>2. n \in Nat \ {0} /\ frames[t][n] \in Frame
    BY TopFrame DEF Top
<1>3. e \in Frame
    BY <1>2 DEF Frame
<1>4. n \in 1..Len(frames[t])
    BY <1>2
<1> HIDE DEF e
<1>5. [frames[t] EXCEPT ![n] = e] \in Seq(Frame) /\ Len([frames[t] EXCEPT ![n] = e]) = Len(frames[t])
    BY <1>1, <1>3, <1>4, ExceptSeq
<1>6. frames' = [frames EXCEPT ![t] = [frames[t] EXCEPT ![n] = e]]
    BY DEF SetPhase, e
<1> HIDE DEF n
<1> QED
    BY <1>1, <1>5, <1>6

\* The innermost call returns.
LEMMA PopFrame ==
    ASSUME FramesOK, NEW t \in Threads, ~Idle(t), Pop(t)
    PROVE  /\ frames' \in [Threads -> Seq(Frame)]
           /\ \A u \in Threads : Len(frames'[u]) <= Len(frames[u])
<1>1. frames \in [Threads -> Seq(Frame)] /\ \A u \in Threads : Len(frames[u]) \in Nat
    BY LenProperties DEF FramesOK
<1> DEFINE n == Len(frames[t])
           s == SubSeq(frames[t], 1, n - 1)
<1>2. n \in Nat \ {0}
    BY TopFrame
<1>3. \A i \in 1..(n - 1) : frames[t][i] \in Frame
    BY <1>1, <1>2, ElementOfSeq
<1>4. s \in Seq(Frame) /\ Len(s) = IF 1 <= n - 1 THEN n - 1 - 1 + 1 ELSE 0
    BY <1>2, <1>3, SubSeqProperties
<1>5. frames' = [frames EXCEPT ![t] = s]
    BY DEF Pop
<1>6. Len(s) <= n
    BY <1>2, <1>4
<1> HIDE DEF s
<1> QED
    BY <1>1, <1>4, <1>5, <1>6

\* A message of a thread that has none begun.
LEMMA Says ==
    ASSUME FramesOK, DepthInv, NEW t \in Threads, NEW f \in Files, Idle(t), msg_printf(t, f),
           sigs' = sigs, owner' = owner
    PROVE  FramesOK' /\ DepthInv'
<1> DEFINE frame == [who |-> "code", file |-> f, ph |-> "want"]
<1>1. frame \in Frame
    BY DEF Frame, Phases
<1>2. Len(frames[t]) = 0 /\ sigs \in Nat /\ misused \subseteq {"code", "handler"}
    BY EmptySeq, DaemonAssumption DEF Idle, FramesOK
<1>3. misused' \subseteq {"code", "handler"}
    BY <1>2 DEF msg_printf
<1>4. CASE UNCHANGED frames
    BY <1>3, <1>4 DEF FramesOK, DepthInv
<1>5. CASE Push(t, frame)
    <2>1. /\ frames' \in [Threads -> Seq(Frame)]
          /\ \A u \in Threads :
                Len(frames'[u]) = IF u = t THEN Len(frames[u]) + 1 ELSE Len(frames[u])
        BY <1>1, <1>5, PushFrame
    <2>2. FramesOK' /\ DepthInv'
        <3>1. DepthInv'
            BY <1>2, <2>1 DEF DepthInv
        <3>2. \A u \in Threads : Len(frames'[u]) \in Nat
            BY <2>1, LenProperties
        <3> QED
            BY <1>2, <1>3, <2>1, <3>1, <3>2, DaemonAssumption DEF DepthInv, FramesOK
    <2> QED
        BY <2>2
<1> QED
    BY <1>4, <1>5 DEF msg_printf
\* A signal interrupts a thread.
LEMMA Interrupts ==
    ASSUME FramesOK, DepthInv, NEW t \in Threads, Signal(t)
    PROVE  FramesOK' /\ DepthInv'
<1> DEFINE frame == [who |-> "handler", file |-> "log",
                     ph |-> IF handle["log"] \in {"append", "write"} THEN "want" ELSE "kill"]
<1>1. frame \in Frame
    BY DEF Frame, Phases, Files
<1>2. Push(t, frame) /\ sigs \in 0..MaxSignals /\ sigs' = sigs + 1 /\ sigs' \in 0..MaxSignals
    BY DaemonAssumption DEF Signal, FramesOK
<1> HIDE DEF frame
<1>3. /\ frames' \in [Threads -> Seq(Frame)]
      /\ \A u \in Threads :
            Len(frames'[u]) = IF u = t THEN Len(frames[u]) + 1 ELSE Len(frames[u])
    BY <1>1, <1>2, PushFrame
<1>4. \A u \in Threads : Len(frames[u]) \in Nat
    BY LenProperties DEF FramesOK
<1>5. \A u \in Threads : Len(frames'[u]) <= sigs' + 1
    BY <1>2, <1>3, <1>4 DEF DepthInv
<1>6. \A u \in Threads : Len(frames'[u]) <= MaxSignals + 1
    BY <1>2, <1>3, <1>4, <1>5, DaemonAssumption
<1>7. misused' \subseteq {"code", "handler"} /\ owner' \in Threads \cup {Nobody}
    BY DEF Signal, FramesOK
<1> QED
    BY <1>2, <1>3, <1>5, <1>6, <1>7 DEF FramesOK, DepthInv

\* A step that leaves the calls alone.
LEMMA SameFrames ==
    ASSUME FramesOK, DepthInv, UNCHANGED <<owner, frames, misused, sigs>>
    PROVE  FramesOK' /\ DepthInv'
    BY DEF FramesOK, DepthInv


\* The calls of each thread are as deep as its signals allow, through every step.
LEMMA FramesStep ==
    ASSUME IndInv, Next
    PROVE  FramesOK' /\ DepthInv'
<1> USE DaemonAssumption DEF IndInv, TypeOK, Threads, Files
<1>1. CASE OpenMsgFile("log", "open", "cut", "open_event")
    BY <1>1, SameFrames DEF OpenMsgFile, logVars, thrVars, cntVars, Quiet
<1>2. CASE CutMsgFile("log", "cut", "open_event")
    BY <1>2, SameFrames DEF CutMsgFile, logVars, thrVars, cntVars, Quiet
<1>3. CASE OpenMsgFile("event", "open_event", "cut_event", "handlers")
    BY <1>3, SameFrames DEF OpenMsgFile, logVars, thrVars, cntVars, Quiet
<1>4. CASE CutMsgFile("event", "cut_event", "handlers")
    BY <1>4, SameFrames DEF CutMsgFile, logVars, thrVars, cntVars, Quiet
<1>5. CASE init_UPNP
    BY <1>5, Says DEF init_UPNP, MainAt, Quiet, cntVars
<1>6. CASE add_UPNP_mapping
    BY <1>6, Says DEF add_UPNP_mapping, MainAt, Quiet, cntVars
<1>7. CASE delete_UPNP_mapping
    BY <1>7, Says, SameFrames DEF delete_UPNP_mapping, MainAt, Quiet, cntVars
<1>8. CASE TunnelingRead
    BY <1>8, Says DEF TunnelingRead, MainAt, Quiet, cntVars
<1>9. CASE wait_polling_end
    BY <1>9, Says DEF wait_polling_end, MainAt, Quiet, cntVars
<1>10. CASE WaitChildren
    BY <1>10, Says DEF WaitChildren, MainAt, Quiet, cntVars
<1>11. CASE ChildrenEnded
    BY <1>11, Says DEF ChildrenEnded, MainAt, Quiet, cntVars
<1>12. CASE init_polling
    BY <1>12, Says DEF init_polling, MainAt, Quiet, cntVars
<1>13. CASE set_signal_handler
    BY <1>13, SameFrames DEF set_signal_handler, logVars, thrVars, cntVars, Quiet
<1>14. CASE terminate_UPNP
    BY <1>14, SameFrames DEF terminate_UPNP, logVars, thrVars, cntVars, Quiet
<1>15. CASE deinit_polling
    BY <1>15, SameFrames DEF deinit_polling, logVars, thrVars, cntVars, Quiet
<1>16. CASE EndOfOutput
    BY <1>16, SameFrames DEF EndOfOutput, logVars, thrVars, cntVars, Quiet
<1>17. CASE NoOutput
    BY <1>17, SameFrames DEF NoOutput, AfterRound, Quiet, cntVars
<1>18. CASE StartWebServer
    BY <1>18, SameFrames DEF StartWebServer, logVars, thrVars, cntVars, Quiet
<1>19. CASE StartTunneling
    BY <1>19, SameFrames DEF StartTunneling, logVars, thrVars, cntVars, Quiet
<1>20. CASE \E n \in 1..ArrayLen : ReadOutput(n)
    BY <1>20, SameFrames DEF ReadOutput, AfterRound, Quiet, cntVars
<1>21. CASE \E a \in Answers : get_public_ip(a)
    BY <1>21, Says DEF get_public_ip, MainAt, Quiet, cntVars
<1>22. CASE close_log_file("event", "close_event", "close")
    BY <1>22, SameFrames DEF close_log_file, logVars, thrVars, cntVars, Quiet
<1>23. CASE close_log_file("log", "close", "end")
    BY <1>23, SameFrames DEF close_log_file, logVars, thrVars, cntVars, Quiet
<1>24. CASE Return
    BY <1>24, EmptySeq DEF Return, Off, FramesOK, DepthInv
<1>25. CASE Crash
    BY <1>25, EmptySeq DEF Crash, Off, FramesOK, DepthInv
<1>26. CASE Restart
    BY <1>26, SameFrames DEF Restart, logVars, thrVars, cntVars, Quiet
<1>27. CASE PollingStalls \/ PollingEnds
    BY <1>27, SameFrames DEF PollingStalls, PollingEnds, logVars, thrVars, cntVars, Quiet
<1>28. CASE \E f \in Files : PollingMessage(f)
    BY <1>28, Says DEF PollingMessage
<1>29. CASE \E t \in Threads : LockTime(t)
    BY <1>29, SetPhaseFrame DEF LockTime, InPhase, FramesOK, DepthInv, Phases, cntVars, logVars
<1>30. CASE \E t \in Threads : UnlockTime(t)
    BY <1>30, SetPhaseFrame DEF UnlockTime, InPhase, FramesOK, DepthInv, Phases, cntVars, logVars
<1>31. CASE \E t \in Threads : Write(t)
    BY <1>31, PopFrame, SetPhaseFrame DEF Write, InPhase, FramesOK, DepthInv, Phases, cntVars
<1>32. CASE \E t \in Threads : HandlerEnds(t)
    BY <1>32, PopFrame DEF HandlerEnds, InPhase, FramesOK, DepthInv, logVars, cntVars
<1>33. CASE \E t \in Threads : Signal(t)
    BY <1>33, Interrupts
<1> QED
    BY <1>1, <1>2, <1>3, <1>4, <1>5, <1>6, <1>7, <1>8, <1>9, <1>10, <1>11, <1>12,
       <1>13, <1>14, <1>15, <1>16, <1>17, <1>18, <1>19, <1>20, <1>21, <1>22, <1>23,
       <1>24, <1>25, <1>26, <1>27, <1>28, <1>29, <1>30, <1>31, <1>32, <1>33 DEF
       Next, Main, Message, open_log_files, close_log_files

-----------------------------------------------------------------------------
(* The files.                                                               *)

\* A message is written, with what the buffer held.
LEMMA WriteLog ==
    ASSUME FilesOK, FramesOK, LogInv, NEW t \in Threads, Write(t)
    PROVE  LogInv' /\ FilesOK'
<1> USE DaemonAssumption DEF FilesOK, Files, Size
<1>1. PICK f \in Files : f = Top(t).file
    BY TopFrame DEF Write, InPhase, Frame
<1>2. /\ disk' = [disk EXCEPT ![f] = Plus(@, buf[f] + 1)] /\ buf' = [buf EXCEPT ![f] = 0]
      /\ said' = [said EXCEPT ![f] = Plus(@, 1)] /\ UNCHANGED <<pc, handle, torn>>
    BY <1>1 DEF Write
<1> QED
    BY <1>2 DEF LogInv, Plus, Least

\* A crash with a buffer that is not empty cuts the file, any other leaves it as it is.
LEMMA CrashLog ==
    ASSUME FilesOK, LogInv, Crash
    PROVE  LogInv' /\ FilesOK'
<1> USE DaemonAssumption DEF FilesOK, Files, Size
<1>1. /\ pc' = "off" /\ UNCHANGED <<disk, said>> /\ torn' = torn \cup {f \in Files : buf[f] > 0}
      /\ buf' = [f \in Files |-> 0] /\ handle' = [f \in Files |-> "null"]
    BY DEF Crash, Off
<1>2. \A f \in Files : f \notin torn' => buf[f] = 0 /\ f \notin torn
    BY <1>1
<1>3. \A f \in Files : f \notin torn' => disk[f] >= Least(said[f], MaxPrev)
    BY <1>2 DEF LogInv
<1>4. torn' \subseteq Files
    BY <1>1
<1>5. /\ pc' = "off" /\ UNCHANGED <<disk, said>>
      /\ buf' = [f \in Files |-> 0] /\ handle' = [f \in Files |-> "null"]
    BY <1>1
<1> QED
    BY <1>3, <1>4, <1>5 DEF LogInv


\* The messages on the disk and in the buffers, through every step.
LEMMA LogStep ==
    ASSUME IndInv, Next
    PROVE  LogInv' /\ FilesOK'
<1> USE DaemonAssumption DEF IndInv, TypeOK, FilesOK, Files, Size
<1>1. CASE OpenMsgFile("log", "open", "cut", "open_event")
    BY <1>1 DEF OpenMsgFile, LogInv, OrderInv, Follow, MainAt, Plus, Least
<1>2. CASE CutMsgFile("log", "cut", "open_event")
    BY <1>2 DEF CutMsgFile, LogInv, OrderInv, Follow, MainAt, Plus, Least
<1>3. CASE OpenMsgFile("event", "open_event", "cut_event", "handlers")
    BY <1>3 DEF OpenMsgFile, LogInv, OrderInv, Follow, MainAt, Plus, Least
<1>4. CASE CutMsgFile("event", "cut_event", "handlers")
    BY <1>4 DEF CutMsgFile, LogInv, OrderInv, Follow, MainAt, Plus, Least
<1>5. CASE init_UPNP
    BY <1>5 DEF init_UPNP, LogInv, logVars, Follow, MainAt
<1>6. CASE add_UPNP_mapping
    BY <1>6 DEF add_UPNP_mapping, LogInv, logVars, Follow, MainAt
<1>7. CASE delete_UPNP_mapping
    BY <1>7 DEF delete_UPNP_mapping, LogInv, logVars, Follow, MainAt
<1>8. CASE TunnelingRead
    BY <1>8 DEF TunnelingRead, LogInv, logVars, Follow, MainAt
<1>9. CASE wait_polling_end
    BY <1>9 DEF wait_polling_end, LogInv, logVars, Follow, MainAt
<1>10. CASE WaitChildren
    BY <1>10 DEF WaitChildren, LogInv, logVars, Follow, MainAt
<1>11. CASE ChildrenEnded
    BY <1>11 DEF ChildrenEnded, LogInv, logVars, Follow, MainAt
<1>12. CASE init_polling
    BY <1>12 DEF init_polling, LogInv, logVars, Follow, MainAt
<1>13. CASE set_signal_handler
    BY <1>13 DEF set_signal_handler, LogInv, logVars, Follow, MainAt
<1>14. CASE terminate_UPNP
    BY <1>14 DEF terminate_UPNP, LogInv, logVars, Follow, MainAt
<1>15. CASE deinit_polling
    BY <1>15 DEF deinit_polling, LogInv, logVars, Follow, MainAt
<1>16. CASE EndOfOutput
    BY <1>16 DEF EndOfOutput, LogInv, logVars, Follow, MainAt
<1>17. CASE NoOutput
    BY <1>17 DEF NoOutput, AfterRound, LogInv, logVars, Follow, MainAt
<1>18. CASE StartWebServer
    BY <1>18 DEF StartWebServer, Flush, LogInv, Follow, MainAt, Plus, Least
<1>19. CASE StartTunneling
    BY <1>19 DEF StartTunneling, Flush, LogInv, Follow, MainAt, Plus, Least
<1>20. CASE \E n \in 1..ArrayLen : ReadOutput(n)
    BY <1>20 DEF ReadOutput, AfterRound, LogInv, logVars, Follow, MainAt
<1>21. CASE \E a \in Answers : get_public_ip(a)
    BY <1>21 DEF get_public_ip, LogInv, logVars, Follow, MainAt
<1>22. CASE close_log_file("event", "close_event", "close")
    BY <1>22 DEF close_log_file, LogInv, OrderInv, Follow, MainAt, Plus, Least
<1>23. CASE close_log_file("log", "close", "end")
    BY <1>23 DEF close_log_file, LogInv, OrderInv, Follow, MainAt, Plus, Least
<1>24. CASE Return
    BY <1>24 DEF Return, Off, MainAt, LogInv
<1>25. CASE Crash
    BY <1>25, CrashLog
<1>26. CASE Restart
    BY <1>26 DEF Restart, LogInv, logVars, Follow, MainAt
<1>27. CASE PollingStalls \/ PollingEnds
    BY <1>27 DEF PollingStalls, PollingEnds, LogInv, logVars, Follow, MainAt
<1>28. CASE \E f \in Files : PollingMessage(f)
    BY <1>28 DEF PollingMessage, LogInv, logVars, Follow, MainAt
<1>29. CASE \E t \in Threads : LockTime(t)
    BY <1>29 DEF LockTime, LogInv, logVars, Follow, MainAt
<1>30. CASE \E t \in Threads : UnlockTime(t)
    BY <1>30 DEF UnlockTime, LogInv, logVars, Follow, MainAt
<1>31. CASE \E t \in Threads : Write(t)
    BY <1>31, WriteLog
<1>32. CASE \E t \in Threads : HandlerEnds(t)
    BY <1>32 DEF HandlerEnds, LogInv, logVars, Follow, MainAt
<1>33. CASE \E t \in Threads : Signal(t)
    BY <1>33 DEF Signal, LogInv, logVars, Follow, MainAt
<1> QED
    BY <1>1, <1>2, <1>3, <1>4, <1>5, <1>6, <1>7, <1>8, <1>9, <1>10, <1>11, <1>12,
       <1>13, <1>14, <1>15, <1>16, <1>17, <1>18, <1>19, <1>20, <1>21, <1>22, <1>23,
       <1>24, <1>25, <1>26, <1>27, <1>28, <1>29, <1>30, <1>31, <1>32, <1>33 DEF
       Next, Main, Message, open_log_files, close_log_files

-----------------------------------------------------------------------------
(* The order of the end, the router and the address.                        *)


\* The files are closed only when nobody is left to write in them.
LEMMA OrderStep ==
    ASSUME IndInv, Next
    PROVE  OrderInv'
<1> USE DEF IndInv, TypeOK, OrderInv, ClosedLast, Files
<1>1. CASE OpenMsgFile("log", "open", "cut", "open_event")
    BY <1>1 DEF OpenMsgFile, FilesOK, Follow, MainAt, Quiet
<1>2. CASE CutMsgFile("log", "cut", "open_event")
    BY <1>2 DEF CutMsgFile, FilesOK, Follow, MainAt, Quiet
<1>3. CASE OpenMsgFile("event", "open_event", "cut_event", "handlers")
    BY <1>3 DEF OpenMsgFile, FilesOK, Follow, MainAt, Quiet
<1>4. CASE CutMsgFile("event", "cut_event", "handlers")
    BY <1>4 DEF CutMsgFile, FilesOK, Follow, MainAt, Quiet
<1>5. CASE init_UPNP
    BY <1>5 DEF init_UPNP, msg_printf, Follow, MainAt, Quiet
<1>6. CASE add_UPNP_mapping
    BY <1>6 DEF add_UPNP_mapping, msg_printf, Follow, MainAt, Quiet
<1>7. CASE delete_UPNP_mapping
    BY <1>7 DEF delete_UPNP_mapping, msg_printf, Follow, MainAt, Quiet
<1>8. CASE TunnelingRead
    BY <1>8 DEF TunnelingRead, msg_printf, Follow, MainAt, Quiet
<1>9. CASE wait_polling_end
    BY <1>9 DEF wait_polling_end, msg_printf, Follow, MainAt, Quiet
<1>10. CASE WaitChildren
    BY <1>10 DEF WaitChildren, msg_printf, Follow, MainAt, Quiet
<1>11. CASE ChildrenEnded
    BY <1>11 DEF ChildrenEnded, msg_printf, Follow, MainAt, Quiet
<1>12. CASE init_polling
    BY <1>12 DEF init_polling, msg_printf, Follow, MainAt, Quiet
<1>13. CASE set_signal_handler
    BY <1>13 DEF set_signal_handler, logVars, Follow, MainAt, Quiet
<1>14. CASE terminate_UPNP
    BY <1>14 DEF terminate_UPNP, logVars, Follow, MainAt, Quiet
<1>15. CASE deinit_polling
    BY <1>15 DEF deinit_polling, logVars, Follow, MainAt, Quiet
<1>16. CASE EndOfOutput
    BY <1>16 DEF EndOfOutput, logVars, Follow, MainAt, Quiet
<1>17. CASE NoOutput
    BY <1>17 DEF NoOutput, AfterRound, Follow, MainAt, Quiet
<1>18. CASE StartWebServer
    BY <1>18 DEF StartWebServer, logVars, Follow, MainAt, Quiet
<1>19. CASE StartTunneling
    BY <1>19 DEF StartTunneling, logVars, Follow, MainAt, Quiet
<1>20. CASE \E n \in 1..ArrayLen : ReadOutput(n)
    BY <1>20 DEF ReadOutput, AfterRound, Follow, MainAt, Quiet
<1>21. CASE \E a \in Answers : get_public_ip(a)
    BY <1>21 DEF get_public_ip, msg_printf, Follow, MainAt, Quiet
<1>22. CASE close_log_file("event", "close_event", "close")
    BY <1>22 DEF close_log_file, logVars, Follow, MainAt, Quiet
<1>23. CASE close_log_file("log", "close", "end")
    BY <1>23 DEF close_log_file, logVars, Follow, MainAt, Quiet
<1>24. CASE Return
    BY <1>24 DEF Return, Off
<1>25. CASE Crash
    BY <1>25 DEF Crash, Off
<1>26. CASE Restart
    BY <1>26 DEF Restart, logVars, Follow, MainAt, Quiet
<1>27. CASE PollingStalls \/ PollingEnds
    BY <1>27 DEF PollingStalls, PollingEnds, logVars, Follow, MainAt, Quiet
<1>28. CASE \E f \in Files : PollingMessage(f)
    BY <1>28 DEF PollingMessage, msg_printf, Follow, MainAt, Quiet
<1>29. CASE \E t \in Threads : LockTime(t)
    BY <1>29 DEF LockTime, logVars, Follow, MainAt, Quiet
<1>30. CASE \E t \in Threads : UnlockTime(t)
    BY <1>30 DEF UnlockTime, logVars, Follow, MainAt, Quiet
<1>31. CASE \E t \in Threads : Write(t)
    BY <1>31 DEF Write, logVars, Follow, MainAt, Quiet
<1>32. CASE \E t \in Threads : HandlerEnds(t)
    BY <1>32 DEF HandlerEnds, logVars, Follow, MainAt, Quiet
<1>33. CASE \E t \in Threads : Signal(t)
    BY <1>33 DEF Signal, logVars, Follow, MainAt, Quiet
<1> QED
    BY <1>1, <1>2, <1>3, <1>4, <1>5, <1>6, <1>7, <1>8, <1>9, <1>10, <1>11, <1>12,
       <1>13, <1>14, <1>15, <1>16, <1>17, <1>18, <1>19, <1>20, <1>21, <1>22, <1>23,
       <1>24, <1>25, <1>26, <1>27, <1>28, <1>29, <1>30, <1>31, <1>32, <1>33 DEF
       Next, Main, Message, open_log_files, close_log_files

\* A mapping is deleted by the run that found the router, unless that is refused.
LEMMA PortStep ==
    ASSUME IndInv, Next
    PROVE  PortInv' /\ FlagsOK'
<1> USE DEF IndInv, PortInv, TypeOK, FlagsOK, upnpVars, Quiet
<1>1. CASE OpenMsgFile("log", "open", "cut", "open_event")
    BY <1>1 DEF OpenMsgFile, Follow, MainAt
<1>2. CASE CutMsgFile("log", "cut", "open_event")
    BY <1>2 DEF CutMsgFile, Follow, MainAt
<1>3. CASE OpenMsgFile("event", "open_event", "cut_event", "handlers")
    BY <1>3 DEF OpenMsgFile, Follow, MainAt
<1>4. CASE CutMsgFile("event", "cut_event", "handlers")
    BY <1>4 DEF CutMsgFile, Follow, MainAt
<1>5. CASE init_UPNP
    BY <1>5 DEF init_UPNP, Follow, MainAt
<1>6. CASE add_UPNP_mapping
    BY <1>6 DEF add_UPNP_mapping, Follow, MainAt
<1>7. CASE delete_UPNP_mapping
    <2>1. CASE mapped' = FALSE /\ UNCHANGED <<lan, refused, exit>>
        BY <2>1
    <2>2. CASE refused' = TRUE /\ UNCHANGED <<mapped, lan, exit>>
        BY <2>2
    <2>3. CASE ~lan /\ UNCHANGED <<mapped, lan, refused, exit>>
        BY <2>3
    <2> QED
        BY <1>7, <2>1, <2>2, <2>3 DEF delete_UPNP_mapping
<1>8. CASE TunnelingRead
    BY <1>8 DEF TunnelingRead, Follow, MainAt
<1>9. CASE wait_polling_end
    BY <1>9 DEF wait_polling_end, Follow, MainAt
<1>10. CASE WaitChildren
    BY <1>10 DEF WaitChildren, Follow, MainAt
<1>11. CASE ChildrenEnded
    BY <1>11 DEF ChildrenEnded, Follow, MainAt
<1>12. CASE init_polling
    BY <1>12 DEF init_polling, Follow, MainAt
<1>13. CASE set_signal_handler
    BY <1>13 DEF set_signal_handler, Follow, MainAt
<1>14. CASE terminate_UPNP
    BY <1>14 DEF terminate_UPNP, Follow, MainAt
<1>15. CASE deinit_polling
    BY <1>15 DEF deinit_polling, Follow, MainAt
<1>16. CASE EndOfOutput
    BY <1>16 DEF EndOfOutput, Follow, MainAt
<1>17. CASE NoOutput
    BY <1>17 DEF NoOutput, AfterRound, Follow, MainAt
<1>18. CASE StartWebServer
    BY <1>18 DEF StartWebServer, Follow, MainAt
<1>19. CASE StartTunneling
    BY <1>19 DEF StartTunneling, Follow, MainAt
<1>20. CASE \E n \in 1..ArrayLen : ReadOutput(n)
    BY <1>20 DEF ReadOutput, AfterRound, Follow, MainAt
<1>21. CASE \E a \in Answers : get_public_ip(a)
    BY <1>21 DEF get_public_ip, Follow, MainAt
<1>22. CASE close_log_file("event", "close_event", "close")
    BY <1>22 DEF close_log_file, Follow, MainAt
<1>23. CASE close_log_file("log", "close", "end")
    BY <1>23 DEF close_log_file, Follow, MainAt
<1>24. CASE Return
    BY <1>24 DEF Return, Off, MainAt
<1>25. CASE Crash
    BY <1>25 DEF Crash, Off, MainAt
<1>26. CASE Restart
    BY <1>26 DEF Restart, Follow, MainAt
<1>27. CASE PollingStalls \/ PollingEnds
    BY <1>27 DEF PollingStalls, PollingEnds, Follow, MainAt
<1>28. CASE \E f \in Files : PollingMessage(f)
    BY <1>28 DEF PollingMessage, Follow, MainAt
<1>29. CASE \E t \in Threads : LockTime(t)
    BY <1>29 DEF LockTime, Follow, MainAt
<1>30. CASE \E t \in Threads : UnlockTime(t)
    BY <1>30 DEF UnlockTime, Follow, MainAt
<1>31. CASE \E t \in Threads : Write(t)
    BY <1>31 DEF Write, Follow, MainAt
<1>32. CASE \E t \in Threads : HandlerEnds(t)
    BY <1>32 DEF HandlerEnds, Follow, MainAt
<1>33. CASE \E t \in Threads : Signal(t)
    BY <1>33 DEF Signal, Follow, MainAt
<1> QED
    BY <1>1, <1>2, <1>3, <1>4, <1>5, <1>6, <1>7, <1>8, <1>9, <1>10, <1>11, <1>12,
       <1>13, <1>14, <1>15, <1>16, <1>17, <1>18, <1>19, <1>20, <1>21, <1>22, <1>23,
       <1>24, <1>25, <1>26, <1>27, <1>28, <1>29, <1>30, <1>31, <1>32, <1>33 DEF
       Next, Main, Message, open_log_files, close_log_files

\* The address is that of the only record of the answer.
LEMMA PublicIpRight ==
    ASSUME NEW a \in Answers
    PROVE  /\ PublicIp(a) \in Address \cup {0}
           /\ PublicIp(a) # 0 => a.reply = "ok" /\ a.records = <<[type |-> "A", addr |-> PublicIp(a)]>>
           /\ PublicIp(a) = 0 /\ a.reply = "ok" =>
                \/ Len(a.records) # 1 \/ a.records[1].type # "A"
    BY DaemonAssumption DEF PublicIp, Answers


\* Only an address that was answered is announced.
LEMMA AddressStep ==
    ASSUME IndInv, Next
    PROVE  AddressKnown'
<1> USE DEF IndInv, AddressKnown
<1>1. CASE OpenMsgFile("log", "open", "cut", "open_event")
    BY <1>1 DEF OpenMsgFile, ipVars
<1>2. CASE CutMsgFile("log", "cut", "open_event")
    BY <1>2 DEF CutMsgFile, ipVars
<1>3. CASE OpenMsgFile("event", "open_event", "cut_event", "handlers")
    BY <1>3 DEF OpenMsgFile, ipVars
<1>4. CASE CutMsgFile("event", "cut_event", "handlers")
    BY <1>4 DEF CutMsgFile, ipVars
<1>5. CASE init_UPNP
    BY <1>5 DEF init_UPNP, ipVars
<1>6. CASE add_UPNP_mapping
    BY <1>6 DEF add_UPNP_mapping, ipVars
<1>7. CASE delete_UPNP_mapping
    BY <1>7 DEF delete_UPNP_mapping, ipVars
<1>8. CASE TunnelingRead
    BY <1>8 DEF TunnelingRead, ipVars
<1>9. CASE wait_polling_end
    BY <1>9 DEF wait_polling_end, ipVars
<1>10. CASE WaitChildren
    BY <1>10 DEF WaitChildren, ipVars
<1>11. CASE ChildrenEnded
    BY <1>11 DEF ChildrenEnded, ipVars
<1>12. CASE init_polling
    BY <1>12 DEF init_polling, NoAnswer
<1>13. CASE set_signal_handler
    BY <1>13 DEF set_signal_handler, ipVars
<1>14. CASE terminate_UPNP
    BY <1>14 DEF terminate_UPNP, ipVars
<1>15. CASE deinit_polling
    BY <1>15 DEF deinit_polling, ipVars
<1>16. CASE EndOfOutput
    BY <1>16 DEF EndOfOutput, ipVars
<1>17. CASE NoOutput
    BY <1>17 DEF NoOutput, ipVars
<1>18. CASE StartWebServer
    BY <1>18 DEF StartWebServer, ipVars
<1>19. CASE StartTunneling
    BY <1>19 DEF StartTunneling, ipVars
<1>20. CASE \E n \in 1..ArrayLen : ReadOutput(n)
    BY <1>20 DEF ReadOutput, ipVars
<1>21. CASE \E a \in Answers : get_public_ip(a)
    BY <1>21, PublicIpRight DEF get_public_ip
<1>22. CASE close_log_file("event", "close_event", "close")
    BY <1>22 DEF close_log_file, ipVars
<1>23. CASE close_log_file("log", "close", "end")
    BY <1>23 DEF close_log_file, ipVars
<1>24. CASE Return
    BY <1>24 DEF Return, Off, NoAnswer
<1>25. CASE Crash
    BY <1>25 DEF Crash, Off, NoAnswer
<1>26. CASE Restart
    BY <1>26 DEF Restart, ipVars
<1>27. CASE PollingStalls \/ PollingEnds
    BY <1>27 DEF PollingStalls, PollingEnds, ipVars
<1>28. CASE \E f \in Files : PollingMessage(f)
    BY <1>28 DEF PollingMessage, ipVars
<1>29. CASE \E t \in Threads : LockTime(t)
    BY <1>29 DEF LockTime, ipVars
<1>30. CASE \E t \in Threads : UnlockTime(t)
    BY <1>30 DEF UnlockTime, ipVars
<1>31. CASE \E t \in Threads : Write(t)
    BY <1>31 DEF Write, ipVars
<1>32. CASE \E t \in Threads : HandlerEnds(t)
    BY <1>32 DEF HandlerEnds, ipVars
<1>33. CASE \E t \in Threads : Signal(t)
    BY <1>33 DEF Signal, ipVars
<1> QED
    BY <1>1, <1>2, <1>3, <1>4, <1>5, <1>6, <1>7, <1>8, <1>9, <1>10, <1>11, <1>12,
       <1>13, <1>14, <1>15, <1>16, <1>17, <1>18, <1>19, <1>20, <1>21, <1>22, <1>23,
       <1>24, <1>25, <1>26, <1>27, <1>28, <1>29, <1>30, <1>31, <1>32, <1>33 DEF
       Next, Main, Message, open_log_files, close_log_files

\* The places of main(), what it reads and what it knows keep their types.
LEMMA PlacesStep ==
    ASSUME IndInv, Next
    PROVE  PlacesOK'
<1> USE DaemonAssumption DEF IndInv, TypeOK, PlacesOK, Places, Quiet, readVars, ipVars, cntVars
<1>1. CASE OpenMsgFile("log", "open", "cut", "open_event")
    BY <1>1 DEF OpenMsgFile, Follow, MainAt
<1>2. CASE CutMsgFile("log", "cut", "open_event")
    BY <1>2 DEF CutMsgFile, Follow, MainAt
<1>3. CASE OpenMsgFile("event", "open_event", "cut_event", "handlers")
    BY <1>3 DEF OpenMsgFile, Follow, MainAt
<1>4. CASE CutMsgFile("event", "cut_event", "handlers")
    BY <1>4 DEF CutMsgFile, Follow, MainAt
<1>5. CASE init_UPNP
    BY <1>5 DEF init_UPNP, Follow, MainAt
<1>6. CASE add_UPNP_mapping
    BY <1>6 DEF add_UPNP_mapping, Follow, MainAt
<1>7. CASE delete_UPNP_mapping
    BY <1>7 DEF delete_UPNP_mapping, Follow, MainAt
<1>8. CASE TunnelingRead
    BY <1>8 DEF TunnelingRead, Follow, MainAt
<1>9. CASE wait_polling_end
    BY <1>9 DEF wait_polling_end, Follow, MainAt
<1>10. CASE WaitChildren
    BY <1>10 DEF WaitChildren, Follow, MainAt
<1>11. CASE ChildrenEnded
    BY <1>11 DEF ChildrenEnded, Follow, MainAt
<1>12. CASE init_polling
    BY <1>12 DEF init_polling, NoAnswer, Answers, Follow
<1>13. CASE set_signal_handler
    BY <1>13 DEF set_signal_handler, Follow, MainAt
<1>14. CASE terminate_UPNP
    BY <1>14 DEF terminate_UPNP, Follow, MainAt
<1>15. CASE deinit_polling
    BY <1>15 DEF deinit_polling, Follow, MainAt
<1>16. CASE EndOfOutput
    BY <1>16 DEF EndOfOutput, Follow, MainAt
<1>17. CASE NoOutput
    BY <1>17 DEF NoOutput, AfterRound, Follow, MainAt
<1>18. CASE StartWebServer
    BY <1>18 DEF StartWebServer, Follow, MainAt
<1>19. CASE StartTunneling
    BY <1>19 DEF StartTunneling, Follow, MainAt
<1>20. CASE \E n \in 1..ArrayLen : ReadOutput(n)
    BY <1>20 DEF ReadOutput, AfterRound, Follow, MainAt
<1>21. CASE \E a \in Answers : get_public_ip(a)
    BY <1>21, PublicIpRight DEF get_public_ip, MainAt, Follow
<1>22. CASE close_log_file("event", "close_event", "close")
    BY <1>22 DEF close_log_file, Follow, MainAt
<1>23. CASE close_log_file("log", "close", "end")
    BY <1>23 DEF close_log_file, Follow, MainAt
<1>24. CASE Return
    BY <1>24 DEF Return, Off, NoAnswer, Answers
<1>25. CASE Crash
    BY <1>25 DEF Crash, Off, NoAnswer, Answers
<1>26. CASE Restart
    BY <1>26 DEF Restart, Follow, MainAt
<1>27. CASE PollingStalls \/ PollingEnds
    BY <1>27 DEF PollingStalls, PollingEnds, Follow, MainAt
<1>28. CASE \E f \in Files : PollingMessage(f)
    BY <1>28 DEF PollingMessage, Follow, MainAt
<1>29. CASE \E t \in Threads : LockTime(t)
    BY <1>29 DEF LockTime, Follow, MainAt
<1>30. CASE \E t \in Threads : UnlockTime(t)
    BY <1>30 DEF UnlockTime, Follow, MainAt
<1>31. CASE \E t \in Threads : Write(t)
    BY <1>31 DEF Write, Follow, MainAt
<1>32. CASE \E t \in Threads : HandlerEnds(t)
    BY <1>32 DEF HandlerEnds, Follow, MainAt
<1>33. CASE \E t \in Threads : Signal(t)
    BY <1>33 DEF Signal, Follow, MainAt
<1> QED
    BY <1>1, <1>2, <1>3, <1>4, <1>5, <1>6, <1>7, <1>8, <1>9, <1>10, <1>11, <1>12,
       <1>13, <1>14, <1>15, <1>16, <1>17, <1>18, <1>19, <1>20, <1>21, <1>22, <1>23,
       <1>24, <1>25, <1>26, <1>27, <1>28, <1>29, <1>30, <1>31, <1>32, <1>33 DEF
       Next, Main, Message, open_log_files, close_log_files

-----------------------------------------------------------------------------
(* The theorems.                                                            *)

\* The first run.
LEMMA InitIndInv == Init => IndInv
<1> SUFFICES ASSUME Init PROVE IndInv
    OBVIOUS
<1> USE DaemonAssumption DEF Init
<1>1. FlagsOK
    BY DEF FlagsOK
<1>2. FilesOK
    BY DEF FilesOK, Size, Files
<1>3. FramesOK /\ DepthInv
    BY EmptySeq DEF FramesOK, DepthInv
<1>4. PlacesOK
    BY DEF PlacesOK, Places, NoAnswer, Answers
<1>5. LogInv
    BY DEF LogInv, Size, Least, Files
<1>6. OrderInv /\ PortInv /\ AddressKnown
    BY DEF OrderInv, ClosedLast, PortInv, AddressKnown, NoAnswer, Files
<1> QED
    BY <1>1, <1>2, <1>3, <1>4, <1>5, <1>6 DEF IndInv, TypeOK

\* A step that changes nothing.
LEMMA StutterStep ==
    ASSUME IndInv, UNCHANGED vars
    PROVE  IndInv'
<1> USE DEF vars, logVars, thrVars, upnpVars, readVars, ipVars, cntVars, IndInv, TypeOK
<1>1. FlagsOK'
    BY DEF FlagsOK
<1>2. FilesOK' /\ LogInv'
    BY DEF FilesOK, LogInv
<1>3. FramesOK' /\ DepthInv'
    BY DEF FramesOK, DepthInv
<1>4. PlacesOK' /\ AddressKnown'
    BY DEF PlacesOK, AddressKnown
<1>5. OrderInv' /\ PortInv'
    BY DEF OrderInv, ClosedLast, PortInv
<1> QED
    BY <1>1, <1>2, <1>3, <1>4, <1>5

\* In every state that the daemon and the router reach, over all runs and crashes:
\* a file's buffer and disk hold its last messages together, the files are closed last,
\* a mapping has somebody who deletes it, and the address is one that was answered.
THEOREM Invariance == Spec => []IndInv
<1>1. Init => IndInv
    BY InitIndInv
<1>2. IndInv /\ [Next]_vars => IndInv'
    <2> SUFFICES ASSUME IndInv, [Next]_vars PROVE IndInv'
        OBVIOUS
    <2>1. CASE Next
        BY <2>1, LogStep, FramesStep, OrderStep, PortStep, AddressStep, PlacesStep
           DEF IndInv, TypeOK
    <2>2. CASE UNCHANGED vars
        BY <2>2, StutterStep
    <2> QED
        BY <2>1, <2>2
<1> QED
    BY <1>1, <1>2, PTL DEF Spec

\* The log files keep their last MaxPrev messages outside the time of the shortening,
\* whatever is killed (log_msgs.c); no thread writes in a closed file; the address
\* that is announced is that of the name server's only record (public_ip.c).
THEOREM TracesRightHolds == Spec => []TracesRight
<1>1. IndInv => TracesRight
    BY DEF IndInv, TracesRight, LogKept, LogInv, OrderInv
<1> QED
    BY <1>1, Invariance, PTL

\* Between two runs the router maps the port only if the last run did not find it, was
\* refused the deletion or was killed (port_mapping.c).
THEOREM PortClosedHolds == Spec => []PortClosed
<1>1. IndInv => PortClosed
    BY DEF IndInv, PortClosed, PortInv
<1> QED
    BY <1>1, Invariance, PTL

-----------------------------------------------------------------------------
(* The child processes.                                                     *)

\* The Boolean variables, apart: the provers treat them apart.
TypeBool ==
    /\ exitFlag \in BOOLEAN /\ sigterm \in BOOLEAN
    /\ blocked \in BOOLEAN /\ sigchld \in BOOLEAN /\ stray \in BOOLEAN

TypeRest ==
    /\ mpc \in MainPlaces
    /\ ids \in [Slots -> Pids \union {NoPid}]
    /\ num \in 0..1
    /\ newpid \in Pids \union {NoPid}
    /\ ind \in 1..2
    /\ nrun \in 0..1
    /\ reaped \in Pids \union {NoPid}
    /\ retries \in 0..MaxRetries
    /\ thread \in {"none", "run", "stalled", "ended"}
    /\ hnd \in {"none", "kill", "flag", "stuck"}
    /\ kind \in [Pids -> {"none", "web", "tunnel"}]
    /\ st \in [Pids -> States]
    /\ copy \in [Pids -> [Slots -> Pids \union {NoPid, Group}]]
    /\ pend \subseteq Pids
    /\ nsig \in 0..MaxStops /\ nerr \in 0..MaxForkErrors
    /\ restarts \in Nat

\* The type invariant in two parts, for the two provers.
LEMMA TypeParts == SupervisorTypes <=> TypeRest /\ TypeBool
  BY DEF SupervisorTypes, TypeRest, TypeBool

\* Every step keeps the Boolean variables Boolean.
LEMMA BoolInv == TypeBool /\ [SupervisorNext]_supervisorVars => TypeBool'
<1> SUFFICES ASSUME TypeBool, [SupervisorNext]_supervisorVars PROVE TypeBool'
  OBVIOUS
<1> USE DEF TypeBool, mainVars, sigVars, procVars, histVars
<1>1. CASE MainStep
  BY <1>1 DEF MainStep, ForkWebServer, RecordWebServer, ForkTunneling, InitPolling,
     WaitPollingEnd, wait_child_processes, Finish, BlockSigchld,
     update_child_processes_state, Waitpid, MarkDead, ReapDone, LoopTest,
     SigchldReceived, SigwaitTimeout, exec_exited_child_processes, RestartSlot,
     StoreRestarted, SkipSlot, RestartsDone
<1>2. CASE exit_deamon_handler
  BY <1>2 DEF exit_deamon_handler, HandlerStarts, HandlerKills, HandlerSetsFlag,
     kill_processes, Kill
<1>3. CASE PollingThreadStalls \/ PollingThreadEnds
  BY <1>3 DEF PollingThreadStalls, PollingThreadEnds
<1>4. ASSUME NEW p \in Pids, ChildStep(p) PROVE TypeBool'
  BY <1>4 DEF ChildStep, ChildEnds, ChildStoresZero, ChildExecs,
     ChildHandlesTerm, kill_processes, Kill
<1>5. CASE SignalDaemon \/ StopService
  BY <1>5 DEF SignalDaemon, StopService
<1>6. CASE UNCHANGED supervisorVars
  BY <1>6 DEF supervisorVars
<1> QED
  BY <1>1, <1>2, <1>3, <1>4, <1>5, <1>6 DEF SupervisorNext, Terminated

\* The initial state satisfies the inductive invariant.
LEMMA InitInv == SupervisorInit => SupervisorInv
<1> SUFFICES ASSUME SupervisorInit PROVE SupervisorInv
  OBVIOUS
<1> USE PidsAssumption, BoundsAssumption DEF SupervisorInit, NoCopy, Slots
<1>1. TypeBool
  BY DEF TypeBool
<1>2. TypeRest
  BY DEF TypeRest, MainPlaces, States
<1>3. TableInv /\ SlotInv /\ PidsOwned
  BY DEF TableInv, SlotInv, PidsOwned
<1>4. WakeInv
  BY DEF WakeInv
<1>5. RetryInv /\ RetryBudget
  BY DEF RetryInv, RetryBudget
<1> QED
  BY <1>1, <1>2, <1>3, <1>4, <1>5, TypeParts DEF SupervisorInv

\* What the steps that leave main()'s variables alone may do to the processes:
\* a child changes state without becoming or ceasing to be one, and if it ends
\* while SIGCHLD is blocked the signal becomes pending.
OutsideStep ==
    /\ UNCHANGED <<ids, num, newpid, ind, nrun, reaped, retries, kind, blocked,
                   restarts>>
    /\ mpc' = mpc \/ (mpc = "sigwait" /\ mpc' = "loop")
    /\ \A p \in Pids : st'[p] = "gone" <=> st[p] = "gone"
    /\ \A p \in Pids : st'[p] = "zombie" => st[p] = "zombie" \/ ~blocked \/ sigchld'
    /\ sigchld => sigchld'

\* A step outside the daemon keeps the invariant.
LEMMA OutsideInv ==
    SupervisorInv /\ SupervisorTypes' /\ OutsideStep => SupervisorInv'
<1> SUFFICES ASSUME SupervisorInv, SupervisorTypes', OutsideStep PROVE SupervisorInv'
  OBVIOUS
<1>1. TableInv' /\ SlotInv' /\ PidsOwned'
  BY DEF SupervisorInv, TableInv, SlotInv, PidsOwned, OutsideStep
<1>2. WakeInv'
  BY DEF SupervisorInv, WakeInv, OutsideStep
<1>3. RetryInv' /\ RetryBudget'
  BY DEF SupervisorInv, RetryInv, RetryBudget, OutsideStep
<1> QED
  BY <1>1, <1>2, <1>3 DEF SupervisorInv

\* The handler, the polling thread, the children and the senders of signals
\* take steps of that kind.
LEMMA StepsOutside ==
    ASSUME SupervisorTypes,
           \/ exit_deamon_handler \/ PollingThreadStalls \/ PollingThreadEnds
           \/ \E p \in Pids : ChildStep(p)
           \/ SignalDaemon \/ StopService \/ UNCHANGED supervisorVars
    PROVE  OutsideStep /\ TypeRest'
<1> USE PidsAssumption, BoundsAssumption, TypeParts
        DEF TypeRest, OutsideStep, mainVars, sigVars, procVars, histVars
<1>1. CASE exit_deamon_handler
  BY <1>1 DEF exit_deamon_handler, HandlerStarts, HandlerKills, HandlerSetsFlag,
     kill_processes, Kill, MainPlaces
<1>2. CASE PollingThreadStalls \/ PollingThreadEnds
  BY <1>2 DEF PollingThreadStalls, PollingThreadEnds
<1>3. ASSUME NEW p \in Pids, ChildStep(p) PROVE OutsideStep /\ TypeRest'
  <2>1. CASE ChildEnds(p)
    BY <2>1 DEF ChildEnds, Alive, States, NoCopy
  <2>2. CASE ChildStoresZero(p)
    BY <2>2 DEF ChildStoresZero, States, Slots
  <2>3. CASE ChildExecs(p)
    BY <2>3 DEF ChildExecs, States, NoCopy
  <2>4. CASE ChildHandlesTerm(p)
    BY <2>4 DEF ChildHandlesTerm, kill_processes, Kill
  <2> QED
    BY <1>3, <2>1, <2>2, <2>3, <2>4 DEF ChildStep
<1>4. CASE SignalDaemon
  BY <1>4 DEF SignalDaemon
<1>5. CASE StopService
  BY <1>5 DEF StopService
<1>6. CASE UNCHANGED supervisorVars
  BY <1>6 DEF supervisorVars
<1> QED
  BY <1>1, <1>2, <1>3, <1>4, <1>5, <1>6

\* The while loop of wait_child_processes() ends only when the slot is empty.
LEMMA LoopExit ==
    ASSUME SupervisorTypes, SlotInv, ~Waiting PROVE ids[1] = NoPid
<1> SUFFICES ASSUME ids[1] # NoPid PROVE FALSE
  OBVIOUS
<1>1. num = 1
  BY TypeParts DEF SlotInv, TypeRest
<1>2. {i \in 1..num : ids[i] # NoPid} = {1}
  BY <1>1
<1>3. count_running_child_processes = 1
  BY <1>2, FS_Singleton DEF count_running_child_processes
<1> QED
  BY <1>3 DEF Waiting

\* What the inductive invariant says besides the types of the Boolean variables.
RestInv ==
    /\ TypeRest /\ TableInv /\ SlotInv /\ PidsOwned
    /\ WakeInv /\ RetryInv /\ RetryBudget

\* A step of main() preserves it.
LEMMA MainInv == SupervisorInv /\ MainStep => RestInv'
<1> SUFFICES ASSUME SupervisorInv, MainStep PROVE RestInv'
  OBVIOUS
<1> USE PidsAssumption, BoundsAssumption, TypeParts
        DEF SupervisorInv, RestInv, TypeRest, TableInv, SlotInv, PidsOwned, WakeInv,
            RetryInv, RetryBudget, mainVars, sigVars, procVars, histVars,
            MainPlaces, States, Slots
<1>1. CASE ForkWebServer
  BY <1>1 DEF ForkWebServer, ForkChild, ForkError
<1>2. CASE RecordWebServer
  BY <1>2 DEF RecordWebServer
<1>3. CASE ForkTunneling
  BY <1>3 DEF ForkTunneling, ForkChild, ForkError
<1>4. CASE InitPolling
  BY <1>4 DEF InitPolling
<1>5. CASE WaitPollingEnd
  BY <1>5 DEF WaitPollingEnd
<1>6. CASE BlockSigchld
  BY <1>6 DEF BlockSigchld
<1>7. ASSUME NEW p \in Pids, Waitpid(p) PROVE RestInv'
  BY <1>7 DEF Waitpid
<1>8. CASE MarkDead
  BY <1>8 DEF MarkDead
<1>9. CASE ReapDone
  BY <1>9 DEF ReapDone
<1>10. CASE LoopTest
  <2>1. CASE Waiting
    BY <1>10, <2>1 DEF LoopTest
  <2>2. CASE ~Waiting
    <3>1. ids[1] = NoPid
      BY <2>2, LoopExit
    <3> QED
      BY <1>10, <2>2, <3>1 DEF LoopTest
  <2> QED
    BY <2>1, <2>2
<1>11. CASE SigchldReceived
  BY <1>11 DEF SigchldReceived
<1>12. CASE SigwaitTimeout
  BY <1>12 DEF SigwaitTimeout
<1>13. CASE RestartSlot
  BY <1>13 DEF RestartSlot, ForkChild, ForkError
<1>14. CASE StoreRestarted
  BY <1>14 DEF StoreRestarted
<1>15. CASE SkipSlot
  BY <1>15 DEF SkipSlot
<1>16. CASE RestartsDone
  BY <1>16 DEF RestartsDone
<1>17. CASE Finish
  BY <1>17 DEF Finish
<1> QED
  BY <1>1, <1>2, <1>3, <1>4, <1>5, <1>6, <1>7, <1>8, <1>9,
     <1>10, <1>11, <1>12, <1>13, <1>14, <1>15, <1>16, <1>17
     DEF MainStep, wait_child_processes, update_child_processes_state,
     exec_exited_child_processes

\* The inductive invariant holds in every behaviour of the daemon.
THEOREM SupervisorInvariant == SupervisorSpec => []SupervisorInv
<1>1. SupervisorInv /\ [SupervisorNext]_supervisorVars => SupervisorInv'
  <2> SUFFICES ASSUME SupervisorInv, [SupervisorNext]_supervisorVars PROVE SupervisorInv'
    OBVIOUS
  <2>1. SupervisorTypes
    BY DEF SupervisorInv
  <2>2. TypeBool'
    BY <2>1, BoolInv, TypeParts
  <2>3. CASE MainStep
    BY <2>2, <2>3, MainInv, TypeParts DEF SupervisorInv, RestInv, SupervisorTypes, TypeRest, TypeBool
  <2>4. CASE ~MainStep
    <3>1. OutsideStep /\ TypeRest'
      BY <2>1, <2>4, StepsOutside DEF SupervisorNext, Terminated
    <3>2. SupervisorTypes'
      BY <2>2, <3>1 DEF SupervisorTypes, TypeRest, TypeBool
    <3> QED
      BY <3>1, <3>2, OutsideInv
  <2> QED
    BY <2>3, <2>4
<1> QED
  BY <1>1, InitInv, PTL DEF SupervisorSpec

\* Every variable keeps its type: the array index, the retry counter and the
\* PIDs stay in range.
THEOREM TypeCorrect == SupervisorSpec => []SupervisorTypes
<1>1. SupervisorInv => SupervisorTypes
  BY DEF SupervisorInv
<1> QED
  BY <1>1, SupervisorInvariant, PTL

\* The handler finds only PIDs of unreaped children in the array, but for the
\* one being marked dead.
THEOREM PidsOwnedHolds == SupervisorSpec => []PidsOwned
<1>1. SupervisorInv => PidsOwned
  BY DEF SupervisorInv
<1> QED
  BY <1>1, SupervisorInvariant, PTL

\* There are never two web servers.
THEOREM OneWebServerHolds == SupervisorSpec => []OneWebServer
<1>1. SupervisorInv => OneWebServer
  <2> SUFFICES ASSUME SupervisorInv, NEW p \in Pids, NEW q \in Pids,
                      kind[p] = "web", kind[q] = "web"
               PROVE  p = q
    BY DEF OneWebServer
  <2>1. (p = ids[1] \/ p = newpid) /\ (q = ids[1] \/ q = newpid)
    BY DEF SupervisorInv, SlotInv
  <2>2. ids[1] \in Pids => newpid = NoPid
    BY PidsAssumption DEF SupervisorInv, SlotInv
  <2> QED
    BY <2>1, <2>2, PidsAssumption
<1> QED
  BY <1>1, SupervisorInvariant, PTL

\* No exit of a child goes unnoticed while main() sleeps in sigtimedwait().
THEOREM NoLostWakeupHolds == SupervisorSpec => []NoLostWakeup
<1>1. SupervisorInv => NoLostWakeup
  BY DEF SupervisorInv, WakeInv, NoLostWakeup
<1> QED
  BY <1>1, SupervisorInvariant, PTL

\* The daemon never ends and leaves a web server behind.
THEOREM NothingLeftBehindHolds == SupervisorSpec => []NothingLeftBehind
<1>1. SupervisorInv => NothingLeftBehind
  BY PidsAssumption DEF SupervisorInv, SlotInv, NothingLeftBehind
<1> QED
  BY <1>1, SupervisorInvariant, PTL

\* Restarts made and retries left add up to the number of retries allowed.
THEOREM RetryBudgetHolds == SupervisorSpec => []RetryBudget
<1>1. SupervisorInv => RetryBudget
  BY DEF SupervisorInv
<1> QED
  BY <1>1, SupervisorInvariant, PTL

\* Only the handlers of the daemon and of a child that is not past execvp send a
\* signal; the daemon's finds a PID that is not its child's only in the window.
LEMMA StrayStep ==
    ASSUME SupervisorInv, [SupervisorNext]_supervisorVars, stray', ~stray
    PROVE  mpc = "mark" \/ \E p \in Pids : st[p] \in {"new", "pre"}
<1> USE DEF mainVars, sigVars, procVars, histVars
<1>1. CASE MainStep
  BY <1>1 DEF MainStep, ForkWebServer, RecordWebServer, ForkTunneling, InitPolling,
     WaitPollingEnd, wait_child_processes, Finish, BlockSigchld,
     update_child_processes_state, Waitpid, MarkDead, ReapDone, LoopTest,
     SigchldReceived, SigwaitTimeout, exec_exited_child_processes, RestartSlot,
     StoreRestarted, SkipSlot, RestartsDone
<1>2. CASE HandlerKills
  <2>1. PICK i \in Slots : ids[i] \in Pids /\ kind[ids[i]] = "none"
    BY <1>2, PidsAssumption DEF HandlerKills, kill_processes, Kill, SupervisorInv, SupervisorTypes
  <2>2. ids[i] # NoPid
    BY <2>1, PidsAssumption
  <2> QED
    BY <2>1, <2>2 DEF SupervisorInv, PidsOwned
<1>3. CASE HandlerStarts \/ HandlerSetsFlag
  BY <1>3 DEF HandlerStarts, HandlerSetsFlag
<1>4. CASE PollingThreadStalls \/ PollingThreadEnds
  BY <1>4 DEF PollingThreadStalls, PollingThreadEnds
<1>5. ASSUME NEW p \in Pids, ChildStep(p) PROVE st[p] \in {"new", "pre"}
  BY <1>5 DEF ChildStep, ChildEnds, ChildStoresZero, ChildExecs, ChildHandlesTerm
<1>6. CASE SignalDaemon \/ StopService
  BY <1>6 DEF SignalDaemon, StopService
<1>7. CASE UNCHANGED supervisorVars
  BY <1>7 DEF supervisorVars
<1> QED
  BY <1>1, <1>2, <1>3, <1>4, <1>5, <1>6, <1>7 DEF SupervisorNext, Terminated, exit_deamon_handler

\* A stranger gets a SIGTERM only between waitpid() and the store of -1, or from a
\* child before its execvp: the handler is safe everywhere else in main().
THEOREM StrayOnlyInWindowHolds == SupervisorSpec => StrayOnlyInWindow
<1>1. SupervisorInv /\ [SupervisorNext]_supervisorVars =>
        [(stray' /\ ~stray) => \/ mpc = "mark"
                               \/ \E p \in Pids : st[p] \in {"new", "pre"}]_supervisorVars
  BY StrayStep
<1> QED
  BY <1>1, SupervisorInvariant, PTL DEF SupervisorSpec, StrayOnlyInWindow

=============================================================================
