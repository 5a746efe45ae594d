---------------------------- MODULE PluginsProofs ---------------------------
(***************************************************************************)
(* Proofs about Plugins, for any files, sizes of pictures, options, clients*)
(* and failures.                                                           *)
(***************************************************************************)
EXTENDS Plugins, SequenceTheorems, TLAPS

-----------------------------------------------------------------------------
(* The motors of a camera.                                                  *)

\* The limits of the motors.
LEMMA AxesAre == P!Axes = {"pan", "tilt"} /\ P!Limit["pan"] = 4480 /\ P!Limit["tilt"] = 1920
BY DEF P!Axes, P!Limit, P!ONE_DEGREE

\* What a command of a client is.
LEMMA CommandsAre ==
    ASSUME NEW command \in P!Commands
    PROVE  command \in [op : {"reset", "set", "plus", "minus"}, axis : P!Axes, value : Int]
<1>1. CASE command = [op |-> "reset", axis |-> "pan", value |-> 0]
    BY <1>1, AxesAre
<1>2. CASE command \in [op : {"set"}, axis : P!Axes, value : Degrees]
    BY <1>2, PluginsAssumption
<1>3. CASE command \in [op : {"plus", "minus"}, axis : P!Axes, value : {0}]
    BY <1>3
<1> QED
    BY <1>1, <1>2, <1>3 DEF P!Commands

\* A command moves to a position within the limits.
LEMMA TargetWithin ==
    ASSUME P!MotorInv, NEW command \in [op : {"set", "plus", "minus"}, axis : P!Axes, value : Int]
    PROVE  /\ P!Target(command) \in Int
           /\ -P!Limit[command.axis] <= P!Target(command)
           /\ P!Target(command) <= P!Limit[command.axis]
<1> DEFINE limit == P!Limit[command.axis]
           here  == known[command.axis]
<1>1. limit \in Nat /\ here \in Int /\ -limit <= here /\ here <= limit
    BY AxesAre DEF P!MotorInv
<1>2. MinRes \in Nat
    BY PluginsAssumption
<1> HIDE DEF limit, here
<1>3. CASE command.op = "set"
  <2>1. P!Target(command) = P!Within(command.axis, command.value * 64)
    BY <1>3 DEF P!Target, P!ONE_DEGREE
  <2> QED
    BY <1>1, <2>1 DEF P!Within, limit
<1>4. CASE command.op = "plus"
  <2>1. P!Target(command) = IF here + MinRes <= limit THEN here + MinRes ELSE here
    BY <1>4 DEF P!Target, here, limit
  <2> QED
    BY <1>1, <1>2, <2>1 DEF limit
<1>5. CASE command.op = "minus"
  <2>1. P!Target(command) = IF here - MinRes >= -limit THEN here - MinRes ELSE here
    BY <1>5 DEF P!Target, here, limit
  <2> QED
    BY <1>1, <1>2, <2>1 DEF limit
<1> QED
    BY <1>3, <1>4, <1>5

\* One command at a time.
LEMMA CommandStep ==
    ASSUME P!TypeOK, P!CommandInv, P!MotorInv, P!Next
    PROVE  P!TypeOK' /\ P!CommandInv'
<1> USE PluginsAssumption DEF Home
<1>1. PICK c \in Commanders : P!input_cmd(c)
    BY DEF P!Next
<1>2. CASE P!Begin(c)
  <2>1. PICK command \in P!Commands : todo' = [todo EXCEPT ![c] = command]
    BY <1>2 DEF P!Begin
  <2>2. command \in [op : {"reset", "set", "plus", "minus"}, axis : P!Axes, value : Int]
    BY CommandsAre
  <2>3. P!TypeOK'
    BY <1>2 DEF P!Begin, P!TypeOK
  <2> QED
    BY <1>2, <2>1, <2>2, <2>3 DEF P!Begin, P!TypeOK, P!CommandInv
<1>3. CASE P!Reset(c)
    BY <1>3 DEF P!Reset, P!TypeOK, P!CommandInv
<1>4. CASE P!NoReset(c)
    BY <1>4 DEF P!NoReset, P!TypeOK, P!CommandInv
<1>5. CASE P!Note(c)
  <2>1. P!Target(todo[c]) \in Int
    BY <1>5, TargetWithin DEF P!Note, P!CommandInv
  <2>2. todo[c].axis \in P!Axes /\ known[todo[c].axis] \in Int
    BY <1>5 DEF P!CommandInv, P!MotorInv
  <2> DEFINE further == P!Target(todo[c]) - known[todo[c].axis]
  <2>3. todo' = [todo EXCEPT ![c].value = further]
    BY <1>5 DEF P!Note
  <2>4. further \in Int
    BY <2>1, <2>2
  <2> HIDE DEF further
  <2>5. todo' \in [Commanders -> [op : {"none", "reset", "set", "plus", "minus"}, axis : P!Axes, value : Int]]
    BY <2>3, <2>4 DEF P!CommandInv
  <2>6. \A d \in Commanders : todo'[d].op = todo[d].op
    BY <2>3 DEF P!CommandInv
  <2>7. P!TypeOK'
    BY <1>5 DEF P!Note, P!TypeOK
  <2> QED
    BY <1>5, <2>5, <2>6, <2>7 DEF P!Note, P!TypeOK, P!CommandInv
<1>6. CASE P!Turn(c)
    BY <1>6 DEF P!Turn, P!TypeOK, P!CommandInv
<1>7. CASE P!Finish(c)
    BY <1>7 DEF P!Finish, P!TypeOK, P!CommandInv, P!Idle, P!Axes, P!Limit
<1> QED
    BY <1>1, <1>2, <1>3, <1>4, <1>5, <1>6, <1>7 DEF P!input_cmd

\* The position is noted before the camera turns; how far is left is in the command.
LEMMA MotorStep ==
    ASSUME P!TypeOK, P!CommandInv, P!MotorInv, P!Next, nfail \in Nat
    PROVE  P!MotorInv'
<1> USE DEF P!Fail
<1>1. PICK c \in Commanders : P!input_cmd(c)
    BY DEF P!Next
<1>2. CASE P!Begin(c)
    BY <1>2 DEF P!Begin, P!TypeOK, P!MotorInv, P!Left
<1>3. CASE P!Reset(c)
    BY <1>3, AxesAre DEF P!Reset, P!TypeOK, P!CommandInv, P!MotorInv, P!Left
<1>4. CASE P!NoReset(c)
    BY <1>4 DEF P!NoReset, P!TypeOK, P!MotorInv, P!Left
<1>5. CASE P!Note(c)
  <2> DEFINE axis == todo[c].axis
             to   == P!Target(todo[c])
  <2>1. axis \in P!Axes /\ todo[c].op \in {"set", "plus", "minus"}
    BY <1>5 DEF P!Note, P!CommandInv
  <2>2. to \in Int /\ -P!Limit[axis] <= to /\ to <= P!Limit[axis]
    BY <2>1, TargetWithin DEF P!CommandInv
  <2>3. /\ known' = [known EXCEPT ![axis] = to] /\ UNCHANGED <<motor, nfail, valid>>
        /\ todo' = [todo EXCEPT ![c].value = to - known[axis]]
        /\ where' = [where EXCEPT ![c] = IF to = known[axis] THEN "done" ELSE "turn"]
    BY <1>5 DEF P!Note
  <2>4. /\ \A d \in Commanders : where[d] # "turn"
        /\ valid
    BY <1>5 DEF P!Note, P!CommandInv
  <2>5. todo'[c].value = to - known[axis] /\ todo'[c].axis = axis
    BY <2>3 DEF P!CommandInv
  <2> HIDE DEF axis, to
  <2>6. known' \in [P!Axes -> Int] /\ \A a \in P!Axes : -P!Limit[a] <= known'[a] /\ known'[a] <= P!Limit[a]
    BY <2>1, <2>2, <2>3 DEF P!MotorInv
  <2>7. \A d \in Commanders : where'[d] = "turn" => d = c /\ to # known[axis]
    BY <2>3, <2>4 DEF P!TypeOK
  <2>8. \A d \in Commanders : where'[d] # "turn" \/ d = c
    BY <2>7
  <2>9. to # known[axis] => where'[c] = "turn"
    BY <2>3 DEF P!TypeOK
  <2>10. ASSUME nfail = 0
         PROVE  /\ motor["pan"] = known["pan"] /\ motor["tilt"] = -known["tilt"]
                /\ known["pan"] \in Int /\ known["tilt"] \in Int
    BY <2>4, <2>10, AxesAre DEF P!MotorInv
  <2>11. ASSUME nfail' = 0, \A d \in Commanders : where'[d] # "turn"
         PROVE  motor'["pan"] = known'["pan"] /\ motor'["tilt"] = -known'["tilt"]
    BY <2>1, <2>3, <2>9, <2>10, <2>11, AxesAre DEF P!MotorInv
  <2>12. ASSUME nfail' = 0, NEW d \in Commanders, where'[d] = "turn"
         PROVE  /\ motor'["pan"] + P!Left(d, "pan")' = known'["pan"]
                /\ motor'["tilt"] - P!Left(d, "tilt")' = -known'["tilt"]
    <3>1. d = c
      BY <2>7, <2>12
    <3>2. CASE axis = "pan"
      BY <3>1, <3>2, <2>2, <2>3, <2>5, <2>10, <2>12, AxesAre DEF P!MotorInv, P!Left
    <3>3. CASE axis = "tilt"
      BY <3>1, <3>3, <2>2, <2>3, <2>5, <2>10, <2>12, AxesAre DEF P!MotorInv, P!Left
    <3> QED
      BY <2>1, <3>2, <3>3, AxesAre
  <2> QED
    BY <2>3, <2>6, <2>11, <2>12 DEF P!MotorInv
<1>6. CASE P!Turn(c)
    BY <1>6, AxesAre DEF P!Turn, P!uvcPanTilt, P!TypeOK, P!CommandInv, P!MotorInv, P!Left
<1>7. CASE P!Finish(c)
    BY <1>7 DEF P!Finish, P!TypeOK, P!MotorInv, P!Left
<1> QED
    BY <1>1, <1>2, <1>3, <1>4, <1>5, <1>6, <1>7 DEF P!input_cmd

-----------------------------------------------------------------------------
(* The outputs: their steps by what they change.                            *)

\* Only the place changes.
OutGo ==
    \E p \in O!Plugins, from \in {"init", "start", "delay", "leave", "pack", "show"},
       to \in {"run", "leave", "recv", "wait", "ended", "start"} :
        /\ O!Go(p, from, to) /\ (from = "init" <=> to = "run") /\ (from = "init" => p \notin {"file", "zmqserver"})
        /\ to = "ended" => from = "leave"
OutReturn   == \E p \in O!Udp : O!Return(p, "open")
OutFails    == \E p \in O!Plugins : O!output_fails(p)
OutRun      == \E p \in O!Plugins : O!output_run(p)
OutWait     == \E p \in O!Plugins : O!WaitPicture(p)
OutWoken    == \E p \in O!Plugins : O!Woken(p)
OutCopy     ==
    \E p \in O!Plugins, to \in {"write", "open", "pack", "decode", "measure"} :
        /\ O!CopyPicture(p, to) /\ (to = "write" => p = "file") /\ (to = "open" => p \in O!Udp)
        /\ to = "pack" => p = "zmqserver"
OutNoMemory == \E p \in O!Plugins : O!NoMemory(p)
OutReceive  == \E p \in O!Udp : O!Receive(p)
OutSave     == \E p \in O!Udp : O!SaveNamed(p)
OutReply    == \E p \in O!Udp : O!Reply(p)
OutMeasure  == \E sv \in Sharpness : O!Measure(sv)
OutRing     == \E p \in {"file", "zmqserver"}, to \in {"delay", "start"} : O!KeepRing(p, to)

OutputStep ==
    \/ OutGo \/ OutReturn \/ OutFails \/ OutRun \/ OutWait \/ OutWoken \/ OutCopy \/ OutNoMemory
    \/ O!Cancelled \/ O!file_init \/ O!WritePicture \/ O!TakeCopies \/ O!TakeWritten
    \/ OutReceive \/ OutSave \/ OutReply \/ O!zmqserver_init \/ O!Pack \/ O!SendPackage
    \/ OutRing \/ O!CannotWrite \/ O!NoPackage \/ O!OutOfBounds \/ O!decompress_jpeg \/ OutMeasure
    \/ O!CannotMeasure

\* The head of a loop.
LEMMA LoopTopGoes ==
    ASSUME NEW p \in O!Plugins, NEW from \in {"start", "delay"}, O!LoopTop(p, from)
    PROVE  OutGo
BY DEF O!LoopTop, OutGo

\* A picture is waited for and copied.
LEMMA FetchSteps ==
    ASSUME NEW p \in O!Plugins, NEW to \in {"write", "open", "pack", "decode", "measure"},
           to = "write" => p = "file", to = "open" => p \in O!Udp, to = "pack" => p = "zmqserver",
           O!Fetch(p, to)
    PROVE  OutputStep
<1>1. CASE O!WaitPicture(p)
    BY <1>1, Zenon DEF OutWait, OutputStep
<1>2. CASE O!Woken(p)
    BY <1>2, Zenon DEF OutWoken, OutputStep
<1>3. CASE O!CopyPicture(p, to)
    BY <1>3, Zenon DEF OutCopy, OutputStep
<1>4. CASE O!NoMemory(p)
    BY <1>4, Zenon DEF OutNoMemory, OutputStep
<1> QED
    BY <1>1, <1>2, <1>3, <1>4 DEF O!Fetch

\* The clean-up is the end of an output plugin.
LEMMA CleanupGoes ==
    ASSUME NEW p \in O!Plugins, O!worker_cleanup(p)
    PROVE  OutGo
BY DEF O!worker_cleanup, OutGo

\* The steps of the output plugins, sorted by what they do.
LEMMA OutputCases ==
    ASSUME O!Next
    PROVE  OutputStep
<1> USE DEF O!Plugins, O!Udp
<1>1. CASE O!Start
  <2>1. CASE O!udp_init \/ O!rtsp_init \/ O!viewer_init \/ O!autofocus_init
    BY <2>1 DEF O!udp_init, O!rtsp_init, O!viewer_init, O!autofocus_init, OutGo, OutputStep
  <2> QED
    BY <1>1, <2>1 DEF O!Start, OutFails, OutRun, OutputStep
<1>2. CASE O!file_thread
  <2>1. CASE O!KeepRing("file", "delay")
    BY <2>1 DEF OutRing, OutputStep
  <2> QED
    BY <1>2, <2>1, LoopTopGoes, FetchSteps, CleanupGoes DEF O!file_thread, OutputStep
<1>3. ASSUME NEW p \in O!Udp, O!DatagramThread(p)
      PROVE  OutputStep
  <2>1. CASE O!Return(p, "open")
    BY <2>1 DEF OutReturn, OutputStep
  <2>2. CASE O!SaveNamed(p) \/ O!Reply(p)
    BY <2>2 DEF OutSave, OutReply, OutputStep
  <2> QED
    BY <1>3, <2>1, <2>2, LoopTopGoes, FetchSteps, CleanupGoes DEF O!DatagramThread, OutputStep
<1>4. CASE O!zmqserver_thread
  <2>1. CASE O!WriteFilm
    BY <2>1 DEF O!WriteFilm, OutGo, OutputStep
  <2>2. CASE O!KeepRing("zmqserver", "start")
    BY <2>2 DEF OutRing, OutputStep
  <2> QED
    BY <1>4, <2>1, <2>2, LoopTopGoes, FetchSteps, CleanupGoes DEF O!zmqserver_thread, OutputStep
<1>5. CASE O!viewer_thread
  <2>1. CASE O!ShowPicture
    BY <2>1 DEF O!ShowPicture, OutGo, OutputStep
  <2> QED
    BY <1>5, <2>1, LoopTopGoes, FetchSteps, CleanupGoes DEF O!viewer_thread, OutputStep
<1>6. CASE O!autofocus_thread
    BY <1>6, LoopTopGoes, FetchSteps, CleanupGoes DEF O!autofocus_thread, OutMeasure, OutputStep
<1>7. CASE O!Datagram
    BY <1>7 DEF O!Datagram, OutReceive, OutputStep
<1> QED
    BY <1>1, <1>2, <1>3, <1>4, <1>5, <1>6, <1>7
    DEF O!Next, O!Thread, O!udp_thread, O!rtsp_thread, OutputStep

\* The memory is enlarged.
LEMMA GrowKept ==
    ASSUME O!KeptOK, pos \in O!Slots, NEW p, NEW n \in Nat, O!Grow(p, n)
    PROVE  /\ caps' \in [O!Slots -> Nat] /\ max_frame_size' \in Nat
           /\ max_frame_size' >= n /\ max_frame_size' >= max_frame_size
           /\ caps' = caps \/ caps' = [caps EXCEPT ![pos] = max_frame_size']
           /\ n > max_frame_size => caps'[pos] = max_frame_size'
           /\ (n <= max_frame_size /\ p # "zmqserver") => UNCHANGED <<caps, max_frame_size>>
<1>1. max_frame_size' \in Nat /\ max_frame_size' >= n /\ max_frame_size' >= max_frame_size
    BY DEF O!KeptOK, O!Grow, O!MoreRoom
<1>2. caps' = caps \/ caps' = [caps EXCEPT ![pos] = max_frame_size']
    BY DEF O!Grow
<1>3. caps' \in [O!Slots -> Nat]
    BY <1>1, <1>2 DEF O!KeptOK
<1>4. n > max_frame_size => caps'[pos] = max_frame_size'
    BY <1>1 DEF O!KeptOK, O!Grow
<1>5. (n <= max_frame_size /\ p # "zmqserver") => UNCHANGED <<caps, max_frame_size>>
    BY DEF O!KeptOK, O!Grow, O!MoreRoom
<1> QED
    BY <1>1, <1>2, <1>3, <1>4, <1>5

\* The options of the ring buffer, and the pictures that are there.
LEMMA RingOptionsKept ==
    ASSUME O!RingOptions
    PROVE  /\ ring' \in Int /\ exceed' \in Int /\ folder' \in Seq(Int)
           /\ UNCHANGED <<counter, back, missed>> /\ O!NewestLast(folder', ring')
<1>1. ring' \in Int /\ exceed' \in Int /\ UNCHANGED <<counter, back, missed>>
    BY PluginsAssumption DEF O!RingOptions
<1>2. CASE folder' = <<>>
    BY <1>1, <1>2 DEF O!NewestLast
<1>3. CASE folder' # <<>>
  <2>1. PICK n \in Found : folder' = [i \in 1..n |-> IF n - i < ring' THEN n - i ELSE ring']
    BY <1>3 DEF O!RingOptions
  <2>2. n \in Nat
    BY PluginsAssumption
  <2>3. \A i \in 1..n : (IF n - i < ring' THEN n - i ELSE ring') \in Int
    BY <1>1, <2>2
  <2>4. folder' \in Seq(Int) /\ Len(folder') = n
    BY <2>1, <2>2, <2>3
  <2> QED
    BY <1>1, <2>1, <2>4 DEF O!NewestLast
<1> QED
    BY <1>2, <1>3

\* One picture more has come after each.
LEMMA OlderKept ==
    ASSUME NEW names \in Seq(Int), ring \in Int
    PROVE  /\ O!Older(names) \in Seq(Int) /\ Len(O!Older(names)) = Len(names)
           /\ \A i \in 1..Len(names) : O!Older(names)[i] = IF names[i] < ring THEN names[i] + 1 ELSE ring
<1>1. DOMAIN names = 1..Len(names) /\ Len(names) \in Nat /\ \A i \in 1..Len(names) : names[i] \in Int
    OBVIOUS
<1>2. O!Older(names) = [i \in 1..Len(names) |-> IF names[i] < ring THEN names[i] + 1 ELSE ring]
    BY <1>1 DEF O!Older
<1>3. \A i \in 1..Len(names) : (IF names[i] < ring THEN names[i] + 1 ELSE ring) \in Int
    BY <1>1
<1> QED
    BY <1>1, <1>2, <1>3

\* A picture more is in the folder, or one less of an earlier run; if the clock has not gone
\* back it is the last one.
LEMMA NamedKept ==
    ASSUME folder \in Seq(Int), ring \in Int, O!NewName \/ UNCHANGED <<folder, back>>
    PROVE  /\ folder' \in Seq(Int) /\ Len(folder') <= Len(folder) + 1
           /\ UNCHANGED <<folder, back>> \/ back' = TRUE \/ (back' = back /\ folder' = Append(O!Older(folder), 0))
<1> DEFINE names == O!Older(folder)
<1>1. names \in Seq(Int) /\ Len(names) = Len(folder)
    BY OlderKept
<1>2. CASE UNCHANGED <<folder, back>>
    BY <1>2
<1> HIDE DEF names
<1>3. CASE folder' = Append(names, 0) /\ UNCHANGED back
    BY <1>1, <1>3 DEF names
<1>4. ASSUME NEW k \in 1..Len(names), folder' = O!AtPlace(names, k)
      PROVE  folder' \in Seq(Int) /\ Len(folder') = Len(folder) + 1
  <2>1. SubSeq(names, 1, k - 1) \in Seq(Int) /\ Len(SubSeq(names, 1, k - 1)) = k - 1
    BY <1>1
  <2>2. SubSeq(names, k, Len(names)) \in Seq(Int) /\ Len(SubSeq(names, k, Len(names))) = Len(names) - k + 1
    BY <1>1
  <2> DEFINE before == SubSeq(names, 1, k - 1)
             after == SubSeq(names, k, Len(names))
  <2>3. before \in Seq(Int) /\ Len(before) = k - 1
    BY <2>1
  <2>4. after \in Seq(Int) /\ Len(after) = Len(names) - k + 1
    BY <2>2
  <2>5. folder' = before \o <<0>> \o after
    BY <1>4 DEF O!AtPlace
  <2> HIDE DEF before, after
  <2> DEFINE front == before \o <<0>>
  <2>6. front \in Seq(Int) /\ Len(front) = k
    BY <1>1, <2>3
  <2>8. folder' = front \o after
    BY <2>5
  <2> HIDE DEF front
  <2>9. front \o after \in Seq(Int)
    BY <2>4, <2>6
  <2>10. Len(front \o after) = Len(front) + Len(after)
    BY <2>4, <2>6, ConcatProperties
  <2>7. folder' \in Seq(Int) /\ Len(folder') = k + (Len(names) - k + 1)
    BY <2>4, <2>6, <2>8, <2>9, <2>10
  <2> QED
    BY <1>1, <2>7
<1>5. ASSUME NEW k \in 1..Len(names), folder' = O!Instead(names, k)
      PROVE  folder' \in Seq(Int) /\ Len(folder') = Len(folder)
    BY <1>1, <1>5 DEF O!Instead
<1>6. \/ UNCHANGED <<folder, back>> \/ (folder' = Append(names, 0) /\ UNCHANGED back)
      \/ /\ back' = TRUE
         /\ \/ \E k \in 1..Len(names) : folder' = O!AtPlace(names, k)
            \/ \E k \in 1..Len(names) : folder' = O!Instead(names, k)
    BY DEF O!NewName, names
<1>7. Len(folder) \in Nat /\ Len(folder) <= Len(folder) + 1 /\ Len(folder) + 1 <= Len(folder) + 1
    OBVIOUS
<1> QED
    BY <1>2, <1>3, <1>4, <1>5, <1>6, <1>7

\* The last one is the newest, as before.
LEMMA NamedRing ==
    ASSUME O!KeptOK, O!NewName, ring >= 0 /\ ~back => O!NewestLast(folder, ring), UNCHANGED ring
    PROVE  /\ folder' \in Seq(Int) /\ Len(folder') <= Len(folder) + 1
           /\ ring' >= 0 /\ ~back' => O!NewestLast(folder', ring')
<1>1. folder \in Seq(Int) /\ ring \in Int
    BY DEF O!KeptOK
<1>2. /\ folder' \in Seq(Int) /\ Len(folder') <= Len(folder) + 1
      /\ UNCHANGED <<folder, back>> \/ back' = TRUE \/ (back' = back /\ folder' = Append(O!Older(folder), 0))
    BY <1>1, NamedKept
<1>3. ASSUME ring >= 0, ~back, folder' = Append(O!Older(folder), 0)
      PROVE  O!NewestLast(folder', ring)
  <2> DEFINE names == O!Older(folder)
  <2>1. /\ names \in Seq(Int) /\ Len(names) = Len(folder) /\ Len(folder) \in Nat
        /\ \A i \in 1..Len(folder) : names[i] = IF folder[i] < ring THEN folder[i] + 1 ELSE ring
    BY <1>1, OlderKept
  <2>2. \A i \in 1..Len(folder) : folder[i] = IF Len(folder) - i < ring THEN Len(folder) - i ELSE ring
    BY <1>3 DEF O!NewestLast
  <2> HIDE DEF names
  <2>3. Len(folder') = Len(folder) + 1 /\ folder'[Len(folder) + 1] = 0
    BY <1>3, <2>1 DEF names
  <2>4. ASSUME NEW i \in 1..Len(folder)
        PROVE  folder'[i] = IF Len(folder') - i < ring THEN Len(folder') - i ELSE ring
    <3>1. folder'[i] = names[i]
      BY <1>3, <2>1 DEF names
    <3> QED
      BY <1>1, <1>3, <2>1, <2>2, <2>3, <3>1
  <2> QED
    BY <1>1, <1>3, <2>1, <2>3, <2>4 DEF O!NewestLast
<1> QED
    BY <1>2, <1>3

\* The last n names are left.
LEMMA LastKept ==
    ASSUME NEW names \in Seq(Int), NEW n \in Nat, n < Len(names)
    PROVE  LET left == O!maintain_ringbuffer(names, n)
           IN  /\ left \in Seq(Int) /\ Len(left) = n
               /\ \A j \in 0..(n - 1) : left[n - j] = names[Len(names) - j]
               /\ O!NewestLast(names, n) => O!NewestLast(left, n)
<1> DEFINE left == O!maintain_ringbuffer(names, n)
<1>1. left = SubSeq(names, Len(names) - n + 1, Len(names))
    BY DEF O!maintain_ringbuffer
<1>2. Len(names) \in Nat /\ \A i \in 1..Len(names) : names[i] \in Int
    OBVIOUS
<1>3. left \in Seq(Int) /\ Len(left) = n /\ \A i \in 1..n : left[i] = names[Len(names) - n + i]
    BY <1>1, <1>2
<1> HIDE DEF left
<1>4. \A j \in 0..(n - 1) : left[n - j] = names[Len(names) - j]
  <2> SUFFICES ASSUME NEW j \in 0..(n - 1)
               PROVE  left[n - j] = names[Len(names) - j]
      OBVIOUS
  <2>1. n - j \in 1..n /\ Len(names) - n + (n - j) = Len(names) - j
    BY <1>2
  <2> QED
    BY <1>3, <2>1
<1>5. O!NewestLast(names, n) => O!NewestLast(left, n)
  <2> SUFFICES ASSUME O!NewestLast(names, n), NEW i \in 1..n
               PROVE  left[i] = IF n - i < n THEN n - i ELSE n
      BY <1>3 DEF O!NewestLast
  <2>1. Len(names) - n + i \in 1..Len(names) /\ Len(names) - (Len(names) - n + i) = n - i
    BY <1>2
  <2>2. names[Len(names) - n + i] = IF n - i < n THEN n - i ELSE n
    BY <2>1 DEF O!NewestLast
  <2> QED
    BY <1>3, <2>2
<1> QED
    BY <1>3, <1>4, <1>5 DEF left

\* Of the names that are left over the last n are the last n of all.
LEMMA LeftOverKept ==
    ASSUME NEW names \in Seq(Int), NEW n \in Nat, NEW left, O!LeftOver(names, n, left)
    PROVE  /\ left \in Seq(Int) /\ Len(left) > n /\ Len(left) <= Len(names)
           /\ \A j \in 0..(n - 1) : left[Len(left) - j] = names[Len(names) - j]
           /\ O!NewestLast(names, n) => O!NewestLast(left, n)
<1>1. Len(names) \in Nat /\ \A i \in 1..Len(names) : names[i] \in Int
    OBVIOUS
<1>0. PICK m \in (n + 1)..Len(names) : \E at \in [1..m -> 1..Len(names)] :
         /\ \A j, k \in 1..m : j < k => at[j] < at[k]
         /\ \A j \in 0..(n - 1) : at[m - j] = Len(names) - j
         /\ left = [j \in 1..m |-> names[at[j]]]
    BY DEF O!LeftOver
<1>2. PICK at \in [1..m -> 1..Len(names)] :
         /\ \A j, k \in 1..m : j < k => at[j] < at[k]
         /\ \A j \in 0..(n - 1) : at[m - j] = Len(names) - j
         /\ left = [j \in 1..m |-> names[at[j]]]
    BY <1>0
<1>3. m \in Nat /\ n < m /\ m <= Len(names)
    BY <1>1
<1>4. \A j \in 1..m : at[j] \in 1..Len(names)
    OBVIOUS
<1>5. left \in Seq(Int) /\ Len(left) = m /\ \A j \in 1..m : left[j] = names[at[j]]
    BY <1>1, <1>2, <1>3, <1>4
<1>6. ASSUME NEW j \in 0..(n - 1)
      PROVE  left[m - j] = names[Len(names) - j]
  <2>1. m - j \in 1..m
    BY <1>3
  <2> QED
    BY <1>2, <1>5, <2>1
<1>7. ASSUME O!NewestLast(names, n), NEW i \in 1..m
      PROVE  left[i] = IF m - i < n THEN m - i ELSE n
  <2>1. left[i] = IF Len(names) - at[i] < n THEN Len(names) - at[i] ELSE n
    BY <1>4, <1>5, <1>7 DEF O!NewestLast
  <2>2. CASE m - i < n
    <3>1. m - i \in 0..(n - 1) /\ m - (m - i) = i
      BY <1>3, <2>2
    <3>2. at[i] = Len(names) - (m - i)
      BY <1>2, <3>1
    <3> QED
      BY <1>1, <1>3, <2>1, <2>2, <3>2
  <2>3. CASE ~(m - i < n)
    <3>1. CASE n = 0
      BY <1>1, <1>4, <2>1, <2>3, <3>1
    <3>2. CASE n > 0
      <4>1. n - 1 \in 0..(n - 1) /\ m - (n - 1) \in 1..m /\ i < m - (n - 1)
        BY <1>3, <2>3, <3>2
      <4>2. at[m - (n - 1)] = Len(names) - (n - 1)
        BY <1>2, <4>1
      <4>3. at[i] < Len(names) - (n - 1)
        BY <1>2, <4>1, <4>2
      <4>4. at[i] \in 1..Len(names)
        BY <1>4
      <4> QED
        BY <1>1, <2>1, <2>3, <4>3, <4>4
    <3> QED
      BY <3>1, <3>2
  <2> QED
    BY <2>2, <2>3
<1> QED
    BY <1>3, <1>5, <1>6, <1>7 DEF O!NewestLast

\* What a look at the folder leaves, if there is one.
LEMMA RingKeeps ==
    ASSUME folder \in Seq(Int), ring \in Int, NEW p, NEW to, O!KeepRing(p, to)
    PROVE  /\ folder' \in Seq(Int) /\ Len(folder') <= Len(folder)
           /\ \/ ~O!MaintainNow /\ UNCHANGED <<folder, missed>>
              \/ ring < 0 /\ UNCHANGED <<folder, missed>>
              \/ ring >= 0 /\ (Len(folder') <= ring \/ missed' = TRUE)
           /\ \A j \in 0..(ring - 1) : j < Len(folder) =>
                 j < Len(folder') /\ folder'[Len(folder') - j] = folder[Len(folder) - j]
           /\ (ring >= 0 /\ O!NewestLast(folder, ring)) => O!NewestLast(folder', ring)
<1>1. CASE (~O!MaintainNow \/ ring < 0) /\ UNCHANGED <<folder, missed>>
    BY <1>1
<1>2. CASE ring >= 0 /\ Len(folder) <= ring /\ UNCHANGED folder
  <2>1. Len(folder) \in Nat /\ folder' = folder
    BY <1>2
  <2> QED
    BY <1>2, <2>1
<1>3. CASE ring >= 0 /\ Len(folder) > ring /\ folder' = O!maintain_ringbuffer(folder, ring)
  <2>1. ring \in Nat /\ ring < Len(folder) /\ Len(folder) \in Nat
    BY <1>3
  <2>2. /\ folder' \in Seq(Int) /\ Len(folder') = ring
        /\ \A j \in 0..(ring - 1) : folder'[ring - j] = folder[Len(folder) - j]
        /\ O!NewestLast(folder, ring) => O!NewestLast(folder', ring)
    BY <1>3, <2>1, LastKept
  <2> QED
    BY <2>1, <2>2
<1>4. CASE 0 <= ring /\ ring < Len(folder) /\ missed' = TRUE /\ O!LeftOver(folder, ring, folder')
  <2>1. ring \in Nat /\ Len(folder) \in Nat
    BY <1>4
  <2>2. /\ folder' \in Seq(Int) /\ Len(folder') > ring /\ Len(folder') <= Len(folder)
        /\ \A j \in 0..(ring - 1) : folder'[Len(folder') - j] = folder[Len(folder) - j]
        /\ O!NewestLast(folder, ring) => O!NewestLast(folder', ring)
    BY <1>4, <2>1, LeftOverKept
  <2>3. Len(folder') \in Nat
    BY <2>2
  <2>4. \A j \in 0..(ring - 1) : j < Len(folder')
    BY <2>1, <2>2, <2>3
  <2>5. ring >= 0 /\ (Len(folder') <= ring \/ missed' = TRUE)
    BY <1>4
  <2> QED
    BY <2>2, <2>4, <2>5
<1>5. \/ (~O!MaintainNow \/ ring < 0) /\ UNCHANGED <<folder, missed>>
      \/ ring >= 0 /\ folder' = IF Len(folder) <= ring THEN folder ELSE O!maintain_ringbuffer(folder, ring)
      \/ 0 <= ring /\ ring < Len(folder) /\ missed' = TRUE /\ O!LeftOver(folder, ring, folder')
    BY DEF O!KeepRing
<1>6. Len(folder) <= ring \/ Len(folder) > ring
    OBVIOUS
<1> QED
    BY <1>1, <1>2, <1>3, <1>4, <1>5, <1>6

\* The ring buffer of output_file.
LEMMA RingRing ==
    ASSUME O!KeptOK, O!RingInv, out = "file", NEW p, NEW to \in {"delay", "start"}, O!KeepRing(p, to)
    PROVE  O!RingInv'
<1>1. folder \in Seq(Int) /\ ring \in Int /\ exceed \in Int /\ counter \in -1..(O!Period - 1)
    BY DEF O!KeptOK, O!RingInv
<1>2. opc = "ring" /\ opc' = to /\ UNCHANGED <<out, mjpg, ring, exceed, back>> /\ O!Count
    BY DEF O!KeepRing, O!At
<1>3. O!Period \in Nat /\ O!Period >= 1 /\ O!Period' = O!Period
    BY <1>1, <1>2 DEF O!Period
<1>4. counter' \in 0..(O!Period - 1) /\ (counter' = 0 \/ counter = -1 \/ counter' = counter + 1)
    BY <1>1, <1>2, <1>3 DEF O!Count
<1>5. (ring' >= 0 /\ ~back') => O!NewestLast(folder', ring')
    BY <1>1, <1>2, RingKeeps DEF O!RingInv
<1>9. \/ ~O!MaintainNow /\ UNCHANGED <<folder, missed>>
      \/ ring < 0 /\ UNCHANGED <<folder, missed>>
      \/ ring >= 0 /\ (Len(folder') <= ring \/ missed' = TRUE)
    BY <1>1, RingKeeps
<1>6. ASSUME ~mjpg, ring >= 0, ~missed'
      PROVE  Len(folder') <= ring + counter'
  <2>1. Len(folder') \in Nat /\ Len(folder) \in Nat
    BY <1>1, RingKeeps
  <2>2. CASE ~O!MaintainNow /\ UNCHANGED <<folder, missed>>
    <3>1. counter # -1 /\ counter' # 0
      BY <2>2 DEF O!MaintainNow
    <3>2. Len(folder) <= ring + counter + 1
      BY <1>2, <1>6, <2>2, <3>1 DEF O!RingInv
    <3>3. counter' = counter + 1 /\ Len(folder') = Len(folder)
      BY <1>4, <2>2, <3>1
    <3> QED
      BY <1>1, <2>1, <3>2, <3>3
  <2>3. CASE Len(folder') <= ring
    BY <1>1, <1>4, <2>1, <2>3
  <2> QED
    BY <1>1, <1>6, <1>9, <2>2, <2>3
<1>7. opc' \notin {"init", "run", "ring", "ended"}
    BY <1>2
<1>8. Len(folder') \in Nat
    BY <1>1, RingKeeps
<1> QED
    BY <1>1, <1>2, <1>3, <1>4, <1>5, <1>6, <1>7, <1>8 DEF O!RingInv

\* The package holds the copies made so far.
LEMMA PackStep ==
    ASSUME O!PackInv, O!KeptOK, OutputStep
    PROVE  O!PackInv'
<1> USE PluginsAssumption DEF O!Udp, O!Slots
<1>1. CASE OutGo
    BY <1>1 DEF OutGo, O!Go, O!At, O!Fail, O!shared, O!fileVars, O!copyVars, O!zmqVars, O!takeVars,
       O!frameVars, O!outputVars, O!PackInv
<1>2. CASE OutReturn
    BY <1>2 DEF OutReturn, O!Return, O!At, O!Fail, O!shared, O!fileVars, O!copyVars, O!zmqVars,
       O!takeVars, O!frameVars, O!outputVars, O!PackInv
<1>3. CASE OutFails
    BY <1>3 DEF OutFails, O!output_fails, O!At, O!Fail, O!shared, O!fileVars, O!copyVars, O!zmqVars,
       O!takeVars, O!frameVars, O!outputVars, O!PackInv
<1>4. CASE OutRun
    BY <1>4 DEF OutRun, O!output_run, O!At, O!Fail, O!shared, O!fileVars, O!copyVars, O!zmqVars,
       O!takeVars, O!frameVars, O!outputVars, O!PackInv
<1>5. CASE OutWait
    BY <1>5 DEF OutWait, O!WaitPicture, O!WaitFresh, O!At, O!Fail, O!shared, O!fileVars, O!copyVars,
       O!zmqVars, O!takeVars, O!frameVars, O!outputVars, O!PackInv
<1>6. CASE OutWoken
    BY <1>6 DEF OutWoken, O!Woken, O!WakeUp, O!At, O!Fail, O!shared, O!fileVars, O!copyVars,
       O!zmqVars, O!takeVars, O!frameVars, O!outputVars, O!PackInv
<1>7. CASE OutCopy
    BY <1>7 DEF OutCopy, O!CopyPicture, O!At, O!Fail, O!shared, O!fileVars, O!copyVars, O!zmqVars,
       O!takeVars, O!frameVars, O!outputVars, O!PackInv
<1>8. CASE OutNoMemory
    BY <1>8 DEF OutNoMemory, O!NoMemory, O!At, O!Fail, O!shared, O!fileVars, O!copyVars, O!zmqVars,
       O!takeVars, O!frameVars, O!outputVars, O!PackInv
<1>9. CASE O!Cancelled
    BY <1>9 DEF O!Cancelled, O!At, O!Fail, O!shared, O!fileVars, O!copyVars, O!zmqVars, O!takeVars,
       O!frameVars, O!outputVars, O!PackInv
<1>10. CASE O!file_init
    BY <1>10 DEF O!file_init, O!At, O!Fail, O!shared, O!fileVars, O!copyVars, O!zmqVars, O!takeVars,
       O!frameVars, O!outputVars, O!PackInv
<1>11. CASE O!WritePicture
    BY <1>11 DEF O!WritePicture, O!At, O!Fail, O!shared, O!fileVars, O!copyVars, O!zmqVars,
       O!takeVars, O!frameVars, O!outputVars, O!PackInv
<1>12. CASE O!CannotWrite
    BY <1>12 DEF O!CannotWrite, O!At, O!Fail, O!shared, O!fileVars, O!copyVars, O!zmqVars,
       O!takeVars, O!frameVars, O!outputVars, O!PackInv
<1>13. CASE OutRing
    BY <1>13 DEF OutRing, O!KeepRing, O!At, O!Fail, O!shared, O!fileVars, O!copyVars, O!zmqVars,
       O!takeVars, O!frameVars, O!outputVars, O!PackInv
<1>14. CASE O!TakeCopies
    BY <1>14 DEF O!TakeCopies, O!At, O!Fail, O!shared, O!fileVars, O!copyVars, O!zmqVars, O!takeVars,
       O!frameVars, O!outputVars, O!PackInv
<1>15. CASE O!TakeWritten
    BY <1>15 DEF O!TakeWritten, O!At, O!Fail, O!shared, O!fileVars, O!copyVars, O!zmqVars,
       O!takeVars, O!frameVars, O!outputVars, O!PackInv
<1>16. CASE OutReceive
    BY <1>16 DEF OutReceive, O!Receive, O!At, O!Fail, O!shared, O!fileVars, O!copyVars, O!zmqVars,
       O!takeVars, O!frameVars, O!outputVars, O!PackInv
<1>17. CASE OutSave
    BY <1>17 DEF OutSave, O!SaveNamed, O!At, O!Fail, O!shared, O!fileVars, O!copyVars, O!zmqVars,
       O!takeVars, O!frameVars, O!outputVars, O!PackInv
<1>18. CASE OutReply
    BY <1>18 DEF OutReply, O!Reply, O!At, O!Fail, O!shared, O!fileVars, O!copyVars, O!zmqVars,
       O!takeVars, O!frameVars, O!outputVars, O!PackInv
<1>19. CASE O!zmqserver_init
  <2>1. /\ out = "zmqserver" /\ opc = "init" /\ opc' = "run" /\ proc = "run" /\ zsize' \in Int
        /\ UNCHANGED <<out, proc, pos, packed>>
    BY <1>19 DEF O!zmqserver_init, O!At, O!shared, O!copyVars
  <2> QED
    BY <2>1 DEF O!PackInv
<1>20. CASE O!NoPackage
    BY <1>20 DEF O!NoPackage, O!At, O!Fail, O!shared, O!fileVars, O!copyVars, O!zmqVars, O!takeVars,
       O!frameVars, O!outputVars, O!PackInv
<1>21. CASE O!Pack
  <2>1. /\ out = "zmqserver" /\ opc = "pack" /\ proc = "run" /\ zsize # 0 /\ packed' = Append(packed, pos)
        /\ pos' = pos + 1 /\ opc' = (IF pos' = zsize THEN "send" ELSE "ring")
        /\ UNCHANGED <<out, proc, zsize>>
    BY <1>21 DEF O!Pack, O!At, O!shared
  <2>2. zsize \in Nat /\ pos \in 0..(MaxZmqBufferSize - 1) /\ pos < zsize /\ packed \in Seq(Nat)
    BY <2>1 DEF O!PackInv, O!KeptOK
  <2>3. Len(packed') = pos' /\ \A k \in 1..pos' : packed'[k] = k - 1
    BY <2>1, <2>2 DEF O!PackInv
  <2> QED
    BY <2>1, <2>2, <2>3 DEF O!PackInv
<1>22. CASE O!SendPackage
  <2>1. /\ out = "zmqserver" /\ opc' = "ring" /\ proc = "run" /\ packed' = <<>> /\ pos' = 0
        /\ zsize \in Nat /\ UNCHANGED <<out, proc, zsize>>
    BY <1>22 DEF O!SendPackage, O!At, O!shared, O!PackInv, O!KeptOK
  <2> QED
    BY <2>1 DEF O!PackInv
<1>23. CASE O!OutOfBounds
  <2>1. /\ out = "zmqserver" /\ proc' = "undefined"
        /\ UNCHANGED <<out, opc, pos, zsize, packed>>
    BY <1>23 DEF O!OutOfBounds, O!At, O!outputVars, O!copyVars, O!zmqVars
  <2>2. zsize \notin 1..MaxZmqBufferSize
    <3>1. CASE opc = "copy" /\ pos \notin O!Slots
      <4>1. pos = MaxZmqBufferSize /\ zsize >= pos /\ zsize # pos
        BY <3>1 DEF O!PackInv, O!KeptOK
      <4> QED
        BY <4>1 DEF O!KeptOK
    <3>2. CASE zsize = 0
      BY <3>2
    <3> QED
      BY <1>23, <3>1, <3>2 DEF O!OutOfBounds, O!At
  <2> QED
    BY <2>1, <2>2 DEF O!PackInv
<1>24. CASE O!decompress_jpeg
    BY <1>24 DEF O!decompress_jpeg, O!At, O!Fail, O!shared, O!fileVars, O!copyVars, O!zmqVars,
       O!takeVars, O!frameVars, O!outputVars, O!PackInv
<1>25. CASE OutMeasure
    BY <1>25 DEF OutMeasure, O!Measure, O!At, O!Fail, O!shared, O!fileVars, O!copyVars, O!zmqVars,
       O!takeVars, O!frameVars, O!outputVars, O!PackInv
<1>26. CASE O!CannotMeasure
    BY <1>26 DEF O!CannotMeasure, O!At, O!Fail, O!shared, O!fileVars, O!copyVars, O!zmqVars,
       O!takeVars, O!frameVars, O!outputVars, O!PackInv
<1> QED
    BY <1>1, <1>2, <1>3, <1>4, <1>5, <1>6, <1>7, <1>8, <1>9, <1>10, <1>11, <1>12, <1>13, <1>14,
       <1>15, <1>16, <1>17, <1>18, <1>19, <1>20, <1>21, <1>22, <1>23, <1>24, <1>25, <1>26 DEF
       OutputStep

\* The options are flags.
LEMMA FlagsStep ==
    ASSUME O!FlagsOK, OutputStep
    PROVE  O!FlagsOK'
<1>1. CASE OutGo
    BY <1>1 DEF OutGo, O!Go, O!At, O!Fail, O!shared, O!fileVars, O!copyVars, O!zmqVars,
       O!takeVars, O!frameVars, O!outputVars, O!FlagsOK
<1>2. CASE OutReturn
    BY <1>2 DEF OutReturn, O!Return, O!At, O!Fail, O!shared, O!fileVars, O!copyVars, O!zmqVars,
       O!takeVars, O!frameVars, O!outputVars, O!FlagsOK
<1>3. CASE OutFails
    BY <1>3 DEF OutFails, O!output_fails, O!At, O!Fail, O!shared, O!fileVars, O!copyVars,
       O!zmqVars, O!takeVars, O!frameVars, O!outputVars, O!FlagsOK
<1>4. CASE OutRun
    BY <1>4 DEF OutRun, O!output_run, O!At, O!Fail, O!shared, O!fileVars, O!copyVars, O!zmqVars,
       O!takeVars, O!frameVars, O!outputVars, O!FlagsOK
<1>5. CASE OutWait
    BY <1>5 DEF OutWait, O!WaitPicture, O!WaitFresh, O!At, O!Fail, O!shared, O!fileVars,
       O!copyVars, O!zmqVars, O!takeVars, O!frameVars, O!outputVars, O!FlagsOK
<1>6. CASE OutWoken
    BY <1>6 DEF OutWoken, O!Woken, O!WakeUp, O!LockDb, O!At, O!Fail, O!shared, O!fileVars,
       O!copyVars, O!zmqVars, O!takeVars, O!frameVars, O!outputVars, O!FlagsOK
<1>7. CASE OutCopy
    BY <1>7 DEF OutCopy, O!CopyPicture, O!At, O!Fail, O!shared, O!fileVars, O!copyVars, O!zmqVars,
       O!takeVars, O!frameVars, O!outputVars, O!FlagsOK
<1>8. CASE OutNoMemory
    BY <1>8 DEF OutNoMemory, O!NoMemory, O!UnlockDb, O!At, O!Fail, O!shared, O!fileVars,
       O!copyVars, O!zmqVars, O!takeVars, O!frameVars, O!outputVars, O!FlagsOK
<1>9. CASE O!Cancelled
    BY <1>9 DEF O!Cancelled, O!At, O!Fail, O!shared, O!fileVars, O!copyVars, O!zmqVars,
       O!takeVars, O!frameVars, O!outputVars, O!FlagsOK
<1>10. CASE O!file_init
    BY <1>10 DEF O!file_init, O!RingOptions, O!takeVars, O!FlagsOK
<1>11. CASE O!WritePicture
    BY <1>11 DEF O!WritePicture, O!At, O!Fail, O!shared, O!fileVars, O!copyVars, O!zmqVars,
       O!takeVars, O!frameVars, O!outputVars, O!FlagsOK
<1>12. CASE O!CannotWrite
    BY <1>12 DEF O!CannotWrite, O!At, O!Fail, O!shared, O!fileVars, O!copyVars, O!zmqVars,
       O!takeVars, O!frameVars, O!outputVars, O!FlagsOK
<1>13. CASE OutRing
    BY <1>13 DEF OutRing, O!KeepRing, O!At, O!Fail, O!shared, O!fileVars, O!copyVars, O!zmqVars,
       O!takeVars, O!frameVars, O!outputVars, O!FlagsOK
<1>14. CASE O!TakeCopies
    BY <1>14 DEF O!TakeCopies, O!At, O!Fail, O!shared, O!fileVars, O!copyVars, O!zmqVars,
       O!takeVars, O!frameVars, O!outputVars, O!FlagsOK
<1>15. CASE O!TakeWritten
    BY <1>15 DEF O!TakeWritten, O!At, O!Fail, O!shared, O!fileVars, O!copyVars, O!zmqVars,
       O!takeVars, O!frameVars, O!outputVars, O!FlagsOK
<1>16. CASE OutReceive
    BY <1>16 DEF OutReceive, O!Receive, O!At, O!Fail, O!shared, O!fileVars, O!copyVars, O!zmqVars,
       O!takeVars, O!frameVars, O!outputVars, O!FlagsOK
<1>17. CASE OutSave
    BY <1>17 DEF OutSave, O!SaveNamed, O!At, O!Fail, O!shared, O!fileVars, O!copyVars, O!zmqVars,
       O!takeVars, O!frameVars, O!outputVars, O!FlagsOK
<1>18. CASE OutReply
    BY <1>18 DEF OutReply, O!Reply, O!At, O!Fail, O!shared, O!fileVars, O!copyVars, O!zmqVars,
       O!takeVars, O!frameVars, O!outputVars, O!FlagsOK
<1>19. CASE O!zmqserver_init
    BY <1>19 DEF O!zmqserver_init, O!RingOptions, O!takeVars, O!FlagsOK
<1>20. CASE O!NoPackage
    BY <1>20 DEF O!NoPackage, O!At, O!Fail, O!shared, O!fileVars, O!copyVars, O!zmqVars, O!takeVars,
       O!frameVars, O!outputVars, O!FlagsOK
<1>21. CASE O!Pack
    BY <1>21 DEF O!Pack, O!At, O!Fail, O!shared, O!fileVars, O!copyVars, O!zmqVars, O!takeVars,
       O!frameVars, O!outputVars, O!FlagsOK
<1>22. CASE O!SendPackage
    BY <1>22 DEF O!SendPackage, O!At, O!Fail, O!shared, O!fileVars, O!copyVars, O!zmqVars,
       O!takeVars, O!frameVars, O!outputVars, O!FlagsOK
<1>23. CASE O!OutOfBounds
    BY <1>23 DEF O!OutOfBounds, O!At, O!Fail, O!shared, O!fileVars, O!copyVars, O!zmqVars,
       O!takeVars, O!frameVars, O!outputVars, O!FlagsOK
<1>24. CASE O!decompress_jpeg
    BY <1>24 DEF O!decompress_jpeg, O!At, O!Fail, O!shared, O!fileVars, O!copyVars, O!zmqVars,
       O!takeVars, O!frameVars, O!outputVars, O!FlagsOK
<1>25. CASE OutMeasure
    BY <1>25 DEF OutMeasure, O!Measure, O!At, O!Fail, O!shared, O!fileVars, O!copyVars, O!zmqVars,
       O!takeVars, O!frameVars, O!outputVars, O!FlagsOK
<1>26. CASE O!CannotMeasure
    BY <1>26 DEF O!CannotMeasure, O!At, O!Fail, O!shared, O!fileVars, O!copyVars, O!zmqVars,
       O!takeVars, O!frameVars, O!outputVars, O!FlagsOK
<1> QED
    BY <1>1, <1>2, <1>3, <1>4, <1>5, <1>6, <1>7, <1>8, <1>9, <1>10, <1>11, <1>12, <1>13, <1>14,
       <1>15, <1>16, <1>17, <1>18, <1>19, <1>20, <1>21, <1>22, <1>23, <1>24, <1>25, <1>26 DEF
       OutputStep

\* What an output keeps has its type.
LEMMA OutKeptStep ==
    ASSUME O!KeptOK, O!PackInv, SharedInv, I!SizeInv, OutputStep
    PROVE  O!KeptOK'
<1> USE PluginsAssumption
<1>1. CASE OutGo
    BY <1>1 DEF OutGo, O!Go, O!At, O!Fail, O!shared, O!fileVars, O!copyVars, O!zmqVars,
       O!takeVars, O!frameVars, O!outputVars, O!KeptOK
<1>2. CASE OutReturn
    BY <1>2 DEF OutReturn, O!Return, O!At, O!Fail, O!shared, O!fileVars, O!copyVars, O!zmqVars,
       O!takeVars, O!frameVars, O!outputVars, O!KeptOK
<1>3. CASE OutFails
    BY <1>3 DEF OutFails, O!output_fails, O!At, O!Fail, O!shared, O!fileVars, O!copyVars,
       O!zmqVars, O!takeVars, O!frameVars, O!outputVars, O!KeptOK
<1>4. CASE OutRun
    BY <1>4 DEF OutRun, O!output_run, O!At, O!Fail, O!shared, O!fileVars, O!copyVars, O!zmqVars,
       O!takeVars, O!frameVars, O!outputVars, O!KeptOK, O!FirstCaps, O!Plugins
<1>5. CASE OutWait
    BY <1>5 DEF OutWait, O!WaitPicture, O!WaitFresh, O!At, O!Fail, O!shared, O!fileVars,
       O!copyVars, O!zmqVars, O!takeVars, O!frameVars, O!outputVars, O!KeptOK
<1>6. CASE OutWoken
    BY <1>6 DEF OutWoken, O!Woken, O!WakeUp, O!LockDb, O!At, O!Fail, O!shared, O!fileVars,
       O!copyVars, O!zmqVars, O!takeVars, O!frameVars, O!outputVars, O!KeptOK
<1>7. CASE OutCopy
  <2>1. pos \in O!Slots /\ mine[2] \in Nat
    BY <1>7 DEF OutCopy, O!CopyPicture, O!At, O!PackInv, O!Slots, SharedInv
  <2>2. caps' \in [O!Slots -> Nat] /\ max_frame_size' \in Nat
    BY <1>7, <2>1, GrowKept DEF OutCopy, O!CopyPicture, O!KeptOK
  <2> QED
    BY <1>7, <2>2 DEF OutCopy, O!CopyPicture, O!shared, O!fileVars, O!zmqVars, O!KeptOK
<1>8. CASE OutNoMemory
  <2>1. mine[2] \in Nat
    BY DEF SharedInv
  <2>2. max_frame_size' \in Nat
    BY <1>8, <2>1 DEF OutNoMemory, O!NoMemory, O!MoreRoom, O!KeptOK
  <2> QED
    BY <1>8, <2>2 DEF OutNoMemory, O!NoMemory, O!fileVars, O!zmqVars, O!KeptOK
<1>9. CASE O!Cancelled
    BY <1>9 DEF O!Cancelled, O!At, O!Fail, O!shared, O!fileVars, O!copyVars, O!zmqVars,
       O!takeVars, O!frameVars, O!outputVars, O!KeptOK
<1>10. CASE O!file_init
  <2>1. ring' \in Int /\ exceed' \in Int /\ folder' \in Seq(Int)
    BY <1>10, RingOptionsKept DEF O!file_init
  <2> QED
    BY <1>10, <2>1 DEF O!file_init, O!shared, O!copyVars, O!zmqVars, O!KeptOK
<1>11. CASE O!WritePicture
  <2>1. folder' \in Seq(Int)
    BY <1>11, NamedKept DEF O!WritePicture, O!KeptOK
  <2> QED
    BY <1>11, <2>1 DEF O!WritePicture, O!shared, O!zmqVars, O!KeptOK
<1>12. CASE O!CannotWrite
  <2>1. folder' \in Seq(Int)
    BY <1>12, NamedKept DEF O!CannotWrite, O!KeptOK
  <2> QED
    BY <1>12, <2>1 DEF O!CannotWrite, O!copyVars, O!zmqVars, O!KeptOK
<1>13. CASE OutRing
  <2>1. folder' \in Seq(Int)
    BY <1>13, RingKeeps DEF OutRing, O!KeptOK
  <2> QED
    BY <1>13, <2>1 DEF OutRing, O!KeepRing, O!copyVars, O!zmqVars, O!KeptOK
<1>14. CASE O!TakeCopies
  <2>1. pos \in O!Slots /\ size \in Nat
    <3>1. pos = 0
      BY <1>14 DEF O!TakeCopies, O!PackInv
    <3>2. size \in Nat
      BY DEF I!SizeInv
    <3> QED
      BY <3>1, <3>2 DEF O!Slots
  <2>2. caps' \in [O!Slots -> Nat] /\ max_frame_size' \in Nat
    BY <1>14, <2>1, GrowKept DEF O!TakeCopies, O!MoreRoom, O!KeptOK
  <2> QED
    BY <1>14, <2>2 DEF O!TakeCopies, O!fileVars, O!zmqVars, O!KeptOK
<1>15. CASE O!TakeWritten
    BY <1>15 DEF O!TakeWritten, O!At, O!Fail, O!shared, O!fileVars, O!copyVars, O!zmqVars,
       O!takeVars, O!frameVars, O!outputVars, O!KeptOK
<1>16. CASE OutReceive
    BY <1>16 DEF OutReceive, O!Receive, O!At, O!Fail, O!shared, O!fileVars, O!copyVars, O!zmqVars,
       O!takeVars, O!frameVars, O!outputVars, O!KeptOK
<1>17. CASE OutSave
    BY <1>17 DEF OutSave, O!SaveNamed, O!At, O!Fail, O!shared, O!fileVars, O!copyVars, O!zmqVars,
       O!takeVars, O!frameVars, O!outputVars, O!KeptOK
<1>18. CASE OutReply
    BY <1>18 DEF OutReply, O!Reply, O!At, O!Fail, O!shared, O!fileVars, O!copyVars, O!zmqVars,
       O!takeVars, O!frameVars, O!outputVars, O!KeptOK
<1>19. CASE O!zmqserver_init
  <2>1. ring' \in Int /\ exceed' \in Int /\ folder' \in Seq(Int)
    BY <1>19, RingOptionsKept DEF O!zmqserver_init
  <2>2. zsize' \in Int
    BY <1>19 DEF O!zmqserver_init
  <2> QED
    BY <1>19, <2>1, <2>2 DEF O!zmqserver_init, O!shared, O!copyVars, O!KeptOK
<1>20. CASE O!NoPackage
    BY <1>20 DEF O!NoPackage, O!At, O!Fail, O!shared, O!fileVars, O!copyVars, O!zmqVars, O!takeVars,
       O!frameVars, O!outputVars, O!KeptOK
<1>21. CASE O!Pack
  <2>1. packed' \in Seq(Nat)
    <3>1. pos \in Nat
      BY DEF O!PackInv
    <3> QED
      BY <1>21, <3>1 DEF O!Pack, O!KeptOK
  <2> QED
    BY <1>21, <2>1 DEF O!Pack, O!shared, O!fileVars, O!KeptOK
<1>22. CASE O!SendPackage
    BY <1>22 DEF O!SendPackage, O!At, O!Fail, O!shared, O!fileVars, O!copyVars, O!zmqVars,
       O!takeVars, O!frameVars, O!outputVars, O!KeptOK
<1>23. CASE O!OutOfBounds
    BY <1>23 DEF O!OutOfBounds, O!At, O!Fail, O!shared, O!fileVars, O!copyVars, O!zmqVars,
       O!takeVars, O!frameVars, O!outputVars, O!KeptOK
<1>24. CASE O!decompress_jpeg
    BY <1>24 DEF O!decompress_jpeg, O!At, O!Fail, O!shared, O!fileVars, O!copyVars, O!zmqVars,
       O!takeVars, O!frameVars, O!outputVars, O!KeptOK
<1>25. CASE OutMeasure
    BY <1>25 DEF OutMeasure, O!Measure, O!At, O!Fail, O!shared, O!fileVars, O!copyVars, O!zmqVars,
       O!takeVars, O!frameVars, O!outputVars, O!KeptOK
<1>26. CASE O!CannotMeasure
    BY <1>26 DEF O!CannotMeasure, O!At, O!Fail, O!shared, O!fileVars, O!copyVars, O!zmqVars,
       O!takeVars, O!frameVars, O!outputVars, O!KeptOK
<1> QED
    BY <1>1, <1>2, <1>3, <1>4, <1>5, <1>6, <1>7, <1>8, <1>9, <1>10, <1>11, <1>12, <1>13, <1>14,
       <1>15, <1>16, <1>17, <1>18, <1>19, <1>20, <1>21, <1>22, <1>23, <1>24, <1>25, <1>26 DEF
       OutputStep

\* The mutex while a picture is copied.
LEMMA OutLockStep ==
    ASSUME O!LockInv, SharedInv, Nobody # "output", OutputStep
    PROVE  O!LockInv'
<1>1. CASE OutGo
    BY <1>1 DEF OutGo, O!Go, O!At, O!Fail, O!shared, O!fileVars, O!copyVars, O!zmqVars,
       O!takeVars, O!frameVars, O!outputVars, O!LockInv
<1>2. CASE OutReturn
    BY <1>2 DEF OutReturn, O!Return, O!At, O!Fail, O!shared, O!fileVars, O!copyVars, O!zmqVars,
       O!takeVars, O!frameVars, O!outputVars, O!LockInv
<1>3. CASE OutFails
    BY <1>3 DEF OutFails, O!output_fails, O!At, O!Fail, O!shared, O!fileVars, O!copyVars,
       O!zmqVars, O!takeVars, O!frameVars, O!outputVars, O!LockInv
<1>4. CASE OutRun
    BY <1>4 DEF OutRun, O!output_run, O!At, O!Fail, O!shared, O!fileVars, O!copyVars, O!zmqVars,
       O!takeVars, O!frameVars, O!outputVars, O!LockInv
<1>5. CASE OutWait
    BY <1>5 DEF OutWait, O!WaitPicture, O!WaitFresh, O!At, O!Fail, O!shared, O!fileVars,
       O!copyVars, O!zmqVars, O!takeVars, O!frameVars, O!outputVars, O!LockInv
<1>6. CASE OutWoken
    BY <1>6 DEF OutWoken, O!Woken, O!WakeUp, O!LockDb, O!At, O!Fail, O!shared, O!fileVars,
       O!copyVars, O!zmqVars, O!takeVars, O!frameVars, O!outputVars, O!LockInv
<1>7. CASE OutCopy
    BY <1>7 DEF OutCopy, O!CopyPicture, O!At, O!Fail, O!shared, O!fileVars, O!copyVars, O!zmqVars,
       O!takeVars, O!frameVars, O!outputVars, O!LockInv
<1>8. CASE OutNoMemory
    BY <1>8 DEF OutNoMemory, O!NoMemory, O!UnlockDb, O!At, O!Fail, O!shared, O!fileVars,
       O!copyVars, O!zmqVars, O!takeVars, O!frameVars, O!outputVars, O!LockInv
<1>9. CASE O!Cancelled
    BY <1>9 DEF O!Cancelled, O!At, O!Fail, O!shared, O!fileVars, O!copyVars, O!zmqVars,
       O!takeVars, O!frameVars, O!outputVars, O!LockInv
<1>10. CASE O!file_init
    BY <1>10 DEF O!file_init, O!At, O!Fail, O!shared, O!fileVars, O!copyVars, O!zmqVars,
       O!takeVars, O!frameVars, O!outputVars, O!LockInv
<1>11. CASE O!WritePicture
    BY <1>11 DEF O!WritePicture, O!At, O!Fail, O!shared, O!fileVars, O!copyVars, O!zmqVars,
       O!takeVars, O!frameVars, O!outputVars, O!LockInv
<1>12. CASE O!CannotWrite
    BY <1>12 DEF O!CannotWrite, O!At, O!Fail, O!shared, O!fileVars, O!copyVars, O!zmqVars,
       O!takeVars, O!frameVars, O!outputVars, O!LockInv
<1>13. CASE OutRing
    BY <1>13 DEF OutRing, O!KeepRing, O!At, O!Fail, O!shared, O!fileVars, O!copyVars, O!zmqVars,
       O!takeVars, O!frameVars, O!outputVars, O!LockInv
<1>14. CASE O!TakeCopies
    BY <1>14 DEF O!TakeCopies, O!At, O!Fail, O!shared, O!fileVars, O!copyVars, O!zmqVars,
       O!takeVars, O!frameVars, O!outputVars, O!LockInv
<1>15. CASE O!TakeWritten
    BY <1>15 DEF O!TakeWritten, O!At, O!Fail, O!shared, O!fileVars, O!copyVars, O!zmqVars,
       O!takeVars, O!frameVars, O!outputVars, O!LockInv
<1>16. CASE OutReceive
    BY <1>16 DEF OutReceive, O!Receive, O!At, O!Fail, O!shared, O!fileVars, O!copyVars, O!zmqVars,
       O!takeVars, O!frameVars, O!outputVars, O!LockInv
<1>17. CASE OutSave
    BY <1>17 DEF OutSave, O!SaveNamed, O!At, O!Fail, O!shared, O!fileVars, O!copyVars, O!zmqVars,
       O!takeVars, O!frameVars, O!outputVars, O!LockInv
<1>18. CASE OutReply
    BY <1>18 DEF OutReply, O!Reply, O!At, O!Fail, O!shared, O!fileVars, O!copyVars, O!zmqVars,
       O!takeVars, O!frameVars, O!outputVars, O!LockInv
<1>19. CASE O!zmqserver_init
    BY <1>19 DEF O!zmqserver_init, O!At, O!Fail, O!shared, O!fileVars, O!copyVars, O!zmqVars,
       O!takeVars, O!frameVars, O!outputVars, O!LockInv
<1>20. CASE O!NoPackage
    BY <1>20 DEF O!NoPackage, O!At, O!Fail, O!shared, O!fileVars, O!copyVars, O!zmqVars, O!takeVars,
       O!frameVars, O!outputVars, O!LockInv
<1>21. CASE O!Pack
    BY <1>21 DEF O!Pack, O!At, O!Fail, O!shared, O!fileVars, O!copyVars, O!zmqVars, O!takeVars,
       O!frameVars, O!outputVars, O!LockInv
<1>22. CASE O!SendPackage
    BY <1>22 DEF O!SendPackage, O!At, O!Fail, O!shared, O!fileVars, O!copyVars, O!zmqVars,
       O!takeVars, O!frameVars, O!outputVars, O!LockInv
<1>23. CASE O!OutOfBounds
    BY <1>23 DEF O!OutOfBounds, O!At, O!Fail, O!shared, O!fileVars, O!copyVars, O!zmqVars,
       O!takeVars, O!frameVars, O!outputVars, O!LockInv
<1>24. CASE O!decompress_jpeg
    BY <1>24 DEF O!decompress_jpeg, O!At, O!Fail, O!shared, O!fileVars, O!copyVars, O!zmqVars,
       O!takeVars, O!frameVars, O!outputVars, O!LockInv
<1>25. CASE OutMeasure
    BY <1>25 DEF OutMeasure, O!Measure, O!At, O!Fail, O!shared, O!fileVars, O!copyVars, O!zmqVars,
       O!takeVars, O!frameVars, O!outputVars, O!LockInv
<1>26. CASE O!CannotMeasure
    BY <1>26 DEF O!CannotMeasure, O!At, O!Fail, O!shared, O!fileVars, O!copyVars, O!zmqVars,
       O!takeVars, O!frameVars, O!outputVars, O!LockInv
<1> QED
    BY <1>1, <1>2, <1>3, <1>4, <1>5, <1>6, <1>7, <1>8, <1>9, <1>10, <1>11, <1>12, <1>13, <1>14,
       <1>15, <1>16, <1>17, <1>18, <1>19, <1>20, <1>21, <1>22, <1>23, <1>24, <1>25, <1>26 DEF
       OutputStep

\* One measurement.
LEMMA SearchKept ==
    ASSUME O!LensInv, NEW sv \in Sharpness, lens' = O!Search(sv)
    PROVE  O!LensInv'
<1> DEFINE Lens == [focus : Int, max_focus : Int, max_sv : Int, search : BOOLEAN, first : BOOLEAN,
                    measured : SUBSET (Int \X Int)]
           fresh == [focus |-> FocusMax, max_focus |-> FocusMax, max_sv |-> -1, search |-> TRUE,
                     first |-> FALSE, measured |-> {}]
           again == IF lens.search THEN lens ELSE fresh
           down == IF again.focus - FocusStep < 0 THEN 0 ELSE again.focus - FocusStep
           done == [again EXCEPT !.focus = again.max_focus, !.search = FALSE]
           better == IF sv > again.max_sv
                     THEN [again EXCEPT !.max_focus = again.focus, !.max_sv = sv] ELSE again
           next == [better EXCEPT !.focus = down, !.measured = @ \cup {<<again.focus, sv>>}]
           Found100 == again.first /\ again.max_focus = 100 /\ again.max_sv = 100 /\ \A m \in again.measured : m[2] <= 100
           FoundBest == /\ <<again.max_focus, again.max_sv>> \in again.measured
                        /\ \A m \in again.measured : m[2] <= again.max_sv
           Nothing == again.measured = {} /\ again.max_sv = -1 /\ again.max_focus = again.focus
<1>1. lens' = IF again.focus <= 0 THEN done ELSE next
    BY DEF O!Search
<1>2. lens \in Lens
    BY DEF O!LensInv
<1>3. FocusMax \in Nat \ {0} /\ FocusStep \in Nat /\ sv \in Int /\ sv >= -1
    BY PluginsAssumption
<1>4. /\ fresh \in Lens /\ fresh.focus = FocusMax /\ fresh.max_focus = FocusMax /\ fresh.max_sv = -1
      /\ fresh.search = TRUE /\ fresh.first = FALSE /\ fresh.measured = {}
    BY <1>3
<1> HIDE DEF fresh
<1>5. /\ again \in Lens /\ again.search = TRUE
      /\ Found100 \/ FoundBest \/ (Nothing /\ again.focus > 0)
  <2>1. CASE lens.search
    BY <1>2, <2>1 DEF O!LensInv, O!Best
  <2>2. CASE ~lens.search
    BY <1>3, <1>4, <2>2
  <2> QED
    BY <2>1, <2>2
<1> HIDE DEF again
<1>6. CASE again.focus <= 0
  <2>1. lens' = done
    BY <1>1, <1>6
  <2>2. /\ done \in Lens /\ done.focus = again.max_focus /\ done.max_focus = again.max_focus
        /\ done.max_sv = again.max_sv /\ done.search = FALSE /\ done.first = again.first
        /\ done.measured = again.measured
    BY <1>5
  <2> HIDE DEF done
  <2> QED
    BY <1>5, <1>6, <2>1, <2>2 DEF O!LensInv, O!Best
<1>7. CASE ~(again.focus <= 0)
  <2>1. lens' = next
    BY <1>1, <1>7
  <2>2. /\ again.focus \in Int /\ again.max_focus \in Int /\ again.max_sv \in Int
        /\ again.first \in BOOLEAN /\ again.measured \in SUBSET (Int \X Int)
    BY <1>5
  <2>3. /\ better \in Lens /\ better.search = TRUE /\ better.first = again.first
        /\ better.measured = again.measured
        /\ better.max_focus = (IF sv > again.max_sv THEN again.focus ELSE again.max_focus)
        /\ better.max_sv = (IF sv > again.max_sv THEN sv ELSE again.max_sv)
    <3>1. CASE sv > again.max_sv
      <4>1. better = [again EXCEPT !.max_focus = again.focus, !.max_sv = sv]
        BY <3>1
      <4> HIDE DEF better
      <4> QED
        BY <1>3, <1>5, <2>2, <3>1, <4>1
    <3>2. CASE ~(sv > again.max_sv)
      BY <1>5, <2>2, <3>2
    <3> QED
      BY <3>1, <3>2
  <2>4. down \in Int
    BY <1>3, <2>2
  <2> HIDE DEF better, down
  <2> DEFINE all == again.measured \cup {<<again.focus, sv>>}
  <2>5. all \in SUBSET (Int \X Int)
    BY <1>3, <2>2
  <2>6. next = [better EXCEPT !.focus = down, !.measured = all]
    BY <2>3
  <2> HIDE DEF next, all
  <2>7. /\ next \in Lens /\ next.search = TRUE /\ next.first = again.first /\ next.measured = all
        /\ next.max_focus = better.max_focus /\ next.max_sv = better.max_sv
    BY <2>3, <2>4, <2>5, <2>6
  <2>8. \/ <<next.max_focus, next.max_sv>> \in all /\ \A m \in all : m[2] <= next.max_sv
        \/ next.first /\ next.max_focus = 100 /\ next.max_sv = 100 /\ \A m \in all : m[2] <= 100
    <3>1. \A m \in again.measured : m[2] \in Int
      BY <2>2
    <3>2. CASE sv > again.max_sv
      <4>1. next.max_focus = again.focus /\ next.max_sv = sv
        BY <2>3, <2>7, <3>2
      <4>2. \A m \in again.measured : m[2] <= again.max_sv
        BY <1>5
      <4> QED
        BY <1>3, <2>2, <3>1, <3>2, <4>1, <4>2 DEF all
    <3>3. CASE ~(sv > again.max_sv)
      <4>1. next.max_focus = again.max_focus /\ next.max_sv = again.max_sv
        BY <2>3, <2>7, <3>3
      <4>2. CASE Found100
        BY <1>3, <2>2, <2>7, <3>1, <3>3, <4>1, <4>2 DEF all
      <4>3. CASE FoundBest
        BY <1>3, <2>2, <3>1, <3>3, <4>1, <4>3 DEF all
      <4>4. CASE Nothing
        BY <1>3, <2>2, <3>3, <4>1, <4>4 DEF all
      <4> QED
        BY <1>5, <4>2, <4>3, <4>4
    <3> QED
      BY <3>2, <3>3
  <2> QED
    BY <2>1, <2>7, <2>8 DEF O!LensInv, O!Best
<1> QED
    BY <1>6, <1>7

\* The search for the best position of the lens.
LEMMA LensStep ==
    ASSUME O!LensInv, OutputStep
    PROVE  O!LensInv'
<1> USE DEF O!Best
<1>1. CASE OutGo
    BY <1>1 DEF OutGo, O!Go, O!At, O!Fail, O!shared, O!fileVars, O!copyVars, O!zmqVars, O!takeVars,
       O!frameVars, O!outputVars, O!LensInv
<1>2. CASE OutReturn
    BY <1>2 DEF OutReturn, O!Return, O!At, O!Fail, O!shared, O!fileVars, O!copyVars, O!zmqVars,
       O!takeVars, O!frameVars, O!outputVars, O!LensInv
<1>3. CASE OutFails
    BY <1>3 DEF OutFails, O!output_fails, O!At, O!Fail, O!shared, O!fileVars, O!copyVars, O!zmqVars,
       O!takeVars, O!frameVars, O!outputVars, O!LensInv
<1>4. CASE OutRun
    BY <1>4 DEF OutRun, O!output_run, O!At, O!Fail, O!shared, O!fileVars, O!copyVars, O!zmqVars,
       O!takeVars, O!frameVars, O!outputVars, O!LensInv
<1>5. CASE OutWait
    BY <1>5 DEF OutWait, O!WaitPicture, O!WaitFresh, O!At, O!Fail, O!shared, O!fileVars, O!copyVars,
       O!zmqVars, O!takeVars, O!frameVars, O!outputVars, O!LensInv
<1>6. CASE OutWoken
    BY <1>6 DEF OutWoken, O!Woken, O!WakeUp, O!At, O!Fail, O!shared, O!fileVars, O!copyVars,
       O!zmqVars, O!takeVars, O!frameVars, O!outputVars, O!LensInv
<1>7. CASE OutCopy
    BY <1>7 DEF OutCopy, O!CopyPicture, O!At, O!Fail, O!shared, O!fileVars, O!copyVars, O!zmqVars,
       O!takeVars, O!frameVars, O!outputVars, O!LensInv
<1>8. CASE OutNoMemory
    BY <1>8 DEF OutNoMemory, O!NoMemory, O!At, O!Fail, O!shared, O!fileVars, O!copyVars, O!zmqVars,
       O!takeVars, O!frameVars, O!outputVars, O!LensInv
<1>9. CASE O!Cancelled
    BY <1>9 DEF O!Cancelled, O!At, O!Fail, O!shared, O!fileVars, O!copyVars, O!zmqVars, O!takeVars,
       O!frameVars, O!outputVars, O!LensInv
<1>10. CASE O!file_init
    BY <1>10 DEF O!file_init, O!At, O!Fail, O!shared, O!fileVars, O!copyVars, O!zmqVars, O!takeVars,
       O!frameVars, O!outputVars, O!LensInv
<1>11. CASE O!WritePicture
    BY <1>11 DEF O!WritePicture, O!At, O!Fail, O!shared, O!fileVars, O!copyVars, O!zmqVars,
       O!takeVars, O!frameVars, O!outputVars, O!LensInv
<1>12. CASE O!CannotWrite
    BY <1>12 DEF O!CannotWrite, O!At, O!Fail, O!shared, O!fileVars, O!copyVars, O!zmqVars,
       O!takeVars, O!frameVars, O!outputVars, O!LensInv
<1>13. CASE OutRing
    BY <1>13 DEF OutRing, O!KeepRing, O!At, O!Fail, O!shared, O!fileVars, O!copyVars, O!zmqVars,
       O!takeVars, O!frameVars, O!outputVars, O!LensInv
<1>14. CASE O!TakeCopies
    BY <1>14 DEF O!TakeCopies, O!At, O!Fail, O!shared, O!fileVars, O!copyVars, O!zmqVars, O!takeVars,
       O!frameVars, O!outputVars, O!LensInv
<1>15. CASE O!TakeWritten
    BY <1>15 DEF O!TakeWritten, O!At, O!Fail, O!shared, O!fileVars, O!copyVars, O!zmqVars,
       O!takeVars, O!frameVars, O!outputVars, O!LensInv
<1>16. CASE OutReceive
    BY <1>16 DEF OutReceive, O!Receive, O!At, O!Fail, O!shared, O!fileVars, O!copyVars, O!zmqVars,
       O!takeVars, O!frameVars, O!outputVars, O!LensInv
<1>17. CASE OutSave
    BY <1>17 DEF OutSave, O!SaveNamed, O!At, O!Fail, O!shared, O!fileVars, O!copyVars, O!zmqVars,
       O!takeVars, O!frameVars, O!outputVars, O!LensInv
<1>18. CASE OutReply
    BY <1>18 DEF OutReply, O!Reply, O!At, O!Fail, O!shared, O!fileVars, O!copyVars, O!zmqVars,
       O!takeVars, O!frameVars, O!outputVars, O!LensInv
<1>19. CASE O!zmqserver_init
    BY <1>19 DEF O!zmqserver_init, O!At, O!Fail, O!shared, O!fileVars, O!copyVars, O!zmqVars,
       O!takeVars, O!frameVars, O!outputVars, O!LensInv
<1>20. CASE O!NoPackage
    BY <1>20 DEF O!NoPackage, O!At, O!Fail, O!shared, O!fileVars, O!copyVars, O!zmqVars, O!takeVars,
       O!frameVars, O!outputVars, O!LensInv
<1>21. CASE O!Pack
    BY <1>21 DEF O!Pack, O!At, O!Fail, O!shared, O!fileVars, O!copyVars, O!zmqVars, O!takeVars,
       O!frameVars, O!outputVars, O!LensInv
<1>22. CASE O!SendPackage
    BY <1>22 DEF O!SendPackage, O!At, O!Fail, O!shared, O!fileVars, O!copyVars, O!zmqVars,
       O!takeVars, O!frameVars, O!outputVars, O!LensInv
<1>23. CASE O!OutOfBounds
    BY <1>23 DEF O!OutOfBounds, O!At, O!Fail, O!shared, O!fileVars, O!copyVars, O!zmqVars,
       O!takeVars, O!frameVars, O!outputVars, O!LensInv
<1>24. CASE O!decompress_jpeg
    BY <1>24 DEF O!decompress_jpeg, O!At, O!Fail, O!shared, O!fileVars, O!copyVars, O!zmqVars,
       O!takeVars, O!frameVars, O!outputVars, O!LensInv
<1>25. CASE OutMeasure
  <2>1. PICK sv \in Sharpness : O!Measure(sv)
    BY <1>25 DEF OutMeasure
  <2>2. lens' = lens \/ lens' = O!Search(sv)
    BY <2>1 DEF O!Measure
  <2>3. CASE lens' = O!Search(sv)
    BY <2>3, SearchKept
  <2> QED
    BY <2>2, <2>3 DEF O!LensInv
<1>26. CASE O!CannotMeasure
    BY <1>26 DEF O!CannotMeasure, O!At, O!Fail, O!shared, O!fileVars, O!copyVars, O!zmqVars,
       O!takeVars, O!frameVars, O!outputVars, O!LensInv
<1> QED
    BY <1>1, <1>2, <1>3, <1>4, <1>5, <1>6, <1>7, <1>8, <1>9, <1>10, <1>11, <1>12, <1>13, <1>14,
       <1>15, <1>16, <1>17, <1>18, <1>19, <1>20, <1>21, <1>22, <1>23, <1>24, <1>25, <1>26 DEF
       OutputStep

-----------------------------------------------------------------------------
(* The outputs: what they do to the pictures, and to their copies.          *)

\* A step of an output, as the input sees it.
OutputEffect ==
    /\ UNCHANGED <<buf, size, sig>> /\ nfail' \in {nfail, nfail + 1} /\ nfail' \in 0..MaxFail
    /\ db' = db \/ (db = Nobody /\ db' = "output") \/ (db = "output" /\ db' = Nobody)
    /\ asleep' \subseteq {"output"} /\ opc' \in OutputPlaces
    /\ opc = "init" => opc' \in {"init", "run"}
    /\ opc' \in {"init", "run"} => opc \in {"init", "run"}
    /\ opc' = "init" => opc = "init"

\* Each step of an output has that effect.
LEMMA OutputEffects ==
    ASSUME SharedInv, O!LockInv, OutputStep
    PROVE  OutputEffect
<1> USE PluginsAssumption
<1>1. CASE OutGo
    BY <1>1 DEF OutGo, O!Go, O!At, O!Fail, O!shared, O!fileVars, O!copyVars, O!zmqVars,
       O!takeVars, O!frameVars, O!outputVars, OutputEffect, SharedInv, OutputPlaces
<1>2. CASE OutReturn
    BY <1>2 DEF OutReturn, O!Return, O!At, O!Fail, O!shared, O!fileVars, O!copyVars, O!zmqVars,
       O!takeVars, O!frameVars, O!outputVars, OutputEffect, SharedInv, OutputPlaces
<1>3. CASE OutFails
    BY <1>3 DEF OutFails, O!output_fails, O!At, O!Fail, O!shared, O!fileVars, O!copyVars,
       O!zmqVars, O!takeVars, O!frameVars, O!outputVars, OutputEffect, SharedInv, OutputPlaces
<1>4. CASE OutRun
    BY <1>4 DEF OutRun, O!output_run, O!At, O!Fail, O!shared, O!fileVars, O!copyVars, O!zmqVars,
       O!takeVars, O!frameVars, O!outputVars, OutputEffect, SharedInv, OutputPlaces
<1>5. CASE OutWait
    BY <1>5 DEF OutWait, O!WaitPicture, O!WaitFresh, O!At, O!Fail, O!shared, O!fileVars,
       O!copyVars, O!zmqVars, O!takeVars, O!frameVars, O!outputVars, OutputEffect, SharedInv,
       OutputPlaces
<1>6. CASE OutWoken
    BY <1>6 DEF OutWoken, O!Woken, O!WakeUp, O!LockDb, O!At, O!Fail, O!shared, O!fileVars,
       O!copyVars, O!zmqVars, O!takeVars, O!frameVars, O!outputVars, OutputEffect, SharedInv,
       OutputPlaces
<1>7. CASE OutCopy
    BY <1>7 DEF OutCopy, O!CopyPicture, O!At, O!Fail, O!shared, O!fileVars, O!copyVars, O!zmqVars,
       O!takeVars, O!frameVars, O!outputVars, OutputEffect, SharedInv, OutputPlaces, O!LockInv
<1>8. CASE OutNoMemory
    BY <1>8 DEF OutNoMemory, O!NoMemory, O!UnlockDb, O!At, O!Fail, O!shared, O!fileVars,
       O!copyVars, O!zmqVars, O!takeVars, O!frameVars, O!outputVars, OutputEffect, SharedInv,
       OutputPlaces
<1>9. CASE O!Cancelled
    BY <1>9 DEF O!Cancelled, O!At, O!Fail, O!shared, O!fileVars, O!copyVars, O!zmqVars,
       O!takeVars, O!frameVars, O!outputVars, OutputEffect, SharedInv, OutputPlaces
<1>10. CASE O!file_init
    BY <1>10 DEF O!file_init, O!At, O!Fail, O!shared, O!fileVars, O!copyVars, O!zmqVars,
       O!takeVars, O!frameVars, O!outputVars, OutputEffect, SharedInv, OutputPlaces
<1>11. CASE O!WritePicture
    BY <1>11 DEF O!WritePicture, O!At, O!Fail, O!shared, O!fileVars, O!copyVars, O!zmqVars,
       O!takeVars, O!frameVars, O!outputVars, OutputEffect, SharedInv, OutputPlaces
<1>12. CASE O!CannotWrite
    BY <1>12 DEF O!CannotWrite, O!At, O!Fail, O!shared, O!fileVars, O!copyVars, O!zmqVars,
       O!takeVars, O!frameVars, O!outputVars, OutputEffect, SharedInv, OutputPlaces
<1>13. CASE OutRing
    BY <1>13 DEF OutRing, O!KeepRing, O!At, O!Fail, O!shared, O!fileVars, O!copyVars, O!zmqVars,
       O!takeVars, O!frameVars, O!outputVars, OutputEffect, SharedInv, OutputPlaces
<1>14. CASE O!TakeCopies
    BY <1>14 DEF O!TakeCopies, O!At, O!Fail, O!shared, O!fileVars, O!copyVars, O!zmqVars,
       O!takeVars, O!frameVars, O!outputVars, OutputEffect, SharedInv, OutputPlaces
<1>15. CASE O!TakeWritten
    BY <1>15 DEF O!TakeWritten, O!At, O!Fail, O!shared, O!fileVars, O!copyVars, O!zmqVars,
       O!takeVars, O!frameVars, O!outputVars, OutputEffect, SharedInv, OutputPlaces
<1>16. CASE OutReceive
    BY <1>16 DEF OutReceive, O!Receive, O!At, O!Fail, O!shared, O!fileVars, O!copyVars, O!zmqVars,
       O!takeVars, O!frameVars, O!outputVars, OutputEffect, SharedInv, OutputPlaces
<1>17. CASE OutSave
    BY <1>17 DEF OutSave, O!SaveNamed, O!At, O!Fail, O!shared, O!fileVars, O!copyVars, O!zmqVars,
       O!takeVars, O!frameVars, O!outputVars, OutputEffect, SharedInv, OutputPlaces
<1>18. CASE OutReply
    BY <1>18 DEF OutReply, O!Reply, O!At, O!Fail, O!shared, O!fileVars, O!copyVars, O!zmqVars,
       O!takeVars, O!frameVars, O!outputVars, OutputEffect, SharedInv, OutputPlaces
<1>19. CASE O!zmqserver_init
    BY <1>19 DEF O!zmqserver_init, O!At, O!Fail, O!shared, O!fileVars, O!copyVars, O!zmqVars,
       O!takeVars, O!frameVars, O!outputVars, OutputEffect, SharedInv, OutputPlaces
<1>20. CASE O!NoPackage
    BY <1>20 DEF O!NoPackage, O!At, O!Fail, O!shared, O!fileVars, O!copyVars, O!zmqVars, O!takeVars,
       O!frameVars, O!outputVars, OutputEffect, SharedInv, OutputPlaces
<1>21. CASE O!Pack
    BY <1>21 DEF O!Pack, O!At, O!Fail, O!shared, O!fileVars, O!copyVars, O!zmqVars, O!takeVars,
       O!frameVars, O!outputVars, OutputEffect, SharedInv, OutputPlaces
<1>22. CASE O!SendPackage
    BY <1>22 DEF O!SendPackage, O!At, O!Fail, O!shared, O!fileVars, O!copyVars, O!zmqVars,
       O!takeVars, O!frameVars, O!outputVars, OutputEffect, SharedInv, OutputPlaces
<1>23. CASE O!OutOfBounds
    BY <1>23 DEF O!OutOfBounds, O!At, O!Fail, O!shared, O!fileVars, O!copyVars, O!zmqVars,
       O!takeVars, O!frameVars, O!outputVars, OutputEffect, SharedInv, OutputPlaces
<1>24. CASE O!decompress_jpeg
    BY <1>24 DEF O!decompress_jpeg, O!At, O!Fail, O!shared, O!fileVars, O!copyVars, O!zmqVars,
       O!takeVars, O!frameVars, O!outputVars, OutputEffect, SharedInv, OutputPlaces
<1>25. CASE OutMeasure
    BY <1>25 DEF OutMeasure, O!Measure, O!At, O!Fail, O!shared, O!fileVars, O!copyVars, O!zmqVars,
       O!takeVars, O!frameVars, O!outputVars, OutputEffect, SharedInv, OutputPlaces
<1>26. CASE O!CannotMeasure
    BY <1>26 DEF O!CannotMeasure, O!At, O!Fail, O!shared, O!fileVars, O!copyVars, O!zmqVars,
       O!takeVars, O!frameVars, O!outputVars, OutputEffect, SharedInv, OutputPlaces
<1> QED
    BY <1>1, <1>2, <1>3, <1>4, <1>5, <1>6, <1>7, <1>8, <1>9, <1>10, <1>11, <1>12, <1>13, <1>14,
       <1>15, <1>16, <1>17, <1>18, <1>19, <1>20, <1>21, <1>22, <1>23, <1>24, <1>25, <1>26 DEF
       OutputStep

\* No picture.
LEMMA NothingCopied == O!NoPicture \in Contents \X Nat
BY DEF O!NoPicture, Contents, I!Held

\* The copies are pictures, or none.
LEMMA CopiesStep ==
    ASSUME SharedInv, I!SizeInv, OutputStep
    PROVE  mine' \in Contents \X Nat /\ frames' \in [O!Slots -> Contents \X Nat]
<1>1. CASE OutGo
    BY <1>1 DEF OutGo, O!Go, O!At, O!Fail, O!shared, O!fileVars, O!copyVars, O!zmqVars,
       O!takeVars, O!frameVars, O!outputVars, SharedInv
<1>2. CASE OutReturn
    BY <1>2 DEF OutReturn, O!Return, O!At, O!Fail, O!shared, O!fileVars, O!copyVars, O!zmqVars,
       O!takeVars, O!frameVars, O!outputVars, SharedInv
<1>3. CASE OutFails
    BY <1>3 DEF OutFails, O!output_fails, O!At, O!Fail, O!shared, O!fileVars, O!copyVars,
       O!zmqVars, O!takeVars, O!frameVars, O!outputVars, SharedInv
<1>4. CASE OutRun
    BY <1>4 DEF OutRun, O!output_run, O!At, O!Fail, O!shared, O!fileVars, O!copyVars, O!zmqVars,
       O!takeVars, O!frameVars, O!outputVars, SharedInv
<1>5. CASE OutWait
    BY <1>5 DEF OutWait, O!WaitPicture, O!WaitFresh, O!At, O!Fail, O!shared, O!fileVars,
       O!copyVars, O!zmqVars, O!takeVars, O!frameVars, O!outputVars, SharedInv
<1>6. CASE OutWoken
    BY <1>6 DEF OutWoken, O!Woken, O!WakeUp, O!LockDb, O!At, O!Fail, O!shared, O!fileVars,
       O!copyVars, O!zmqVars, O!takeVars, O!frameVars, O!outputVars, SharedInv, I!SizeInv
<1>7. CASE OutCopy
  <2>1. /\ frames' = [frames EXCEPT ![pos] = <<buf, mine[2]>>]
        /\ mine' = mine
    BY <1>7 DEF OutCopy, O!CopyPicture
  <2>2. mine[2] \in Nat /\ <<buf, mine[2]>> \in Contents \X Nat
    BY DEF SharedInv
  <2> QED
    BY <2>1, <2>2 DEF SharedInv
<1>8. CASE OutNoMemory
    BY <1>8 DEF OutNoMemory, O!NoMemory, O!UnlockDb, O!At, O!Fail, O!shared, O!fileVars,
       O!copyVars, O!zmqVars, O!takeVars, O!frameVars, O!outputVars, SharedInv
<1>9. CASE O!Cancelled
    BY <1>9 DEF O!Cancelled, O!At, O!Fail, O!shared, O!fileVars, O!copyVars, O!zmqVars,
       O!takeVars, O!frameVars, O!outputVars, SharedInv
<1>10. CASE O!file_init
    BY <1>10 DEF O!file_init, O!At, O!Fail, O!shared, O!fileVars, O!copyVars, O!zmqVars,
       O!takeVars, O!frameVars, O!outputVars, SharedInv
<1>11. CASE O!WritePicture
  <2>1. mine' \in Contents \X Nat
    BY <1>11, NothingCopied DEF O!WritePicture, O!Forget, SharedInv, I!SizeInv
  <2>2. frames' \in [O!Slots -> Contents \X Nat]
    BY <1>11, NothingCopied DEF O!WritePicture, O!Forget, SharedInv, I!SizeInv
  <2> QED
    BY <2>1, <2>2
<1>12. CASE O!CannotWrite
    BY <1>12 DEF O!CannotWrite, O!At, O!Fail, O!shared, O!fileVars, O!copyVars, O!zmqVars,
       O!takeVars, O!frameVars, O!outputVars, SharedInv
<1>13. CASE OutRing
    BY <1>13 DEF OutRing, O!KeepRing, O!At, O!Fail, O!shared, O!fileVars, O!copyVars, O!zmqVars,
       O!takeVars, O!frameVars, O!outputVars, SharedInv
<1>14. CASE O!TakeCopies
  <2>1. mine' \in Contents \X Nat
    BY <1>14 DEF O!TakeCopies, SharedInv, I!SizeInv
  <2>2. frames' \in [O!Slots -> Contents \X Nat]
    BY <1>14 DEF O!TakeCopies, SharedInv, I!SizeInv
  <2> QED
    BY <2>1, <2>2
<1>15. CASE O!TakeWritten
  <2>1. mine' \in Contents \X Nat
    BY <1>15, NothingCopied DEF O!TakeWritten, O!Forget, SharedInv, I!SizeInv
  <2>2. frames' \in [O!Slots -> Contents \X Nat]
    BY <1>15, NothingCopied DEF O!TakeWritten, O!Forget, SharedInv, I!SizeInv
  <2> QED
    BY <2>1, <2>2
<1>16. CASE OutReceive
    BY <1>16 DEF OutReceive, O!Receive, O!At, O!Fail, O!shared, O!fileVars, O!copyVars, O!zmqVars,
       O!takeVars, O!frameVars, O!outputVars, SharedInv
<1>17. CASE OutSave
  <2>1. mine' \in Contents \X Nat
    BY <1>17, NothingCopied DEF OutSave, O!SaveNamed, O!Forget, SharedInv, I!SizeInv
  <2>2. frames' \in [O!Slots -> Contents \X Nat]
    BY <1>17, NothingCopied DEF OutSave, O!SaveNamed, O!Forget, SharedInv, I!SizeInv
  <2> QED
    BY <2>1, <2>2
<1>18. CASE OutReply
    BY <1>18 DEF OutReply, O!Reply, O!At, O!Fail, O!shared, O!fileVars, O!copyVars, O!zmqVars,
       O!takeVars, O!frameVars, O!outputVars, SharedInv
<1>19. CASE O!zmqserver_init
    BY <1>19 DEF O!zmqserver_init, O!At, O!Fail, O!shared, O!fileVars, O!copyVars, O!zmqVars,
       O!takeVars, O!frameVars, O!outputVars, SharedInv
<1>20. CASE O!NoPackage
    BY <1>20 DEF O!NoPackage, O!At, O!Fail, O!shared, O!fileVars, O!copyVars, O!zmqVars, O!takeVars,
       O!frameVars, O!outputVars, SharedInv
<1>21. CASE O!Pack
    BY <1>21 DEF O!Pack, O!At, O!Fail, O!shared, O!fileVars, O!copyVars, O!zmqVars, O!takeVars,
       O!frameVars, O!outputVars, SharedInv
<1>22. CASE O!SendPackage
  <2>1. mine' \in Contents \X Nat
    BY <1>22, NothingCopied DEF O!SendPackage, O!Forget, SharedInv, I!SizeInv
  <2>2. frames' \in [O!Slots -> Contents \X Nat]
    BY <1>22, NothingCopied DEF O!SendPackage, O!Forget, SharedInv, I!SizeInv
  <2> QED
    BY <2>1, <2>2
<1>23. CASE O!OutOfBounds
    BY <1>23 DEF O!OutOfBounds, O!At, O!Fail, O!shared, O!fileVars, O!copyVars, O!zmqVars,
       O!takeVars, O!frameVars, O!outputVars, SharedInv
<1>24. CASE O!decompress_jpeg
  <2>1. mine' \in Contents \X Nat
    BY <1>24, NothingCopied DEF O!decompress_jpeg, O!Forget, SharedInv, I!SizeInv
  <2>2. frames' \in [O!Slots -> Contents \X Nat]
    BY <1>24, NothingCopied DEF O!decompress_jpeg, O!Forget, SharedInv, I!SizeInv
  <2> QED
    BY <2>1, <2>2
<1>25. CASE OutMeasure
  <2>1. mine' \in Contents \X Nat
    BY <1>25, NothingCopied DEF OutMeasure, O!Measure, O!Forget, SharedInv, I!SizeInv
  <2>2. frames' \in [O!Slots -> Contents \X Nat]
    BY <1>25, NothingCopied DEF OutMeasure, O!Measure, O!Forget, SharedInv, I!SizeInv
  <2> QED
    BY <2>1, <2>2
<1>26. CASE O!CannotMeasure
    BY <1>26 DEF O!CannotMeasure, O!At, O!Fail, O!shared, O!fileVars, O!copyVars, O!zmqVars,
       O!takeVars, O!frameVars, O!outputVars, SharedInv
<1> QED
    BY <1>1, <1>2, <1>3, <1>4, <1>5, <1>6, <1>7, <1>8, <1>9, <1>10, <1>11, <1>12, <1>13, <1>14,
       <1>15, <1>16, <1>17, <1>18, <1>19, <1>20, <1>21, <1>22, <1>23, <1>24, <1>25, <1>26 DEF
       OutputStep

\* The picture that a thread has found is the one in the buffer.
LEMMA OutStableStep ==
    ASSUME CopyStable, UNCHANGED ipc, OutputStep
    PROVE  CopyStable'
<1>1. CASE OutGo
    BY <1>1 DEF OutGo, O!Go, O!At, O!Fail, O!shared, O!fileVars, O!copyVars, O!zmqVars,
       O!takeVars, O!frameVars, O!outputVars, CopyStable, O!Forget
<1>2. CASE OutReturn
    BY <1>2 DEF OutReturn, O!Return, O!At, O!Fail, O!shared, O!fileVars, O!copyVars, O!zmqVars,
       O!takeVars, O!frameVars, O!outputVars, CopyStable, O!Forget
<1>3. CASE OutFails
    BY <1>3 DEF OutFails, O!output_fails, O!At, O!Fail, O!shared, O!fileVars, O!copyVars,
       O!zmqVars, O!takeVars, O!frameVars, O!outputVars, CopyStable, O!Forget
<1>4. CASE OutRun
    BY <1>4 DEF OutRun, O!output_run, O!At, O!Fail, O!shared, O!fileVars, O!copyVars, O!zmqVars,
       O!takeVars, O!frameVars, O!outputVars, CopyStable, O!Forget
<1>5. CASE OutWait
    BY <1>5 DEF OutWait, O!WaitPicture, O!WaitFresh, O!At, O!Fail, O!shared, O!fileVars,
       O!copyVars, O!zmqVars, O!takeVars, O!frameVars, O!outputVars, CopyStable, O!Forget
<1>6. CASE OutWoken
    BY <1>6 DEF OutWoken, O!Woken, O!WakeUp, O!LockDb, O!At, O!Fail, O!shared, O!fileVars,
       O!copyVars, O!zmqVars, O!takeVars, O!frameVars, O!outputVars, CopyStable, O!Forget
<1>7. CASE OutCopy
    BY <1>7 DEF OutCopy, O!CopyPicture, O!At, O!Fail, O!shared, O!fileVars, O!copyVars, O!zmqVars,
       O!takeVars, O!frameVars, O!outputVars, CopyStable, O!Forget
<1>8. CASE OutNoMemory
    BY <1>8 DEF OutNoMemory, O!NoMemory, O!UnlockDb, O!At, O!Fail, O!shared, O!fileVars,
       O!copyVars, O!zmqVars, O!takeVars, O!frameVars, O!outputVars, CopyStable, O!Forget
<1>9. CASE O!Cancelled
    BY <1>9 DEF O!Cancelled, O!At, O!Fail, O!shared, O!fileVars, O!copyVars, O!zmqVars,
       O!takeVars, O!frameVars, O!outputVars, CopyStable, O!Forget
<1>10. CASE O!file_init
    BY <1>10 DEF O!file_init, O!At, O!Fail, O!shared, O!fileVars, O!copyVars, O!zmqVars,
       O!takeVars, O!frameVars, O!outputVars, CopyStable, O!Forget
<1>11. CASE O!WritePicture
    BY <1>11 DEF O!WritePicture, O!At, O!Fail, O!shared, O!fileVars, O!copyVars, O!zmqVars,
       O!takeVars, O!frameVars, O!outputVars, CopyStable, O!Forget
<1>12. CASE O!CannotWrite
    BY <1>12 DEF O!CannotWrite, O!At, O!Fail, O!shared, O!fileVars, O!copyVars, O!zmqVars,
       O!takeVars, O!frameVars, O!outputVars, CopyStable, O!Forget
<1>13. CASE OutRing
    BY <1>13 DEF OutRing, O!KeepRing, O!At, O!Fail, O!shared, O!fileVars, O!copyVars, O!zmqVars,
       O!takeVars, O!frameVars, O!outputVars, CopyStable, O!Forget
<1>14. CASE O!TakeCopies
    BY <1>14 DEF O!TakeCopies, O!At, O!Fail, O!shared, O!fileVars, O!copyVars, O!zmqVars,
       O!takeVars, O!frameVars, O!outputVars, CopyStable, O!Forget
<1>15. CASE O!TakeWritten
    BY <1>15 DEF O!TakeWritten, O!At, O!Fail, O!shared, O!fileVars, O!copyVars, O!zmqVars,
       O!takeVars, O!frameVars, O!outputVars, CopyStable, O!Forget
<1>16. CASE OutReceive
    BY <1>16 DEF OutReceive, O!Receive, O!At, O!Fail, O!shared, O!fileVars, O!copyVars, O!zmqVars,
       O!takeVars, O!frameVars, O!outputVars, CopyStable, O!Forget
<1>17. CASE OutSave
    BY <1>17 DEF OutSave, O!SaveNamed, O!At, O!Fail, O!shared, O!fileVars, O!copyVars, O!zmqVars,
       O!takeVars, O!frameVars, O!outputVars, CopyStable, O!Forget
<1>18. CASE OutReply
    BY <1>18 DEF OutReply, O!Reply, O!At, O!Fail, O!shared, O!fileVars, O!copyVars, O!zmqVars,
       O!takeVars, O!frameVars, O!outputVars, CopyStable, O!Forget
<1>19. CASE O!zmqserver_init
    BY <1>19 DEF O!zmqserver_init, O!At, O!Fail, O!shared, O!fileVars, O!copyVars, O!zmqVars,
       O!takeVars, O!frameVars, O!outputVars, CopyStable, O!Forget
<1>20. CASE O!NoPackage
    BY <1>20 DEF O!NoPackage, O!At, O!Fail, O!shared, O!fileVars, O!copyVars, O!zmqVars, O!takeVars,
       O!frameVars, O!outputVars, CopyStable, O!Forget
<1>21. CASE O!Pack
    BY <1>21 DEF O!Pack, O!At, O!Fail, O!shared, O!fileVars, O!copyVars, O!zmqVars, O!takeVars,
       O!frameVars, O!outputVars, CopyStable, O!Forget
<1>22. CASE O!SendPackage
    BY <1>22 DEF O!SendPackage, O!At, O!Fail, O!shared, O!fileVars, O!copyVars, O!zmqVars,
       O!takeVars, O!frameVars, O!outputVars, CopyStable, O!Forget
<1>23. CASE O!OutOfBounds
    BY <1>23 DEF O!OutOfBounds, O!At, O!Fail, O!shared, O!fileVars, O!copyVars, O!zmqVars,
       O!takeVars, O!frameVars, O!outputVars, CopyStable, O!Forget
<1>24. CASE O!decompress_jpeg
    BY <1>24 DEF O!decompress_jpeg, O!At, O!Fail, O!shared, O!fileVars, O!copyVars, O!zmqVars,
       O!takeVars, O!frameVars, O!outputVars, CopyStable, O!Forget
<1>25. CASE OutMeasure
    BY <1>25 DEF OutMeasure, O!Measure, O!At, O!Fail, O!shared, O!fileVars, O!copyVars, O!zmqVars,
       O!takeVars, O!frameVars, O!outputVars, CopyStable, O!Forget
<1>26. CASE O!CannotMeasure
    BY <1>26 DEF O!CannotMeasure, O!At, O!Fail, O!shared, O!fileVars, O!copyVars, O!zmqVars,
       O!takeVars, O!frameVars, O!outputVars, CopyStable, O!Forget
<1> QED
    BY <1>1, <1>2, <1>3, <1>4, <1>5, <1>6, <1>7, <1>8, <1>9, <1>10, <1>11, <1>12, <1>13, <1>14,
       <1>15, <1>16, <1>17, <1>18, <1>19, <1>20, <1>21, <1>22, <1>23, <1>24, <1>25, <1>26 DEF
       OutputStep

\* What is saved is what the thread has found.
LEMMA OutSavedStep ==
    ASSUME SharedInv, CopyStable, SavedWhole, O!PackInv, O!FlagsOK, UNCHANGED ipc, OutputStep
    PROVE  SavedWhole'
<1>1. CASE OutGo
    BY <1>1 DEF OutGo, O!Go, O!At, O!Fail, O!shared, O!fileVars, O!copyVars, O!zmqVars,
       O!takeVars, O!frameVars, O!outputVars, SavedWhole, O!PackInv
<1>2. CASE OutReturn
    BY <1>2 DEF OutReturn, O!Return, O!At, O!Fail, O!shared, O!fileVars, O!copyVars, O!zmqVars,
       O!takeVars, O!frameVars, O!outputVars, SavedWhole, O!PackInv
<1>3. CASE OutFails
    BY <1>3 DEF OutFails, O!output_fails, O!At, O!Fail, O!shared, O!fileVars, O!copyVars,
       O!zmqVars, O!takeVars, O!frameVars, O!outputVars, SavedWhole, O!PackInv
<1>4. CASE OutRun
    BY <1>4 DEF OutRun, O!output_run, O!At, O!Fail, O!shared, O!fileVars, O!copyVars, O!zmqVars,
       O!takeVars, O!frameVars, O!outputVars, SavedWhole, O!PackInv
<1>5. CASE OutWait
    BY <1>5 DEF OutWait, O!WaitPicture, O!WaitFresh, O!At, O!Fail, O!shared, O!fileVars,
       O!copyVars, O!zmqVars, O!takeVars, O!frameVars, O!outputVars, SavedWhole, O!PackInv
<1>6. CASE OutWoken
    BY <1>6 DEF OutWoken, O!Woken, O!WakeUp, O!LockDb, O!At, O!Fail, O!shared, O!fileVars,
       O!copyVars, O!zmqVars, O!takeVars, O!frameVars, O!outputVars, SavedWhole, O!PackInv
<1>7. CASE OutCopy
  <2>1. PICK p \in O!Plugins, to \in {"write", "open", "pack", "decode", "measure"} :
            /\ O!CopyPicture(p, to) /\ (to = "write" => p = "file") /\ (to = "open" => p \in O!Udp)
    BY <1>7 DEF OutCopy
  <2>2. SUFFICES ASSUME to \in {"open", "write"}, ipc # "ended"
                 PROVE  frames'[pos'] = mine'
    BY <2>1 DEF SavedWhole, O!CopyPicture
  <2>3. pos = 0 /\ pos \in O!Slots
    BY <2>1, <2>2, PluginsAssumption DEF O!CopyPicture, O!At, O!PackInv, O!Udp, O!Slots
  <2>4. mine = <<buf, mine[2]>>
    BY <2>1, <2>2 DEF O!CopyPicture, O!At, CopyStable
  <2>5. frames' = [frames EXCEPT ![pos] = <<buf, mine[2]>>] /\ UNCHANGED <<pos, mine>>
    BY <2>1 DEF O!CopyPicture
  <2> QED
    BY <2>3, <2>4, <2>5 DEF SharedInv
<1>8. CASE OutNoMemory
    BY <1>8 DEF OutNoMemory, O!NoMemory, O!UnlockDb, O!At, O!Fail, O!shared, O!fileVars,
       O!copyVars, O!zmqVars, O!takeVars, O!frameVars, O!outputVars, SavedWhole, O!PackInv
<1>9. CASE O!Cancelled
    BY <1>9 DEF O!Cancelled, O!At, O!Fail, O!shared, O!fileVars, O!copyVars, O!zmqVars,
       O!takeVars, O!frameVars, O!outputVars, SavedWhole, O!PackInv
<1>10. CASE O!file_init
    BY <1>10 DEF O!file_init, O!At, O!Fail, O!shared, O!fileVars, O!copyVars, O!zmqVars,
       O!takeVars, O!frameVars, O!outputVars, SavedWhole, O!PackInv
<1>11. CASE O!WritePicture
    BY <1>11 DEF O!WritePicture, O!At, O!Fail, O!shared, O!fileVars, O!copyVars, O!zmqVars,
       O!takeVars, O!frameVars, O!outputVars, SavedWhole, O!PackInv
<1>12. CASE O!CannotWrite
    BY <1>12 DEF O!CannotWrite, O!At, O!Fail, O!shared, O!fileVars, O!copyVars, O!zmqVars,
       O!takeVars, O!frameVars, O!outputVars, SavedWhole, O!PackInv
<1>13. CASE OutRing
    BY <1>13 DEF OutRing, O!KeepRing, O!At, O!Fail, O!shared, O!fileVars, O!copyVars, O!zmqVars,
       O!takeVars, O!frameVars, O!outputVars, SavedWhole, O!PackInv
<1>14. CASE O!TakeCopies
  <2>1. UNCHANGED <<opc, pos, mine>> /\ out = "file" /\ opc # "open"
    BY <1>14 DEF O!TakeCopies, O!PackInv
  <2>2. UNCHANGED <<frames, raced>> \/ (opc = "write" => raced')
    BY <1>14, Zenon DEF O!TakeCopies
  <2> QED
    BY <2>1, <2>2, Zenon DEF SavedWhole
<1>15. CASE O!TakeWritten
  <2>1. SUFFICES ASSUME opc \in {"open", "write"}, frames[pos] = mine
                 PROVE  frames'[pos'] = mine'
    BY <1>15 DEF O!TakeWritten, SavedWhole
  <2>2. pos \in O!Slots
    BY <2>1, PluginsAssumption DEF O!PackInv, O!Slots
  <2> QED
    BY <1>15, <2>1, <2>2 DEF O!TakeWritten, O!Forget
<1>16. CASE OutReceive
    BY <1>16 DEF OutReceive, O!Receive, O!At, O!Fail, O!shared, O!fileVars, O!copyVars, O!zmqVars,
       O!takeVars, O!frameVars, O!outputVars, SavedWhole, O!PackInv
<1>17. CASE OutSave
    BY <1>17 DEF OutSave, O!SaveNamed, O!At, O!Fail, O!shared, O!fileVars, O!copyVars, O!zmqVars,
       O!takeVars, O!frameVars, O!outputVars, SavedWhole, O!PackInv
<1>18. CASE OutReply
    BY <1>18 DEF OutReply, O!Reply, O!At, O!Fail, O!shared, O!fileVars, O!copyVars, O!zmqVars,
       O!takeVars, O!frameVars, O!outputVars, SavedWhole, O!PackInv
<1>19. CASE O!zmqserver_init
    BY <1>19 DEF O!zmqserver_init, O!At, O!Fail, O!shared, O!fileVars, O!copyVars, O!zmqVars,
       O!takeVars, O!frameVars, O!outputVars, SavedWhole, O!PackInv
<1>20. CASE O!NoPackage
    BY <1>20 DEF O!NoPackage, O!At, O!Fail, O!shared, O!fileVars, O!copyVars, O!zmqVars, O!takeVars,
       O!frameVars, O!outputVars, SavedWhole, O!PackInv
<1>21. CASE O!Pack
    BY <1>21 DEF O!Pack, O!At, O!Fail, O!shared, O!fileVars, O!copyVars, O!zmqVars, O!takeVars,
       O!frameVars, O!outputVars, SavedWhole, O!PackInv
<1>22. CASE O!SendPackage
    BY <1>22 DEF O!SendPackage, O!At, O!Fail, O!shared, O!fileVars, O!copyVars, O!zmqVars,
       O!takeVars, O!frameVars, O!outputVars, SavedWhole, O!PackInv
<1>23. CASE O!OutOfBounds
    BY <1>23 DEF O!OutOfBounds, O!At, O!Fail, O!shared, O!fileVars, O!copyVars, O!zmqVars,
       O!takeVars, O!frameVars, O!outputVars, SavedWhole, O!PackInv
<1>24. CASE O!decompress_jpeg
    BY <1>24 DEF O!decompress_jpeg, O!At, O!Fail, O!shared, O!fileVars, O!copyVars, O!zmqVars,
       O!takeVars, O!frameVars, O!outputVars, SavedWhole, O!PackInv
<1>25. CASE OutMeasure
    BY <1>25 DEF OutMeasure, O!Measure, O!At, O!Fail, O!shared, O!fileVars, O!copyVars, O!zmqVars,
       O!takeVars, O!frameVars, O!outputVars, SavedWhole, O!PackInv
<1>26. CASE O!CannotMeasure
    BY <1>26 DEF O!CannotMeasure, O!At, O!Fail, O!shared, O!fileVars, O!copyVars, O!zmqVars,
       O!takeVars, O!frameVars, O!outputVars, SavedWhole, O!PackInv
<1> QED
    BY <1>1, <1>2, <1>3, <1>4, <1>5, <1>6, <1>7, <1>8, <1>9, <1>10, <1>11, <1>12, <1>13, <1>14,
       <1>15, <1>16, <1>17, <1>18, <1>19, <1>20, <1>21, <1>22, <1>23, <1>24, <1>25, <1>26 DEF
       OutputStep

\* The only copy, and the memory for it.
LEMMA RoomGrows ==
    ASSUME O!KeptOK, pos = 0, caps[0] = max_frame_size, NEW p, p # "zmqserver", NEW n \in Nat,
           O!Grow(p, n), NEW b, frames' = [frames EXCEPT ![pos] = << b, n >>],
           frames \in [O!Slots -> Contents \X Nat], \A s \in O!Slots : frames[s][2] <= caps[s]
    PROVE  caps'[0] = max_frame_size' /\ \A s \in O!Slots : frames'[s][2] <= caps'[s]
<1>1. pos \in O!Slots
    BY PluginsAssumption DEF O!Slots
<1>2. caps \in [O!Slots -> Nat] /\ max_frame_size \in Nat
    BY DEF O!KeptOK
<1>3. CASE n > max_frame_size
  <2>1. caps' = [caps EXCEPT ![pos] = max_frame_size'] /\ max_frame_size' \in Nat /\ max_frame_size' >= n
    BY <1>2, <1>3 DEF O!Grow, O!MoreRoom
  <2> QED
    BY <1>1, <1>2, <2>1
<1>4. CASE n <= max_frame_size
  <2>1. UNCHANGED <<caps, max_frame_size>>
    BY <1>2, <1>4 DEF O!Grow, O!MoreRoom
  <2> QED
    BY <1>1, <1>2, <1>4, <2>1
<1> QED
    BY <1>2, <1>3, <1>4

\* A copy that is forgotten fits.
LEMMA ForgottenFits ==
    ASSUME O!KeptOK
    PROVE  \A s \in O!Slots : O!Unused[s][2] <= caps[s]
BY DEF O!KeptOK, O!Unused, O!NoPicture

\* A copy fits its memory.
LEMMA RoomStep ==
    ASSUME SharedInv, O!KeptOK, O!PackInv, O!RoomInv, I!SizeInv, OutputStep
    PROVE  O!RoomInv'
<1>1. CASE OutGo
    BY <1>1 DEF OutGo, O!Go, O!At, O!Fail, O!shared, O!fileVars, O!copyVars, O!zmqVars,
       O!takeVars, O!frameVars, O!outputVars, O!RoomInv, SharedInv
<1>2. CASE OutReturn
    BY <1>2 DEF OutReturn, O!Return, O!At, O!Fail, O!shared, O!fileVars, O!copyVars, O!zmqVars,
       O!takeVars, O!frameVars, O!outputVars, O!RoomInv, SharedInv
<1>3. CASE OutFails
    BY <1>3 DEF OutFails, O!output_fails, O!At, O!Fail, O!shared, O!fileVars, O!copyVars,
       O!zmqVars, O!takeVars, O!frameVars, O!outputVars, O!RoomInv, SharedInv
<1>4. CASE OutRun
  <2>1. /\ frames' = O!Unused /\ max_frame_size' = 0 /\ UNCHANGED out
        /\ opc' = "start" /\ nfail' = nfail
    BY <1>4 DEF OutRun, O!output_run, O!At, O!shared, O!RoomInv
  <2>2. out \in {"file", "udp", "rtsp"} => caps' = [s \in O!Slots |-> 0]
    BY <1>4 DEF OutRun, O!output_run, O!At, O!FirstCaps
  <2>3. \A s \in O!Slots : frames'[s][2] = 0
    BY <2>1 DEF O!Unused, O!NoPicture
  <2>4. 0 \in O!Slots
    BY PluginsAssumption DEF O!Slots
  <2> QED
    BY <2>1, <2>2, <2>3, <2>4 DEF O!RoomInv
<1>5. CASE OutWait
    BY <1>5 DEF OutWait, O!WaitPicture, O!WaitFresh, O!At, O!Fail, O!shared, O!fileVars,
       O!copyVars, O!zmqVars, O!takeVars, O!frameVars, O!outputVars, O!RoomInv, SharedInv
<1>6. CASE OutWoken
    BY <1>6 DEF OutWoken, O!Woken, O!WakeUp, O!LockDb, O!At, O!Fail, O!shared, O!fileVars,
       O!copyVars, O!zmqVars, O!takeVars, O!frameVars, O!outputVars, O!RoomInv, SharedInv
<1>7. CASE OutCopy
  <2>1. PICK p \in O!Plugins, to \in {"write", "open", "pack", "decode", "measure"} : O!CopyPicture(p, to)
    BY <1>7 DEF OutCopy
  <2>2. SUFFICES ASSUME out \in {"file", "udp", "rtsp"}, nfail = 0
                 PROVE  caps'[0] = max_frame_size' /\ \A s \in O!Slots : frames'[s][2] <= caps'[s]
    BY <2>1 DEF O!CopyPicture, O!shared, O!RoomInv
  <2>3. /\ p \in {"file", "udp", "rtsp"} /\ O!Grow(p, mine[2]) /\ mine[2] \in Nat
        /\ frames' = [frames EXCEPT ![pos] = <<buf, mine[2]>>]
    BY <2>1, <2>2 DEF O!CopyPicture, O!At, O!Growing, SharedInv
  <2>4. pos = 0 /\ caps[0] = max_frame_size /\ \A s \in O!Slots : frames[s][2] <= caps[s]
    BY <2>2 DEF O!PackInv, O!RoomInv
  <2> QED
    BY <2>3, <2>4, RoomGrows DEF SharedInv
<1>8. CASE OutNoMemory
    BY <1>8 DEF OutNoMemory, O!NoMemory, O!UnlockDb, O!At, O!Fail, O!shared, O!fileVars,
       O!copyVars, O!zmqVars, O!takeVars, O!frameVars, O!outputVars, O!RoomInv, SharedInv
<1>9. CASE O!Cancelled
    BY <1>9 DEF O!Cancelled, O!At, O!Fail, O!shared, O!fileVars, O!copyVars, O!zmqVars,
       O!takeVars, O!frameVars, O!outputVars, O!RoomInv, SharedInv
<1>10. CASE O!file_init
    BY <1>10 DEF O!file_init, O!At, O!Fail, O!shared, O!fileVars, O!copyVars, O!zmqVars,
       O!takeVars, O!frameVars, O!outputVars, O!RoomInv, SharedInv
<1>11. CASE O!WritePicture
  <2>1. frames' = O!Unused /\ UNCHANGED <<caps, max_frame_size, nfail, out>>
    BY <1>11 DEF O!WritePicture, O!Forget, O!Unused, O!shared
  <2>2. opc' \notin {"init", "run"}
    BY <1>11 DEF O!WritePicture
  <2> QED
    BY <2>1, <2>2, ForgottenFits DEF O!RoomInv
<1>12. CASE O!CannotWrite
    BY <1>12 DEF O!CannotWrite, O!At, O!Fail, O!shared, O!fileVars, O!copyVars, O!zmqVars,
       O!takeVars, O!frameVars, O!outputVars, O!RoomInv, SharedInv
<1>13. CASE OutRing
    BY <1>13 DEF OutRing, O!KeepRing, O!At, O!Fail, O!shared, O!fileVars, O!copyVars, O!zmqVars,
       O!takeVars, O!frameVars, O!outputVars, O!RoomInv, SharedInv
<1>14. CASE O!TakeCopies
  <2>1. SUFFICES ASSUME nfail' = 0
                 PROVE  caps'[0] = max_frame_size' /\ \A s \in O!Slots : frames'[s][2] <= caps'[s]
    BY <1>14 DEF O!TakeCopies, O!RoomInv
  <2>2. /\ nfail = 0 /\ out = "file" /\ O!Grow("file", size)
        /\ frames' = [frames EXCEPT ![pos] = <<buf, size>>]
    BY <1>14, <2>1 DEF O!TakeCopies, O!Fail, SharedInv
  <2>3. pos = 0 /\ caps[0] = max_frame_size /\ \A s \in O!Slots : frames[s][2] <= caps[s]
    BY <2>2 DEF O!PackInv, O!RoomInv
  <2>4. size \in Nat
    BY DEF I!SizeInv
  <2> QED
    BY <2>2, <2>3, <2>4, RoomGrows DEF SharedInv
<1>15. CASE O!TakeWritten
  <2>1. frames' \in {frames, O!Unused} /\ UNCHANGED <<caps, max_frame_size, nfail, out, opc>>
    BY <1>15 DEF O!TakeWritten, O!Forget, O!Unused, O!shared
  <2> QED
    BY <2>1, ForgottenFits DEF O!RoomInv
<1>16. CASE OutReceive
    BY <1>16 DEF OutReceive, O!Receive, O!At, O!Fail, O!shared, O!fileVars, O!copyVars, O!zmqVars,
       O!takeVars, O!frameVars, O!outputVars, O!RoomInv, SharedInv
<1>17. CASE OutSave
  <2>1. frames' = O!Unused /\ UNCHANGED <<caps, max_frame_size, nfail, out>>
    BY <1>17 DEF OutSave, O!SaveNamed, O!Forget, O!Unused, O!shared
  <2>2. opc' \notin {"init", "run"}
    BY <1>17 DEF OutSave, O!SaveNamed
  <2> QED
    BY <2>1, <2>2, ForgottenFits DEF O!RoomInv
<1>18. CASE OutReply
    BY <1>18 DEF OutReply, O!Reply, O!At, O!Fail, O!shared, O!fileVars, O!copyVars, O!zmqVars,
       O!takeVars, O!frameVars, O!outputVars, O!RoomInv, SharedInv
<1>19. CASE O!zmqserver_init
    BY <1>19 DEF O!zmqserver_init, O!At, O!Fail, O!shared, O!fileVars, O!copyVars, O!zmqVars,
       O!takeVars, O!frameVars, O!outputVars, O!RoomInv, SharedInv
<1>20. CASE O!NoPackage
    BY <1>20 DEF O!NoPackage, O!At, O!Fail, O!shared, O!fileVars, O!copyVars, O!zmqVars, O!takeVars,
       O!frameVars, O!outputVars, O!RoomInv, SharedInv
<1>21. CASE O!Pack
    BY <1>21 DEF O!Pack, O!At, O!Fail, O!shared, O!fileVars, O!copyVars, O!zmqVars, O!takeVars,
       O!frameVars, O!outputVars, O!RoomInv, SharedInv
<1>22. CASE O!SendPackage
  <2>1. frames' = O!Unused /\ UNCHANGED <<caps, max_frame_size, nfail, out>>
    BY <1>22 DEF O!SendPackage, O!Forget, O!Unused, O!shared
  <2>2. opc' \notin {"init", "run"}
    BY <1>22 DEF O!SendPackage
  <2> QED
    BY <2>1, <2>2, ForgottenFits DEF O!RoomInv
<1>23. CASE O!OutOfBounds
    BY <1>23 DEF O!OutOfBounds, O!At, O!Fail, O!shared, O!fileVars, O!copyVars, O!zmqVars,
       O!takeVars, O!frameVars, O!outputVars, O!RoomInv, SharedInv
<1>24. CASE O!decompress_jpeg
  <2>1. frames' = O!Unused /\ UNCHANGED <<caps, max_frame_size, nfail, out>>
    BY <1>24 DEF O!decompress_jpeg, O!Forget, O!Unused, O!shared
  <2>2. opc' \notin {"init", "run"}
    BY <1>24 DEF O!decompress_jpeg
  <2> QED
    BY <2>1, <2>2, ForgottenFits DEF O!RoomInv
<1>25. CASE OutMeasure
  <2>1. frames' = O!Unused /\ UNCHANGED <<caps, max_frame_size, nfail, out>>
    BY <1>25 DEF OutMeasure, O!Measure, O!Forget, O!Unused, O!shared
  <2>2. opc' \notin {"init", "run"}
    BY <1>25 DEF OutMeasure, O!Measure
  <2> QED
    BY <2>1, <2>2, ForgottenFits DEF O!RoomInv
<1>26. CASE O!CannotMeasure
    BY <1>26 DEF O!CannotMeasure, O!At, O!Fail, O!shared, O!fileVars, O!copyVars, O!zmqVars,
       O!takeVars, O!frameVars, O!outputVars, O!RoomInv, SharedInv
<1> QED
    BY <1>1, <1>2, <1>3, <1>4, <1>5, <1>6, <1>7, <1>8, <1>9, <1>10, <1>11, <1>12, <1>13, <1>14,
       <1>15, <1>16, <1>17, <1>18, <1>19, <1>20, <1>21, <1>22, <1>23, <1>24, <1>25, <1>26 DEF
       OutputStep

\* The folder keeps the newest pictures.
LEMMA RingStep ==
    ASSUME O!FlagsOK, O!KeptOK, O!RingInv, OutputStep
    PROVE  O!RingInv'
<1>0. ASSUME UNCHANGED <<out, mjpg, ring, exceed, counter, folder, back, missed>>,
             opc' \in {"init", "run"} => opc \in {"init", "run"},
             opc \in {"ring", "ended"} => opc' \in {"ring", "ended"}
      PROVE  O!RingInv'
  <2>1. O!Period' = O!Period
    BY <1>0 DEF O!Period
  <2>2. CASE out = "file"
    BY <1>0, <2>1, <2>2 DEF O!RingInv, O!KeptOK
  <2> QED
    BY <1>0, <2>2 DEF O!RingInv
<1>1. CASE OutGo
    BY <1>0, <1>1 DEF OutGo, O!Go, O!At, O!Fail, O!shared, O!fileVars, O!copyVars, O!zmqVars,
       O!takeVars, O!frameVars, O!outputVars
<1>2. CASE OutReturn
    BY <1>0, <1>2 DEF OutReturn, O!Return, O!At, O!Fail, O!shared, O!fileVars, O!copyVars,
       O!zmqVars, O!takeVars, O!frameVars, O!outputVars
<1>3. CASE OutFails
    BY <1>0, <1>3 DEF OutFails, O!output_fails, O!At, O!Fail, O!shared, O!fileVars, O!copyVars,
       O!zmqVars, O!takeVars, O!frameVars, O!outputVars
<1>4. CASE OutRun
    BY <1>0, <1>4 DEF OutRun, O!output_run, O!At, O!Fail, O!shared, O!fileVars, O!copyVars,
       O!zmqVars, O!takeVars, O!frameVars, O!outputVars
<1>5. CASE OutWait
    BY <1>0, <1>5 DEF OutWait, O!WaitPicture, O!WaitFresh, O!At, O!Fail, O!shared, O!fileVars,
       O!copyVars, O!zmqVars, O!takeVars, O!frameVars, O!outputVars
<1>6. CASE OutWoken
    BY <1>0, <1>6 DEF OutWoken, O!Woken, O!WakeUp, O!At, O!Fail, O!shared, O!fileVars, O!copyVars,
       O!zmqVars, O!takeVars, O!frameVars, O!outputVars
<1>7. CASE OutCopy
    BY <1>0, <1>7 DEF OutCopy, O!CopyPicture, O!At, O!Fail, O!shared, O!fileVars, O!copyVars,
       O!zmqVars, O!takeVars, O!frameVars, O!outputVars
<1>8. CASE OutNoMemory
    BY <1>0, <1>8 DEF OutNoMemory, O!NoMemory, O!At, O!Fail, O!shared, O!fileVars, O!copyVars,
       O!zmqVars, O!takeVars, O!frameVars, O!outputVars
<1>9. CASE O!Cancelled
    BY <1>0, <1>9 DEF O!Cancelled, O!At, O!Fail, O!shared, O!fileVars, O!copyVars, O!zmqVars,
       O!takeVars, O!frameVars, O!outputVars
<1>10. CASE O!file_init
  <2>1. /\ opc' = "run" /\ ring' \in Int /\ exceed' \in Int /\ folder' \in Seq(Int) /\ counter' = -1
    BY <1>10, RingOptionsKept DEF O!file_init, O!At, O!RingInv
  <2>4. O!NewestLast(folder', ring')
    BY <1>10, RingOptionsKept DEF O!file_init
  <2>2. \A e \in Int : -1 \in -1..((IF e <= 0 THEN 1 ELSE e + 1) - 1)
    OBVIOUS
  <2>3. counter' \in -1..(O!Period' - 1)
    BY <2>1, <2>2, Zenon DEF O!Period
  <2> QED
    BY <2>1, <2>3, <2>4 DEF O!RingInv
<1>11. CASE O!WritePicture
  <2>1. /\ opc = "write" /\ opc' = (IF mjpg THEN "delay" ELSE "ring") /\ out = "file" /\ O!NewName
        /\ UNCHANGED <<out, mjpg, ring, exceed, counter, missed>>
    BY <1>11 DEF O!WritePicture, O!At, O!shared
  <2>2. /\ folder' \in Seq(Int) /\ Len(folder') <= Len(folder) + 1
        /\ (ring' >= 0 /\ ~back') => O!NewestLast(folder', ring')
    BY <2>1, NamedRing DEF O!RingInv
  <2>3. O!Period' = O!Period
    BY <2>1 DEF O!Period
  <2>4. Len(folder) \in Nat /\ Len(folder') \in Nat /\ ring \in Int /\ counter \in Int
    BY <2>1, <2>2 DEF O!KeptOK, O!RingInv, O!Period
  <2>5. (~mjpg /\ ring >= 0 /\ counter # -1 /\ ~missed) => Len(folder) <= ring + counter
    BY <2>1, <2>4 DEF O!RingInv
  <2> QED
    BY <2>1, <2>2, <2>3, <2>4, <2>5 DEF O!RingInv
<1>12. CASE O!CannotWrite
  <2>1. /\ opc = "write" /\ opc' = "ended" /\ out = "file"
        /\ O!NewName \/ UNCHANGED <<folder, back>>
        /\ UNCHANGED <<out, mjpg, ring, exceed, counter, missed>>
    BY <1>12 DEF O!CannotWrite, O!At
  <2>2. /\ folder' \in Seq(Int) /\ Len(folder') <= Len(folder) + 1
        /\ (ring' >= 0 /\ ~back') => O!NewestLast(folder', ring')
    <3>1. CASE O!NewName
      BY <2>1, <3>1, NamedRing DEF O!RingInv
    <3>2. CASE UNCHANGED <<folder, back>>
      <4>1. folder \in Seq(Int) /\ Len(folder) \in Nat
        BY DEF O!KeptOK
      <4> QED
        BY <2>1, <3>2, <4>1 DEF O!RingInv
    <3> QED
      BY <2>1, <3>1, <3>2
  <2>3. O!Period' = O!Period
    BY <2>1 DEF O!Period
  <2>4. Len(folder) \in Nat /\ Len(folder') \in Nat /\ ring \in Int /\ counter \in Int
    BY <2>1, <2>2 DEF O!KeptOK, O!RingInv, O!Period
  <2>5. (~mjpg /\ ring >= 0 /\ counter # -1 /\ ~missed) => Len(folder) <= ring + counter
    BY <2>1, <2>4 DEF O!RingInv
  <2> QED
    BY <2>1, <2>2, <2>3, <2>4, <2>5 DEF O!RingInv
<1>13. CASE OutRing
  <2>1. CASE out = "file"
    BY <1>13, <2>1, RingRing DEF OutRing
  <2>2. CASE out # "file"
    BY <1>13, <2>2 DEF OutRing, O!KeepRing, O!RingInv
  <2> QED
    BY <2>1, <2>2
<1>14. CASE O!TakeCopies
    BY <1>0, <1>14 DEF O!TakeCopies, O!At, O!Fail, O!shared, O!fileVars, O!copyVars, O!zmqVars,
       O!takeVars, O!frameVars, O!outputVars
<1>15. CASE O!TakeWritten
    BY <1>0, <1>15 DEF O!TakeWritten, O!At, O!Fail, O!shared, O!fileVars, O!copyVars, O!zmqVars,
       O!takeVars, O!frameVars, O!outputVars
<1>16. CASE OutReceive
    BY <1>0, <1>16 DEF OutReceive, O!Receive, O!At, O!Fail, O!shared, O!fileVars, O!copyVars,
       O!zmqVars, O!takeVars, O!frameVars, O!outputVars
<1>17. CASE OutSave
    BY <1>0, <1>17 DEF OutSave, O!SaveNamed, O!At, O!Fail, O!shared, O!fileVars, O!copyVars,
       O!zmqVars, O!takeVars, O!frameVars, O!outputVars
<1>18. CASE OutReply
    BY <1>0, <1>18 DEF OutReply, O!Reply, O!At, O!Fail, O!shared, O!fileVars, O!copyVars, O!zmqVars,
       O!takeVars, O!frameVars, O!outputVars
<1>19. CASE O!zmqserver_init
  <2>1. out' = "zmqserver"
    BY <1>19 DEF O!zmqserver_init, O!At
  <2> QED
    BY <2>1 DEF O!RingInv
<1>20. CASE O!NoPackage
    BY <1>0, <1>20 DEF O!NoPackage, O!At, O!Fail, O!shared, O!fileVars, O!copyVars, O!zmqVars,
       O!takeVars, O!frameVars, O!outputVars
<1>21. CASE O!Pack
    BY <1>0, <1>21 DEF O!Pack, O!At, O!Fail, O!shared, O!fileVars, O!copyVars, O!zmqVars, O!takeVars,
       O!frameVars, O!outputVars
<1>22. CASE O!SendPackage
    BY <1>0, <1>22 DEF O!SendPackage, O!At, O!Fail, O!shared, O!fileVars, O!copyVars, O!zmqVars,
       O!takeVars, O!frameVars, O!outputVars
<1>23. CASE O!OutOfBounds
    BY <1>0, <1>23 DEF O!OutOfBounds, O!At, O!Fail, O!shared, O!fileVars, O!copyVars, O!zmqVars,
       O!takeVars, O!frameVars, O!outputVars
<1>24. CASE O!decompress_jpeg
    BY <1>0, <1>24 DEF O!decompress_jpeg, O!At, O!Fail, O!shared, O!fileVars, O!copyVars, O!zmqVars,
       O!takeVars, O!frameVars, O!outputVars
<1>25. CASE OutMeasure
    BY <1>0, <1>25 DEF OutMeasure, O!Measure, O!At, O!Fail, O!shared, O!fileVars, O!copyVars,
       O!zmqVars, O!takeVars, O!frameVars, O!outputVars
<1>26. CASE O!CannotMeasure
    BY <1>0, <1>26 DEF O!CannotMeasure, O!At, O!Fail, O!shared, O!fileVars, O!copyVars, O!zmqVars,
       O!takeVars, O!frameVars, O!outputVars
<1> QED
    BY <1>1, <1>2, <1>3, <1>4, <1>5, <1>6, <1>7, <1>8, <1>9, <1>10, <1>11, <1>12, <1>13, <1>14,
       <1>15, <1>16, <1>17, <1>18, <1>19, <1>20, <1>21, <1>22, <1>23, <1>24, <1>25, <1>26 DEF
       OutputStep

-----------------------------------------------------------------------------
(* The inputs: their steps by what they change.                             *)

\* Only the place changes.
InGo ==
    \E p \in I!Plugins, from \in {"init", "top", "sleep", "closed", "settings"},
       to \in {"run", "leave", "event", "pick", "connect", "lock", "control", "read", "top"} :
        /\ I!Go(p, from, to) /\ (from = "init" <=> to = "run")
        /\ p = "file" => from # "init" /\ to # "lock" /\ (to = "pick" => mode # "NewFilesOnly")
InLock ==
    \E t \in {<<"file", "lock", "load">>, <<"http", "image", "copy">>, <<"testpicture", "lock", "fill">>,
              <<"ptp2", "lock", "data">>, <<"opencv", "lock", "encode">>} : I!Lock(t[1], t[2], t[3])
InPublish ==
    \E t \in {<<"http", "recv">>, <<"testpicture", "sleep">>, <<"ptp2", "sleep">>, <<"opencv", "top">>} :
        I!PublishPicture(t[1], "publish", t[2])
InStart ==
    \E t \in {<<"file", "null", "scan">>, <<"http", "none", "connect">>, <<"testpicture", "none", "sleep">>,
              <<"ptp2", "none", "sleep">>, <<"opencv", "null", "settings">>} : I!StartThread(t[1], t[2], t[3])
InAbsent ==
    /\ I!At("ptp2", "run") /\ I!Fail /\ ipc' = "absent"
    /\ UNCHANGED <<frameVars, proc, sig, buf, size, in, I!fileVars, I!httpVars, I!ptpVars, tag>>
InCleanup == \E p \in I!Plugins : I!worker_cleanup(p)
InExit    == \E p \in I!Plugins : I!ExitFailure(p, {"init", "run"})
InWrite   == \E f \in Files : I!WriteFile(f)
InZoom    == I!ZoomAsked \/ I!ZoomLocked \/ I!ZoomSet

InputStep ==
    \/ InGo \/ InLock \/ InPublish \/ InStart \/ InCleanup \/ I!Cancelled \/ InExit
    \/ I!file_init \/ I!ScanFolder \/ InWrite \/ I!ReadEvent \/ I!PickFile \/ I!OpenFile \/ I!ReadFile \/ I!ShowFile
    \/ I!RemoveFile \/ I!FreeList \/ I!Connect \/ I!Receive \/ I!CopyImage
    \/ I!testpicture_init \/ I!NextPicture
    \/ InAbsent \/ I!LockControl \/ I!CapturePreview \/ I!GetData \/ I!Restarted \/ I!CopyPreview
    \/ I!UnlockControl \/ I!ReadCapture \/ I!Encode \/ InZoom

\* The clean-up of an input plugin is one of its steps.
LEMMA InputCleans ==
    ASSUME NEW p \in I!Plugins, I!worker_cleanup(p)
    PROVE  InputStep
BY Zenon DEF InCleanup, InputStep

\* The steps of the input plugins, sorted by what they do.
LEMMA InputCases ==
    ASSUME I!Next
    PROVE  InputStep
<1> USE DEF I!Plugins
<1>1. CASE I!Start
  <2>1. CASE I!http_init \/ I!ptp2_init \/ I!opencv_init
    BY <2>1 DEF I!http_init, I!ptp2_init, I!opencv_init, InGo, InputStep
  <2>2. CASE I!file_run \/ I!http_run \/ I!testpicture_run \/ I!opencv_run
    BY <2>2 DEF I!file_run, I!http_run, I!testpicture_run, I!opencv_run, InStart, InputStep
  <2>3. CASE I!DetectCamera
    BY <2>3 DEF I!DetectCamera, InStart, InAbsent, I!frameVars, I!fileVars, I!httpVars, I!ptpVars, frameVars, InputStep
  <2> QED
    BY <1>1, <2>1, <2>2, <2>3 DEF I!Start, InExit, InputStep
<1>2. CASE I!file_thread
  <2>1. ASSUME NEW from \in {"top", "sleep"},
               I!LoopTop("file", from, IF mode = "NewFilesOnly" THEN "event" ELSE "pick")
        PROVE  InputStep
    BY <2>1 DEF I!LoopTop, InGo, InputStep
  <2>2. CASE I!Lock("file", "lock", "load")
    BY <2>2 DEF InLock, InputStep
  <2> QED
    BY <1>2, <2>1, <2>2, InputCleans DEF I!file_thread, InputStep
<1>3. CASE I!http_thread
  <2>1. CASE I!Lock("http", "image", "copy") \/ I!PublishPicture("http", "publish", "recv")
    BY <2>1 DEF InLock, InPublish, InputStep
  <2>2. CASE I!CloseConnection
    BY <2>2 DEF I!CloseConnection, InGo, InputStep
  <2> QED
    BY <1>3, <2>1, <2>2, InputCleans DEF I!http_thread, InputStep
<1>4. CASE I!testpicture_thread
  <2>1. CASE \/ I!Lock("testpicture", "lock", "fill")
             \/ I!PublishPicture("testpicture", "publish", "sleep")
    BY <2>1 DEF InLock, InPublish, InputStep
  <2>2. CASE I!LoopTop("testpicture", "sleep", "lock")
    BY <2>2 DEF I!LoopTop, InGo, InputStep
  <2> QED
    BY <1>4, <2>1, <2>2, InputCleans DEF I!testpicture_thread, InputStep
<1>5. CASE I!ptp2_thread
  <2>1. CASE I!Lock("ptp2", "lock", "data") \/ I!PublishPicture("ptp2", "publish", "sleep")
    BY <2>1 DEF InLock, InPublish, InputStep
  <2>2. CASE I!LoopTop("ptp2", "sleep", "control")
    BY <2>2 DEF I!LoopTop, InGo, InputStep
  <2> QED
    BY <1>5, <2>1, <2>2, InputCleans DEF I!ptp2_thread, InputStep
<1>6. CASE I!opencv_thread
  <2>1. CASE I!Lock("opencv", "lock", "encode") \/ I!PublishPicture("opencv", "publish", "top")
    BY <2>1 DEF InLock, InPublish, InputStep
  <2>2. CASE I!LoopTop("opencv", "top", "read") \/ I!CameraSettings
    BY <2>2 DEF I!LoopTop, I!CameraSettings, InGo, InputStep
  <2> QED
    BY <1>6, <2>1, <2>2, InputCleans DEF I!opencv_thread, InputStep
<1>7. CASE I!Server \/ (\E f \in Files : I!WriteFile(f)) \/ I!ZoomAsked \/ I!Zoom \/ I!Cancelled
    BY <1>7, Zenon DEF I!Server, I!Zoom, InWrite, InZoom, InputStep
<1> QED
    BY <1>1, <1>2, <1>3, <1>4, <1>5, <1>6, <1>7 DEF I!Next, I!Thread

\* The other of the two pictures.
LEMMA OtherTag ==
    ASSUME NEW t \in I!Tags
    PROVE  I!Other[t] \in I!Tags
BY DEF I!Tags, I!Other

\* What the content buffer holds after something has come is one of the things that it
\* may hold.
LEMMA HoldingKept ==
    ASSUME I!KeptOK, NEW t
    PROVE  /\ I!Holding(t) \in I!Held
           /\ held = "none" => I!Holding(t) = IF t = "data" THEN tag ELSE "text"
           /\ (held # "none" /\ t # "data") => I!Holding(t) = held
BY DEF I!Holding, I!KeptOK, I!Held, I!Tags

\* A header ends where an empty line does, and with the status line.
LEMMA HeaderEnds ==
    /\ I!is_crlfcrlf("status") = TRUE /\ I!is_crlfcrlf("pfields") = FALSE
    /\ I!is_crlfcrlf("pblank") = TRUE
<1>1. \A w \in {1, 2, 4, 8, 16, 32, 64, 128} :
         /\ (13 \div w) % 2 = 1 <=> w \in {1, 4, 8}
         /\ (10 \div w) % 2 = 1 <=> w \in {2, 8}
    OBVIOUS
<1>2. I!Bits(13) = {1, 4, 8} /\ I!Bits(10) = {2, 8}
    BY <1>1 DEF I!Bits
<1>3. /\ (79 \div 1) % 2 = 1 /\ (79 \div 4) % 2 = 1 /\ (79 \div 8) % 2 = 1
      /\ (75 \div 2) % 2 = 1 /\ (75 \div 8) % 2 = 1 /\ (48 \div 1) % 2 # 1
    OBVIOUS
<1>4. {1, 4, 8} \subseteq I!Bits(79) /\ {2, 8} \subseteq I!Bits(75) /\ 1 \notin I!Bits(48)
    BY <1>3 DEF I!Bits
<1>5. I!is_crlf(13, 10) /\ I!is_crlf(79, 75) /\ ~I!is_crlf(48, 48)
    BY <1>2, <1>4 DEF I!is_crlf
<1>6. /\ I!is_crlfcrlf("status") = (I!is_crlf(13, 10) /\ I!is_crlf(79, 75))
      /\ I!is_crlfcrlf("pfields") = (I!is_crlf(13, 10) /\ I!is_crlf(48, 48))
      /\ I!is_crlfcrlf("pblank") = (I!is_crlf(13, 10) /\ I!is_crlf(13, 10))
    BY DEF I!is_crlfcrlf, I!LastFour
<1> QED
    BY <1>5, <1>6

\* What recv() brings, and what is done with it.
LEMMA ReceiveEffect ==
    ASSUME I!KeptOK, I!Receive, ipc' # "closed"
    PROVE  \E n \in Nat :
              /\ sp = "data" \/ n = I!Length[sp]
              /\ I!extract_data(sp, n) /\ sp' = I!NextToken[sp]
              /\ sent' = IF sp = "data" THEN n ELSE IF sp \in {"crlf", "boundary"} THEN sent ELSE 0
              /\ tag' \in I!Tags
<1>1. I!Length \in [{"status", "fields", "blank", "boundary", "pfields", "pblank", "crlf"} -> Nat]
    BY DEF I!Length
<1>2. DOMAIN I!NextToken = {"status", "fields", "blank", "boundary", "pfields", "pblank", "data", "crlf"}
    BY DEF I!NextToken
<1>3. PICK n \in IF sp = "data" THEN Streamed ELSE {I!Length[sp]} :
         /\ I!extract_data(sp, n)
         /\ sent' = IF sp = "data" THEN n ELSE IF sp \in {"crlf", "boundary"} THEN sent ELSE 0
    BY DEF I!Receive
<1>4. n \in Nat /\ (sp = "data" \/ n = I!Length[sp])
    BY <1>1, <1>2, PluginsAssumption DEF I!KeptOK
<1>5. sp' = I!NextToken[sp] /\ tag' \in I!Tags
    BY OtherTag DEF I!Receive, I!KeptOK
<1> QED
    BY <1>3, <1>4, <1>5

\* Nothing is kept of a connection that ends.
LEMMA ReceivesOrCloses ==
    ASSUME I!Receive, ipc' = "closed"
    PROVE  UNCHANGED <<part, held, len, sp, sent, tag>>
BY DEF I!Receive, I!extract_data

\* The next thing that is sent is known.
LEMMA NextTokenKnown ==
    ASSUME NEW t \in DOMAIN I!NextToken
    PROVE  I!NextToken[t] \in DOMAIN I!NextToken
BY DEF I!NextToken

\* The size of the buffer of input_http.
LEMMA BufferBytes == I!BUFFER_SIZE = 262144
BY DEF I!BUFFER_SIZE

\* The content buffer keeps to its size.
LEMMA ExtractKept ==
    ASSUME I!KeptOK, NEW t, NEW n \in Nat, I!extract_data(t, n)
    PROVE  /\ part' \in {"HEADER", "CONTENT"} /\ held' \in I!Held /\ len' \in Nat /\ len' < I!BUFFER_SIZE
           /\ ipc' \in {"recv", "image"}
<1>1. len \in Nat /\ len < I!BUFFER_SIZE /\ held \in I!Held
    BY DEF I!KeptOK
<1>2. CASE part = "HEADER"
  <2>1. part' \in {"HEADER", "CONTENT"} /\ ipc' = "recv" /\ UNCHANGED <<held, len>>
    BY <1>2 DEF I!extract_data
  <2> QED
    BY <1>1, <2>1
<1>3. CASE part # "HEADER"
  <2>1. /\ len' = (IF len + n < I!BUFFER_SIZE THEN len + n ELSE I!BUFFER_SIZE - 1)
        /\ held' \in {held, I!Holding(t)} /\ part' = part /\ ipc' \in {"recv", "image"}
    BY <1>3 DEF I!extract_data
  <2>2. len' \in Nat /\ len' < I!BUFFER_SIZE
    BY <1>1, <2>1, BufferBytes
  <2>3. I!Holding(t) \in I!Held /\ part \in {"HEADER", "CONTENT"}
    BY HoldingKept DEF I!KeptOK
  <2> QED
    BY <1>1, <2>1, <2>2, <2>3
<1> QED
    BY <1>2, <1>3

\* What an input keeps has its type.
LEMMA InKeptStep ==
    ASSUME I!KeptOK, I!FileInv, InputStep
    PROVE  I!KeptOK'
<1> USE PluginsAssumption
<1>1. CASE InGo
    BY <1>1 DEF InGo, I!Go, I!At, I!Fail, I!shared, I!fileVars, I!httpVars, I!ptpVars,
       I!frameVars, I!inputVars, I!KeptOK
<1>2. CASE InLock
    BY <1>2 DEF InLock, I!Lock, I!LockDb, I!At, I!Fail, I!shared, I!fileVars, I!httpVars,
       I!ptpVars, I!frameVars, I!inputVars, I!KeptOK
<1>3. CASE InPublish
    BY <1>3 DEF InPublish, I!PublishPicture, I!Publish, I!At, I!Fail, I!shared, I!fileVars,
       I!httpVars, I!ptpVars, I!frameVars, I!inputVars, I!KeptOK
<1>4. CASE InStart
    BY <1>4 DEF InStart, I!StartThread, I!At, I!Fail, I!shared, I!fileVars, I!httpVars, I!ptpVars,
       I!frameVars, I!inputVars, I!KeptOK
<1>5. CASE InCleanup
    BY <1>5 DEF InCleanup, I!worker_cleanup, I!Freed, I!At, I!Fail, I!shared, I!fileVars,
       I!httpVars, I!ptpVars, I!frameVars, I!inputVars, I!KeptOK
<1>6. CASE I!Cancelled
    BY <1>6 DEF I!Cancelled, I!Freed, I!CancelPoints, I!At, I!Fail, I!shared, I!fileVars,
       I!httpVars, I!ptpVars, I!frameVars, I!inputVars, I!KeptOK
<1>7. CASE InExit
    BY <1>7 DEF InExit, I!ExitFailure, I!At, I!Fail, I!shared, I!fileVars, I!httpVars, I!ptpVars,
       I!frameVars, I!inputVars, I!KeptOK
<1>8. CASE I!file_init
    BY <1>8 DEF I!file_init, I!shared, I!httpVars, I!KeptOK
<1>9. CASE I!ScanFolder
  <2>1. list' \in Seq(Files \cup {"other"})
    BY <1>9 DEF I!ScanFolder, I!KeptOK
  <2>2. /\ files' = files \/ \E L : files' = [f \in Files |-> IF \E k \in 1..Len(L) : L[k] = f THEN 1 ELSE 0]
        /\ made' \in {made, files'}
    BY <1>9, Zenon DEF I!ScanFolder
  <2>3. files' \in [Files -> Nat] /\ made' \in [Files -> Nat]
    <3>1. \A L : [f \in Files |-> IF \E k \in 1..Len(L) : L[k] = f THEN 1 ELSE 0] \in [Files -> Nat]
      OBVIOUS
    <3>2. files \in [Files -> Nat] /\ made \in [Files -> Nat]
      BY DEF I!KeptOK
    <3>3. files' \in [Files -> Nat]
      <4>1. CASE files' = files
        BY <3>2, <4>1
      <4>2. CASE files' # files
        <5>1. PICK L : files' = [f \in Files |-> IF \E k \in 1..Len(L) : L[k] = f THEN 1 ELSE 0]
          BY <2>2, <4>2
        <5> QED
          BY <5>1
      <4> QED
        BY <4>1, <4>2
    <3> QED
      BY <2>2, <3>2, <3>3, Zenon
  <2> QED
    BY <1>9, <2>1, <2>3 DEF I!ScanFolder, I!httpVars, I!KeptOK
<1>10. CASE InWrite
  <2>1. PICK f \in Files : I!WriteFile(f)
    BY <1>10 DEF InWrite
  <2>2. made' = [made EXCEPT ![f] = made[f] + 1] /\ files' = [files EXCEPT ![f] = made'[f]]
    BY <2>1 DEF I!WriteFile
  <2>3. made' \in [Files -> Nat] /\ files' \in [Files -> Nat]
    BY <2>2 DEF I!KeptOK
  <2>4. events' \in Seq(Files) /\ got' \in Nat
    BY <2>1, <2>3 DEF I!WriteFile, I!KeptOK
  <2> QED
    BY <2>1, <2>3, <2>4 DEF I!WriteFile, I!httpVars, I!KeptOK
<1>11. CASE I!ReadEvent
    BY <1>11 DEF I!ReadEvent, I!At, I!Fail, I!shared, I!fileVars, I!httpVars, I!ptpVars,
       I!frameVars, I!inputVars, I!KeptOK
<1>12. CASE I!PickFile
  <2>1. cur' \in Nat
    BY <1>12 DEF I!PickFile, I!KeptOK
  <2> QED
    BY <1>12, <2>1 DEF I!PickFile, I!shared, I!httpVars, I!KeptOK
<1>13. CASE I!OpenFile
  <2>1. ipc = "open" /\ in = "file" /\ name \in Files
    BY <1>13 DEF I!OpenFile, I!At, I!FileInv
  <2>2. got' \in Nat
    BY <1>13, <2>1 DEF I!OpenFile, I!KeptOK
  <2> QED
    BY <1>13, <2>2 DEF I!OpenFile, I!httpVars, I!KeptOK
<1>14. CASE I!ReadFile
    BY <1>14 DEF I!ReadFile, I!UnlockDb, I!At, I!Fail, I!shared, I!fileVars, I!httpVars,
       I!ptpVars, I!frameVars, I!inputVars, I!KeptOK
<1>15. CASE I!ShowFile
  <2>1. name \in Files /\ got \in Nat
    BY <1>15 DEF I!ShowFile, I!At, I!FileInv, I!KeptOK
  <2>2. seen' \subseteq Files \X Nat
    BY <1>15, <2>1 DEF I!ShowFile, I!KeptOK
  <2> QED
    BY <1>15, <2>2 DEF I!ShowFile, I!shared, I!httpVars, I!KeptOK
<1>16. CASE I!RemoveFile
  <2>1. files' \in [Files -> Nat]
    BY <1>16 DEF I!RemoveFile, I!KeptOK
  <2> QED
    BY <1>16, <2>1 DEF I!RemoveFile, I!shared, I!httpVars, I!KeptOK
<1>17. CASE I!FreeList
    BY <1>17 DEF I!FreeList, I!At, I!Fail, I!shared, I!fileVars, I!httpVars, I!ptpVars,
       I!frameVars, I!inputVars, I!KeptOK
<1>18. CASE I!Connect
  <2>1. sp' \in DOMAIN I!NextToken /\ held' \in I!Held
    BY <1>18 DEF I!Connect, I!NextToken, I!Held
  <2> QED
    BY <1>18, <2>1 DEF I!Connect, I!fileVars, I!KeptOK, I!BUFFER_SIZE
<1>19. CASE I!Receive
  <2>1. UNCHANGED <<in, cur, mode, list, events, files, made, got, seen>>
    BY <1>19 DEF I!Receive, I!fileVars
  <2>2. CASE ipc' = "closed"
    <3>1. UNCHANGED <<part, held, len, sp, sent, tag>>
      BY <1>19, <2>2, ReceivesOrCloses
    <3> QED
      BY <2>1, <3>1 DEF I!KeptOK
  <2>3. CASE ipc' # "closed"
    <3>1. PICK n \in Nat :
             /\ I!extract_data(sp, n) /\ sp' = I!NextToken[sp] /\ tag' \in I!Tags
             /\ sent' = IF sp = "data" THEN n ELSE IF sp \in {"crlf", "boundary"} THEN sent ELSE 0
      BY <1>19, <2>3, ReceiveEffect
    <3>2. part' \in {"HEADER", "CONTENT"} /\ held' \in I!Held /\ len' \in Nat /\ len' < I!BUFFER_SIZE
      BY <3>1, ExtractKept
    <3>3. sp' \in DOMAIN I!NextToken /\ sent' \in Nat
      BY <3>1, NextTokenKnown DEF I!KeptOK
    <3> QED
      BY <2>1, <3>1, <3>2, <3>3 DEF I!KeptOK
  <2> QED
    BY <2>2, <2>3
<1>20. CASE I!CopyImage
    BY <1>20 DEF I!CopyImage, I!At, I!Fail, I!shared, I!fileVars, I!httpVars, I!ptpVars,
       I!frameVars, I!inputVars, I!KeptOK, I!Held, I!BUFFER_SIZE
<1>21. CASE I!testpicture_init
    BY <1>21 DEF I!testpicture_init, I!At, I!Fail, I!shared, I!fileVars, I!httpVars, I!ptpVars,
       I!frameVars, I!inputVars, I!KeptOK
<1>22. CASE I!NextPicture
    BY <1>22, OtherTag DEF I!NextPicture, I!At, I!Fail, I!shared, I!fileVars, I!httpVars,
       I!ptpVars, I!frameVars, I!inputVars, I!KeptOK
<1>23. CASE InAbsent
    BY <1>23 DEF InAbsent, I!At, I!Fail, I!shared, I!fileVars, I!httpVars, I!ptpVars, I!frameVars,
       I!inputVars, I!KeptOK
<1>24. CASE I!LockControl
    BY <1>24 DEF I!LockControl, I!At, I!Fail, I!shared, I!fileVars, I!httpVars, I!ptpVars,
       I!frameVars, I!inputVars, I!KeptOK
<1>25. CASE I!CapturePreview
    BY <1>25 DEF I!CapturePreview, I!At, I!Fail, I!shared, I!fileVars, I!httpVars, I!ptpVars,
       I!frameVars, I!inputVars, I!KeptOK
<1>26. CASE I!GetData
    BY <1>26 DEF I!GetData, I!At, I!Fail, I!shared, I!fileVars, I!httpVars, I!ptpVars,
       I!frameVars, I!inputVars, I!KeptOK
<1>27. CASE I!Restarted
    BY <1>27 DEF I!Restarted, I!At, I!Fail, I!shared, I!fileVars, I!httpVars, I!ptpVars,
       I!frameVars, I!inputVars, I!KeptOK
<1>28. CASE I!CopyPreview
    BY <1>28, OtherTag DEF I!CopyPreview, I!At, I!Fail, I!shared, I!fileVars, I!httpVars,
       I!ptpVars, I!frameVars, I!inputVars, I!KeptOK
<1>29. CASE I!UnlockControl
    BY <1>29 DEF I!UnlockControl, I!At, I!Fail, I!shared, I!fileVars, I!httpVars, I!ptpVars,
       I!frameVars, I!inputVars, I!KeptOK
<1>30. CASE I!ReadCapture
    BY <1>30 DEF I!ReadCapture, I!At, I!Fail, I!shared, I!fileVars, I!httpVars, I!ptpVars,
       I!frameVars, I!inputVars, I!KeptOK
<1>31. CASE I!Encode
    BY <1>31, OtherTag DEF I!Encode, I!At, I!Fail, I!shared, I!fileVars, I!httpVars, I!ptpVars,
       I!frameVars, I!inputVars, I!KeptOK
<1>32. CASE InZoom
    BY <1>32 DEF InZoom, I!ZoomAsked, I!ZoomLocked, I!ZoomSet, I!At, I!Fail, I!shared, I!fileVars,
       I!httpVars, I!ptpVars, I!frameVars, I!inputVars, I!KeptOK
<1> QED
    BY <1>1, <1>2, <1>3, <1>4, <1>5, <1>6, <1>7, <1>8, <1>9, <1>10, <1>11, <1>12, <1>13, <1>14,
       <1>15, <1>16, <1>17, <1>18, <1>19, <1>20, <1>21, <1>22, <1>23, <1>24, <1>25, <1>26, <1>27,
       <1>28, <1>29, <1>30, <1>31, <1>32 DEF InputStep

\* The file in hand is one of the list, or one that was written.
LEMMA FileStep ==
    ASSUME I!KeptOK, I!FileInv, InputStep
    PROVE  I!FileInv'
<1> USE PluginsAssumption
<1>1. CASE InGo
  <2>1. /\ UNCHANGED <<in, mode, list, cur, files, seen, name, got>>
        /\ in = "file" => ipc' \in {"leave", "event", "pick", "connect", "control", "read", "top"}
        /\ in = "file" => ipc \in {"top", "sleep", "closed", "settings"}
        /\ in = "file" /\ ipc' = "pick" => mode # "NewFilesOnly"
    BY <1>1 DEF InGo, I!Go, I!At, I!fileVars
  <2> QED
    BY <2>1 DEF I!FileInv, I!KeptOK
<1>2. CASE InLock
  <2>1. /\ UNCHANGED <<in, mode, list, cur, files, seen, name, got>>
        /\ in = "file" => ipc = "lock" /\ ipc' = "load"
    BY <1>2 DEF InLock, I!Lock, I!At, I!shared, I!fileVars
  <2> QED
    BY <2>1 DEF I!FileInv
<1>3. CASE InPublish
    BY <1>3 DEF InPublish, I!PublishPicture, I!Publish, I!At, I!Fail, I!shared, I!fileVars,
       I!httpVars, I!ptpVars, I!frameVars, I!inputVars, I!FileInv, I!KeptOK
<1>4. CASE InStart
  <2>1. /\ UNCHANGED <<in, mode, list, cur, files, seen, name, got>>
        /\ in = "file" => ipc = "run" /\ ipc' = "scan"
    BY <1>4 DEF InStart, I!StartThread, I!At, I!fileVars
  <2> QED
    BY <2>1 DEF I!FileInv
<1>5. CASE InCleanup
    BY <1>5 DEF InCleanup, I!worker_cleanup, I!Freed, I!At, I!Fail, I!shared, I!fileVars,
       I!httpVars, I!ptpVars, I!frameVars, I!inputVars, I!FileInv, I!KeptOK
<1>6. CASE I!Cancelled
    BY <1>6 DEF I!Cancelled, I!Freed, I!CancelPoints, I!At, I!Fail, I!shared, I!fileVars,
       I!httpVars, I!ptpVars, I!frameVars, I!inputVars, I!FileInv, I!KeptOK
<1>7. CASE InExit
    BY <1>7 DEF InExit, I!ExitFailure, I!At, I!Fail, I!shared, I!fileVars, I!httpVars, I!ptpVars,
       I!frameVars, I!inputVars, I!FileInv, I!KeptOK
<1>8. CASE I!file_init
  <2>1. /\ ipc' = "run" /\ ipc = "init" /\ in = "file" /\ mode' \in {"NewFilesOnly", "ExistingFiles"}
        /\ UNCHANGED <<in, list, cur, files, name, got, seen>>
    BY <1>8 DEF I!file_init, I!At
  <2> QED
    BY <2>1 DEF I!FileInv, I!KeptOK
<1>9. CASE I!ScanFolder
  <2>1. /\ in = "file" /\ ipc = "scan" /\ ipc' \in {"top", "ended"} /\ UNCHANGED <<in, mode, cur>>
        /\ list' \in Seq(Files \cup {"other"})
        /\ (mode = "ExistingFiles" /\ ipc' = "top") => list' # <<>>
    BY <1>9 DEF I!ScanFolder, I!At, I!KeptOK
  <2>2. cur = 1
    BY <2>1 DEF I!FileInv
  <2>3. list' # <<>> => cur' \in 1..Len(list')
    BY <2>1, <2>2
  <2> QED
    BY <2>1, <2>3 DEF I!FileInv
<1>10. CASE InWrite
  <2>1. PICK f \in Files : I!WriteFile(f)
    BY <1>10 DEF InWrite
  <2>2. /\ ipc \notin {"init", "run"} /\ ~(mode = "ExistingFiles" /\ ipc = "scan")
    BY <2>1 DEF I!WriteFile
  <2>3. ipc = "remove" => got' = got
    BY <2>1 DEF I!WriteFile
  <2>4. UNCHANGED <<in, ipc, mode, list, cur, name, seen>>
    BY <2>1 DEF I!WriteFile
  <2> QED
    BY <2>2, <2>3, <2>4 DEF I!FileInv, I!KeptOK
<1>11. CASE I!ReadEvent
  <2>1. in = "file" /\ ipc = "event" /\ ipc' \in {"open", "top", "quit"} /\ (ipc' = "open" => name' \in Files)
    BY <1>11 DEF I!ReadEvent, I!At, I!KeptOK
  <2>2. UNCHANGED <<in, mode, list, cur, files, seen>>
    BY <1>11 DEF I!ReadEvent
  <2> QED
    BY <2>1, <2>2 DEF I!FileInv
<1>12. CASE I!PickFile
  <2>1. ipc = "pick" /\ in = "file" /\ list # <<>> /\ cur \in 1..Len(list)
    BY <1>12 DEF I!PickFile, I!At, I!FileInv
  <2>2. list[cur] \in Files \cup {"other"}
    BY <2>1 DEF I!KeptOK
  <2>3. cur' \in 1..Len(list)
    BY <1>12, <2>1 DEF I!PickFile, I!KeptOK
  <2>4. ipc' \in {"open", "top", "quit"} /\ (ipc' = "open" => name' \in Files)
    BY <1>12, <2>2 DEF I!PickFile
  <2>5. UNCHANGED <<in, mode, list, files, seen>>
    BY <1>12 DEF I!PickFile
  <2> QED
    BY <2>1, <2>3, <2>4, <2>5 DEF I!FileInv
<1>13. CASE I!OpenFile
    BY <1>13 DEF I!OpenFile, I!At, I!Fail, I!shared, I!fileVars, I!httpVars, I!ptpVars,
       I!frameVars, I!inputVars, I!FileInv, I!KeptOK
<1>14. CASE I!ReadFile
    BY <1>14 DEF I!ReadFile, I!UnlockDb, I!At, I!Fail, I!shared, I!fileVars, I!httpVars,
       I!ptpVars, I!frameVars, I!inputVars, I!FileInv, I!KeptOK
<1>15. CASE I!ShowFile
    BY <1>15 DEF I!ShowFile, I!Publish, I!At, I!Fail, I!shared, I!fileVars, I!httpVars, I!ptpVars,
       I!frameVars, I!inputVars, I!FileInv, I!KeptOK
<1>16. CASE I!RemoveFile
  <2>1. /\ in = "file" /\ ipc = "remove" /\ ipc' = "sleep" /\ UNCHANGED <<in, mode, list, cur, seen>>
    BY <1>16 DEF I!RemoveFile, I!At
  <2> QED
    BY <2>1 DEF I!FileInv
<1>17. CASE I!FreeList
    BY <1>17 DEF I!FreeList, I!At, I!Fail, I!shared, I!fileVars, I!httpVars, I!ptpVars,
       I!frameVars, I!inputVars, I!FileInv, I!KeptOK
<1>18. CASE I!Connect
    BY <1>18 DEF I!Connect, I!At, I!Fail, I!shared, I!fileVars, I!httpVars, I!ptpVars,
       I!frameVars, I!inputVars, I!FileInv, I!KeptOK
<1>19. CASE I!Receive
    BY <1>19 DEF I!Receive, I!extract_data, I!At, I!Fail, I!shared, I!fileVars, I!httpVars,
       I!ptpVars, I!frameVars, I!inputVars, I!FileInv, I!KeptOK
<1>20. CASE I!CopyImage
    BY <1>20 DEF I!CopyImage, I!At, I!Fail, I!shared, I!fileVars, I!httpVars, I!ptpVars,
       I!frameVars, I!inputVars, I!FileInv, I!KeptOK
<1>21. CASE I!testpicture_init
    BY <1>21 DEF I!testpicture_init, I!At, I!Fail, I!shared, I!fileVars, I!httpVars, I!ptpVars,
       I!frameVars, I!inputVars, I!FileInv, I!KeptOK
<1>22. CASE I!NextPicture
    BY <1>22 DEF I!NextPicture, I!At, I!Fail, I!shared, I!fileVars, I!httpVars, I!ptpVars,
       I!frameVars, I!inputVars, I!FileInv, I!KeptOK
<1>23. CASE InAbsent
    BY <1>23 DEF InAbsent, I!At, I!Fail, I!shared, I!fileVars, I!httpVars, I!ptpVars, I!frameVars,
       I!inputVars, I!FileInv, I!KeptOK
<1>24. CASE I!LockControl
    BY <1>24 DEF I!LockControl, I!At, I!Fail, I!shared, I!fileVars, I!httpVars, I!ptpVars,
       I!frameVars, I!inputVars, I!FileInv, I!KeptOK
<1>25. CASE I!CapturePreview
    BY <1>25 DEF I!CapturePreview, I!At, I!Fail, I!shared, I!fileVars, I!httpVars, I!ptpVars,
       I!frameVars, I!inputVars, I!FileInv, I!KeptOK
<1>26. CASE I!GetData
    BY <1>26 DEF I!GetData, I!At, I!Fail, I!shared, I!fileVars, I!httpVars, I!ptpVars,
       I!frameVars, I!inputVars, I!FileInv, I!KeptOK
<1>27. CASE I!Restarted
    BY <1>27 DEF I!Restarted, I!At, I!Fail, I!shared, I!fileVars, I!httpVars, I!ptpVars,
       I!frameVars, I!inputVars, I!FileInv, I!KeptOK
<1>28. CASE I!CopyPreview
    BY <1>28 DEF I!CopyPreview, I!At, I!Fail, I!shared, I!fileVars, I!httpVars, I!ptpVars,
       I!frameVars, I!inputVars, I!FileInv, I!KeptOK
<1>29. CASE I!UnlockControl
    BY <1>29 DEF I!UnlockControl, I!At, I!Fail, I!shared, I!fileVars, I!httpVars, I!ptpVars,
       I!frameVars, I!inputVars, I!FileInv, I!KeptOK
<1>30. CASE I!ReadCapture
    BY <1>30 DEF I!ReadCapture, I!At, I!Fail, I!shared, I!fileVars, I!httpVars, I!ptpVars,
       I!frameVars, I!inputVars, I!FileInv, I!KeptOK
<1>31. CASE I!Encode
    BY <1>31 DEF I!Encode, I!At, I!Fail, I!shared, I!fileVars, I!httpVars, I!ptpVars, I!frameVars,
       I!inputVars, I!FileInv, I!KeptOK
<1>32. CASE InZoom
  <2>1. UNCHANGED <<in, ipc, mode, list, cur, files, seen, name, got>>
    BY <1>32 DEF InZoom, I!ZoomAsked, I!ZoomLocked, I!ZoomSet, I!fileVars
  <2> QED
    BY <2>1 DEF I!FileInv
<1> QED
    BY <1>1, <1>2, <1>3, <1>4, <1>5, <1>6, <1>7, <1>8, <1>9, <1>10, <1>11, <1>12, <1>13, <1>14,
       <1>15, <1>16, <1>17, <1>18, <1>19, <1>20, <1>21, <1>22, <1>23, <1>24, <1>25, <1>26, <1>27,
       <1>28, <1>29, <1>30, <1>31, <1>32 DEF InputStep

\* The pictures of testpictures.h fit the buffer.
LEMMA PictureSizes ==
    \A c \in 1..4, t \in I!Tags : I!picture_lookup[c][t] \in Nat /\ I!picture_lookup[c][t] <= I!BUFFER_SIZE
<1> SUFFICES ASSUME NEW c \in 1..4, NEW t \in I!Tags
             PROVE  I!picture_lookup[c][t] \in Nat /\ I!picture_lookup[c][t] <= I!BUFFER_SIZE
    OBVIOUS
<1>1. c \in {1, 2, 3, 4} /\ t \in {"even", "odd"}
    BY DEF I!Tags
<1> QED
    BY <1>1
    DEF I!picture_lookup, I!BUFFER_SIZE, I!PIC_160x120_1, I!PIC_320x240_1, I!PIC_640x480_1,
        I!PIC_960x720_1, I!PIC_160x120_2, I!PIC_320x240_2, I!PIC_640x480_2, I!PIC_960x720_2

\* The size is a number of bytes that fits the buffer.
LEMMA SizeStep ==
    ASSUME I!KeptOK, I!FileInv, I!HttpInv, I!SizeInv, InputStep
    PROVE  I!SizeInv'
<1> USE PluginsAssumption
<1>1. CASE InGo
    BY <1>1 DEF InGo, I!Go, I!At, I!Fail, I!shared, I!fileVars, I!httpVars, I!ptpVars,
       I!frameVars, I!inputVars, I!SizeInv
<1>2. CASE InLock
    BY <1>2 DEF InLock, I!Lock, I!LockDb, I!At, I!Fail, I!shared, I!fileVars, I!httpVars,
       I!ptpVars, I!frameVars, I!inputVars, I!SizeInv
<1>3. CASE InPublish
    BY <1>3 DEF InPublish, I!PublishPicture, I!Publish, I!At, I!Fail, I!shared, I!fileVars,
       I!httpVars, I!ptpVars, I!frameVars, I!inputVars, I!SizeInv
<1>4. CASE InStart
    BY <1>4 DEF InStart, I!StartThread, I!At, I!Fail, I!shared, I!fileVars, I!httpVars, I!ptpVars,
       I!frameVars, I!inputVars, I!SizeInv, I!BUFFER_SIZE
<1>5. CASE InCleanup
    BY <1>5 DEF InCleanup, I!worker_cleanup, I!Freed, I!At, I!Fail, I!shared, I!fileVars,
       I!httpVars, I!ptpVars, I!frameVars, I!inputVars, I!SizeInv
<1>6. CASE I!Cancelled
    BY <1>6 DEF I!Cancelled, I!Freed, I!CancelPoints, I!At, I!Fail, I!shared, I!fileVars,
       I!httpVars, I!ptpVars, I!frameVars, I!inputVars, I!SizeInv
<1>7. CASE InExit
    BY <1>7 DEF InExit, I!ExitFailure, I!At, I!Fail, I!shared, I!fileVars, I!httpVars, I!ptpVars,
       I!frameVars, I!inputVars, I!SizeInv
<1>8. CASE I!file_init
    BY <1>8 DEF I!file_init, I!At, I!Fail, I!shared, I!fileVars, I!httpVars, I!ptpVars,
       I!frameVars, I!inputVars, I!SizeInv
<1>9. CASE I!ScanFolder
    BY <1>9 DEF I!ScanFolder, I!At, I!Fail, I!shared, I!fileVars, I!httpVars, I!ptpVars,
       I!frameVars, I!inputVars, I!SizeInv
<1>10. CASE InWrite
    BY <1>10 DEF InWrite, I!WriteFile, I!At, I!Fail, I!shared, I!fileVars, I!httpVars, I!ptpVars,
       I!frameVars, I!inputVars, I!SizeInv
<1>11. CASE I!ReadEvent
    BY <1>11 DEF I!ReadEvent, I!At, I!Fail, I!shared, I!fileVars, I!httpVars, I!ptpVars,
       I!frameVars, I!inputVars, I!SizeInv
<1>12. CASE I!PickFile
    BY <1>12 DEF I!PickFile, I!At, I!Fail, I!shared, I!fileVars, I!httpVars, I!ptpVars,
       I!frameVars, I!inputVars, I!SizeInv
<1>13. CASE I!OpenFile
    BY <1>13 DEF I!OpenFile, I!At, I!Fail, I!shared, I!fileVars, I!httpVars, I!ptpVars,
       I!frameVars, I!inputVars, I!SizeInv
<1>14. CASE I!ReadFile
  <2>1. in = "file" /\ UNCHANGED in /\ size' \in {size, 0, FileSize[name]} /\ name \in Files
    BY <1>14 DEF I!ReadFile, I!At, I!FileInv
  <2> QED
    BY <2>1 DEF I!SizeInv
<1>15. CASE I!ShowFile
    BY <1>15 DEF I!ShowFile, I!Publish, I!At, I!Fail, I!shared, I!fileVars, I!httpVars, I!ptpVars,
       I!frameVars, I!inputVars, I!SizeInv
<1>16. CASE I!RemoveFile
    BY <1>16 DEF I!RemoveFile, I!At, I!Fail, I!shared, I!fileVars, I!httpVars, I!ptpVars,
       I!frameVars, I!inputVars, I!SizeInv
<1>17. CASE I!FreeList
    BY <1>17 DEF I!FreeList, I!At, I!Fail, I!shared, I!fileVars, I!httpVars, I!ptpVars,
       I!frameVars, I!inputVars, I!SizeInv
<1>18. CASE I!Connect
    BY <1>18 DEF I!Connect, I!At, I!Fail, I!shared, I!fileVars, I!httpVars, I!ptpVars,
       I!frameVars, I!inputVars, I!SizeInv
<1>19. CASE I!Receive
    BY <1>19 DEF I!Receive, I!extract_data, I!At, I!Fail, I!shared, I!fileVars, I!httpVars,
       I!ptpVars, I!frameVars, I!inputVars, I!SizeInv
<1>20. CASE I!CopyImage
  <2>1. in = "http" /\ UNCHANGED <<in, cur>> /\ size' = len - (I!Length["boundary"] + 2) /\ len >= 22
    BY <1>20 DEF I!CopyImage, I!At, I!HttpInv, I!fileVars
  <2>2. I!Length["boundary"] = 20
    BY DEF I!Length
  <2>3. len \in Nat /\ len < 262144
    BY DEF I!KeptOK, I!BUFFER_SIZE
  <2> QED
    BY <2>1, <2>2, <2>3 DEF I!SizeInv, I!BUFFER_SIZE
<1>21. CASE I!testpicture_init
    BY <1>21 DEF I!testpicture_init, I!At, I!Fail, I!shared, I!fileVars, I!httpVars, I!ptpVars,
       I!frameVars, I!inputVars, I!SizeInv
<1>22. CASE I!NextPicture
  <2>1. /\ in = "testpicture" /\ cur \in 1..4 /\ UNCHANGED <<in, cur>> /\ tag' \in I!Tags
        /\ size' = I!picture_lookup[cur][tag']
    BY <1>22, OtherTag DEF I!NextPicture, I!At, I!SizeInv, I!KeptOK, I!fileVars
  <2>2. \A c \in 1..4, t \in I!Tags : I!picture_lookup[c][t] \in Nat /\ I!picture_lookup[c][t] <= I!BUFFER_SIZE
    BY PictureSizes
  <2> QED
    BY <2>1, <2>2 DEF I!SizeInv
<1>23. CASE InAbsent
    BY <1>23 DEF InAbsent, I!At, I!Fail, I!shared, I!fileVars, I!httpVars, I!ptpVars, I!frameVars,
       I!inputVars, I!SizeInv
<1>24. CASE I!LockControl
    BY <1>24 DEF I!LockControl, I!At, I!Fail, I!shared, I!fileVars, I!httpVars, I!ptpVars,
       I!frameVars, I!inputVars, I!SizeInv
<1>25. CASE I!CapturePreview
    BY <1>25 DEF I!CapturePreview, I!At, I!Fail, I!shared, I!fileVars, I!httpVars, I!ptpVars,
       I!frameVars, I!inputVars, I!SizeInv
<1>26. CASE I!GetData
    BY <1>26 DEF I!GetData, I!At, I!Fail, I!shared, I!fileVars, I!httpVars, I!ptpVars,
       I!frameVars, I!inputVars, I!SizeInv
<1>27. CASE I!Restarted
    BY <1>27 DEF I!Restarted, I!At, I!Fail, I!shared, I!fileVars, I!httpVars, I!ptpVars,
       I!frameVars, I!inputVars, I!SizeInv, I!BUFFER_SIZE
<1>28. CASE I!CopyPreview
    BY <1>28 DEF I!CopyPreview, I!At, I!Fail, I!shared, I!fileVars, I!httpVars, I!ptpVars,
       I!frameVars, I!inputVars, I!SizeInv
<1>29. CASE I!UnlockControl
    BY <1>29 DEF I!UnlockControl, I!At, I!Fail, I!shared, I!fileVars, I!httpVars, I!ptpVars,
       I!frameVars, I!inputVars, I!SizeInv
<1>30. CASE I!ReadCapture
    BY <1>30 DEF I!ReadCapture, I!At, I!Fail, I!shared, I!fileVars, I!httpVars, I!ptpVars,
       I!frameVars, I!inputVars, I!SizeInv
<1>31. CASE I!Encode
    BY <1>31 DEF I!Encode, I!At, I!Fail, I!shared, I!fileVars, I!httpVars, I!ptpVars, I!frameVars,
       I!inputVars, I!SizeInv
<1>32. CASE InZoom
    BY <1>32 DEF InZoom, I!ZoomAsked, I!ZoomLocked, I!ZoomSet, I!At, I!Fail, I!shared, I!fileVars,
       I!httpVars, I!ptpVars, I!frameVars, I!inputVars, I!SizeInv
<1> QED
    BY <1>1, <1>2, <1>3, <1>4, <1>5, <1>6, <1>7, <1>8, <1>9, <1>10, <1>11, <1>12, <1>13, <1>14,
       <1>15, <1>16, <1>17, <1>18, <1>19, <1>20, <1>21, <1>22, <1>23, <1>24, <1>25, <1>26, <1>27,
       <1>28, <1>29, <1>30, <1>31, <1>32 DEF InputStep

\* A thread other than ptp2's and input_file's is not cancelled while it has the mutex.
LEMMA CancelledUnlocked ==
    ASSUME NEW p \in I!Plugins, p \notin {"ptp2", "file"}
    PROVE  \A place \in I!CancelPoints[p] : place \notin I!Locked
<1>1. /\ I!CancelPoints["http"] = {"connect", "recv", "closed"}
      /\ I!CancelPoints["testpicture"] = {"sleep"} /\ I!CancelPoints["opencv"] = {"read"}
    BY DEF I!CancelPoints
<1>2. p \in {"http", "testpicture", "opencv"}
    BY DEF I!Plugins
<1> QED
    BY <1>1, <1>2 DEF I!Locked

\* The mutex while a picture is made.
LEMMA InLockStep ==
    ASSUME I!KeptOK, I!LockInv, nfail \in Nat, InputStep
    PROVE  I!LockInv'
<1> USE PluginsAssumption
<1>1. CASE InGo
    BY <1>1 DEF InGo, I!Go, I!At, I!Fail, I!shared, I!fileVars, I!httpVars, I!ptpVars,
       I!frameVars, I!inputVars, I!LockInv, I!Locked
<1>2. CASE InLock
    BY <1>2 DEF InLock, I!Lock, I!LockDb, I!At, I!Fail, I!shared, I!fileVars, I!httpVars,
       I!ptpVars, I!frameVars, I!inputVars, I!LockInv, I!Locked
<1>3. CASE InPublish
    BY <1>3 DEF InPublish, I!PublishPicture, I!Publish, I!At, I!Fail, I!shared, I!fileVars,
       I!httpVars, I!ptpVars, I!frameVars, I!inputVars, I!LockInv, I!Locked
<1>4. CASE InStart
    BY <1>4 DEF InStart, I!StartThread, I!At, I!Fail, I!shared, I!fileVars, I!httpVars, I!ptpVars,
       I!frameVars, I!inputVars, I!LockInv, I!Locked
<1>5. CASE InCleanup
    BY <1>5 DEF InCleanup, I!worker_cleanup, I!Freed, I!At, I!Fail, I!shared, I!fileVars,
       I!httpVars, I!ptpVars, I!frameVars, I!inputVars, I!LockInv, I!Locked
<1>6. CASE I!Cancelled
  <2>1. in \notin {"ptp2", "file"} => ipc \notin I!Locked
    BY <1>6, CancelledUnlocked DEF I!Cancelled, I!KeptOK
  <2>2. ipc' = "ended" /\ sig = "cancel" /\ UNCHANGED <<db, in, nfail, sig>>
    BY <1>6 DEF I!Cancelled, I!frameVars
  <2> QED
    BY <2>1, <2>2 DEF I!LockInv, I!Locked
<1>7. CASE InExit
    BY <1>7 DEF InExit, I!ExitFailure, I!At, I!Fail, I!shared, I!fileVars, I!httpVars, I!ptpVars,
       I!frameVars, I!inputVars, I!LockInv, I!Locked
<1>8. CASE I!file_init
    BY <1>8 DEF I!file_init, I!At, I!Fail, I!shared, I!fileVars, I!httpVars, I!ptpVars,
       I!frameVars, I!inputVars, I!LockInv, I!Locked
<1>9. CASE I!ScanFolder
    BY <1>9 DEF I!ScanFolder, I!At, I!Fail, I!shared, I!fileVars, I!httpVars, I!ptpVars,
       I!frameVars, I!inputVars, I!LockInv, I!Locked
<1>10. CASE InWrite
    BY <1>10 DEF InWrite, I!WriteFile, I!At, I!Fail, I!shared, I!fileVars, I!httpVars, I!ptpVars,
       I!frameVars, I!inputVars, I!LockInv, I!Locked
<1>11. CASE I!ReadEvent
    BY <1>11 DEF I!ReadEvent, I!At, I!Fail, I!shared, I!fileVars, I!httpVars, I!ptpVars,
       I!frameVars, I!inputVars, I!LockInv, I!Locked
<1>12. CASE I!PickFile
    BY <1>12 DEF I!PickFile, I!At, I!Fail, I!shared, I!fileVars, I!httpVars, I!ptpVars,
       I!frameVars, I!inputVars, I!LockInv, I!Locked
<1>13. CASE I!OpenFile
    BY <1>13 DEF I!OpenFile, I!At, I!Fail, I!shared, I!fileVars, I!httpVars, I!ptpVars,
       I!frameVars, I!inputVars, I!LockInv, I!Locked
<1>14. CASE I!ReadFile
    BY <1>14 DEF I!ReadFile, I!UnlockDb, I!At, I!Fail, I!shared, I!fileVars, I!httpVars,
       I!ptpVars, I!frameVars, I!inputVars, I!LockInv, I!Locked
<1>15. CASE I!ShowFile
    BY <1>15 DEF I!ShowFile, I!Publish, I!At, I!Fail, I!shared, I!fileVars, I!httpVars, I!ptpVars,
       I!frameVars, I!inputVars, I!LockInv, I!Locked
<1>16. CASE I!RemoveFile
    BY <1>16 DEF I!RemoveFile, I!At, I!Fail, I!shared, I!fileVars, I!httpVars, I!ptpVars,
       I!frameVars, I!inputVars, I!LockInv, I!Locked
<1>17. CASE I!FreeList
    BY <1>17 DEF I!FreeList, I!At, I!Fail, I!shared, I!fileVars, I!httpVars, I!ptpVars,
       I!frameVars, I!inputVars, I!LockInv, I!Locked
<1>18. CASE I!Connect
    BY <1>18 DEF I!Connect, I!At, I!Fail, I!shared, I!fileVars, I!httpVars, I!ptpVars,
       I!frameVars, I!inputVars, I!LockInv, I!Locked
<1>19. CASE I!Receive
    BY <1>19 DEF I!Receive, I!extract_data, I!At, I!Fail, I!shared, I!fileVars, I!httpVars,
       I!ptpVars, I!frameVars, I!inputVars, I!LockInv, I!Locked
<1>20. CASE I!CopyImage
    BY <1>20 DEF I!CopyImage, I!At, I!Fail, I!shared, I!fileVars, I!httpVars, I!ptpVars,
       I!frameVars, I!inputVars, I!LockInv, I!Locked
<1>21. CASE I!testpicture_init
    BY <1>21 DEF I!testpicture_init, I!At, I!Fail, I!shared, I!fileVars, I!httpVars, I!ptpVars,
       I!frameVars, I!inputVars, I!LockInv, I!Locked
<1>22. CASE I!NextPicture
    BY <1>22 DEF I!NextPicture, I!At, I!Fail, I!shared, I!fileVars, I!httpVars, I!ptpVars,
       I!frameVars, I!inputVars, I!LockInv, I!Locked
<1>23. CASE InAbsent
    BY <1>23 DEF InAbsent, I!At, I!Fail, I!shared, I!fileVars, I!httpVars, I!ptpVars, I!frameVars,
       I!inputVars, I!LockInv, I!Locked
<1>24. CASE I!LockControl
    BY <1>24 DEF I!LockControl, I!At, I!Fail, I!shared, I!fileVars, I!httpVars, I!ptpVars,
       I!frameVars, I!inputVars, I!LockInv, I!Locked
<1>25. CASE I!CapturePreview
    BY <1>25 DEF I!CapturePreview, I!At, I!Fail, I!shared, I!fileVars, I!httpVars, I!ptpVars,
       I!frameVars, I!inputVars, I!LockInv, I!Locked
<1>26. CASE I!GetData
    BY <1>26 DEF I!GetData, I!At, I!Fail, I!shared, I!fileVars, I!httpVars, I!ptpVars,
       I!frameVars, I!inputVars, I!LockInv, I!Locked
<1>27. CASE I!Restarted
    BY <1>27 DEF I!Restarted, I!At, I!Fail, I!shared, I!fileVars, I!httpVars, I!ptpVars,
       I!frameVars, I!inputVars, I!LockInv, I!Locked
<1>28. CASE I!CopyPreview
    BY <1>28 DEF I!CopyPreview, I!At, I!Fail, I!shared, I!fileVars, I!httpVars, I!ptpVars,
       I!frameVars, I!inputVars, I!LockInv, I!Locked
<1>29. CASE I!UnlockControl
    BY <1>29 DEF I!UnlockControl, I!At, I!Fail, I!shared, I!fileVars, I!httpVars, I!ptpVars,
       I!frameVars, I!inputVars, I!LockInv, I!Locked
<1>30. CASE I!ReadCapture
    BY <1>30 DEF I!ReadCapture, I!At, I!Fail, I!shared, I!fileVars, I!httpVars, I!ptpVars,
       I!frameVars, I!inputVars, I!LockInv, I!Locked
<1>31. CASE I!Encode
    BY <1>31 DEF I!Encode, I!At, I!Fail, I!shared, I!fileVars, I!httpVars, I!ptpVars, I!frameVars,
       I!inputVars, I!LockInv, I!Locked
<1>32. CASE InZoom
    BY <1>32 DEF InZoom, I!ZoomAsked, I!ZoomLocked, I!ZoomSet, I!At, I!Fail, I!shared, I!fileVars,
       I!httpVars, I!ptpVars, I!frameVars, I!inputVars, I!LockInv, I!Locked
<1> QED
    BY <1>1, <1>2, <1>3, <1>4, <1>5, <1>6, <1>7, <1>8, <1>9, <1>10, <1>11, <1>12, <1>13, <1>14,
       <1>15, <1>16, <1>17, <1>18, <1>19, <1>20, <1>21, <1>22, <1>23, <1>24, <1>25, <1>26, <1>27,
       <1>28, <1>29, <1>30, <1>31, <1>32 DEF InputStep

\* One more piece of the stream: what the content buffer holds next.
LEMMA ReceiveStep ==
    ASSUME I!KeptOK, I!HttpInv, I!Receive
    PROVE  I!HttpInv'
<1>1. in = "http" /\ ipc = "recv" /\ UNCHANGED <<in, buf, size>>
    BY DEF I!Receive, I!At, I!shared
<1>2. /\ part = "HEADER" => held = "none" /\ len = 0 /\ sp \in {"status", "pfields", "pblank"}
      /\ part = "CONTENT" => I!Received
    BY <1>1 DEF I!HttpInv
<1>3. CASE ipc' = "closed"
  <2>1. UNCHANGED <<part, held, len, sp, sent>>
    BY <1>3, ReceivesOrCloses
  <2> QED
    BY <1>1, <1>2, <1>3, <2>1 DEF I!HttpInv
<1>4. CASE ipc' # "closed"
  <2>1. PICK n \in Nat :
           /\ sp = "data" \/ n = I!Length[sp]
           /\ I!extract_data(sp, n) /\ sp' = I!NextToken[sp]
           /\ sent' = IF sp = "data" THEN n ELSE IF sp \in {"crlf", "boundary"} THEN sent ELSE 0
    BY <1>4, ReceiveEffect
  <2>2. CASE part = "HEADER"
    <3>1. /\ part' = (IF I!is_crlfcrlf(sp) THEN "CONTENT" ELSE part)
          /\ ipc' = "recv" /\ held' = "none" /\ len' = 0
      BY <1>2, <2>1, <2>2 DEF I!extract_data
    <3>2. CASE sp = "status"
      <4>1. part' = "CONTENT" /\ sp' = "fields"
        BY <2>1, <3>1, <3>2, HeaderEnds DEF I!NextToken
      <4> QED
        BY <3>1, <4>1 DEF I!HttpInv, I!Received
    <3>3. CASE sp = "pfields"
      <4>1. part' = "HEADER" /\ sp' = "pblank"
        BY <2>1, <2>2, <3>1, <3>3, HeaderEnds DEF I!NextToken
      <4> QED
        BY <3>1, <4>1 DEF I!HttpInv
    <3>4. CASE sp = "pblank"
      <4>1. part' = "CONTENT" /\ sp' = "data"
        BY <2>1, <3>1, <3>4, HeaderEnds DEF I!NextToken
      <4> QED
        BY <3>1, <4>1 DEF I!HttpInv, I!Received
    <3> QED
      BY <1>2, <2>2, <3>2, <3>3, <3>4
  <2>3. CASE part = "CONTENT"
    <3>1. /\ len' = (IF len + n < I!BUFFER_SIZE THEN len + n ELSE I!BUFFER_SIZE - 1)
          /\ held' = (IF len < I!BUFFER_SIZE - 1 THEN I!Holding(sp) ELSE held) /\ part' = "CONTENT"
          /\ ipc' = (IF sp = "boundary" /\ len + n < I!BUFFER_SIZE THEN "image" ELSE "recv")
      BY <2>1, <2>3 DEF I!extract_data
    <3>2. len \in Nat /\ sent \in Nat /\ I!BUFFER_SIZE = 262144
      BY BufferBytes DEF I!KeptOK
    <3>3. I!Received
      BY <1>2, <2>3
    <3>4. I!Full => len' = 262143 /\ (n > 0 => ipc' = "recv")
      BY <3>1, <3>2 DEF I!Full
    <3>5. CASE sp = "fields"
      <4>1. n = 300 /\ sp' = "blank" /\ len = 0 /\ held = "none"
        BY <2>1, <3>3, <3>5 DEF I!Length, I!NextToken, I!Received
      <4>2. len' = 300 /\ held' = "text" /\ ipc' = "recv"
        BY <3>1, <3>2, <3>5, <4>1, HoldingKept
      <4> QED
        BY <3>1, <4>1, <4>2 DEF I!HttpInv, I!Received
    <3>6. CASE sp = "blank"
      <4>1. n = 2 /\ sp' = "boundary" /\ len = 300 /\ held = "text"
        BY <2>1, <3>3, <3>6 DEF I!Length, I!NextToken, I!Received
      <4>2. len' = 302 /\ held' = "text" /\ ipc' = "recv"
        BY <3>1, <3>2, <3>6, <4>1, HoldingKept
      <4> QED
        BY <3>1, <4>1, <4>2 DEF I!HttpInv, I!Received
    <3>7. CASE sp = "boundary"
      <4>1. n = 20 /\ sp' = "pfields" /\ sent' = sent
        BY <2>1, <3>7 DEF I!Length, I!NextToken
      <4>2. (held = "text" /\ len = 302) \/ I!Whole(2) \/ I!Full
        BY <3>3, <3>7 DEF I!Received
      <4>3. CASE ipc' = "image"
        <5>1. len + 20 < 262144 /\ len' = len + 20
          BY <3>1, <3>2, <4>1, <4>3
        <5>2. (held = "text" /\ len = 302) \/ I!Whole(2)
          BY <3>2, <4>2, <5>1 DEF I!Full
        <5>3. held' = held /\ (held = "text" \/ held \in I!Tags)
          BY <3>1, <3>7, <5>2, HoldingKept DEF I!Whole, I!Tags
        <5>4. held' = "text" \/ I!Whole(22)'
          BY <3>2, <4>1, <5>1, <5>2, <5>3 DEF I!Whole
        <5>5. len' >= 22
          BY <3>2, <5>1, <5>2 DEF I!Whole
        <5> QED
          BY <3>1, <4>1, <4>3, <5>4, <5>5 DEF I!HttpInv
      <4>4. CASE ipc' # "image"
        <5>1. ipc' = "recv" /\ len' = 262143
          BY <3>1, <3>2, <3>7, <4>1, <4>4
        <5>2. I!Full'
          BY <3>2, <5>1, BufferBytes DEF I!Full
        <5> QED
          BY <3>1, <4>1, <5>1, <5>2 DEF I!HttpInv, I!Received
      <4> QED
        BY <4>3, <4>4
    <3>8. CASE sp \in {"pfields", "pblank"}
      <4>1. sp' \in {"pblank", "data"} /\ I!Full
        BY <2>1, <3>3, <3>8 DEF I!NextToken, I!Received
      <4>2. I!Full' /\ ipc' = "recv"
        BY <3>1, <3>4, <3>8, <4>1, BufferBytes DEF I!Full
      <4> QED
        BY <3>1, <4>1, <4>2 DEF I!HttpInv, I!Received
    <3>9. CASE sp = "data"
      <4>1. sp' = "crlf" /\ sent' = n /\ ((held = "none" /\ len = 0) \/ I!Full)
        BY <2>1, <3>3, <3>9 DEF I!NextToken, I!Received
      <4>2. ipc' = "recv"
        BY <3>1, <3>9
      <4>3. I!Full' \/ I!Whole(0)'
        <5>1. CASE I!Full
          BY <3>4, <5>1, BufferBytes DEF I!Full
        <5>2. CASE held = "none" /\ len = 0
          <6>1. held' = tag /\ tag \in I!Tags
            BY <3>1, <3>2, <3>9, <5>2, HoldingKept DEF I!KeptOK
          <6>2. len' = n \/ len' = 262143
            BY <3>1, <3>2, <5>2
          <6> QED
            BY <4>1, <6>1, <6>2, BufferBytes DEF I!Full, I!Whole
        <5> QED
          BY <4>1, <5>1, <5>2
      <4> QED
        BY <3>1, <4>1, <4>2, <4>3 DEF I!HttpInv, I!Received
    <3>10. CASE sp = "crlf"
      <4>1. n = 2 /\ sp' = "boundary" /\ sent' = sent /\ (I!Whole(0) \/ I!Full)
        BY <2>1, <3>3, <3>10 DEF I!Length, I!NextToken, I!Received
      <4>2. ipc' = "recv"
        BY <3>1, <3>10
      <4>3. I!Full' \/ I!Whole(2)'
        <5>1. CASE I!Full
          BY <3>4, <5>1, BufferBytes DEF I!Full
        <5>2. CASE I!Whole(0)
          <6>1. held' = held /\ held \in I!Tags /\ len = sent
            BY <3>1, <3>2, <3>10, <5>2, HoldingKept DEF I!Whole, I!Tags
          <6>2. len' = len + 2 \/ len' = 262143
            BY <3>1, <3>2, <4>1
          <6> QED
            BY <4>1, <6>1, <6>2, BufferBytes DEF I!Full, I!Whole
        <5> QED
          BY <4>1, <5>1, <5>2
      <4> QED
        BY <3>1, <4>1, <4>2, <4>3 DEF I!HttpInv, I!Received
    <3>11. sp \in {"fields", "blank", "boundary", "pfields", "pblank", "data", "crlf"}
      BY <3>3 DEF I!KeptOK, I!NextToken, I!Received
    <3> QED
      BY <3>5, <3>6, <3>7, <3>8, <3>9, <3>10, <3>11
  <2> QED
    BY <2>2, <2>3 DEF I!KeptOK
<1> QED
    BY <1>3, <1>4

\* What is shown of the other server's stream is one picture, or its first text.
LEMMA HttpStep ==
    ASSUME I!KeptOK, I!HttpInv, InputStep
    PROVE  I!HttpInv'
<1>1. CASE InGo
    BY <1>1 DEF InGo, I!Go, I!At, I!Fail, I!shared, I!fileVars, I!httpVars, I!ptpVars,
       I!frameVars, I!inputVars, I!HttpInv, I!Received, I!Whole, I!Full
<1>2. CASE InLock
    BY <1>2 DEF InLock, I!Lock, I!LockDb, I!At, I!Fail, I!shared, I!fileVars, I!httpVars,
       I!ptpVars, I!frameVars, I!inputVars, I!HttpInv, I!Received, I!Whole, I!Full
<1>3. CASE InPublish
    BY <1>3 DEF InPublish, I!PublishPicture, I!Publish, I!At, I!Fail, I!shared, I!fileVars,
       I!httpVars, I!ptpVars, I!frameVars, I!inputVars, I!HttpInv
<1>4. CASE InStart
    BY <1>4 DEF InStart, I!StartThread, I!At, I!Fail, I!shared, I!fileVars, I!httpVars, I!ptpVars,
       I!frameVars, I!inputVars, I!HttpInv, I!Received, I!Whole, I!Full
<1>5. CASE InCleanup
    BY <1>5 DEF InCleanup, I!worker_cleanup, I!Freed, I!At, I!Fail, I!shared, I!fileVars,
       I!httpVars, I!ptpVars, I!frameVars, I!inputVars, I!HttpInv, I!Received, I!Whole, I!Full
<1>6. CASE I!Cancelled
    BY <1>6 DEF I!Cancelled, I!Freed, I!CancelPoints, I!At, I!Fail, I!shared, I!fileVars,
       I!httpVars, I!ptpVars, I!frameVars, I!inputVars, I!HttpInv, I!Received, I!Whole, I!Full
<1>7. CASE InExit
    BY <1>7 DEF InExit, I!ExitFailure, I!At, I!Fail, I!shared, I!fileVars, I!httpVars, I!ptpVars,
       I!frameVars, I!inputVars, I!HttpInv, I!Received, I!Whole, I!Full
<1>8. CASE I!file_init
    BY <1>8 DEF I!file_init, I!At, I!Fail, I!shared, I!fileVars, I!httpVars, I!ptpVars,
       I!frameVars, I!inputVars, I!HttpInv
<1>9. CASE I!ScanFolder
    BY <1>9 DEF I!ScanFolder, I!At, I!Fail, I!shared, I!fileVars, I!httpVars, I!ptpVars,
       I!frameVars, I!inputVars, I!HttpInv
<1>10. CASE InWrite
    BY <1>10 DEF InWrite, I!WriteFile, I!At, I!Fail, I!shared, I!fileVars, I!httpVars, I!ptpVars,
       I!frameVars, I!inputVars, I!HttpInv
<1>11. CASE I!ReadEvent
    BY <1>11 DEF I!ReadEvent, I!At, I!Fail, I!shared, I!fileVars, I!httpVars, I!ptpVars,
       I!frameVars, I!inputVars, I!HttpInv
<1>12. CASE I!PickFile
    BY <1>12 DEF I!PickFile, I!At, I!Fail, I!shared, I!fileVars, I!httpVars, I!ptpVars,
       I!frameVars, I!inputVars, I!HttpInv
<1>13. CASE I!OpenFile
    BY <1>13 DEF I!OpenFile, I!At, I!Fail, I!shared, I!fileVars, I!httpVars, I!ptpVars,
       I!frameVars, I!inputVars, I!HttpInv
<1>14. CASE I!ReadFile
    BY <1>14 DEF I!ReadFile, I!UnlockDb, I!At, I!Fail, I!shared, I!fileVars, I!httpVars,
       I!ptpVars, I!frameVars, I!inputVars, I!HttpInv
<1>15. CASE I!ShowFile
    BY <1>15 DEF I!ShowFile, I!Publish, I!At, I!Fail, I!shared, I!fileVars, I!httpVars, I!ptpVars,
       I!frameVars, I!inputVars, I!HttpInv
<1>16. CASE I!RemoveFile
    BY <1>16 DEF I!RemoveFile, I!At, I!Fail, I!shared, I!fileVars, I!httpVars, I!ptpVars,
       I!frameVars, I!inputVars, I!HttpInv
<1>17. CASE I!FreeList
    BY <1>17 DEF I!FreeList, I!At, I!Fail, I!shared, I!fileVars, I!httpVars, I!ptpVars,
       I!frameVars, I!inputVars, I!HttpInv
<1>18. CASE I!Connect
    BY <1>18 DEF I!Connect, I!At, I!Fail, I!shared, I!fileVars, I!httpVars, I!ptpVars,
       I!frameVars, I!inputVars, I!HttpInv
<1>19. CASE I!Receive
    BY <1>19, ReceiveStep
<1>20. CASE I!CopyImage
  <2>1. /\ in = "http" /\ ipc = "copy" /\ ipc' = "publish" /\ part' = "HEADER" /\ held' = "none" /\ len' = 0
        /\ buf' = held /\ size' = len - 22 /\ UNCHANGED <<sp, sent, in>>
    BY <1>20 DEF I!CopyImage, I!At, I!Length
  <2>2. sp = "pfields" /\ (held = "text" \/ I!Whole(22))
    BY <2>1 DEF I!HttpInv
  <2>3. buf' = "text" \/ (buf' \in I!Tags /\ size' = sent)
    BY <2>1, <2>2 DEF I!Whole, I!KeptOK
  <2> QED
    BY <2>1, <2>2, <2>3 DEF I!HttpInv
<1>21. CASE I!testpicture_init
    BY <1>21 DEF I!testpicture_init, I!At, I!Fail, I!shared, I!fileVars, I!httpVars, I!ptpVars,
       I!frameVars, I!inputVars, I!HttpInv
<1>22. CASE I!NextPicture
    BY <1>22 DEF I!NextPicture, I!At, I!Fail, I!shared, I!fileVars, I!httpVars, I!ptpVars,
       I!frameVars, I!inputVars, I!HttpInv
<1>23. CASE InAbsent
    BY <1>23 DEF InAbsent, I!At, I!Fail, I!shared, I!fileVars, I!httpVars, I!ptpVars, I!frameVars,
       I!inputVars, I!HttpInv
<1>24. CASE I!LockControl
    BY <1>24 DEF I!LockControl, I!At, I!Fail, I!shared, I!fileVars, I!httpVars, I!ptpVars,
       I!frameVars, I!inputVars, I!HttpInv
<1>25. CASE I!CapturePreview
    BY <1>25 DEF I!CapturePreview, I!At, I!Fail, I!shared, I!fileVars, I!httpVars, I!ptpVars,
       I!frameVars, I!inputVars, I!HttpInv
<1>26. CASE I!GetData
    BY <1>26 DEF I!GetData, I!At, I!Fail, I!shared, I!fileVars, I!httpVars, I!ptpVars,
       I!frameVars, I!inputVars, I!HttpInv
<1>27. CASE I!Restarted
    BY <1>27 DEF I!Restarted, I!At, I!Fail, I!shared, I!fileVars, I!httpVars, I!ptpVars,
       I!frameVars, I!inputVars, I!HttpInv
<1>28. CASE I!CopyPreview
    BY <1>28 DEF I!CopyPreview, I!At, I!Fail, I!shared, I!fileVars, I!httpVars, I!ptpVars,
       I!frameVars, I!inputVars, I!HttpInv
<1>29. CASE I!UnlockControl
    BY <1>29 DEF I!UnlockControl, I!At, I!Fail, I!shared, I!fileVars, I!httpVars, I!ptpVars,
       I!frameVars, I!inputVars, I!HttpInv
<1>30. CASE I!ReadCapture
    BY <1>30 DEF I!ReadCapture, I!At, I!Fail, I!shared, I!fileVars, I!httpVars, I!ptpVars,
       I!frameVars, I!inputVars, I!HttpInv
<1>31. CASE I!Encode
    BY <1>31 DEF I!Encode, I!At, I!Fail, I!shared, I!fileVars, I!httpVars, I!ptpVars, I!frameVars,
       I!inputVars, I!HttpInv
<1>32. CASE InZoom
    BY <1>32 DEF InZoom, I!ZoomAsked, I!ZoomLocked, I!ZoomSet, I!At, I!Fail, I!shared, I!fileVars,
       I!httpVars, I!ptpVars, I!frameVars, I!inputVars, I!HttpInv, I!Received, I!Whole, I!Full
<1> QED
    BY <1>1, <1>2, <1>3, <1>4, <1>5, <1>6, <1>7, <1>8, <1>9, <1>10, <1>11, <1>12, <1>13, <1>14,
       <1>15, <1>16, <1>17, <1>18, <1>19, <1>20, <1>21, <1>22, <1>23, <1>24, <1>25, <1>26, <1>27,
       <1>28, <1>29, <1>30, <1>31, <1>32 DEF InputStep

\* A step of an input, as the output sees it.
InputEffect ==
    /\ UNCHANGED sig /\ proc' \in {proc, "exited", "crashed"}
    /\ nfail' \in {nfail, nfail + 1} /\ nfail' \in 0..MaxFail
    /\ db' = db \/ (db = Nobody /\ db' = "input") \/ (db = "input" /\ db' = Nobody)
    /\ asleep' \subseteq {"output"} /\ ipc' \in InputPlaces /\ buf' \in Contents
    /\ UNCHANGED <<buf, size>> \/ db = "input" \/ ipc' = "ended" \/ ipc = "run"
    /\ ipc' = "init" => ipc = "init"
    /\ ipc' \in {"init", "run"} => ipc \in {"init", "run"}
    /\ ipc = "ended" => ipc' = "ended"

\* Each step of an input has that effect.
LEMMA InputEffects ==
    ASSUME SharedInv, I!KeptOK, I!FileInv, I!LockInv, InputStep
    PROVE  InputEffect
<1> USE PluginsAssumption
<1>1. CASE InGo
    BY <1>1 DEF InGo, I!Go, I!At, I!Fail, I!shared, I!fileVars, I!httpVars, I!ptpVars,
       I!frameVars, I!inputVars, InputEffect, SharedInv, InputPlaces
<1>2. CASE InLock
    BY <1>2 DEF InLock, I!Lock, I!LockDb, I!At, I!Fail, I!shared, I!fileVars, I!httpVars,
       I!ptpVars, I!frameVars, I!inputVars, InputEffect, SharedInv, InputPlaces
<1>3. CASE InPublish
    BY <1>3 DEF InPublish, I!PublishPicture, I!Publish, I!At, I!Fail, I!shared, I!fileVars,
       I!httpVars, I!ptpVars, I!frameVars, I!inputVars, InputEffect, SharedInv, InputPlaces
<1>4. CASE InStart
    BY <1>4 DEF InStart, I!StartThread, I!At, I!Fail, I!shared, I!fileVars, I!httpVars, I!ptpVars,
       I!frameVars, I!inputVars, InputEffect, SharedInv, InputPlaces, Contents, I!Held
<1>5. CASE InCleanup
    BY <1>5 DEF InCleanup, I!worker_cleanup, I!Freed, I!At, I!Fail, I!shared, I!fileVars,
       I!httpVars, I!ptpVars, I!frameVars, I!inputVars, InputEffect, SharedInv, InputPlaces,
       Contents, I!Held
<1>6. CASE I!Cancelled
    BY <1>6 DEF I!Cancelled, I!Freed, I!CancelPoints, I!At, I!Fail, I!shared, I!fileVars,
       I!httpVars, I!ptpVars, I!frameVars, I!inputVars, InputEffect, SharedInv, InputPlaces,
       Contents, I!Held, I!KeptOK, I!Plugins
<1>7. CASE InExit
    BY <1>7 DEF InExit, I!ExitFailure, I!At, I!Fail, I!shared, I!fileVars, I!httpVars, I!ptpVars,
       I!frameVars, I!inputVars, InputEffect, SharedInv, InputPlaces
<1>8. CASE I!file_init
    BY <1>8 DEF I!file_init, I!At, I!Fail, I!shared, I!fileVars, I!httpVars, I!ptpVars,
       I!frameVars, I!inputVars, InputEffect, SharedInv, InputPlaces
<1>9. CASE I!ScanFolder
    BY <1>9 DEF I!ScanFolder, I!At, I!Fail, I!shared, I!fileVars, I!httpVars, I!ptpVars,
       I!frameVars, I!inputVars, InputEffect, SharedInv, InputPlaces
<1>10. CASE InWrite
    BY <1>10 DEF InWrite, I!WriteFile, I!At, I!Fail, I!shared, I!fileVars, I!httpVars, I!ptpVars,
       I!frameVars, I!inputVars, InputEffect, SharedInv, InputPlaces
<1>11. CASE I!ReadEvent
    BY <1>11 DEF I!ReadEvent, I!At, I!Fail, I!shared, I!fileVars, I!httpVars, I!ptpVars,
       I!frameVars, I!inputVars, InputEffect, SharedInv, InputPlaces
<1>12. CASE I!PickFile
    BY <1>12 DEF I!PickFile, I!At, I!Fail, I!shared, I!fileVars, I!httpVars, I!ptpVars,
       I!frameVars, I!inputVars, InputEffect, SharedInv, InputPlaces
<1>13. CASE I!OpenFile
    BY <1>13 DEF I!OpenFile, I!At, I!Fail, I!shared, I!fileVars, I!httpVars, I!ptpVars,
       I!frameVars, I!inputVars, InputEffect, SharedInv, InputPlaces
<1>14. CASE I!ReadFile
  <2>1. /\ in = "file" /\ ipc = "load" /\ ipc' \in {"publish", "quit"} /\ UNCHANGED <<proc, sig>>
        /\ buf' \in {name, "null"} /\ name \in Files
    BY <1>14 DEF I!ReadFile, I!At, I!FileInv
  <2>2. db = "input"
    BY <2>1 DEF I!LockInv, I!Locked
  <2>3. buf' \in Contents
    BY <2>1 DEF Contents
  <2>4. UNCHANGED asleep /\ db' \in {"input", Nobody} /\ nfail' \in {nfail, nfail + 1} /\ nfail' \in 0..MaxFail
    BY <1>14, <2>2 DEF I!ReadFile, I!UnlockDb, I!frameVars, I!Fail, SharedInv
  <2> QED
    BY <2>1, <2>2, <2>3, <2>4 DEF InputEffect, SharedInv, InputPlaces
<1>15. CASE I!ShowFile
    BY <1>15 DEF I!ShowFile, I!Publish, I!At, I!Fail, I!shared, I!fileVars, I!httpVars, I!ptpVars,
       I!frameVars, I!inputVars, InputEffect, SharedInv, InputPlaces
<1>16. CASE I!RemoveFile
    BY <1>16 DEF I!RemoveFile, I!At, I!Fail, I!shared, I!fileVars, I!httpVars, I!ptpVars,
       I!frameVars, I!inputVars, InputEffect, SharedInv, InputPlaces
<1>17. CASE I!FreeList
    BY <1>17 DEF I!FreeList, I!At, I!Fail, I!shared, I!fileVars, I!httpVars, I!ptpVars,
       I!frameVars, I!inputVars, InputEffect, SharedInv, InputPlaces
<1>18. CASE I!Connect
    BY <1>18 DEF I!Connect, I!At, I!Fail, I!shared, I!fileVars, I!httpVars, I!ptpVars,
       I!frameVars, I!inputVars, InputEffect, SharedInv, InputPlaces
<1>19. CASE I!Receive
    BY <1>19 DEF I!Receive, I!extract_data, I!At, I!Fail, I!shared, I!fileVars, I!httpVars,
       I!ptpVars, I!frameVars, I!inputVars, InputEffect, SharedInv, InputPlaces
<1>20. CASE I!CopyImage
    BY <1>20 DEF I!CopyImage, I!At, I!Fail, I!shared, I!fileVars, I!httpVars, I!ptpVars,
       I!frameVars, I!inputVars, InputEffect, SharedInv, InputPlaces, I!KeptOK, I!LockInv, I!Locked,
       Contents
<1>21. CASE I!testpicture_init
    BY <1>21 DEF I!testpicture_init, I!At, I!Fail, I!shared, I!fileVars, I!httpVars, I!ptpVars,
       I!frameVars, I!inputVars, InputEffect, SharedInv, InputPlaces
<1>22. CASE I!NextPicture
    BY <1>22, OtherTag DEF I!NextPicture, I!At, I!Fail, I!shared, I!fileVars, I!httpVars,
       I!ptpVars, I!frameVars, I!inputVars, InputEffect, SharedInv, InputPlaces, I!KeptOK, I!LockInv,
       I!Locked, I!Held, Contents
<1>23. CASE InAbsent
    BY <1>23 DEF InAbsent, I!At, I!Fail, I!shared, I!fileVars, I!httpVars, I!ptpVars, I!frameVars,
       I!inputVars, InputEffect, SharedInv, InputPlaces, frameVars
<1>24. CASE I!LockControl
    BY <1>24 DEF I!LockControl, I!At, I!Fail, I!shared, I!fileVars, I!httpVars, I!ptpVars,
       I!frameVars, I!inputVars, InputEffect, SharedInv, InputPlaces
<1>25. CASE I!CapturePreview
    BY <1>25 DEF I!CapturePreview, I!At, I!Fail, I!shared, I!fileVars, I!httpVars, I!ptpVars,
       I!frameVars, I!inputVars, InputEffect, SharedInv, InputPlaces
<1>26. CASE I!GetData
    BY <1>26 DEF I!GetData, I!At, I!Fail, I!shared, I!fileVars, I!httpVars, I!ptpVars,
       I!frameVars, I!inputVars, InputEffect, SharedInv, InputPlaces
<1>27. CASE I!Restarted
    BY <1>27 DEF I!Restarted, I!At, I!Fail, I!shared, I!fileVars, I!httpVars, I!ptpVars,
       I!frameVars, I!inputVars, InputEffect, SharedInv, InputPlaces, I!LockInv, I!Locked
<1>28. CASE I!CopyPreview
  <2>1. /\ ipc = "copy" /\ ipc' \in {"control_done", "ended"} /\ UNCHANGED <<proc, sig, db, asleep>>
        /\ nfail' \in {nfail, nfail + 1} /\ nfail' \in 0..MaxFail
    BY <1>28 DEF I!CopyPreview, I!At, I!frameVars, I!Fail, SharedInv
  <2>2. db = "input"
    BY <2>1 DEF I!LockInv, I!Locked
  <2>3. buf' \in I!Tags \/ buf' = buf
    BY <1>28, OtherTag DEF I!CopyPreview, I!KeptOK
  <2> QED
    BY <2>1, <2>2, <2>3 DEF InputEffect, SharedInv, InputPlaces, Contents, I!Held
<1>29. CASE I!UnlockControl
    BY <1>29 DEF I!UnlockControl, I!At, I!Fail, I!shared, I!fileVars, I!httpVars, I!ptpVars,
       I!frameVars, I!inputVars, InputEffect, SharedInv, InputPlaces
<1>30. CASE I!ReadCapture
    BY <1>30 DEF I!ReadCapture, I!At, I!Fail, I!shared, I!fileVars, I!httpVars, I!ptpVars,
       I!frameVars, I!inputVars, InputEffect, SharedInv, InputPlaces
<1>31. CASE I!Encode
    BY <1>31, OtherTag DEF I!Encode, I!At, I!Fail, I!shared, I!fileVars, I!httpVars, I!ptpVars,
       I!frameVars, I!inputVars, InputEffect, SharedInv, InputPlaces, I!KeptOK, I!LockInv, I!Locked,
       I!Held, Contents
<1>32. CASE InZoom
    BY <1>32 DEF InZoom, I!ZoomAsked, I!ZoomLocked, I!ZoomSet, I!At, I!Fail, I!shared, I!fileVars,
       I!httpVars, I!ptpVars, I!frameVars, I!inputVars, InputEffect, SharedInv, InputPlaces
<1> QED
    BY <1>1, <1>2, <1>3, <1>4, <1>5, <1>6, <1>7, <1>8, <1>9, <1>10, <1>11, <1>12, <1>13, <1>14,
       <1>15, <1>16, <1>17, <1>18, <1>19, <1>20, <1>21, <1>22, <1>23, <1>24, <1>25, <1>26, <1>27,
       <1>28, <1>29, <1>30, <1>31, <1>32 DEF InputStep

-----------------------------------------------------------------------------
(* Each side's invariants, while the other takes a step.                    *)

\* A step of an output leaves what is true of the input.
LEMMA InputsKept ==
    ASSUME IndInv, OutputEffect, UNCHANGED inVars
    PROVE  I!KeptOK' /\ I!FileInv' /\ I!HttpInv' /\ I!SizeInv' /\ I!LockInv'
<1> USE DEF inVars
<1>1. I!KeptOK'
    BY DEF IndInv, I!KeptOK
<1>2. I!FileInv'
    BY DEF IndInv, I!FileInv
<1>3. I!HttpInv'
    BY DEF IndInv, OutputEffect, I!HttpInv, I!Received, I!Whole, I!Full
<1>4. I!SizeInv'
    BY DEF IndInv, OutputEffect, I!SizeInv
<1>5. I!LockInv'
    BY PluginsAssumption DEF IndInv, SharedInv, OutputEffect, I!LockInv
<1> QED
    BY <1>1, <1>2, <1>3, <1>4, <1>5

\* A step of an input leaves what is true of the output.
LEMMA OutputsKept ==
    ASSUME IndInv, InputEffect, UNCHANGED outVars
    PROVE  /\ O!FlagsOK' /\ O!KeptOK' /\ O!PackInv' /\ O!RoomInv' /\ O!RingInv' /\ O!LensInv' /\ O!LockInv'
           /\ CopyStable' /\ SavedWhole'
<1> USE DEF outVars
<1>1. O!FlagsOK'
    BY DEF IndInv, O!FlagsOK
<1>2. O!KeptOK'
    BY DEF IndInv, O!KeptOK
<1>3. O!PackInv'
    BY DEF IndInv, InputEffect, O!PackInv
<1>4. O!RoomInv'
    BY DEF IndInv, SharedInv, InputEffect, O!RoomInv, O!Unused
<1>5. O!RingInv'
    BY DEF IndInv, O!RingInv, O!Period, O!NewestLast
<1>6. O!LensInv'
    BY DEF IndInv, O!LensInv, O!Best
<1>7. O!LockInv'
    BY PluginsAssumption DEF IndInv, InputEffect, O!LockInv
<1>8. CopyStable'
  <2>1. opc = "copy" => db = "output" /\ ipc # "run"
    BY DEF IndInv, SharedInv, O!LockInv
  <2> QED
    BY <2>1 DEF IndInv, InputEffect, CopyStable
<1>9. SavedWhole'
    BY DEF IndInv, InputEffect, SavedWhole
<1> QED
    BY <1>1, <1>2, <1>3, <1>4, <1>5, <1>6, <1>7, <1>8, <1>9

\* Pictures and the motors share nothing but the number of failures.
LEMMA PicturesKept ==
    ASSUME IndInv, UNCHANGED <<frameVars, proc, buf, size, inVars, outVars>>,
           nfail' \in {nfail, nfail + 1}, nfail' \in 0..MaxFail,
           sig' = sig \/ sig # "cancel"
    PROVE  /\ SharedInv' /\ CopyStable' /\ SavedWhole'
           /\ I!KeptOK' /\ I!FileInv' /\ I!HttpInv' /\ I!SizeInv' /\ I!LockInv'
           /\ O!FlagsOK' /\ O!KeptOK' /\ O!PackInv' /\ O!RoomInv' /\ O!RingInv' /\ O!LensInv' /\ O!LockInv'
<1> USE DEF frameVars, inVars, outVars
<1>1. SharedInv'
    BY DEF IndInv, SharedInv
<1>2. CopyStable' /\ SavedWhole'
    BY DEF IndInv, CopyStable, SavedWhole
<1>3. I!KeptOK'
    BY DEF IndInv, I!KeptOK
<1>4. I!FileInv'
    BY DEF IndInv, I!FileInv
<1>5. I!HttpInv'
    BY DEF IndInv, I!HttpInv, I!Received, I!Whole, I!Full
<1>6. I!SizeInv'
    BY DEF IndInv, I!SizeInv
<1>7. I!LockInv'
    BY DEF IndInv, SharedInv, I!LockInv
<1>8. O!FlagsOK'
    BY DEF IndInv, O!FlagsOK
<1>9. O!KeptOK'
    BY DEF IndInv, O!KeptOK
<1>10. O!PackInv'
    BY DEF IndInv, O!PackInv
<1>11. O!RoomInv'
    BY DEF IndInv, SharedInv, O!RoomInv, O!Unused
<1>12. O!RingInv'
    BY DEF IndInv, O!RingInv, O!Period, O!NewestLast
<1>13. O!LensInv'
    BY DEF IndInv, O!LensInv, O!Best
<1>14. O!LockInv'
    BY DEF IndInv, O!LockInv
<1> QED
    BY <1>1, <1>2, <1>3, <1>4, <1>5, <1>6, <1>7, <1>8, <1>9, <1>10, <1>11, <1>12, <1>13, <1>14

\* The motors stand still while others work; a failure only takes promises back.
LEMMA MotorsKept ==
    ASSUME IndInv, UNCHANGED panVars, nfail' \in {nfail, nfail + 1}
    PROVE  P!TypeOK' /\ P!CommandInv' /\ P!MotorInv'
<1> USE DEF panVars
<1>1. P!TypeOK'
    BY DEF IndInv, P!TypeOK
<1>2. P!CommandInv'
    BY DEF IndInv, P!CommandInv
<1>3. P!MotorInv'
    BY DEF IndInv, SharedInv, P!MotorInv, P!Left
<1> QED
    BY <1>1, <1>2, <1>3

-----------------------------------------------------------------------------
(* Together.                                                                *)

\* A step of an input plugin keeps the invariant.
LEMMA InputStepInv ==
    ASSUME IndInv, Input(InOrder /\ I!Next)
    PROVE  IndInv'
<1>1. InOrder /\ InputStep /\ UNCHANGED <<outVars, panVars>>
    BY InputCases DEF Input
<1>2. InputEffect
    BY <1>1, InputEffects DEF IndInv
<1>3. I!KeptOK' /\ I!FileInv' /\ I!HttpInv' /\ I!SizeInv'
    BY <1>1, InKeptStep, FileStep, HttpStep, SizeStep DEF IndInv
<1>4. I!LockInv'
  <2>1. nfail \in Nat
    BY DEF IndInv, SharedInv
  <2> QED
    BY <1>1, <2>1, InLockStep DEF IndInv
<1>5. SharedInv'
    BY <1>1, <1>2, PluginsAssumption DEF IndInv, SharedInv, InputEffect, outVars
<1>6. /\ O!FlagsOK' /\ O!KeptOK' /\ O!PackInv' /\ O!RoomInv' /\ O!RingInv' /\ O!LensInv' /\ O!LockInv'
      /\ CopyStable' /\ SavedWhole'
    BY <1>1, <1>2, OutputsKept
<1>7. P!TypeOK' /\ P!CommandInv' /\ P!MotorInv'
    BY <1>1, <1>2, MotorsKept DEF InputEffect
<1> QED
    BY <1>3, <1>4, <1>5, <1>6, <1>7 DEF IndInv

\* A step of an output plugin keeps the invariant.
LEMMA OutputStepInv ==
    ASSUME IndInv, Output(OutOrder /\ O!Next)
    PROVE  IndInv'
<1>1. OutOrder /\ OutputStep /\ UNCHANGED <<inVars, panVars>>
    BY OutputCases DEF Output
<1>2. OutputEffect
    BY <1>1, OutputEffects DEF IndInv
<1>3. O!FlagsOK' /\ O!KeptOK' /\ O!PackInv' /\ O!RoomInv' /\ O!RingInv' /\ O!LensInv'
    BY <1>1, FlagsStep, OutKeptStep, PackStep, RoomStep, RingStep, LensStep DEF IndInv
<1>4. O!LockInv'
    BY <1>1, OutLockStep, PluginsAssumption DEF IndInv
<1>5. CopyStable' /\ SavedWhole'
  <2>1. UNCHANGED ipc
    BY <1>1 DEF inVars
  <2> QED
    BY <1>1, <2>1, OutStableStep, OutSavedStep DEF IndInv
<1>6. mine' \in Contents \X Nat /\ frames' \in [O!Slots -> Contents \X Nat]
    BY <1>1, CopiesStep DEF IndInv
<1>7. SharedInv'
  <2>1. UNCHANGED ipc
    BY <1>1 DEF inVars
  <2> QED
    BY <1>1, <1>2, <1>6, <2>1 DEF IndInv, SharedInv, OutputEffect, OutOrder
<1>8. I!KeptOK' /\ I!FileInv' /\ I!HttpInv' /\ I!SizeInv' /\ I!LockInv'
    BY <1>1, <1>2, InputsKept
<1>9. P!TypeOK' /\ P!CommandInv' /\ P!MotorInv'
    BY <1>1, <1>2, MotorsKept DEF OutputEffect
<1> QED
    BY <1>3, <1>4, <1>5, <1>7, <1>8, <1>9 DEF IndInv

\* A command leaves everything but the motors, and the number of failures.
LEMMA ControlEffect ==
    ASSUME SharedInv, P!Next
    PROVE  nfail' \in {nfail, nfail + 1} /\ nfail' \in 0..MaxFail
<1>1. PICK c \in Commanders : P!input_cmd(c)
    BY DEF P!Next
<1>2. nfail' = nfail \/ P!Fail
    BY <1>1 DEF P!input_cmd, P!Begin, P!Reset, P!NoReset, P!Note, P!Turn, P!Finish
<1> QED
    BY <1>2, PluginsAssumption DEF P!Fail, SharedInv

\* A command to the motors keeps the invariant.
LEMMA ControlStepInv ==
    ASSUME IndInv, Control(P!Next)
    PROVE  IndInv'
<1>1. P!Next /\ UNCHANGED <<frameVars, proc, buf, size, inVars, outVars, sig>>
    BY DEF Control
<1>2. nfail' \in {nfail, nfail + 1} /\ nfail' \in 0..MaxFail /\ nfail \in Nat
    BY <1>1, ControlEffect DEF IndInv, SharedInv
<1>3. P!TypeOK' /\ P!CommandInv' /\ P!MotorInv'
    BY <1>1, <1>2, CommandStep, MotorStep DEF IndInv
<1> QED
    BY <1>1, <1>2, <1>3, PicturesKept DEF IndInv

\* A signal keeps the invariant.
LEMMA SignalStepInv ==
    ASSUME IndInv, Signal
    PROVE  IndInv'
<1>1. UNCHANGED <<frameVars, proc, buf, size, inVars, outVars, panVars, nfail>> /\ sig # "cancel"
    BY DEF Signal
<1>2. nfail' \in {nfail, nfail + 1} /\ nfail' \in 0..MaxFail
    BY <1>1 DEF IndInv, SharedInv
<1> QED
    BY <1>1, <1>2, PicturesKept, MotorsKept DEF IndInv

\* A stuttering step keeps the invariant.
LEMMA StillStepInv ==
    ASSUME IndInv, UNCHANGED vars
    PROVE  IndInv'
<1>1. UNCHANGED <<frameVars, proc, buf, size, inVars, outVars, panVars, nfail, sig>>
    BY DEF vars
<1>2. nfail' \in {nfail, nfail + 1} /\ nfail' \in 0..MaxFail
    BY <1>1 DEF IndInv, SharedInv
<1> QED
    BY <1>1, <1>2, PicturesKept, MotorsKept DEF IndInv

\* The initial state satisfies the invariant.
LEMMA InitIndInv ==
    ASSUME Init
    PROVE  IndInv
<1> USE PluginsAssumption
<1>1. SharedInv
  <2>1. frames \in [O!Slots -> Contents \X Nat] /\ mine \in Contents \X Nat
    BY NothingCopied DEF Init, O!Init
  <2>2. nfail = 0 /\ db = Nobody /\ asleep = {} /\ buf = "null" /\ ipc = "init" /\ opc = "init"
    BY DEF Init, I!Init, O!Init
  <2> QED
    BY <2>1, <2>2 DEF SharedInv, InputPlaces, OutputPlaces, Contents
<1>2. CopyStable /\ SavedWhole
    BY DEF Init, I!Init, O!Init, CopyStable, SavedWhole
<1>3. I!KeptOK
    BY DEF Init, I!Init, I!KeptOK, I!Tags, I!Held, I!BUFFER_SIZE, I!NextToken
<1>4. I!FileInv
    BY DEF Init, I!Init, I!FileInv
<1>5. I!HttpInv
    BY DEF Init, I!Init, I!HttpInv
<1>6. I!SizeInv
    BY DEF Init, I!Init, I!SizeInv, I!BUFFER_SIZE
<1>7. I!LockInv
    BY DEF Init, I!Init, I!LockInv, I!Locked
<1>8. O!FlagsOK
    BY DEF Init, O!Init, O!FlagsOK
<1>9. O!KeptOK
    BY DEF Init, O!Init, O!KeptOK
<1>10. O!PackInv
    BY DEF Init, O!Init, O!PackInv
<1>11. O!RoomInv
  <2>1. /\ frames = O!Unused /\ caps = [s \in O!Slots |-> 0] /\ max_frame_size = 0
        /\ \A s \in O!Slots : O!Unused[s][2] = 0
    BY DEF Init, O!Init, O!Unused, O!NoPicture
  <2>2. 0 \in O!Slots
    BY DEF O!Slots
  <2> QED
    BY <2>1, <2>2 DEF O!RoomInv
<1>12. O!RingInv
  <2>1. counter = -1 /\ folder = <<>> /\ exceed = 0
    BY DEF Init, O!Init
  <2> QED
    BY <2>1 DEF O!RingInv, O!Period, O!NewestLast
<1>13. O!LensInv
    BY DEF Init, O!Init, O!LensInv, O!Best
<1>14. O!LockInv
    BY DEF Init, O!Init, O!LockInv
<1>15. P!TypeOK
    BY DEF Init, P!Init, P!TypeOK, Home
<1>16. P!CommandInv
    BY AxesAre DEF Init, P!Init, P!CommandInv, P!Idle
<1>17. P!MotorInv
    BY AxesAre DEF Init, P!Init, P!MotorInv
<1> QED
    BY <1>1, <1>2, <1>3, <1>4, <1>5, <1>6, <1>7, <1>8, <1>9, <1>10, <1>11, <1>12, <1>13, <1>14,
       <1>15, <1>16, <1>17
    DEF IndInv

\* The invariant holds at every step of main()'s threads, of the clients and the signal.
THEOREM PluginsInvariant == Spec => []IndInv
<1>1. Init => IndInv
    BY InitIndInv
<1>2. IndInv /\ [Next]_vars => IndInv'
    BY InputStepInv, OutputStepInv, ControlStepInv, SignalStepInv, StillStepInv DEF Next
<1> QED
    BY <1>1, <1>2, PTL DEF Spec

\* Type correctness, the picture that is copied, its size, and that input_http shows
\* whole pictures: on_image_received() and the use of db in all the plugins.
THEOREM PicturesRightHolds == Spec => []PicturesRight
<1>1. IndInv => PicturesRight
  <2> SUFFICES ASSUME IndInv
               PROVE  PicturesRight
      OBVIOUS
  <2>1. TypeOK
    <3>1. (in = "file" /\ list # <<>>) => cur \in 1..Len(list)
      BY DEF IndInv, I!FileInv
    <3> QED
      BY <3>1 DEF IndInv, SharedInv, O!PackInv, TypeOK
  <2>2. SizeFits
    BY DEF IndInv, I!SizeInv, SizeFits
  <2>3. HttpWhole
    BY DEF IndInv, I!HttpInv, I!Tags, HttpWhole
  <2> QED
    BY <2>1, <2>2, <2>3 DEF IndInv, PicturesRight
<1> QED
    BY <1>1, PluginsInvariant, PTL

\* Only these change the folder of output_file.
LEMMA FolderLeft ==
    ASSUME OutputStep, opc = "ring", ~OutRing
    PROVE  UNCHANGED <<folder, ring>>
<1> USE DEF O!At, O!fileVars, O!outputVars
<1>1. CASE OutGo
    BY <1>1 DEF OutGo, O!Go
<1>2. CASE OutReturn
    BY <1>2 DEF OutReturn, O!Return
<1>3. CASE OutFails
    BY <1>3 DEF OutFails, O!output_fails
<1>4. CASE OutRun
    BY <1>4 DEF OutRun, O!output_run
<1>5. CASE OutWait
    BY <1>5 DEF OutWait, O!WaitPicture
<1>6. CASE OutWoken
    BY <1>6 DEF OutWoken, O!Woken
<1>7. CASE OutCopy
    BY <1>7 DEF OutCopy, O!CopyPicture
<1>8. CASE OutNoMemory
    BY <1>8 DEF OutNoMemory, O!NoMemory
<1>9. CASE O!Cancelled
    BY <1>9 DEF O!Cancelled
<1>10. CASE O!file_init
    BY <1>10 DEF O!file_init
<1>11. CASE O!WritePicture
    BY <1>11 DEF O!WritePicture
<1>12. CASE O!CannotWrite
    BY <1>12 DEF O!CannotWrite
<1>13. CASE O!TakeCopies
    BY <1>13 DEF O!TakeCopies
<1>14. CASE O!TakeWritten
    BY <1>14 DEF O!TakeWritten
<1>15. CASE OutReceive
    BY <1>15 DEF OutReceive, O!Receive
<1>16. CASE OutSave
    BY <1>16 DEF OutSave, O!SaveNamed
<1>17. CASE OutReply
    BY <1>17 DEF OutReply, O!Reply
<1>18. CASE O!zmqserver_init
    BY <1>18 DEF O!zmqserver_init
<1>19. CASE O!NoPackage
    BY <1>19 DEF O!NoPackage
<1>20. CASE O!Pack
    BY <1>20 DEF O!Pack
<1>21. CASE O!SendPackage
    BY <1>21 DEF O!SendPackage
<1>22. CASE O!OutOfBounds
    BY <1>22 DEF O!OutOfBounds
<1>23. CASE O!decompress_jpeg
    BY <1>23 DEF O!decompress_jpeg
<1>24. CASE OutMeasure
    BY <1>24 DEF OutMeasure, O!Measure
<1>25. CASE O!CannotMeasure
    BY <1>25 DEF O!CannotMeasure
<1> QED
    BY <1>1, <1>2, <1>3, <1>4, <1>5, <1>6, <1>7, <1>8, <1>9, <1>10, <1>11, <1>12, <1>13, <1>14,
       <1>15, <1>16, <1>17, <1>18, <1>19, <1>20, <1>21, <1>22, <1>23, <1>24, <1>25 DEF OutputStep

\* A look at the folder leaves the most recent pictures.
LEMMA RecentKept ==
    ASSUME IndInv, OutRing, ~back
    PROVE  Recent(folder) \subseteq Recent(folder')
<1>1. folder \in Seq(Int) /\ ring \in Int
    BY DEF IndInv, O!KeptOK
<1>2. /\ folder' \in Seq(Int) /\ UNCHANGED ring
      /\ \A j \in 0..(ring - 1) : j < Len(folder) =>
            j < Len(folder') /\ folder'[Len(folder') - j] = folder[Len(folder) - j]
    BY <1>1, RingKeeps DEF OutRing, O!KeepRing
<1> SUFFICES ASSUME out = "file", NEW i \in 1..Len(folder), folder[i] \in 0..(ring - 1)
             PROVE  folder[i] \in Recent(folder')
    BY <1>1, <1>2 DEF Recent
<1>3. ring >= 0 /\ Len(folder) \in Nat /\ Len(folder') \in Nat
    BY <1>1, <1>2
<1>4. O!NewestLast(folder, ring)
    BY <1>3 DEF IndInv, O!RingInv
<1> DEFINE j == Len(folder) - i
<1>5. j \in 0..(ring - 1) /\ j < Len(folder) /\ Len(folder) - j = i
    BY <1>1, <1>3, <1>4 DEF O!NewestLast
<1>6. j < Len(folder') /\ folder'[Len(folder') - j] = folder[i]
    BY <1>2, <1>5
<1> HIDE DEF j
<1>7. Len(folder') - j \in 1..Len(folder')
    BY <1>3, <1>5, <1>6
<1> QED
    BY <1>2, <1>6, <1>7 DEF Recent

\* The outputs' copies: their memory, what is saved, the ring buffer, and the packages
\* (output_file.c, output_udp.c, output_zmqserver.c).
THEOREM CopiesRightHolds == Spec => CopiesRight
<1> DEFINE Copies == FrameFits /\ SavedWhole /\ RingBound /\ PackageDistinct
           Newest == (out = "file" /\ opc = "ring" /\ ~back) => Recent(folder) \subseteq Recent(folder')
<1>1. IndInv => Copies
  <2> SUFFICES ASSUME IndInv
               PROVE  Copies
      OBVIOUS
  <2>1. FrameFits
    BY DEF IndInv, SharedInv, O!RoomInv, FrameFits
  <2>2. RingBound
    <3>1. SUFFICES ASSUME out = "file", ~mjpg, ring >= 0, counter # -1, ~missed
                   PROVE  Len(folder) <= ring + (IF exceed > 0 THEN exceed ELSE 0)
                                              + (IF opc \in {"ring", "ended"} THEN 1 ELSE 0)
      BY DEF RingBound
    <3>2. /\ Len(folder) <= ring + counter + (IF opc \in {"ring", "ended"} THEN 1 ELSE 0)
          /\ counter \in -1..(O!Period - 1)
      BY <3>1 DEF IndInv, O!RingInv
    <3>3. exceed \in Int /\ ring \in Int /\ Len(folder) \in Nat
      BY DEF IndInv, O!KeptOK
    <3>4. counter <= IF exceed > 0 THEN exceed ELSE 0
      BY <3>2, <3>3 DEF O!Period
    <3> QED
      BY <3>2, <3>3, <3>4
  <2>3. PackageDistinct
    <3>1. /\ Len(packed) = pos /\ DOMAIN packed = 1..pos /\ \A k \in 1..pos : packed[k] = k - 1
          /\ opc = "send" => pos = zsize
          /\ proc = "undefined" => out = "zmqserver" /\ zsize \notin 1..MaxZmqBufferSize
      BY DEF IndInv, O!KeptOK, O!PackInv
    <3>2. pos \in Nat
      BY PluginsAssumption DEF IndInv, O!PackInv
    <3> QED
      BY <3>1, <3>2 DEF PackageDistinct
  <2> QED
    BY <2>1, <2>2, <2>3 DEF IndInv
<1>2. IndInv /\ Output(OutOrder /\ O!Next) => Newest
  <2> SUFFICES ASSUME IndInv, OutputStep, opc = "ring", ~back
               PROVE  Recent(folder) \subseteq Recent(folder')
      BY OutputCases DEF Output
  <2>1. CASE OutRing
    BY <2>1, RecentKept
  <2>2. CASE ~OutRing
    <3>1. UNCHANGED <<folder, ring>>
      BY <2>2, FolderLeft
    <3> QED
      BY <3>1 DEF Recent
  <2> QED
    BY <2>1, <2>2
<1>3. IndInv /\ (Input(InOrder /\ I!Next) \/ Control(P!Next) \/ Signal \/ UNCHANGED vars) => Newest
  <2> SUFFICES ASSUME UNCHANGED outVars
               PROVE  Recent(folder) \subseteq Recent(folder')
      BY DEF Input, Control, Signal, vars
  <2> QED
      BY DEF outVars, Recent
<1>4. IndInv /\ [Next]_vars => [Newest]_vars
    BY <1>2, <1>3 DEF Next
<1>5. CopiesRight <=> []Copies /\ [][Newest]_vars
    BY DEF CopiesRight, RingNewest
<1> QED
    BY <1>1, <1>4, <1>5, PluginsInvariant, PTL DEF Spec

\* The best of the measurements, and the camera's position (output_autofocus.c, and
\* input_cmd() of input_control).
THEOREM MotorsRightHolds == Spec => []MotorsRight
<1>1. IndInv => MotorsRight
  <2>1. IndInv => FocusBest
    BY DEF IndInv, O!LensInv, O!Best, FocusBest
  <2>2. IndInv => PositionKnown
    BY AxesAre DEF IndInv, P!MotorInv, PositionKnown, P!PositionKnown
  <2> QED
    BY <2>1, <2>2 DEF MotorsRight
<1> QED
    BY <1>1, PluginsInvariant, PTL

\* Who holds the mutex after its thread has ended: ptp2's giving up, an input whose call
\* has failed, input_file that was cancelled in its read() (input_file.c:346), or an output
\* that was cancelled while it waited.
THEOREM OrphanKnownHolds == Spec => []OrphanKnown
<1>1. IndInv => OrphanKnown
    BY DEF IndInv, I!LockInv, I!Locked, O!LockInv, OrphanKnown
<1> QED
    BY <1>1, PluginsInvariant, PTL

\* Only these change the folder.
LEMMA FilesLeft ==
    ASSUME InputStep, ~I!ScanFolder, ~InWrite, ~I!RemoveFile
    PROVE  UNCHANGED files
<1>1. CASE InGo
    BY <1>1 DEF InGo, I!Go, I!fileVars, I!inputVars
<1>2. CASE InLock
    BY <1>2 DEF InLock, I!Lock, I!fileVars, I!inputVars
<1>3. CASE InPublish
    BY <1>3 DEF InPublish, I!PublishPicture, I!fileVars, I!inputVars
<1>4. CASE InStart
    BY <1>4 DEF InStart, I!StartThread, I!fileVars, I!inputVars
<1>5. CASE InCleanup
    BY <1>5 DEF InCleanup, I!worker_cleanup, I!fileVars, I!inputVars
<1>6. CASE I!Cancelled
    BY <1>6 DEF I!Cancelled, I!fileVars, I!inputVars
<1>7. CASE InExit
    BY <1>7 DEF InExit, I!ExitFailure, I!fileVars, I!inputVars
<1>8. CASE I!file_init
    BY <1>8 DEF I!file_init
<1>9. CASE I!ReadEvent
    BY <1>9 DEF I!ReadEvent, I!fileVars, I!inputVars
<1>10. CASE I!PickFile
    BY <1>10 DEF I!PickFile, I!fileVars, I!inputVars
<1>11. CASE I!OpenFile
    BY <1>11 DEF I!OpenFile, I!fileVars, I!inputVars
<1>12. CASE I!ReadFile
    BY <1>12 DEF I!ReadFile, I!fileVars, I!inputVars
<1>13. CASE I!ShowFile
    BY <1>13 DEF I!ShowFile, I!fileVars, I!inputVars
<1>14. CASE I!FreeList
    BY <1>14 DEF I!FreeList, I!fileVars, I!inputVars
<1>15. CASE I!Connect
    BY <1>15 DEF I!Connect, I!fileVars, I!inputVars
<1>16. CASE I!Receive
    BY <1>16 DEF I!Receive, I!fileVars, I!inputVars
<1>17. CASE I!CopyImage
    BY <1>17 DEF I!CopyImage, I!fileVars, I!inputVars
<1>18. CASE I!testpicture_init
    BY <1>18 DEF I!testpicture_init, I!fileVars, I!inputVars
<1>19. CASE I!NextPicture
    BY <1>19 DEF I!NextPicture, I!fileVars, I!inputVars
<1>20. CASE InAbsent
    BY <1>20 DEF InAbsent, I!fileVars, I!inputVars
<1>21. CASE I!LockControl
    BY <1>21 DEF I!LockControl, I!fileVars, I!inputVars
<1>22. CASE I!CapturePreview
    BY <1>22 DEF I!CapturePreview, I!fileVars, I!inputVars
<1>23. CASE I!GetData
    BY <1>23 DEF I!GetData, I!fileVars, I!inputVars
<1>24. CASE I!Restarted
    BY <1>24 DEF I!Restarted, I!fileVars, I!inputVars
<1>25. CASE I!CopyPreview
    BY <1>25 DEF I!CopyPreview, I!fileVars, I!inputVars
<1>26. CASE I!UnlockControl
    BY <1>26 DEF I!UnlockControl, I!fileVars, I!inputVars
<1>27. CASE I!ReadCapture
    BY <1>27 DEF I!ReadCapture, I!fileVars, I!inputVars
<1>28. CASE I!Encode
    BY <1>28 DEF I!Encode, I!fileVars, I!inputVars
<1>29. CASE InZoom
    BY <1>29 DEF InZoom, I!ZoomAsked, I!ZoomLocked, I!ZoomSet, I!fileVars, I!inputVars
<1> QED
    BY <1>1, <1>2, <1>3, <1>4, <1>5, <1>6, <1>7, <1>8, <1>9, <1>10, <1>11, <1>12, <1>13, <1>14,
       <1>15, <1>16, <1>17, <1>18, <1>19, <1>20, <1>21, <1>22, <1>23, <1>24, <1>25, <1>26, <1>27,
       <1>28, <1>29 DEF InputStep

\* A file is removed only after its contents, or those that it had when it was read, have
\* been shown (the option -r of input_file.c).
THEOREM RemovedWasShownHolds == Spec => RemovedWasShown
<1> DEFINE Known == \A f \in Files : Removed(f) =>
                       \/ <<f, files[f]>> \in seen
                       \/ f = name /\ files[f] # got /\ <<f, got>> \in seen
<1>1. IndInv /\ Input(InOrder /\ I!Next) => Known
  <2> SUFFICES ASSUME IndInv, InputStep, NEW f \in Files, files[f] > 0, files'[f] = 0
               PROVE  \/ <<f, files[f]>> \in seen
                      \/ f = name /\ files[f] # got /\ <<f, got>> \in seen
      BY InputCases DEF Input, Removed
  <2>1. files \in [Files -> Nat] /\ made \in [Files -> Nat]
    BY DEF IndInv, I!KeptOK
  <2>2. CASE I!ScanFolder
    <3>1. mode = "ExistingFiles" => files[f] = 0
      BY <2>2 DEF I!ScanFolder, I!At, IndInv, I!FileInv
    <3> QED
      BY <2>2, <3>1 DEF I!ScanFolder
  <2>3. CASE InWrite
    <3>1. PICK g \in Files : made' = [made EXCEPT ![g] = made[g] + 1] /\ files' = [files EXCEPT ![g] = made'[g]]
      BY <2>3 DEF InWrite, I!WriteFile
    <3>2. made'[g] > 0
      BY <2>1, <3>1
    <3> QED
      BY <2>1, <3>1, <3>2
  <2>4. CASE I!RemoveFile
    <3>1. <<name, got>> \in seen
      BY <2>4 DEF I!RemoveFile, I!At, IndInv, I!FileInv
    <3>2. files' = files \/ files' = [files EXCEPT ![name] = 0]
      BY <2>4 DEF I!RemoveFile
    <3>3. f = name
      BY <2>1, <3>2
    <3> QED
      BY <3>1, <3>3
  <2>5. CASE ~I!ScanFolder /\ ~InWrite /\ ~I!RemoveFile
    <3>1. UNCHANGED files
      BY <2>5, FilesLeft
    <3> QED
      BY <2>1, <3>1
  <2> QED
    BY <2>2, <2>3, <2>4, <2>5
<1>2. IndInv /\ (Output(OutOrder /\ O!Next) \/ Control(P!Next) \/ Signal \/ UNCHANGED vars) => Known
  <2> SUFFICES ASSUME UNCHANGED inVars
               PROVE  Known
      BY DEF Output, Control, Signal, vars
  <2> QED
      BY DEF inVars, Removed
<1>3. IndInv /\ [Next]_vars => [Known]_vars
    BY <1>1, <1>2 DEF Next
<1> QED
    BY <1>3, PluginsInvariant, PTL DEF Spec, RemovedWasShown

=============================================================================
