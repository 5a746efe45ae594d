-------------------------- MODULE HttpServerProofs --------------------------
(***************************************************************************)
(* Proofs about HttpServer, for any number of connections and of plugins   *)
(* and any configuration.                                                  *)
(***************************************************************************)
EXTENDS HttpServer, FiniteSetTheorems, TLAPS

\* The blocks are numbered from 1.
LEMMA CellsNumbered ==
    /\ Cardinality(Conn) \in Nat
    /\ Cells \subseteq Nat \ {0}
    /\ \A b \in Cells \cup {0} : b < Cardinality(Conn) + 1 => b + 1 \in Cells
BY FS_CardinalityType, HttpAssumption DEF Cells

\* Two sockets, and no more, are more than one.
LEMMA TwoSockets == Cardinality(Families) > 1
<1>1. Cardinality({1}) = 1 /\ IsFiniteSet({1})
    BY FS_Singleton
<1>2. Cardinality({1} \cup {2}) = 2
    BY <1>1, FS_AddElement
<1>3. Families = {1} \cup {2}
    BY DEF Families
<1> QED
    BY <1>2, <1>3

\* The answers a thread can give are statuses, at most two, and told apart.
LEMMA AnswersKnown ==
    /\ Answers \subseteq Seq(Statuses)
    /\ \A a \in Answers : <<>> \o a = a
    /\ \A st \in Statuses : Append(<<>>, st) = <<st>> /\ <<st>> \in Answers
    /\ {<<>>, <<200, 500>>, <<404, 200>>, <<404, 500>>} \subseteq Answers
<1>1. Answers \subseteq Seq(Statuses)
    <2>1. \A st \in Statuses : <<st>> \in Seq(Statuses)
        OBVIOUS
    <2>2. \A s1, s2 \in Statuses : <<s1, s2>> \in Seq(Statuses)
        OBVIOUS
    <2>3. 200 \in Statuses /\ 404 \in Statuses /\ 500 \in Statuses
        BY DEF Statuses
    <2>4. <<>> \in Seq(Statuses)
        OBVIOUS
    <2>5. <<200, 500>> \in Seq(Statuses) /\ <<404, 200>> \in Seq(Statuses)
          /\ <<404, 500>> \in Seq(Statuses)
        BY <2>2, <2>3
    <2>6. {<<st>> : st \in Statuses} \subseteq Seq(Statuses)
        BY <2>1
    <2>7. {<<>>, <<200, 500>>, <<404, 200>>, <<404, 500>>} \subseteq Seq(Statuses)
        BY <2>4, <2>5
    <2> QED
        BY <2>6, <2>7, ZenonT(40) DEF Answers
<1>2. \A a \in Seq(Statuses) : <<>> \o a = a
    OBVIOUS
<1>3. \A st \in Statuses : Append(<<>>, st) = <<st>> /\ <<st>> \in Answers
    BY DEF Answers
<1>4. {<<>>, <<200, 500>>, <<404, 200>>, <<404, 500>>} \subseteq Answers
    BY DEF Answers
<1> QED
    BY <1>1, <1>2, <1>3, <1>4

\* The answers are told apart.
LEMMA AnswersDiffer ==
    /\ \A st \in Statuses : <<st>> \notin {<<>>, <<200, 500>>, <<404, 200>>, <<404, 500>>}
    /\ <<200, 500>> \notin {<<>>, <<404, 200>>, <<404, 500>>}
    /\ <<404, 200>> # <<>> /\ <<404, 500>> # <<>>
<1>1. \A st \in Statuses : Len(<<st>>) = 1
    OBVIOUS
<1>2. Len(<<>>) = 0 /\ Len(<<200, 500>>) = 2 /\ Len(<<404, 200>>) = 2 /\ Len(<<404,
    500>>) = 2
    OBVIOUS
<1>3. <<200, 500>>[1] = 200 /\ <<404, 200>>[1] = 404 /\ <<404, 500>>[1] = 404
    OBVIOUS
<1> QED
    BY <1>1, <1>2, <1>3

\* Nothing is sent before the answer, nor kept after the end, and nobody gets past the
\* check without credentials.
LEMMA NothingSent ==
    ASSUME IndInv, NEW k \in Conn, tpc[k] \notin {"sending", "close"}
    PROVE  sent[k] = <<>>
BY DEF IndInv, AnswerInv, AnswerOf

\* A thread past the check of the credentials was granted the access.
LEMMA PastCheck ==
    ASSUME IndInv, NEW k \in Conn, tpc[k] \in {"answer", "sending"}
    PROVE  Granted(k)
BY DEF IndInv, AnswerInv, AnswerOf

\* A thread that has sent nothing and is not past the check has answered rightly,
LEMMA UnansweredRight ==
    ASSUME NEW k \in Conn, sent'[k] = <<>>, tpc'[k] \notin {"answer", "sending"}
    PROVE  AnswerOf(k)'
BY AnswersKnown, AnswersDiffer DEF AnswerOf

\* and so has one that has sent a single status to a request that may have it.
LEMMA StatusRight ==
    ASSUME NEW k \in Conn, NEW st \in Statuses, sent'[k] = <<st>>,
           tpc'[k] \in {"sending", "close"}, Granted(k)'
    PROVE  AnswerOf(k)'
BY AnswersKnown, AnswersDiffer DEF AnswerOf

\* One that is past the check has passed it.
LEMMA CheckedRight ==
    ASSUME NEW k \in Conn, sent'[k] = <<>>, Granted(k)',
           kind'[k] \in Suffixed => InRange(k)'
    PROVE  AnswerOf(k)'
BY AnswersKnown, AnswersDiffer DEF AnswerOf

\* A thread that does nothing stays right.
LEMMA OthersKeep ==
    ASSUME IndInv, NEW j \in Conn, conf' = conf, tpc'[j] = tpc[j], sent'[j] = sent[j],
           kind'[j] = kind[j], num'[j] = num[j], auth'[j] = auth[j]
    PROVE  AnswerOf(j)'
BY DEF IndInv, AnswerInv, AnswerOf, Granted, InRange

\* The initial state: no socket and no thread.
LEMMA InitIndInv == Init => IndInv
<1> SUFFICES ASSUME Init PROVE IndInv
    OBVIOUS
<1>1. TypeOK
    <2>1. FlagsOK
        BY Zenon DEF Init, FlagsOK
    <2>2. ServerOK
        BY DEF Init, ServerOK, ServerPlaces, Families
    <2>3. ThreadsOK
        BY HttpAssumption DEF Init, ThreadsOK, ThreadPlaces, Numbers
    <2> QED
        BY <2>1, <2>2, <2>3 DEF Init, TypeOK
<1>2. LoopInv /\ ThreadInv
    BY DEF Init, LoopInv, ThreadInv, Families
<1>3. ReleaseInv
    BY DEF Init, ReleaseInv
<1>4. AnswerInv
    BY AnswersKnown, AnswersDiffer DEF Init, AnswerInv, AnswerOf
<1>5. OwnInv
    BY DEF Init, OwnInv, Families
<1>6. CalledInv
    BY DEF Init, CalledInv, ProcessSurvives
<1> QED
    BY <1>1, <1>2, <1>3, <1>4, <1>5, <1>6 DEF IndInv

\* The sockets are opened, or the program exits.
LEMMA OpenStep ==
    ASSUME IndInv, OpenSockets
    PROVE  IndInv'
<1>1. FlagsOK'
    BY DEF IndInv, TypeOK, FlagsOK, OpenSockets, ServerAt, serverVars, threadVars
<1>2. ServerOK'
    BY DEF IndInv, TypeOK, ServerOK, ThreadsOK, LoopInv, ThreadInv, OpenSockets,
        ServerAt, serverVars, threadVars, ServerPlaces, Families
<1>3. ThreadsOK'
    BY DEF IndInv, TypeOK, ServerOK, ThreadsOK, OpenSockets, ServerAt, serverVars,
        threadVars
<1>4. LoopInv'
    BY DEF IndInv, TypeOK, ServerOK, ThreadsOK, LoopInv, ThreadInv, OpenSockets,
        ServerAt, serverVars, threadVars, Families
<1>5. ThreadInv'
    BY DEF IndInv, TypeOK, ServerOK, ThreadsOK, LoopInv, ThreadInv, OpenSockets,
        ServerAt, serverVars, threadVars
<1>6. ReleaseInv'
    BY DEF IndInv, TypeOK, ServerOK, ThreadsOK, FlagsOK, LoopInv, ReleaseInv,
        OpenSockets, ServerAt, serverVars, threadVars
<1>7. AnswerInv'
    BY DEF IndInv, TypeOK, ThreadsOK, LoopInv, AnswerInv, AnswerOf, Granted, InRange,
        OpenSockets, ServerAt, serverVars, threadVars
<1>8. OwnInv'
    BY DEF IndInv, TypeOK, ServerOK, ThreadsOK, FlagsOK, LoopInv, ThreadInv, OwnInv,
        OpenSockets, ServerAt, serverVars, threadVars, Families
<1>9. CalledInv'
    BY DEF IndInv, TypeOK, CalledInv, ProcessSurvives, OpenSockets, ServerAt, serverVars, threadVars
<1>10. (called \subseteq Dests \X PluginNos)'
    BY DEF IndInv, TypeOK, OpenSockets, ServerAt, serverVars, threadVars
<1> QED
    BY <1>1, <1>2, <1>3, <1>4, <1>5, <1>6, <1>7, <1>8, <1>9, <1>10 DEF IndInv, TypeOK

\* A client connects.
LEMMA ConnectStep ==
    ASSUME IndInv, NEW k \in Conn, NEW s \in Families, Connect(k, s)
    PROVE  IndInv'
<1>1. FlagsOK'
    BY DEF IndInv, TypeOK, FlagsOK, Connect, serverVars, threadVars
<1>2. ServerOK'
    BY DEF IndInv, TypeOK, ServerOK, ThreadsOK, LoopInv, ThreadInv, Connect, serverVars,
        threadVars, Families
<1>3. ThreadsOK'
    BY DEF IndInv, TypeOK, ServerOK, ThreadsOK, Connect, serverVars, threadVars
<1>4. LoopInv'
    BY DEF IndInv, TypeOK, ServerOK, ThreadsOK, LoopInv, ThreadInv, Connect, serverVars,
        threadVars, Families
<1>5. ThreadInv'
    BY DEF IndInv, TypeOK, ServerOK, ThreadsOK, LoopInv, ThreadInv, Connect, serverVars,
        threadVars
<1>6. ReleaseInv'
    BY DEF IndInv, TypeOK, ServerOK, ThreadsOK, FlagsOK, LoopInv, ReleaseInv, Connect,
        serverVars, threadVars
<1>7. AnswerInv'
    <2>1. ASSUME NEW j \in Conn, j # k PROVE AnswerOf(j)'
        BY <2>1 DEF IndInv, TypeOK, ThreadsOK, LoopInv, AnswerInv, AnswerOf, Granted,
            InRange, Connect, serverVars, threadVars
    <2>2. AnswerOf(k)'
        BY DEF IndInv, TypeOK, ThreadsOK, LoopInv, AnswerInv, AnswerOf, Granted,
            InRange, Connect, serverVars, threadVars
    <2> QED
        BY <2>1, <2>2 DEF AnswerInv
<1>8. OwnInv'
    BY DEF IndInv, TypeOK, ServerOK, ThreadsOK, FlagsOK, LoopInv, ThreadInv, OwnInv,
        Connect, serverVars, threadVars
<1>9. CalledInv'
    BY DEF IndInv, TypeOK, CalledInv, ProcessSurvives, Connect, serverVars, threadVars
<1>10. (called \subseteq Dests \X PluginNos)'
    BY DEF IndInv, TypeOK, Connect, serverVars, threadVars
<1> QED
    BY <1>1, <1>2, <1>3, <1>4, <1>5, <1>6, <1>7, <1>8, <1>9, <1>10 DEF IndInv, TypeOK

\* A round of the loop begins with a new block.
LEMMA AllocStep ==
    ASSUME IndInv, Alloc
    PROVE  IndInv'
<1>0. /\ alive /\ spc = "alloc" /\ spc' = "select"
      /\ cell \in Nat /\ cell' = cell + 1 /\ cell' \in Cells
      /\ \A k \in Conn : arg[k] \in Nat
      /\ UNCHANGED <<conf, alive, socks, set, waiting, block, conn, threadVars, called,
                     shared>>
    <2>1. cell \in Nat /\ \A k \in Conn : arg[k] \in Nat
        <3>1. Cells \cup {0} \subseteq Nat
            BY CellsNumbered
        <3> QED
            BY <3>1 DEF IndInv, TypeOK, ServerOK, ThreadsOK
    <2>2. cell' = cell + 1 /\ cell' \in Cells
        BY CellsNumbered DEF Alloc, IndInv, TypeOK, ServerOK
    <2> QED
        BY <2>1, <2>2 DEF Alloc, ServerAt
<1>1. FlagsOK'
    BY <1>0 DEF IndInv, TypeOK, FlagsOK, threadVars
<1>2. ServerOK'
    BY <1>0 DEF IndInv, TypeOK, ServerOK, ThreadsOK, LoopInv, ThreadInv, threadVars,
        ServerPlaces, Families
<1>3. ThreadsOK'
    BY <1>0 DEF IndInv, TypeOK, ServerOK, ThreadsOK, threadVars
<1>4. LoopInv'
    BY <1>0 DEF IndInv, TypeOK, ServerOK, ThreadsOK, LoopInv, ThreadInv, threadVars,
        Families
<1>5. ThreadInv'
    BY <1>0 DEF IndInv, TypeOK, ServerOK, ThreadsOK, LoopInv, ThreadInv, threadVars
<1>6. ReleaseInv'
    BY <1>0 DEF IndInv, TypeOK, ServerOK, ThreadsOK, FlagsOK, LoopInv, ReleaseInv,
        threadVars
<1>7. AnswerInv'
    BY <1>0 DEF IndInv, TypeOK, ThreadsOK, LoopInv, AnswerInv, AnswerOf, Granted,
        InRange, threadVars
<1>8. OwnInv'
    BY <1>0 DEF IndInv, TypeOK, ServerOK, ThreadsOK, FlagsOK, LoopInv, ThreadInv,
        OwnInv, threadVars, Families
<1>9. CalledInv'
    BY <1>0 DEF IndInv, TypeOK, CalledInv, ProcessSurvives, threadVars
<1>10. (called \subseteq Dests \X PluginNos)'
    BY <1>0 DEF IndInv, TypeOK, threadVars
<1> QED
    BY <1>1, <1>2, <1>3, <1>4, <1>5, <1>6, <1>7, <1>8, <1>9, <1>10 DEF IndInv, TypeOK

\* select() returns the sockets that are ready.
LEMMA SelectStep ==
    ASSUME IndInv, Select
    PROVE  IndInv'
<1>1. FlagsOK'
    BY DEF IndInv, TypeOK, FlagsOK, Select, ServerAt, threadVars
<1>2. ServerOK'
    BY DEF IndInv, TypeOK, ServerOK, ThreadsOK, LoopInv, ThreadInv, Select, ServerAt,
        threadVars, ServerPlaces, Families
<1>3. ThreadsOK'
    BY DEF IndInv, TypeOK, ServerOK, ThreadsOK, Select, ServerAt, threadVars
<1>4. LoopInv'
    BY DEF IndInv, TypeOK, ServerOK, ThreadsOK, LoopInv, ThreadInv, Select, ServerAt,
        threadVars, Families
<1>5. ThreadInv'
    BY DEF IndInv, TypeOK, ServerOK, ThreadsOK, LoopInv, ThreadInv, Select, ServerAt,
        threadVars
<1>6. ReleaseInv'
    BY DEF IndInv, TypeOK, ServerOK, ThreadsOK, FlagsOK, LoopInv, ReleaseInv, Select,
        ServerAt, threadVars
<1>7. AnswerInv'
    BY DEF IndInv, TypeOK, ThreadsOK, LoopInv, AnswerInv, AnswerOf, Granted, InRange,
        Select, ServerAt, threadVars
<1>8. OwnInv'
    BY TwoSockets DEF IndInv, TypeOK, ServerOK, ThreadsOK, FlagsOK, LoopInv, ThreadInv,
        OwnInv, Select, ServerAt, threadVars, Families
<1>9. CalledInv'
    BY DEF IndInv, TypeOK, CalledInv, ProcessSurvives, Select, ServerAt, threadVars
<1>10. (called \subseteq Dests \X PluginNos)'
    BY DEF IndInv, TypeOK, Select, ServerAt, threadVars
<1> QED
    BY <1>1, <1>2, <1>3, <1>4, <1>5, <1>6, <1>7, <1>8, <1>9, <1>10 DEF IndInv, TypeOK

\* A connection is accepted, and handed to a new thread in the block of the round.
LEMMA AcceptStep ==
    ASSUME IndInv, NEW s \in Families, NEW k \in Conn, Accept(s, k)
    PROVE  IndInv'
<1>1. FlagsOK'
    BY DEF IndInv, TypeOK, FlagsOK, Accept, Accepted, Ready, ServerAt
<1>2. ServerOK'
    <2>1. cell \in Cells
        BY DEF IndInv, LoopInv, Accept, Ready, ServerAt
    <2>2. block' \in [Cells -> [fd : Conn \cup {None}, freed : BOOLEAN]]
        BY <2>1 DEF IndInv, TypeOK, ServerOK, Accept
    <2>3. waiting' \in [Families -> SUBSET Conn]
        BY DEF IndInv, TypeOK, ServerOK, Accept, Accepted
    <2> QED
        BY <2>2, <2>3 DEF IndInv, TypeOK, ServerOK, Accept, Accepted, ServerPlaces
<1>3. ThreadsOK'
    BY DEF IndInv, TypeOK, ServerOK, ThreadsOK, Accept, Accepted, Ready, ServerAt,
        ThreadPlaces
<1>4. LoopInv'
    BY DEF IndInv, TypeOK, ServerOK, ThreadsOK, LoopInv, ThreadInv, Accept, Accepted,
        Ready, ServerAt, Families
<1>5. ThreadInv'
    BY CellsNumbered DEF IndInv, TypeOK, ServerOK, ThreadsOK, LoopInv, ThreadInv,
        Accept, Accepted, Ready, ServerAt
<1>6. ReleaseInv'
    BY DEF IndInv, TypeOK, ServerOK, ThreadsOK, FlagsOK, LoopInv, ReleaseInv, Accept,
        Accepted, Ready, ServerAt
<1>7. AnswerInv'
    <2>1. ASSUME NEW j \in Conn, j # k PROVE AnswerOf(j)'
        BY <2>1 DEF IndInv, TypeOK, ThreadsOK, LoopInv, AnswerInv, AnswerOf, Granted,
            InRange, Accept, Accepted, Ready, ServerAt
    <2>2. AnswerOf(k)'
        <3>1. sent'[k] = <<>> /\ tpc'[k] \notin {"answer", "sending"}
            BY NothingSent DEF IndInv, TypeOK, ServerOK, ThreadsOK, LoopInv, Accept,
                Accepted, Ready, ServerAt
        <3> QED
            BY <3>1, UnansweredRight
    <2> QED
        BY <2>1, <2>2 DEF AnswerInv
<1>8. OwnInv'
    BY CellsNumbered DEF IndInv, TypeOK, ServerOK, ThreadsOK, FlagsOK, LoopInv,
        ThreadInv, OwnInv, Accept, Accepted, Ready, ServerAt, Families
<1>9. CalledInv'
    BY DEF IndInv, TypeOK, CalledInv, ProcessSurvives, Accept, Accepted, Ready, ServerAt
<1>10. (called \subseteq Dests \X PluginNos)'
    BY DEF IndInv, TypeOK, Accept, Accepted, Ready, ServerAt
<1> QED
    BY <1>1, <1>2, <1>3, <1>4, <1>5, <1>6, <1>7, <1>8, <1>9, <1>10 DEF IndInv, TypeOK

\* A connection is accepted and there is no thread for it.
LEMMA NoThreadStep ==
    ASSUME IndInv, NEW s \in Families, NEW k \in Conn, AcceptNoThread(s, k)
    PROVE  IndInv'
<1>1. FlagsOK'
    BY DEF IndInv, TypeOK, FlagsOK, AcceptNoThread, Accepted, Ready, ServerAt, threadVars
<1>2. ServerOK'
    BY CellsNumbered DEF IndInv, TypeOK, ServerOK, ThreadsOK, LoopInv, ThreadInv,
        AcceptNoThread, Accepted, Ready, ServerAt, threadVars, ServerPlaces, Families
<1>3. ThreadsOK'
    BY DEF IndInv, TypeOK, ServerOK, ThreadsOK, AcceptNoThread, Accepted, Ready,
        ServerAt, threadVars
<1>4. LoopInv'
    BY DEF IndInv, TypeOK, ServerOK, ThreadsOK, LoopInv, ThreadInv, AcceptNoThread,
        Accepted, Ready, ServerAt, threadVars, Families
<1>5. ThreadInv'
    BY CellsNumbered DEF IndInv, TypeOK, ServerOK, ThreadsOK, LoopInv, ThreadInv,
        AcceptNoThread, Accepted, Ready, ServerAt, threadVars
<1>6. ReleaseInv'
    BY DEF IndInv, TypeOK, ServerOK, ThreadsOK, FlagsOK, LoopInv, ReleaseInv,
        AcceptNoThread, Accepted, Ready, ServerAt, threadVars
<1>7. AnswerInv'
    <2>1. ASSUME NEW j \in Conn, j # k PROVE AnswerOf(j)'
        BY <2>1 DEF IndInv, TypeOK, ThreadsOK, LoopInv, AnswerInv, AnswerOf, Granted,
            InRange, AcceptNoThread, Accepted, Ready, ServerAt, threadVars
    <2>2. AnswerOf(k)'
        BY DEF IndInv, TypeOK, ThreadsOK, LoopInv, AnswerInv, AnswerOf, Granted,
            InRange, AcceptNoThread, Accepted, Ready, ServerAt, threadVars
    <2> QED
        BY <2>1, <2>2 DEF AnswerInv
<1>8. OwnInv'
    <2> SUFFICES ASSUME ~shared PROVE OwnInv'
        BY DEF OwnInv, AcceptNoThread
    <2>1. set' = {} /\ spc' = "alloc"
        <3>1. s \in set /\ set \subseteq {1, 2} /\ set # {1, 2}
            BY DEF IndInv, TypeOK, ServerOK, OwnInv, AcceptNoThread, Ready, Families
        <3>2. ASSUME NEW r \in set, r # s PROVE FALSE
            BY <3>1, <3>2 DEF Families
        <3> QED
            BY <3>2 DEF AcceptNoThread, Accepted
    <2>2. cell \in Cells /\ cell \in Nat
        BY CellsNumbered DEF IndInv, TypeOK, ServerOK, LoopInv, AcceptNoThread, Ready, ServerAt
    <2>3. block' = [block EXCEPT ![cell] = [fd |-> k, freed |-> TRUE]]
        BY DEF AcceptNoThread
    <2>4. \A c \in Cells : block'[c].freed => c <= cell
        <3>1. DOMAIN block = Cells
            BY DEF IndInv, TypeOK, ServerOK
        <3>2. \A c \in Cells : block[c].freed => c <= cell
            BY DEF IndInv, OwnInv
        <3>3. \A c \in Cells : c # cell => block'[c] = block[c]
            BY <2>3, <3>1
        <3> QED
            BY <2>2, <3>2, <3>3
    <2>5. \A j \in Conn : tpc[j] = "start" =>
              arg[j] \in Cells /\ arg[j] # cell /\ block'[arg[j]] = block[arg[j]]
        BY <2>2, <2>3, CellsNumbered
        DEF IndInv, TypeOK, ServerOK, ThreadInv, OwnInv, AcceptNoThread, Ready, ServerAt
    <2>6. \A j \in Conn : conn'[j] = "open" => conn[j] = "open"
        BY DEF AcceptNoThread, IndInv, TypeOK, ServerOK
    <2> QED
        BY <2>1, <2>4, <2>5, <2>6 DEF IndInv, OwnInv, AcceptNoThread, threadVars, Families
<1>9. CalledInv'
    BY DEF IndInv, TypeOK, CalledInv, ProcessSurvives, AcceptNoThread, Accepted, Ready, ServerAt,
        threadVars
<1>10. (called \subseteq Dests \X PluginNos)'
    BY DEF IndInv, TypeOK, AcceptNoThread, Accepted, Ready, ServerAt, threadVars
<1> QED
    BY <1>1, <1>2, <1>3, <1>4, <1>5, <1>6, <1>7, <1>8, <1>9, <1>10 DEF IndInv, TypeOK

\* The server thread is cancelled.
LEMMA CleanupStep ==
    ASSUME IndInv, server_cleanup
    PROVE  IndInv'
<1>1. FlagsOK'
    BY DEF IndInv, TypeOK, FlagsOK, server_cleanup, ServerAt, threadVars
<1>2. ServerOK'
    BY DEF IndInv, TypeOK, ServerOK, ThreadsOK, LoopInv, ThreadInv, server_cleanup,
        ServerAt, threadVars, ServerPlaces, Families
<1>3. ThreadsOK'
    BY DEF IndInv, TypeOK, ServerOK, ThreadsOK, server_cleanup, ServerAt, threadVars
<1>4. LoopInv'
    BY DEF IndInv, TypeOK, ServerOK, ThreadsOK, LoopInv, ThreadInv, server_cleanup,
        ServerAt, threadVars, Families
<1>5. ThreadInv'
    BY DEF IndInv, TypeOK, ServerOK, ThreadsOK, LoopInv, ThreadInv, server_cleanup,
        ServerAt, threadVars
<1>6. ReleaseInv'
    BY DEF IndInv, TypeOK, ServerOK, ThreadsOK, FlagsOK, LoopInv, ReleaseInv,
        server_cleanup, ServerAt, threadVars
<1>7. AnswerInv'
    BY DEF IndInv, TypeOK, ThreadsOK, LoopInv, AnswerInv, AnswerOf, Granted, InRange,
        server_cleanup, ServerAt, threadVars
<1>8. OwnInv'
    BY DEF IndInv, TypeOK, ServerOK, ThreadsOK, FlagsOK, LoopInv, ThreadInv, OwnInv,
        server_cleanup, ServerAt, threadVars, Families
<1>9. CalledInv'
    BY DEF IndInv, TypeOK, CalledInv, ProcessSurvives, server_cleanup, ServerAt, threadVars
<1>10. (called \subseteq Dests \X PluginNos)'
    BY DEF IndInv, TypeOK, server_cleanup, ServerAt, threadVars
<1> QED
    BY <1>1, <1>2, <1>3, <1>4, <1>5, <1>6, <1>7, <1>8, <1>9, <1>10 DEF IndInv, TypeOK

\* The thread copies its block, freed or not.
LEMMA BeginStep ==
    ASSUME IndInv, NEW k \in Conn, Start(k) \/ StartFreed(k)
    PROVE  IndInv'
<1>0. /\ tpc[k] = "start" /\ arg[k] \in Cells
      /\ UNCHANGED <<conf, serverVars, waiting, conn, arg, kind, num, auth, mem, lfd,
                     sent, called, shared>>
      /\ alive' \in BOOLEAN
      /\ \A b \in Cells : block'[b].fd = block[b].fd
      /\ block' \in [Cells -> [fd : Conn \cup {None}, freed : BOOLEAN]]
      /\ \/ UNCHANGED <<tpc, fd>>
         \/ /\ tpc' = [tpc EXCEPT ![k] = "line"]
            /\ fd' = [fd EXCEPT ![k] = block[arg[k]].fd]
      /\ alive
    <2>1. CASE Start(k)
        BY <2>1, ZenonT(40) DEF Start, At, Go, IndInv, TypeOK, FlagsOK, ServerOK, ThreadInv
    <2>2. CASE StartFreed(k)
        BY <2>2 DEF StartFreed, At, Go, IndInv, TypeOK, FlagsOK, ServerOK, ThreadInv
    <2> QED
        BY <2>1, <2>2
<1>1. FlagsOK'
    BY <1>0 DEF IndInv, TypeOK, FlagsOK, serverVars
<1>2. ServerOK'
    BY <1>0 DEF IndInv, TypeOK, ServerOK, ThreadsOK, LoopInv, ThreadInv, serverVars
<1>3. ThreadsOK'
    <2>1. block[arg[k]].fd \in Conn
        BY <1>0 DEF IndInv, ThreadInv
    <2> QED
        BY <1>0, <2>1 DEF IndInv, TypeOK, ThreadsOK, ThreadPlaces
<1>4. LoopInv'
    BY <1>0 DEF IndInv, TypeOK, ServerOK, ThreadsOK, LoopInv, ThreadInv, serverVars
<1>5. ThreadInv'
    BY <1>0 DEF IndInv, TypeOK, ServerOK, ThreadsOK, LoopInv, ThreadInv, serverVars
<1>6. ReleaseInv'
    BY <1>0 DEF IndInv, TypeOK, ServerOK, ThreadsOK, FlagsOK, LoopInv, ReleaseInv,
        serverVars
<1>7. AnswerInv'
    <2>1. ASSUME NEW j \in Conn, j # k PROVE AnswerOf(j)'
        BY <2>1, <1>0 DEF IndInv, TypeOK, ThreadsOK, LoopInv, AnswerInv, AnswerOf,
            Granted, InRange, serverVars
    <2>2. AnswerOf(k)'
        <3>1. sent'[k] = <<>> /\ tpc'[k] \notin {"answer", "sending"}
            BY <1>0, NothingSent DEF IndInv, TypeOK, ThreadsOK
        <3> QED
            BY <3>1, UnansweredRight
    <2> QED
        BY <2>1, <2>2 DEF AnswerInv
<1>8. ~shared => Start(k)
    BY DEF StartFreed, At, IndInv, OwnInv
<1>11. OwnInv'
    <2> SUFFICES ASSUME ~shared, Start(k) PROVE OwnInv'
        BY <1>0, <1>8 DEF OwnInv
    <2>1. block' = [block EXCEPT ![arg[k]].freed = TRUE] /\ tpc' = [tpc EXCEPT ![k] = "line"]
        BY DEF Start, Go
    <2>2. \A j \in Conn \ {k} : tpc[j] = "start" => arg[j] # arg[k]
        BY <1>0 DEF IndInv, OwnInv
    <2>3. arg[k] <= cell /\ (spc \in {"select", "accept"} => arg[k] < cell)
        BY <1>0 DEF IndInv, OwnInv, ThreadInv
    <2>4. \A b \in Cells : block'[b].freed <=> (block[b].freed \/ b = arg[k])
        BY <1>0, <2>1 DEF IndInv, TypeOK, ServerOK
    <2>5. \A j \in Conn : tpc'[j] = "start" =>
              tpc[j] = "start" /\ j # k /\ block'[arg[j]].fd = j /\ ~block'[arg[j]].freed
        BY <1>0, <2>1, <2>2, <2>4 DEF IndInv, TypeOK, ThreadsOK, ThreadInv, OwnInv
    <2> QED
        BY <1>0, <2>1, <2>3, <2>4, <2>5 DEF IndInv, TypeOK, ThreadsOK, OwnInv, serverVars
<1>9. CalledInv'
    <2>1. Start(k) => alive'
        BY DEF Start, At
    <2> QED
        BY <1>0, <1>8, <2>1 DEF IndInv, TypeOK, CalledInv, ProcessSurvives, serverVars
<1>10. (called \subseteq Dests \X PluginNos)'
    BY <1>0 DEF IndInv, TypeOK, serverVars
<1> QED
    BY <1>1, <1>2, <1>3, <1>4, <1>5, <1>6, <1>7, <1>9, <1>10, <1>11 DEF IndInv, TypeOK

\* The thread closes its connection and ends.
LEMMA EndStep ==
    ASSUME IndInv, NEW k \in Conn, ReadFails(k) \/ Close(k)
    PROVE  IndInv'
<1>0. /\ tpc[k] \in {"line", "header", "close"} /\ fd[k] \in Conn
      /\ tpc' = [tpc EXCEPT ![k] = "ended"] /\ Forget(k)
      /\ conn' = [conn EXCEPT ![fd[k]] = "closed"] /\ mem' = [mem EXCEPT ![k] = FALSE]
      /\ UNCHANGED <<conf, alive, serverVars, waiting, block, fd, lfd, called, shared>>
    BY DEF ReadFails, Close, At, Go, CloseFd, IndInv, ThreadInv
<1>1. FlagsOK'
    BY <1>0 DEF IndInv, TypeOK, FlagsOK, serverVars, Forget
<1>2. ServerOK'
    BY <1>0 DEF IndInv, TypeOK, ServerOK, ThreadsOK, LoopInv, ThreadInv, serverVars,
        Forget
<1>3. ThreadsOK'
    <2>1. 0 \in Numbers /\ <<>> \in Seq(Statuses)
        BY HttpAssumption DEF Numbers
    <2> QED
        BY <1>0, <2>1 DEF IndInv, TypeOK, ThreadsOK, Forget, ThreadPlaces
<1>4. LoopInv'
    BY <1>0, ZenonT(40) DEF IndInv, TypeOK, ServerOK, ThreadsOK, LoopInv, ThreadInv, serverVars,
        Forget
<1>5. ThreadInv'
    BY <1>0 DEF IndInv, TypeOK, ServerOK, ThreadsOK, LoopInv, ThreadInv, serverVars,
        Forget
<1>6. ReleaseInv'
    BY <1>0 DEF IndInv, TypeOK, ServerOK, ThreadsOK, FlagsOK, LoopInv, ReleaseInv,
        serverVars, Forget
<1>7. AnswerInv'
    <2>1. ASSUME NEW j \in Conn, j # k PROVE AnswerOf(j)'
        BY <2>1, <1>0 DEF IndInv, TypeOK, ThreadsOK, LoopInv, AnswerInv, AnswerOf,
            Granted, InRange, serverVars, Forget
    <2>2. AnswerOf(k)'
        <3>1. sent'[k] = <<>> /\ tpc'[k] \notin {"answer", "sending"}
            BY <1>0 DEF IndInv, TypeOK, ThreadsOK, Forget
        <3> QED
            BY <3>1, UnansweredRight
    <2> QED
        BY <2>1, <2>2 DEF AnswerInv
<1>8. OwnInv'
    BY <1>0 DEF IndInv, TypeOK, ServerOK, ThreadsOK, FlagsOK, LoopInv, ThreadInv,
        OwnInv, serverVars, Forget
<1>9. CalledInv'
    BY <1>0, HttpAssumption DEF IndInv, TypeOK, CalledInv, ProcessSurvives, serverVars, Forget
<1>10. (called \subseteq Dests \X PluginNos)'
    BY <1>0 DEF IndInv, TypeOK, serverVars, Forget
<1> QED
    BY <1>1, <1>2, <1>3, <1>4, <1>5, <1>6, <1>7, <1>8, <1>9, <1>10 DEF IndInv, TypeOK

\* The places between the copy of the block and the end: a step from one to another
\* changes neither the connections nor who serves them.
Mid == {"line", "header", "check", "answer", "sending", "close"}

\* A step of a thread that goes on with its request.
LEMMA MidStep ==
    ASSUME IndInv, NEW k \in Conn, tpc[k] \in Mid, NEW p \in Mid,
           tpc' = [tpc EXCEPT ![k] = p],
           UNCHANGED <<conf, serverVars, waiting, block, conn, arg, fd, shared>>
    PROVE  ServerOK' /\ LoopInv' /\ ThreadInv' /\ OwnInv'
<1>1. ServerOK'
    BY DEF IndInv, TypeOK, ServerOK, serverVars
<1>2. LoopInv'
    BY DEF Mid, IndInv, TypeOK, ThreadsOK, LoopInv, serverVars
<1>3. ThreadInv'
    BY DEF Mid, IndInv, TypeOK, ThreadsOK, ThreadInv, serverVars
<1>4. OwnInv'
    BY DEF Mid, IndInv, TypeOK, ThreadsOK, OwnInv, serverVars
<1> QED
    BY <1>1, <1>2, <1>3, <1>4

\* The request line is read.
LEMMA RequestStep ==
    ASSUME IndInv, NEW k \in Conn, NEW r \in Kinds, NEW n \in Numbers, RequestLine(k, r, n)
    PROVE  IndInv'
<1>1. ServerOK' /\ LoopInv' /\ ThreadInv' /\ OwnInv'
    BY MidStep
    DEF RequestLine, At, Go, Mid, IndInv, TypeOK, ThreadsOK
<1>2. FlagsOK'
    BY DEF RequestLine, At, Go, IndInv, TypeOK, FlagsOK
<1>3. ThreadsOK'
    BY AnswersKnown, NothingSent
    DEF RequestLine, At, Go, IndInv, TypeOK, ThreadsOK, ThreadPlaces, Statuses
<1>4. ReleaseInv'
    BY DEF RequestLine, At, Go, IndInv, TypeOK, FlagsOK, ThreadsOK, ReleaseInv
<1>5. AnswerInv'
    <2>1. \A j \in Conn \ {k} : AnswerOf(j)'
        BY OthersKeep DEF RequestLine, At, Go, IndInv, TypeOK, ThreadsOK
    <2>2. AnswerOf(k)'
        <3>1. sent'[k] = <<>> /\ tpc'[k] \notin {"answer", "sending"}
            BY NothingSent DEF RequestLine, At, Go, IndInv, TypeOK, ThreadsOK
        <3> QED
            BY <3>1, UnansweredRight
    <2> QED
        BY <2>1, <2>2 DEF AnswerInv
<1>6. CalledInv' /\ (called \subseteq Dests \X PluginNos)'
    BY DEF RequestLine, At, Go, IndInv, TypeOK, CalledInv, ProcessSurvives, serverVars
<1> QED
    BY <1>1, <1>2, <1>3, <1>4, <1>5, <1>6 DEF IndInv, TypeOK

\* The headers are read.
LEMMA HeaderStep ==
    ASSUME IndInv, NEW k \in Conn, NEW a \in {"none", "good", "bad"}, EndOfHeader(k, a)
    PROVE  IndInv'
<1>1. ServerOK' /\ LoopInv' /\ ThreadInv' /\ OwnInv'
    BY MidStep
    DEF EndOfHeader, At, Go, Mid, IndInv, TypeOK, ThreadsOK
<1>2. FlagsOK'
    BY DEF EndOfHeader, At, Go, IndInv, TypeOK, FlagsOK
<1>3. ThreadsOK'
    BY AnswersKnown, NothingSent
    DEF EndOfHeader, At, Go, IndInv, TypeOK, ThreadsOK, ThreadPlaces, Statuses
<1>4. ReleaseInv'
    BY DEF EndOfHeader, At, Go, IndInv, TypeOK, FlagsOK, ThreadsOK, ReleaseInv
<1>5. AnswerInv'
    <2>1. \A j \in Conn \ {k} : AnswerOf(j)'
        BY OthersKeep DEF EndOfHeader, At, Go, IndInv, TypeOK, ThreadsOK
    <2>2. AnswerOf(k)'
        <3>1. sent'[k] = <<>> /\ tpc'[k] \notin {"answer", "sending"}
            BY NothingSent DEF EndOfHeader, At, Go, IndInv, TypeOK, ThreadsOK
        <3> QED
            BY <3>1, UnansweredRight
    <2> QED
        BY <2>1, <2>2 DEF AnswerInv
<1>6. CalledInv' /\ (called \subseteq Dests \X PluginNos)'
    BY DEF EndOfHeader, At, Go, IndInv, TypeOK, CalledInv, ProcessSurvives, serverVars
<1> QED
    BY <1>1, <1>2, <1>3, <1>4, <1>5, <1>6 DEF IndInv, TypeOK

\* The credentials and the number are checked.
LEMMA GrantStep ==
    ASSUME IndInv, NEW k \in Conn, Grant(k)
    PROVE  IndInv'
<1>1. ServerOK' /\ LoopInv' /\ ThreadInv' /\ OwnInv'
    BY MidStep
    DEF Grant, At, Go, Mid, IndInv, TypeOK, ThreadsOK
<1>2. FlagsOK'
    BY DEF Grant, At, Go, IndInv, TypeOK, FlagsOK
<1>3. ThreadsOK'
    <2>1. sent' \in [Conn -> Seq(Statuses)]
        <3>1. Append(sent[k], 404) \in Seq(Statuses)
            BY DEF IndInv, TypeOK, ThreadsOK, Statuses
        <3> QED
            BY <3>1, ZenonT(40) DEF Grant, IndInv, TypeOK, ThreadsOK
    <2> QED
        BY <2>1 DEF Grant, Go, IndInv, TypeOK, ThreadsOK, ThreadPlaces
<1>4. ReleaseInv'
    BY DEF Grant, At, Go, IndInv, TypeOK, FlagsOK, ThreadsOK, ReleaseInv
<1>5. AnswerInv'
    <2>1. \A j \in Conn \ {k} : AnswerOf(j)'
        BY OthersKeep DEF Grant, At, Go, IndInv, TypeOK, ThreadsOK
    <2>2. AnswerOf(k)'
        <3>1. CASE kind[k] \in Suffixed /\ ~InRange(k)
            <4>1. sent'[k] = << 404 >> /\ tpc'[k] = "close"
                <5>1. sent[k] = <<>>
                    BY NothingSent DEF Grant, At
                <5>2. sent'[k] = Append(sent[k], 404) /\ tpc'[k] = "close"
                    BY <3>1 DEF Grant, Go, IndInv, TypeOK, ThreadsOK
                <5> QED
                    BY <5>1, <5>2, AnswersKnown DEF Statuses
            <4>2. Granted(k)'
                BY DEF Grant, Granted
            <4> QED
                BY <4>1, <4>2, StatusRight DEF Statuses
        <3>2. CASE kind[k] \in Suffixed => InRange(k)
            <4>1. sent'[k] = <<>> /\ kind'[k] = kind[k] /\ num'[k] = num[k]
                BY <3>2, NothingSent DEF Grant, At, IndInv, TypeOK, ThreadsOK
            <4>2. Granted(k)'
                BY DEF Grant, Granted
            <4>3. kind'[k] \in Suffixed => InRange(k)'
                BY <3>2, <4>1 DEF InRange
            <4> QED
                BY <4>1, <4>2, <4>3, CheckedRight
        <3> QED
            BY <3>1, <3>2
    <2> QED
        BY <2>1, <2>2 DEF AnswerInv
<1>6. CalledInv' /\ (called \subseteq Dests \X PluginNos)'
    BY DEF Grant, At, Go, IndInv, TypeOK, CalledInv, ProcessSurvives, serverVars
<1> QED
    BY <1>1, <1>2, <1>3, <1>4, <1>5, <1>6 DEF IndInv, TypeOK

\* Any answer of one write, the refusals before the check included.
LEMMA AnswerStep ==
    ASSUME IndInv, NEW k \in Conn, At(k, "line") \/ At(k, "check") \/ At(k, "answer"),
           NEW a \in Answers, Answer(k, a),
           a = <<200, 500>> => kind[k] = "stream",
           a \in {<<404, 200>>, <<404, 500>>} => kind[k] = "take",
           Granted(k) \/ a \in {<<>>, << 400 >>, << 401 >>, << 500 >>}
    PROVE  IndInv'
<1>0. tpc[k] \in Mid /\ sent[k] = <<>> /\ sent'[k] = a
    <2>1. tpc[k] \in {"line", "check", "answer"}
        BY DEF At
    <2>2. sent[k] = <<>>
        BY <2>1, NothingSent
    <2>3. sent'[k] = sent[k] \o a
        BY DEF IndInv, TypeOK, ThreadsOK, Answer
    <2> QED
        BY <2>1, <2>2, <2>3, AnswersKnown DEF Mid
<1>1. ServerOK' /\ LoopInv' /\ ThreadInv' /\ OwnInv'
    <2>1. "close" \in Mid
        BY DEF Mid
    <2> QED
        BY <1>0, <2>1, MidStep, ZenonT(40) DEF Answer, Go
<1>2. FlagsOK'
    BY DEF Answer, At, Go, IndInv, TypeOK, FlagsOK
<1>3. ThreadsOK'
    BY <1>0, AnswersKnown, NothingSent
    DEF Answer, At, Go, IndInv, TypeOK, ThreadsOK, ThreadPlaces, Statuses
<1>4. ReleaseInv'
    BY DEF Answer, At, Go, IndInv, TypeOK, FlagsOK, ThreadsOK, ReleaseInv
<1>5. AnswerInv'
    <2>1. \A j \in Conn \ {k} : AnswerOf(j)'
        BY OthersKeep DEF Answer, At, Go, IndInv, TypeOK, ThreadsOK
    <2>2. AnswerOf(k)'
        <3>1. sent'[k] = a /\ tpc'[k] = "close" /\ kind'[k] = kind[k]
            BY <1>0 DEF Answer, Go, IndInv, TypeOK, ThreadsOK
        <3>2. Granted(k)' = Granted(k)
            BY DEF Answer, Granted
        <3> QED
            BY <3>1, <3>2 DEF AnswerOf
    <2> QED
        BY <2>1, <2>2 DEF AnswerInv
<1>6. CalledInv' /\ (called \subseteq Dests \X PluginNos)'
    BY DEF Answer, At, Go, IndInv, TypeOK, CalledInv, ProcessSurvives, serverVars
<1> QED
    BY <1>1, <1>2, <1>3, <1>4, <1>5, <1>6 DEF IndInv, TypeOK

\* A command adds only a call below the number of plugins to those made.
LEMMA CommandCalls ==
    ASSUME IndInv, NEW k \in Conn, NEW d \in Dests \cup {"program"}, NEW p \in PluginNos,
           command(k, d, p)
    PROVE  (\A c \in called : c[2] < Count(c[1]))' /\ (called \subseteq Dests \X PluginNos)'
<1>1. \A c \in Calls(d, p) : c \in Dests \X PluginNos /\ c[2] < Count(c[1])
    BY DEF Calls
<1>2. called' = called \cup Calls(d, p)
    BY DEF command
<1> QED
    BY <1>1, <1>2 DEF IndInv, TypeOK, CalledInv, Count

\* A command is executed, and answered.
LEMMA CommandStep ==
    ASSUME IndInv, NEW k \in Conn, NEW d \in Dests \cup {"program"}, NEW p \in PluginNos,
           command(k, d, p), alive'
    PROVE  IndInv'
<1>0. /\ At(k, "answer") /\ kind[k] = "command" /\ ~conf.nocommands
      /\ Go(k, "close") /\ sent' = [sent EXCEPT ![k] = Append(@, 200)] /\ alive' = alive
      /\ UNCHANGED <<conf, serverVars, waiting, block, conn, arg, fd, kind, num, auth, mem,
                     lfd, shared>>
    BY DEF command, Asked, At, IndInv, TypeOK, FlagsOK
<1>1. ServerOK' /\ LoopInv' /\ ThreadInv' /\ OwnInv'
    BY <1>0, MidStep DEF At, Go, Mid, IndInv, TypeOK, ThreadsOK
<1>2. FlagsOK'
    BY <1>0 DEF At, Go, IndInv, TypeOK, FlagsOK
<1>3. ThreadsOK'
    BY <1>0, SMTT(30), AnswersKnown, NothingSent
    DEF At, Go, IndInv, TypeOK, ThreadsOK, ThreadPlaces, Statuses
<1>4. ReleaseInv'
    BY <1>0 DEF At, Go, IndInv, TypeOK, FlagsOK, ThreadsOK, ReleaseInv
<1>5. AnswerInv'
    <2>1. \A j \in Conn \ {k} : AnswerOf(j)'
        BY <1>0, OthersKeep DEF At, Go, IndInv, TypeOK, ThreadsOK
    <2>2. AnswerOf(k)'
        <3>1. sent'[k] = << 200 >>
            <4>1. sent[k] = <<>>
                BY <1>0, NothingSent DEF At
            <4>2. sent'[k] = Append(sent[k], 200)
                BY <1>0 DEF IndInv, TypeOK, ThreadsOK
            <4> QED
                BY <4>1, <4>2, AnswersKnown DEF Statuses
        <3>2. tpc'[k] = "close"
            BY <1>0 DEF At, Go, IndInv, TypeOK, ThreadsOK
        <3>3. Granted(k)'
            BY <1>0, PastCheck DEF At, Go, Granted
        <3> QED
            BY <3>1, <3>2, <3>3, StatusRight DEF Statuses
    <2> QED
        BY <2>1, <2>2 DEF AnswerInv
<1>6. CalledInv' /\ (called \subseteq Dests \X PluginNos)'
    BY <1>0, CommandCalls DEF At, IndInv, CalledInv, ProcessSurvives, serverVars
<1> QED
    BY <1>1, <1>2, <1>3, <1>4, <1>5, <1>6 DEF IndInv, TypeOK

\* A command that calls what is no cmd() ends the process.
LEMMA CommandEndsStep ==
    ASSUME IndInv, NEW k \in Conn, NEW d \in Dests \cup {"program"}, NEW p \in PluginNos,
           command(k, d, p), ~alive'
    PROVE  IndInv'
<1>1. /\ alive /\ alive' = FALSE /\ tpc' = tpc /\ sent' = sent
      /\ ~(Calls(d, p) \subseteq WithCmd) /\ called' = called \cup Calls(d, p)
      /\ UNCHANGED <<conf, serverVars, waiting, block, conn, arg, fd, kind, num, auth, mem,
                     lfd, shared>>
    BY DEF command, Asked, At
<1>2. FlagsOK'
    BY <1>1 DEF IndInv, TypeOK, FlagsOK
<1>3. ServerOK' /\ ThreadsOK' /\ LoopInv' /\ ThreadInv'
    BY <1>1 DEF IndInv, TypeOK, ServerOK, ThreadsOK, LoopInv, ThreadInv, serverVars
<1>4. ReleaseInv' /\ OwnInv'
    BY <1>1 DEF IndInv, ReleaseInv, OwnInv, serverVars
<1>5. AnswerInv'
    BY <1>1, OthersKeep DEF AnswerInv, threadVars
<1>6. CalledInv' /\ (called \subseteq Dests \X PluginNos)'
    BY <1>1, CommandCalls DEF IndInv, CalledInv, ProcessSurvives, serverVars
<1> QED
    BY <1>2, <1>3, <1>4, <1>5, <1>6 DEF IndInv, TypeOK

\* A script without a folder ends the program.
LEMMA NoFolderStep ==
    ASSUME IndInv, NEW k \in Conn, CgiNoFolder(k)
    PROVE  IndInv'
<1>1. /\ alive' = FALSE
      /\ UNCHANGED <<conf, serverVars, waiting, block, conn, threadVars, called, shared>>
    BY DEF CgiNoFolder
<1>2. FlagsOK'
    BY <1>1 DEF IndInv, TypeOK, FlagsOK, threadVars
<1>3. ServerOK' /\ ThreadsOK' /\ LoopInv' /\ ThreadInv'
    BY <1>1 DEF IndInv, TypeOK, ServerOK, ThreadsOK, LoopInv, ThreadInv, serverVars, threadVars
<1>4. ReleaseInv' /\ OwnInv'
    BY <1>1 DEF IndInv, ReleaseInv, OwnInv, serverVars, threadVars
<1>5. AnswerInv'
    BY <1>1, OthersKeep DEF AnswerInv, threadVars
<1>6. CalledInv'
    BY DEF CgiNoFolder, IndInv, CalledInv, ProcessSurvives, serverVars
<1> QED
    BY <1>1, <1>2, <1>3, <1>4, <1>5, <1>6 DEF IndInv, TypeOK

\* A file is opened,
LEMMA OpenFileStep ==
    ASSUME IndInv, NEW k \in Conn, OpenFile(k)
    PROVE  IndInv'
<1>1. ServerOK' /\ LoopInv' /\ ThreadInv' /\ OwnInv'
    BY MidStep
    DEF OpenFile, Asked, At, Go, Mid, IndInv, TypeOK, ThreadsOK
<1>2. FlagsOK'
    BY DEF OpenFile, Asked, At, Go, IndInv, TypeOK, FlagsOK
<1>3. ThreadsOK'
    BY SMTT(30), AnswersKnown, NothingSent
    DEF OpenFile, Asked, At, Go, IndInv, TypeOK, ThreadsOK, ThreadPlaces, Statuses
<1>4. ReleaseInv'
    BY DEF OpenFile, Asked, At, Go, IndInv, TypeOK, FlagsOK, ThreadsOK, ReleaseInv
<1>5. AnswerInv'
    <2>1. \A j \in Conn \ {k} : AnswerOf(j)'
        BY OthersKeep DEF OpenFile, Asked, At, Go, IndInv, TypeOK, ThreadsOK
    <2>2. AnswerOf(k)'
        <3>1. sent'[k] = << 200 >>
            <4>1. sent[k] = <<>>
                BY NothingSent DEF OpenFile, Asked, At
            <4>2. sent'[k] = Append(sent[k], 200)
                BY DEF OpenFile, IndInv, TypeOK, ThreadsOK
            <4> QED
                BY <4>1, <4>2, AnswersKnown DEF Statuses
        <3>2. tpc'[k] = "sending"
            BY DEF OpenFile, Asked, At, Go, IndInv, TypeOK, ThreadsOK
        <3>3. Granted(k)'
            BY PastCheck DEF OpenFile, Asked, At, Go, Granted
        <3> QED
            BY <3>1, <3>2, <3>3, StatusRight DEF Statuses
    <2> QED
        BY <2>1, <2>2 DEF AnswerInv
<1>6. CalledInv' /\ (called \subseteq Dests \X PluginNos)'
    BY DEF OpenFile, Asked, At, Go, IndInv, TypeOK, CalledInv, ProcessSurvives, serverVars
<1> QED
    BY <1>1, <1>2, <1>3, <1>4, <1>5, <1>6 DEF IndInv, TypeOK

\* and closed again.
LEMMA FileSentStep ==
    ASSUME IndInv, NEW k \in Conn, FileSent(k)
    PROVE  IndInv'
<1>1. ServerOK' /\ LoopInv' /\ ThreadInv' /\ OwnInv'
    BY MidStep
    DEF FileSent, At, Go, Mid, IndInv, TypeOK, ThreadsOK
<1>2. FlagsOK'
    BY DEF FileSent, At, Go, IndInv, TypeOK, FlagsOK
<1>3. ThreadsOK'
    BY AnswersKnown, NothingSent
    DEF FileSent, At, Go, IndInv, TypeOK, ThreadsOK, ThreadPlaces, Statuses
<1>4. ReleaseInv'
    BY DEF FileSent, At, Go, IndInv, TypeOK, FlagsOK, ThreadsOK, ReleaseInv
<1>5. AnswerInv'
    <2>1. \A j \in Conn \ {k} : AnswerOf(j)'
        BY OthersKeep DEF FileSent, At, Go, IndInv, TypeOK, ThreadsOK
    <2>2. AnswerOf(k)'
        BY DEF FileSent, At, Go, IndInv, TypeOK, ThreadsOK, AnswerInv, AnswerOf, Granted
    <2> QED
        BY <2>1, <2>2 DEF AnswerInv
<1>6. CalledInv' /\ (called \subseteq Dests \X PluginNos)'
    BY DEF FileSent, At, Go, IndInv, TypeOK, CalledInv, ProcessSurvives, serverVars
<1> QED
    BY <1>1, <1>2, <1>3, <1>4, <1>5, <1>6 DEF IndInv, TypeOK

\* Every answer that is one write is covered by AnswerStep.
LEMMA ServeStep ==
    ASSUME IndInv, NEW k \in Conn,
           \/ \E st \in Statuses : BadRequest(k, st)
           \/ Refuse(k) \/ send_snapshot(k) \/ send_stream(k) \/ send_input_JSON(k)
           \/ send_output_JSON(k) \/ send_program_JSON(k) \/ CommandRefused(k)
           \/ FileRefused(k) \/ CgiRefused(k) \/ take(k)
    PROVE  IndInv'
<1>1. At(k, "answer") => Granted(k)
    BY DEF IndInv, AnswerInv, AnswerOf, At
<1>2. PICK a \in Answers :
        /\ Answer(k, a)
        /\ a = <<200, 500>> => kind[k] = "stream"
        /\ a \in {<<404, 200>>, <<404, 500>>} => kind[k] = "take"
        /\ At(k, "answer") \/ a \in {<<>>, << 400 >>, << 401 >>, << 500 >>}
        /\ At(k, "line") \/ At(k, "check") \/ At(k, "answer")
    <2>1. CASE \E st \in Statuses : BadRequest(k, st)
        BY <2>1, AnswersKnown, AnswersDiffer, SMTT(30) DEF BadRequest
    <2>2. CASE Refuse(k)
        BY <2>2, AnswersKnown, AnswersDiffer DEF Refuse, Statuses
    <2>3. CASE send_snapshot(k)
        <3>1. PICK st \in {200, 500} : Answer(k, <<st>>)
            BY <2>3 DEF send_snapshot
        <3> QED
            <4>1. st \in Statuses /\ At(k, "answer")
                BY <2>3 DEF send_snapshot, Asked, Statuses
            <4> QED
                BY SMTT(30), <3>1, <4>1, AnswersKnown, AnswersDiffer
    <2>4. CASE send_stream(k)
        BY <2>4, AnswersKnown, AnswersDiffer, SMTT(30) DEF send_stream, Asked, Statuses
    <2>5. CASE send_input_JSON(k) \/ send_output_JSON(k) \/ send_program_JSON(k)
        BY SMTT(30), <2>5, AnswersKnown, AnswersDiffer
        DEF send_input_JSON, send_output_JSON, send_program_JSON, Asked, Statuses
    <2>6. CASE CommandRefused(k)
        BY <2>6, AnswersKnown, AnswersDiffer, SMTT(30) DEF CommandRefused, Asked, Statuses
    <2>7. CASE FileRefused(k) \/ CgiRefused(k)
        BY <2>7, AnswersKnown, AnswersDiffer, SMTT(30) DEF FileRefused, CgiRefused, Asked, Statuses
    <2>8. CASE take(k)
        BY <2>8, AnswersKnown, AnswersDiffer, SMTT(30) DEF take, Asked, Statuses
    <2> QED
        BY <2>1, <2>2, <2>3, <2>4, <2>5, <2>6, <2>7, <2>8
<1> QED
    BY <1>1, <1>2, AnswerStep

\* One lemma per action, or for several that change the same things.
LEMMA StepIndInv == IndInv /\ [Next]_vars => IndInv'
<1> SUFFICES ASSUME IndInv, [Next]_vars PROVE IndInv'
    OBVIOUS
<1>1. CASE server_thread
    BY <1>1, OpenStep, AllocStep, SelectStep, CleanupStep, AcceptStep, NoThreadStep
    DEF server_thread
<1>2. ASSUME NEW k \in Conn, client_thread(k)
      PROVE  IndInv'
    BY <1>2, BeginStep, EndStep, RequestStep, HeaderStep, GrantStep, ServeStep,
        CommandStep, CommandEndsStep, NoFolderStep,
        OpenFileStep, FileSentStep
    DEF client_thread
<1>3. CASE UNCHANGED vars
    BY <1>3 DEF vars, serverVars, threadVars, IndInv, TypeOK, LoopInv, ThreadInv,
        ReleaseInv,
                AnswerInv, AnswerOf, OwnInv, CalledInv, ProcessSurvives, Granted, InRange, FlagsOK,
                    ServerOK, ThreadsOK
<1> QED
    BY <1>1, <1>2, <1>3, ConnectStep DEF Next

\* The inductive invariant holds in every reachable state.
THEOREM Invariance == Spec => []IndInv
<1> QED
    BY InitIndInv, StepIndInv, PTL DEF Spec

\* Every connection that is open has one thread, as long as select() has not returned
\* two sockets, and a thread that ends has closed its connection and freed what its
\* request points to (server_thread(), client_thread()).
THEOREM ConnectionsServedHolds == Spec => []ConnectionsServed
<1>1. IndInv => OneThreadPerClient
    <2> SUFFICES ASSUME IndInv, ~shared, NEW c \in Conn, conn[c] = "open"
                 PROVE  Cardinality({k \in Conn : Serves(k) = c}) = 1
        BY DEF OneThreadPerClient
    <2>1. \A k \in Conn : Serves(k) \in {k, None}
        BY DEF IndInv, TypeOK, ThreadsOK, OwnInv, Serves
    <2>2. Serves(c) = c
        BY DEF IndInv, TypeOK, ThreadsOK, OwnInv, Serves
    <2>3. {k \in Conn : Serves(k) = c} = {c}
        BY <2>1, <2>2, HttpAssumption
    <2> QED
        BY <2>3, FS_Singleton
<1>2. IndInv => EndsClean
    BY DEF IndInv, ThreadInv, ReleaseInv, EndsClean
<1>3. IndInv => ConnectionsServed
    BY <1>1, <1>2 DEF ConnectionsServed, IndInv
<1> QED
    BY <1>3, Invariance, PTL

\* A request is answered once and only with its credentials checked, no plugin past the
\* last one is called, and the process is ended by nothing but the named exceptions
\* (client_thread(), command()).
THEOREM AnswersRightHolds == Spec => []AnswersRight
<1>1. IndInv => AnsweredOnce
    <2> SUFFICES ASSUME IndInv, NEW k \in Conn, Len(sent[k]) > 1
                 PROVE  \/ kind[k] = "stream" /\ sent[k] = <<200, 500>>
                        \/ kind[k] = "take" /\ sent[k] \in {<<404, 200>>, <<404, 500>>}
        BY DEF AnsweredOnce
    <2>1. sent[k] # <<>> /\ \A st \in Statuses : sent[k] # <<st>>
        <3>1. ASSUME sent[k] = <<>> PROVE FALSE
            BY <3>1
        <3>2. ASSUME NEW st \in Statuses, sent[k] = <<st>> PROVE FALSE
            BY <3>2
        <3> QED
            BY <3>1, <3>2
    <2> QED
        BY <2>1 DEF IndInv, AnswerInv, AnswerOf, Answers
<1>2. IndInv => OnlyGranted
    <2> SUFFICES ASSUME IndInv, NEW k \in Conn, conf.credentials, auth[k] # "good"
                 PROVE  ~lfd[k] /\ \A i \in 1..Len(sent[k]) : sent[k][i] \in {400, 401,
                     500}
        BY DEF OnlyGranted
    <2>1. ~Granted(k)
        BY DEF Granted
    <2>2. sent[k] \in {<<>>, << 400 >>, << 401 >>, << 500 >>}
        BY <2>1 DEF IndInv, AnswerInv, AnswerOf
    <2>3. tpc[k] # "sending"
        BY <2>1 DEF IndInv, AnswerInv, AnswerOf
    <2>4. ~lfd[k]
        BY <2>3 DEF IndInv, ReleaseInv
    <2> QED
        BY <2>2, <2>4
<1>3. IndInv => PluginInRange
    BY DEF IndInv, AnswerInv, AnswerOf, CalledInv, InRange, PluginInRange
<1>4. IndInv => ProcessSurvives
    BY DEF IndInv, CalledInv
<1> QED
    BY <1>1, <1>2, <1>3, <1>4, Invariance, PTL DEF AnswersRight

=============================================================================
