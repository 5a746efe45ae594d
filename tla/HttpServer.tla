----------------------------- MODULE HttpServer -----------------------------
(***************************************************************************)
(* The HTTP server of MJPG-streamer (plugins/output_http/httpd.c) as       *)
(* alarm4pi builds it (neither WXP_COMPAT nor MANAGMENT): the server       *)
(* thread, which accepts connections on one socket per address family, and *)
(* a thread per connection, which reads a request and answers it.          *)
(*                                                                         *)
(* A request is its kind, its plugin number and the credentials it brings; *)
(* an answer is its status.  Pictures are served in module Streamer: here  *)
(* send_snapshot() and send_stream() end with a picture or an error.       *)
(***************************************************************************)
EXTENDS Integers, Sequences, FiniteSets

CONSTANTS
    Conn,        \* bound: connections the clients make, one thread each
    None,        \* no connection
    Configs,     \* configurations: [credentials, nocommands, www, file]
    NIn, NOut,   \* incnt and outcnt
    WithCmd,     \* the plugins that export input_cmd() or output_cmd()
    PluginNos    \* bound: what strtol() makes of the plugin= of a command

Dests == {"input", "output"}
Count(d) == IF d = "input" THEN NIn ELSE NOut

ASSUME HttpAssumption ==
    /\ None \notin Conn /\ NIn \in Nat \ {0} /\ NOut \in Nat \ {0} /\ IsFiniteSet(Conn)
    /\ PluginNos \subseteq Int
    /\ \A c \in WithCmd : c \in Dests \X Nat /\ c[2] < Count(c[1])
    /\ \A c \in Configs :
        c \in [credentials : BOOLEAN, nocommands : BOOLEAN, www : BOOLEAN, file : BOOLEAN]

Families == {1, 2}                       \* IPv4 and IPv6
Cells    == 1..(Cardinality(Conn) + 1)   \* the blocks malloc() gives for a cfd
Suffixed == {"snapshot", "stream", "take", "input_json", "output_json"}
Kinds    == Suffixed \cup {"program_json", "command", "file", "cgi"}
Numbers  == 0..(IF NIn > NOut THEN NIn ELSE NOut)
Statuses == {200, 400, 401, 403, 404, 500, 501}

VARIABLES
    conf,        \* servers[id].conf, and whether output_file is loaded
    alive,       \* the process runs
    spc,         \* where server_thread() is
    socks,       \* the sockets it listens on
    waiting,     \* the connections not accepted yet, by socket
    set,         \* what select() returned and the loop has not come to
    cell,        \* the block of this iteration
    block,       \* the contents of the blocks: [fd, freed]
    conn,        \* the state of each connection
    tpc,         \* where the thread of each accepted connection is
    arg,         \* its argument: a block
    fd,          \* the connection it serves, once it has copied the block
    kind, num,   \* req.type and input_number
    auth,        \* req.credentials
    mem, lfd,    \* it holds request strings, an open file
    sent,        \* the statuses it has sent
    called,      \* history: <<dest, plugin_no>> of the cmd() that were called
    shared       \* history: select() has returned two sockets at once

serverVars == <<spc, socks, set, cell>>
threadVars == <<tpc, arg, fd, kind, num, auth, mem, lfd, sent>>
vars == <<conf, alive, serverVars, waiting, block, conn, threadVars, called, shared>>

ServerPlaces == {"open", "alloc", "select", "accept", "ended"}
ThreadPlaces == {"none", "start", "line", "header", "check", "answer", "sending", "close",
                 "ended"}

FlagsOK ==
    /\ alive \in BOOLEAN /\ shared \in BOOLEAN
    /\ mem \in [Conn -> BOOLEAN] /\ lfd \in [Conn -> BOOLEAN]
ServerOK ==
    /\ conf \in Configs /\ spc \in ServerPlaces
    /\ socks \subseteq Families /\ set \subseteq socks
    /\ waiting \in [Families -> SUBSET Conn] /\ cell \in Cells \cup {0}
    /\ block \in [Cells -> [fd : Conn \cup {None}, freed : BOOLEAN]]
    /\ conn \in [Conn -> {"none", "waiting", "open", "closed"}]
ThreadsOK ==
    /\ tpc \in [Conn -> ThreadPlaces] /\ arg \in [Conn -> Cells \cup {0}]
    /\ fd \in [Conn -> Conn \cup {None}] /\ kind \in [Conn -> Kinds \cup {"unknown"}]
    /\ num \in [Conn -> Numbers] /\ auth \in [Conn -> {"none", "good", "bad"}]
    /\ sent \in [Conn -> Seq(Statuses)]

\* Type correctness of the connections, the blocks handed to threads and the answers.
TypeOK == FlagsOK /\ ServerOK /\ ThreadsOK /\ called \subseteq Dests \X PluginNos

Init ==
    /\ conf \in Configs /\ alive = TRUE /\ spc = "open" /\ socks = {} /\ set = {}
    /\ cell = 0 /\ waiting = [s \in Families |-> {}]
    /\ block = [b \in Cells |-> [fd |-> None, freed |-> FALSE]]
    /\ conn = [k \in Conn |-> "none"]
    /\ tpc = [k \in Conn |-> "none"] /\ arg = [k \in Conn |-> 0]
    /\ fd = [k \in Conn |-> None] /\ kind = [k \in Conn |-> "unknown"]
    /\ num = [k \in Conn |-> 0] /\ auth = [k \in Conn |-> "none"]
    /\ mem = [k \in Conn |-> FALSE] /\ lfd = [k \in Conn |-> FALSE]
    /\ sent = [k \in Conn |-> <<>>] /\ called = {} /\ shared = FALSE

-----------------------------------------------------------------------------
(* server_thread().                                                         *)

ServerAt(p) == alive /\ spc = p

\* One socket per address family that can be bound; without any the program
\* exits.
OpenSockets ==
    /\ ServerAt("open") /\ socks' \in SUBSET Families
    /\ alive' = (socks' # {}) /\ spc' = "alloc"
    /\ UNCHANGED <<conf, set, cell, waiting, block, conn, threadVars, called, shared>>

\* A client connects: the kernel queues the connection.
Connect(k, s) ==
    /\ alive /\ conn[k] = "none" /\ s \in socks
    /\ conn' = [conn EXCEPT ![k] = "waiting"]
    /\ waiting' = [waiting EXCEPT ![s] = @ \cup {k}]
    /\ UNCHANGED <<conf, alive, serverVars, block, threadVars, called, shared>>

\* One cfd per round of the loop.
Alloc ==
    /\ ServerAt("alloc") /\ cell < Cardinality(Conn) + 1
    /\ cell' = cell + 1 /\ spc' = "select"
    /\ UNCHANGED <<conf, alive, socks, set, waiting, block, conn, threadVars, called,
                   shared>>

Select ==
    /\ ServerAt("select") /\ spc' = "accept"
    /\ set' = {s \in socks : waiting[s] # {}} /\ set' # {}
    /\ shared' = (shared \/ Cardinality(set') > 1)
    /\ UNCHANGED <<conf, alive, socks, cell, waiting, block, conn, threadVars, called>>

\* The next socket of the set, in the order of the array.
Ready(s) == ServerAt("accept") /\ s \in set /\ \A r \in set : s <= r

\* After the last one the loop begins again.
Accepted(s, k) ==
    /\ waiting' = [waiting EXCEPT ![s] = @ \ {k}]
    /\ set' = set \ {s}
    /\ spc' = IF set' = {} THEN "alloc" ELSE "accept"

\* The connection is stored in the block of this round, and the block given to
\* a new thread: the second connection of a round overwrites the first.
Accept(s, k) ==
    /\ Ready(s) /\ k \in waiting[s] /\ Accepted(s, k)
    /\ conn' = [conn EXCEPT ![k] = "open"]
    /\ block' = [block EXCEPT ![cell].fd = k]
    /\ tpc' = [tpc EXCEPT ![k] = "start"] /\ arg' = [arg EXCEPT ![k] = cell]
    /\ UNCHANGED <<conf, alive, socks, cell, fd, kind, num, auth, mem, lfd, sent, called,
                   shared>>

\* No thread: the connection is closed and the block freed.
AcceptNoThread(s, k) ==
    /\ Ready(s) /\ k \in waiting[s] /\ Accepted(s, k)
    /\ conn' = [conn EXCEPT ![k] = "closed"]
    /\ block' = [block EXCEPT ![cell] = [fd |-> k, freed |-> TRUE]]
    /\ UNCHANGED <<conf, alive, socks, cell, threadVars, called, shared>>

\* output_stop() cancels the thread in select(), and its cleanup closes the
\* sockets; the threads of the clients go on.
server_cleanup ==
    /\ ServerAt("select") /\ spc' = "ended" /\ socks' = {}
    /\ UNCHANGED <<conf, alive, set, cell, waiting, block, conn, threadVars, called,
                   shared>>

server_thread ==
    \/ OpenSockets \/ Alloc \/ Select \/ server_cleanup
    \/ \E s \in Families, k \in Conn : Accept(s, k) \/ AcceptNoThread(s, k)

-----------------------------------------------------------------------------
(* client_thread(): the thread of connection k, which serves fd[k].         *)

At(k, p) == alive /\ tpc[k] = p

Go(k, p) == tpc' = [tpc EXCEPT ![k] = p]

\* The thread copies its argument and frees it.
Start(k) ==
    /\ At(k, "start") /\ ~block[arg[k]].freed /\ Go(k, "line")
    /\ fd' = [fd EXCEPT ![k] = block[arg[k]].fd]
    /\ block' = [block EXCEPT ![arg[k]].freed = TRUE]
    /\ UNCHANGED <<conf, alive, serverVars, waiting, conn, arg, kind, num, auth, mem, lfd,
                   sent, called, shared>>

\* If another thread has freed it the program is aborted, or goes on with what
\* is in the block.
StartFreed(k) ==
    /\ At(k, "start") /\ block[arg[k]].freed
    /\ \/ alive' = FALSE /\ UNCHANGED <<tpc, fd>>
       \/ Go(k, "line") /\ fd' = [fd EXCEPT ![k] = block[arg[k]].fd] /\ UNCHANGED alive
    /\ UNCHANGED <<conf, serverVars, waiting, block, conn, arg, kind, num, auth, mem, lfd,
                   sent, called, shared>>

\* An answer of one write, after which the connection is closed.
Answer(k, statuses) ==
    /\ Go(k, "close") /\ sent' = [sent EXCEPT ![k] = @ \o statuses]
    /\ UNCHANGED <<conf, alive, serverVars, waiting, block, conn, arg, fd, kind, num, auth,
                   mem, lfd, called, shared>>

CloseFd(k) == conn' = [conn EXCEPT ![fd[k]] = "closed"]

\* The variables of the thread go with it.
Forget(k) ==
    /\ kind' = [kind EXCEPT ![k] = "unknown"] /\ num' = [num EXCEPT ![k] = 0]
    /\ auth' = [auth EXCEPT ![k] = "none"] /\ sent' = [sent EXCEPT ![k] = <<>>]
    /\ arg' = [arg EXCEPT ![k] = 0]

\* _readline() returns -1: an error, the end of the data, or 5 seconds without
\* any.
ReadFails(k) ==
    /\ At(k, "line") \/ At(k, "header")
    /\ Go(k, "ended") /\ Forget(k) /\ CloseFd(k) /\ mem' = [mem EXCEPT ![k] = FALSE]
    /\ UNCHANGED <<conf, alive, serverVars, waiting, block, fd, lfd, called, shared>>

\* Not "GET /" (400), or a parameter that unescape() refuses (500): answered at
\* once, whatever the headers say.
BadRequest(k, status) ==
    /\ At(k, "line") /\ status \in {400, 500} /\ Answer(k, <<status>>)

\* The request line says what to deliver; a suffix gives the plugin.
RequestLine(k, r, n) ==
    /\ At(k, "line") /\ Go(k, "header")
    /\ n = 0 \/ r \in Suffixed
    /\ kind' = [kind EXCEPT ![k] = r] /\ num' = [num EXCEPT ![k] = n]
    /\ mem' = [mem EXCEPT ![k] = r \in {"take", "command", "file", "cgi"}]
    /\ UNCHANGED <<conf, alive, serverVars, waiting, block, conn, arg, fd, auth, lfd, sent,
                   called, shared>>

\* The headers, up to an empty line: the last one with credentials counts, and
\* no other changes what is used.
EndOfHeader(k, a) ==
    /\ At(k, "header") /\ Go(k, "check") /\ auth' = [auth EXCEPT ![k] = a]
    /\ mem' = [mem EXCEPT ![k] = @ \/ a # "none"]
    /\ UNCHANGED <<conf, alive, serverVars, waiting, block, conn, arg, fd, kind, num, lfd,
                   sent, called, shared>>

Granted(k) == ~conf.credentials \/ auth[k] = "good"

Refuse(k) == At(k, "check") /\ ~Granted(k) /\ Answer(k, <<401>>)

InRange(k) == num[k] < (IF kind[k] = "output_json" THEN NOut ELSE NIn)

\* A plugin number out of range is answered with 404, and the request becomes
\* one that nothing more is done for.
Grant(k) ==
    /\ At(k, "check") /\ Granted(k)
    /\ \/ kind[k] \in Suffixed /\ ~InRange(k) /\ Go(k, "close")
          /\ sent' = [sent EXCEPT ![k] = Append(@, 404)]
          /\ kind' = [kind EXCEPT ![k] = "unknown"]
       \/ (kind[k] \in Suffixed => InRange(k)) /\ Go(k, "answer") /\ UNCHANGED <<sent, kind>>
    /\ UNCHANGED <<conf, alive, serverVars, waiting, block, conn, arg, fd, num, auth, mem,
                   lfd, called, shared>>

Asked(k, r) == At(k, "answer") /\ kind[k] = r

\* A picture, or no memory for it.
send_snapshot(k) == Asked(k, "snapshot") /\ \E st \in {200, 500} : Answer(k, <<st>>)

\* The 500 of a stream follows its head.
send_stream(k) ==
    Asked(k, "stream") /\ (Answer(k, <<200>>) \/ Answer(k, <<200, 500>>))

\* Without memory nothing is sent.
send_input_JSON(k) == Asked(k, "input_json") /\ (Answer(k, <<200>>) \/ Answer(k, <<>>))

send_output_JSON(k) == Asked(k, "output_json") /\ (Answer(k, <<200>>) \/ Answer(k, <<>>))

send_program_JSON(k) == Asked(k, "program_json") /\ Answer(k, <<200>>)

\* The parameter must name a command (400), and copies of it need memory (500).
CommandRefused(k) ==
    /\ Asked(k, "command")
    /\ \/ conf.nocommands /\ Answer(k, <<501>>)
       \/ ~conf.nocommands /\ \E st \in {400, 500} : Answer(k, <<st>>)

\* Mutant of Calls: the last number is taken for a plugin.
Calls_OffByOne(d, p) == IF d \in Dests /\ p <= Count(d) THEN {<<d, p>>} ELSE {}

\* The cmd() that is called: only the upper bound of the number is checked.
Calls(d, p) == IF d \in Dests /\ p < Count(d) THEN {<<d, p>>} ELSE {}

\* A command for the program itself does nothing, and the answer is the same.  The
\* process ends if the plugin has no cmd(), a null pointer; a negative number reads
\* in[] or out[] before its begin, and anything may happen.
command(k, d, p) ==
    /\ Asked(k, "command") /\ ~conf.nocommands
    /\ called' = called \cup Calls(d, p)
    /\ \/ /\ p < 0 \/ Calls(d, p) \subseteq WithCmd
          /\ Go(k, "close") /\ sent' = [sent EXCEPT ![k] = Append(@, 200)]
          /\ UNCHANGED alive
       \/ /\ ~(Calls(d, p) \subseteq WithCmd)
          /\ alive' = FALSE /\ UNCHANGED <<tpc, sent>>
    /\ UNCHANGED <<conf, serverVars, waiting, block, conn, arg, fd, kind, num, auth, mem,
                   lfd, shared>>

\* No folder (501), no extension (400), unknown type or no such file (404).
FileRefused(k) ==
    /\ Asked(k, "file")
    /\ \/ ~conf.www /\ Answer(k, <<501>>)
       \/ conf.www /\ \E st \in {400, 404} : Answer(k, <<st>>)

\* A script that is not there (404) or cannot be run (403).
CgiRefused(k) ==
    Asked(k, "cgi") /\ conf.www /\ \E st \in {403, 404} : Answer(k, <<st>>)

\* The name of a script is appended to a folder that is not configured.
CgiNoFolder(k) ==
    /\ Asked(k, "cgi") /\ ~conf.www /\ alive' = FALSE
    /\ UNCHANGED <<conf, serverVars, waiting, block, conn, threadVars, called, shared>>

\* A file, or the output of a script, is being sent.
OpenFile(k) ==
    /\ Asked(k, "file") \/ Asked(k, "cgi")
    /\ conf.www /\ Go(k, "sending")
    /\ lfd' = [lfd EXCEPT ![k] = TRUE]
    /\ sent' = [sent EXCEPT ![k] = Append(@, 200)]
    /\ UNCHANGED <<conf, alive, serverVars, waiting, block, conn, arg, fd, kind, num, auth,
                   mem, called, shared>>

\* Mutant of FileSent: a failed write leaves the file open.
FileSent_Leaks(k) ==
    /\ At(k, "sending") /\ Go(k, "close")
    /\ UNCHANGED <<conf, alive, serverVars, waiting, block, conn, arg, fd, kind, num, auth,
                   mem, lfd, sent, called, shared>>

\* The end of the file, or a write that fails.
FileSent(k) ==
    /\ At(k, "sending") /\ Go(k, "close")
    /\ lfd' = [lfd EXCEPT ![k] = FALSE]
    /\ UNCHANGED <<conf, alive, serverVars, waiting, block, conn, arg, fd, kind, num, auth,
                   mem, sent, called, shared>>

\* The picture is saved by output_file and then sent.  A request without a file
\* name is answered with 404 and then, since nothing has failed, with a picture.
take(k) ==
    /\ Asked(k, "take")
    /\ \/ ~conf.file /\ Answer(k, <<404>>)
       \/ conf.file /\ \E answer \in {<<200>>, <<500>>, <<404>>, <<404, 200>>, <<404, 500>>} :
            Answer(k, answer)

Close(k) ==
    /\ At(k, "close") /\ Go(k, "ended") /\ CloseFd(k) /\ Forget(k)
    /\ mem' = [mem EXCEPT ![k] = FALSE]
    /\ UNCHANGED <<conf, alive, serverVars, waiting, block, fd, lfd, called, shared>>

client_thread(k) ==
    \/ Start(k) \/ StartFreed(k) \/ ReadFails(k) \/ Refuse(k) \/ Grant(k)
    \/ \E st \in Statuses : BadRequest(k, st)
    \/ \E r \in Kinds, n \in Numbers : RequestLine(k, r, n)
    \/ \E a \in {"none", "good", "bad"} : EndOfHeader(k, a)
    \/ send_snapshot(k) \/ send_stream(k) \/ send_input_JSON(k) \/ send_output_JSON(k)
    \/ send_program_JSON(k) \/ CommandRefused(k)
    \/ \E d \in Dests \cup {"program"}, p \in PluginNos : command(k, d, p)
    \/ FileRefused(k) \/ CgiRefused(k) \/ CgiNoFolder(k) \/ OpenFile(k) \/ FileSent(k)
    \/ take(k) \/ Close(k)

Next ==
    \/ server_thread
    \/ \E k \in Conn : client_thread(k) \/ \E s \in Families : Connect(k, s)

Spec == Init /\ [][Next]_vars

-----------------------------------------------------------------------------
(* Safety.                                                                  *)

\* The connection the thread of k serves or is going to serve.
Serves(k) ==
    IF tpc[k] = "start" THEN block[arg[k]].fd
    ELSE IF tpc[k] \in {"none", "ended"} THEN None ELSE fd[k]

\* Every open connection has exactly one thread, which will close it, as long
\* as no call of select() returns two sockets: the block of a round is not
\* handed to two threads (httpd.c, "create a child for every client").
OneThreadPerClient ==
    (alive /\ ~shared) =>
        \A c \in Conn : conn[c] = "open" => Cardinality({k \in Conn : Serves(k) = c}) = 1

\* A thread ends with its connection closed, no file open and none of the
\* strings its request points to left, on every one of its return paths.  Strings
\* nothing points to any more are lost, and not claimed: those of a repeated header,
\* the file name of action=take (httpd.c:1391) and all but the last of the copies
\* command() makes of its parameters (httpd.c:911-985).
EndsClean ==
    \A k \in Conn : tpc[k] = "ended" =>
        conn[fd[k]] = "closed" /\ ~mem[k] /\ ~lfd[k]

\* A request is answered once.  The exceptions are a stream that runs out of
\* memory after its head, and action=take without a file name, whose 404 is
\* followed by the answer to the snapshot.
AnsweredOnce ==
    \A k \in Conn : Len(sent[k]) > 1 =>
        \/ kind[k] = "stream" /\ sent[k] = <<200, 500>>
        \/ kind[k] = "take" /\ sent[k] \in {<<404, 200>>, <<404, 500>>}

\* If a user name and a password are configured, nothing is delivered to a
\* request without them, and the answer to it does not depend on what it asks
\* for.
OnlyGranted ==
    \A k \in Conn : (conf.credentials /\ auth[k] # "good") =>
        ~lfd[k] /\ \A i \in 1..Len(sent[k]) : sent[k][i] \in {400, 401, 500}

\* Where a plugin number is used there are more plugins of that kind.  The one of a
\* request is a digit and so the number of a plugin; command() lets a negative one
\* through (httpd.c:985-1001).
PluginInRange ==
    /\ \A k \in Conn : (tpc[k] = "answer" /\ kind[k] \in Suffixed) =>
        num[k] < (IF kind[k] = "output_json" THEN NOut ELSE NIn)
    /\ \A c \in called : c[2] < Count(c[1])

\* No client ends the process.  The exceptions are the connections of one select() that
\* share a block, a script asked for where there is no folder, and a command for a
\* negative plugin number or for a plugin that exports no cmd() (httpd.c:994, 1001: the
\* pointer of the "optional command", mjpg_streamer.c:332, is not tested).
ProcessSurvives ==
    ~alive =>
        \/ spc = "alloc" /\ cell = 0 /\ socks = {}
        \/ shared \/ ~conf.www \/ ~(called \subseteq WithCmd)

\* Every connection is served by one thread, and that thread closes it and frees what
\* its request points to on every one of its return paths.
ConnectionsServed == TypeOK /\ OneThreadPerClient /\ EndsClean

\* A request is answered once and only if it may be, with a plugin number below the
\* number of plugins, and it ends the process in no case but the ones named.
AnswersRight == AnsweredOnce /\ OnlyGranted /\ PluginInRange /\ ProcessSurvives

-----------------------------------------------------------------------------
(* What every step keeps.                                                   *)

\* The loop of server_thread() has a block when it accepts, and a connection waits on
\* one socket until then.
LoopInv ==
    /\ spc \in {"select", "accept"} => cell \in Cells
    /\ spc # "accept" => set = {}
    /\ \A s \in Families : \A k \in waiting[s] : conn[k] = "waiting"
    /\ waiting[1] \cap waiting[2] = {}
    /\ \A k \in Conn : conn[k] \in {"none", "waiting"} => tpc[k] = "none"

\* A thread has a connection to serve, perhaps another one's, and when it has ended
\* the connection is closed and stays so.
ThreadInv ==
    \A k \in Conn :
        /\ tpc[k] = "start" => arg[k] \in Cells /\ arg[k] <= cell
        /\ tpc[k] = "start" =>
               block[arg[k]].fd \in Conn /\ conn[block[arg[k]].fd] \in {"open", "closed"}
        /\ tpc[k] \notin {"none", "start"} =>
               fd[k] \in Conn /\ conn[fd[k]] \in {"open", "closed"}
        /\ tpc[k] = "ended" => conn[fd[k]] = "closed"

ReleaseInv ==
    \A k \in Conn :
        /\ tpc[k] # "sending" => lfd[k] = FALSE
        /\ tpc[k] = "ended" => mem[k] = FALSE

\* What a thread can have sent, and that it sends nothing before it has checked the
\* credentials and the number of the plugin but the refusal of a bad request.
Answers == {<<>>, <<200, 500>>, <<404, 200>>, <<404, 500>>} \cup {<<st>> : st \in Statuses}
AnswerOf(k) ==
    /\ sent[k] \in Answers
    /\ tpc[k] \notin {"sending", "close"} => sent[k] = <<>>
    /\ sent[k] = <<200, 500>> => kind[k] = "stream"
    /\ sent[k] \in {<<404, 200>>, <<404, 500>>} => kind[k] = "take"
    /\ tpc[k] \in {"answer", "sending"} => Granted(k)
    /\ tpc[k] = "answer" /\ kind[k] \in Suffixed => InRange(k)
    /\ Granted(k) \/ sent[k] \in {<<>>, <<400>>, <<401>>, <<500>>}
AnswerInv == \A k \in Conn : AnswerOf(k)

\* Until select() returns two sockets every thread serves its own connection: no
\* block is handed out twice, or freed before its thread has copied it.
OwnInv ==
    ~shared =>
        /\ set # Families
        /\ \A b \in Cells :
            block[b].freed => b <= cell /\ (spc \in {"select", "accept"} => b < cell)
        /\ \A k \in Conn :
            /\ tpc[k] = "start" => block[arg[k]].fd = k /\ ~block[arg[k]].freed
            /\ tpc[k] = "start" /\ spc \in {"select", "accept"} => arg[k] < cell
            /\ tpc[k] \notin {"none", "start", "ended"} => fd[k] = k
            /\ conn[k] = "open" => tpc[k] \notin {"none", "ended"}

\* command() calls no plugin past the last one, and why the process has ended.
CalledInv ==
    /\ \A c \in called : c[2] < Count(c[1])
    /\ spc = "open" => cell = 0
    /\ ProcessSurvives

IndInv ==
    TypeOK /\ LoopInv /\ ThreadInv /\ ReleaseInv /\ AnswerInv /\ OwnInv /\ CalledInv

=============================================================================
