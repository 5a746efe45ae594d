------------------------------- MODULE MmalVc -------------------------------
(***************************************************************************)
(* The MMAL components that live on the VideoCore: mmal_vc_client.c sends  *)
(* requests through VCHIQ and waits for the replies, mmal_vc_api.c makes   *)
(* components and ports of them.                                           *)
(*                                                                         *)
(* Threads: C creates a component, enables, flushes, disables and connects *)
(* one of its ports and destroys it; S sends buffers to that port; Q       *)
(* creates and destroys another component and asks for other things; K is  *)
(* the callback thread of VCHIQ and A the action thread of C's component.  *)
(*                                                                         *)
(* VCHIQ and the server on the VideoCore are external: messages and bulk   *)
(* transfers are delivered in the order they were queued, each kind in its *)
(* own; the server answers every request, gives the buffers of a port back *)
(* before it answers to a flush or a disable, and has completed its        *)
(* transfers when it answers to a disable (the comment in                  *)
(* mmal_vc_port_disable()).  vchiq_queue_bulk_transmit() does not fail (the*)
(* code asserts it).  What a port sends is data, in a bulk transfer, or    *)
(* nothing but the header; formats, parameters and memory are left out.    *)
(***************************************************************************)
EXTENDS Integers, Sequences, FiniteSets, SequencesExt

CONSTANTS
    Buffers,    \* the buffers of the port
    Ev,         \* the event buffer of C's component
    MAX_WAITERS,
    MaxFail     \* bound: VCHIQ calls, allocations and requests that fail

ASSUME MmalVcAssumption ==
    /\ IsFiniteSet(Buffers) /\ Ev \notin Buffers
    /\ MAX_WAITERS \in Nat \ {0} /\ MaxFail \in Nat

Asker   == {"C", "Q", "S"}
Waiters == 1..MAX_WAITERS
Nobody  == "nobody"

VARIABLES
    zeroCopy,   \* is_zero_copy of the port
    newServer,  \* does the server know MMAL_WORKER_PORT_FLUSH (major >= 15)?
    events,     \* bound: events, connections, old servers and zero copy are looked
                \* at only where thread Q stays away
    refcount, usecount, inited,     \* client
    used,       \* external: is the service in use?
    drift,      \* has a vchiq_use_service() failed?
    inuse, sem, dest,   \* the waiters: inuse, sem, the reply written to dest
    poolSem,    \* waitpool.sem
    bulkLock,   \* the holder of bulk_lock
    ask,        \* mmal_vc_sendwait_message() of each thread
    todo,       \* what C and Q have still to do in their calls
    up,         \* has the thread a component?
    en, slock, act,     \* is_enabled, send lock, action mutex (see Mmal)
    pool,       \* "none", "live", or "stale": deleted, but has_pool is set
    ctx,        \* buffers with a context of the pool
    sent,       \* sent_data_on_port
    connected,
    compat,     \* is_port_flush_compatible
    zerolen,    \* is is_vc_zerolength_compatible known?
    snd,        \* what S is sending, and where it is
    home,       \* buffers with the client, and Ev when it is in its pool
    cbq,        \* callback_queue
    msgs, bulks,    \* external: messages and bulk transfers to the VideoCore
    held, arr,      \* external: buffers the server has, messages that wait for data
    rx, bulkRx,     \* external: messages from the VideoCore, transfers to the host
    nfail, broken

clientVars == <<refcount, usecount, inited, used, drift>>
waitVars   == <<inuse, sem, dest, poolSem>>
portVars   == <<en, slock, act, pool, ctx, sent, connected, compat, zerolen>>
bufVars    == <<snd, home, cbq>>
vcVars     == <<msgs, bulks, held, arr, rx, bulkRx>>
fixed      == <<zeroCopy, newServer, events>>
vars == <<fixed, clientVars, waitVars, bulkLock, ask, todo, up, portVars, bufVars,
          vcVars, nfail, broken>>

NoReply    == [id |-> "none", from |-> Nobody, ok |-> FALSE]
NoAsk      == [pc |-> "none", msg |-> "none", w |-> 0, reply |-> NoReply]
NotSending == [pc |-> "none", buf |-> Ev, bulk |-> FALSE]

Init ==
    /\ zeroCopy \in BOOLEAN /\ newServer \in BOOLEAN /\ (zeroCopy => newServer)
    /\ events \in BOOLEAN /\ (~events => newServer /\ ~zeroCopy)
    /\ refcount = 0 /\ usecount = 0 /\ inited = FALSE /\ used = FALSE /\ drift = FALSE
    /\ inuse = [w \in Waiters |-> FALSE] /\ sem = [w \in Waiters |-> 0]
    /\ dest = [w \in Waiters |-> NoReply]
    /\ poolSem = MAX_WAITERS
    /\ bulkLock = Nobody
    /\ ask = [t \in Asker |-> NoAsk] /\ todo = [t \in {"C", "Q"} |-> <<>>]
    /\ up = [t \in {"C", "Q"} |-> FALSE]
    /\ en = FALSE /\ slock = Nobody /\ act = Nobody /\ pool = "none" /\ ctx = {}
    /\ sent = FALSE /\ connected = FALSE /\ compat = "unknown" /\ zerolen = FALSE
    /\ snd = NotSending /\ home = Buffers \union {Ev} /\ cbq = <<>>
    /\ msgs = <<>> /\ bulks = <<>> /\ held = {} /\ arr = <<>> /\ rx = <<>> /\ bulkRx = <<>>
    /\ nfail = 0 /\ broken = "no"

Fails == nfail < MaxFail /\ nfail' = nfail + 1

-----------------------------------------------------------------------------
(* mmal_vc_sendwait_message(): the asking thread.                           *)

At(t, pc) == ask' = [ask EXCEPT ![t].pc = pc]

AskUnchanged == UNCHANGED <<fixed, todo, up, portVars, bufVars, broken>>

\* mmal_vc_use_internal() and mmal_vc_release_internal().  No caller looks at
\* the status of the first.
mmal_vc_use_internal ==
    \/ /\ usecount' = usecount + 1
       /\ used' = (used \/ usecount = 0)
       /\ UNCHANGED <<drift, nfail>>
    \/ usecount = 0 /\ Fails /\ drift' = TRUE /\ UNCHANGED <<usecount, used>>

mmal_vc_release_internal ==
    \/ /\ usecount' = usecount - 1
       /\ used' = (used /\ usecount # 1)
       /\ UNCHANGED nfail
    \/ usecount = 1 /\ Fails /\ UNCHANGED <<usecount, used>>

\* The scan for a free waiter, under the client's lock, and the use of the service.
get_waiter(t) ==
    /\ ask[t].pc = "pick"
    /\ \E w \in Waiters :
          /\ ~inuse[w] /\ \A v \in 1..(w - 1) : inuse[v]
          /\ inuse' = [inuse EXCEPT ![w] = TRUE]
          /\ ask' = [ask EXCEPT ![t].pc = "queue", ![t].w = w]
    /\ mmal_vc_use_internal
    /\ AskUnchanged
    /\ UNCHANGED <<refcount, inited, sem, dest, poolSem, bulkLock, vcVars>>

Message(t, id, b, bulk) ==
    [id |-> id, from |-> t, w |-> ask[t].w, buf |-> b, bulk |-> bulk, ok |-> TRUE]

\* Mutant of QueueMessage: bulk_lock is kept when it fails.
QueueMessage_KeepsLock(t) ==
    /\ ask[t].pc = "queue"
    /\ \/ /\ msgs' = Append(msgs, Message(t, ask[t].msg, Ev, ask[t].msg = "sync"))
          /\ At(t, IF ask[t].msg = "sync" THEN "dummy" ELSE "wait") /\ UNCHANGED nfail
       \/ Fails /\ At(t, "failed") /\ UNCHANGED msgs
    /\ AskUnchanged
    /\ UNCHANGED <<clientVars, waitVars, bulkLock, bulks, held, arr, rx, bulkRx>>
\* vchiq_queue_message(); when it fails the waiter is given back at once.
QueueMessage(t) ==
    /\ ask[t].pc = "queue"
    /\ \/ /\ msgs' = Append(msgs, Message(t, ask[t].msg, Ev, ask[t].msg = "sync"))
          /\ At(t, IF ask[t].msg = "sync" THEN "dummy" ELSE "wait")
          /\ UNCHANGED <<bulkLock, nfail>>
       \/ /\ Fails /\ UNCHANGED msgs
          /\ bulkLock' = IF bulkLock = t THEN Nobody ELSE bulkLock
          /\ At(t, "failed")
    /\ AskUnchanged
    /\ UNCHANGED <<clientVars, waitVars, bulks, held, arr, rx, bulkRx>>

\* The dummy transfer keeps a flush behind the data that was sent before it.
QueueDummy(t) ==
    /\ ask[t].pc = "dummy"
    /\ bulks' = Append(bulks, t) /\ bulkLock' = Nobody
    /\ At(t, "wait")
    /\ AskUnchanged
    /\ UNCHANGED <<clientVars, waitVars, msgs, held, arr, rx, bulkRx, nfail>>

\* The reply is in the caller's hands; the service is no longer used for it.
WaitReply(t) ==
    /\ \/ /\ ask[t].pc = "wait" /\ sem[ask[t].w] > 0
          /\ sem' = [sem EXCEPT ![ask[t].w] = @ - 1]
          /\ ask' = [ask EXCEPT ![t].pc = "give", ![t].reply = dest[ask[t].w]]
          /\ dest' = [dest EXCEPT ![ask[t].w] = NoReply]
       \/ ask[t].pc = "failed" /\ At(t, "give") /\ UNCHANGED <<sem, dest>>
    /\ mmal_vc_release_internal
    /\ AskUnchanged
    /\ UNCHANGED <<refcount, inited, drift, inuse, poolSem, bulkLock, vcVars>>

\* Mutant of release_waiter: the semaphore is posted first.
release_waiter_PostsFirst(t) ==
    /\ ask[t].pc \in {"give", "post"}
    /\ IF ask[t].pc = "give"
       THEN poolSem' = poolSem + 1 /\ At(t, "post") /\ UNCHANGED inuse
       ELSE /\ inuse' = [inuse EXCEPT ![ask[t].w] = FALSE] /\ At(t, "done")
            /\ UNCHANGED poolSem
    /\ AskUnchanged
    /\ UNCHANGED <<clientVars, sem, dest, bulkLock, vcVars, nfail>>
\* release_waiter(): inuse is cleared without the lock, then the semaphore.
release_waiter(t) ==
    /\ ask[t].pc \in {"give", "post"}
    /\ IF ask[t].pc = "give"
       THEN /\ inuse' = [inuse EXCEPT ![ask[t].w] = FALSE] /\ At(t, "post")
            /\ UNCHANGED poolSem
       ELSE poolSem' = poolSem + 1 /\ At(t, "done") /\ UNCHANGED inuse
    /\ AskUnchanged
    /\ UNCHANGED <<clientVars, sem, dest, bulkLock, vcVars, nfail>>

mmal_vc_sendwait_message(t) ==
    \/ get_waiter(t) \/ QueueMessage(t) \/ QueueDummy(t) \/ WaitReply(t) \/ release_waiter(t)

\* Mutant of Ask: no bulk_lock for the dummy transfer.
Ask_NoBulkLock(t, msg) ==
    /\ ask[t].pc = "none" /\ inited /\ poolSem > 0
    /\ poolSem' = poolSem - 1 /\ UNCHANGED bulkLock
    /\ ask' = [ask EXCEPT ![t] = [NoAsk EXCEPT !.pc = "pick", !.msg = msg]]
\* A request begins with bulk_lock, if a dummy bulk transfer follows it, and the
\* semaphore that counts the free waiters.  (A client that is not inited asserts.)
\* Both in one step: who has a waiter already has bulk_lock or does not need it, so
\* that a thread which has the lock and waits for a waiter only delays the others.
Ask(t, msg) ==
    /\ ask[t].pc = "none" /\ inited /\ poolSem > 0
    /\ poolSem' = poolSem - 1
    /\ msg = "sync" => bulkLock = Nobody
    /\ bulkLock' = IF msg = "sync" THEN t ELSE bulkLock
    /\ ask' = [ask EXCEPT ![t] = [NoAsk EXCEPT !.pc = "pick", !.msg = msg]]
Answered(t) == ask[t].pc = "done" /\ ask' = [ask EXCEPT ![t] = NoAsk]
Good(t)     == ask[t].reply.ok

-----------------------------------------------------------------------------
(* mmal_vc_component_create() and mmal_vc_component_destroy(), by C and Q;  *)
(* todo[t] is what is left of the call.                                     *)

Destroy == <<"destroy", "release", "deinit">>
Create  == <<"init", "release", "use", "create", "alloc", "info">>
Is(t, step) == todo[t] # <<>> /\ Head(todo[t]) = step
Continue(t, steps) == todo' = [todo EXCEPT ![t] = steps]
Step(t) == Continue(t, Tail(todo[t]))

PortUnchanged == UNCHANGED <<fixed, portVars, bufVars, vcVars, broken>>

Begin(t, steps) ==
    /\ todo[t] = <<>> /\ ask[t].pc = "none"
    /\ Continue(t, steps)
    /\ UNCHANGED <<clientVars, waitVars, bulkLock, ask, nfail>> /\ PortUnchanged

mmal_vc_component_create(t) ==
    ~up[t] /\ (t = "Q" => ~events) /\ Begin(t, Create) /\ UNCHANGED up

\* The core disables the ports first, and waits until their buffers are back.
mmal_vc_component_destroy(t) ==
    /\ up[t] /\ up' = [up EXCEPT ![t] = FALSE]
    /\ t = "C" => ~en /\ home = Buffers \union {Ev} /\ snd.pc = "none" /\ ~connected
    /\ Begin(t, Destroy)

\* The whole of mmal_vc_init() is under the lock but for the release at its end,
\* which only the first caller does: the open call counts as a use.
mmal_vc_init(t) ==
    /\ Is(t, "init")
    /\ \/ /\ refcount > 0
          /\ refcount' = refcount + 1
          /\ Continue(t, Tail(Tail(todo[t])))
          /\ UNCHANGED <<usecount, used, inited, inuse, sem, poolSem, nfail>>
       \/ /\ refcount = 0
          /\ \/ /\ refcount' = 1 /\ usecount' = 1 /\ used' = TRUE /\ inited' = TRUE
                /\ inuse' = [w \in Waiters |-> FALSE] /\ sem' = [w \in Waiters |-> 0]
                /\ poolSem' = MAX_WAITERS
                /\ Step(t) /\ UNCHANGED nfail
             \/ /\ Fails /\ Continue(t, <<>>)
                /\ UNCHANGED <<refcount, usecount, used, inited, inuse, sem, poolSem>>
    /\ UNCHANGED <<drift, dest, bulkLock, ask, up>> /\ PortUnchanged

mmal_vc_use(t) ==
    /\ Is(t, "use") /\ inited /\ Step(t)
    /\ mmal_vc_use_internal
    /\ UNCHANGED <<refcount, inited, waitVars, bulkLock, ask, up>> /\ PortUnchanged

mmal_vc_release(t) ==
    /\ Is(t, "release") /\ inited /\ Step(t)
    /\ mmal_vc_release_internal
    /\ UNCHANGED <<refcount, inited, drift, waitVars, bulkLock, ask, up>> /\ PortUnchanged

\* The last user closes the service and deletes the waiters.
mmal_vc_deinit(t) ==
    /\ Is(t, "deinit") /\ Step(t)
    /\ refcount' = refcount - 1
    /\ inited' = (refcount # 1) /\ used' = (used /\ refcount # 1)
    /\ UNCHANGED <<usecount, drift, waitVars, bulkLock, ask, up, nfail>> /\ PortUnchanged

Request(t) ==
    /\ todo[t] # <<>> /\ Head(todo[t]) \in {"create", "info", "destroy", "param", "sync"}
    /\ Ask(t, Head(todo[t]))
    /\ UNCHANGED <<clientVars, inuse, sem, dest, todo, up, nfail>> /\ PortUnchanged

Created(t) ==
    /\ Is(t, "create") /\ Answered(t)
    /\ IF Good(t) THEN Step(t) ELSE Continue(t, Tail(Destroy))
    /\ UNCHANGED <<clientVars, waitVars, bulkLock, up, nfail>> /\ PortUnchanged

\* The module, the ports and their queue.
AllocComponent(t) ==
    /\ Is(t, "alloc")
    /\ \/ Step(t) /\ UNCHANGED nfail
       \/ Fails /\ Continue(t, Destroy)
    /\ UNCHANGED <<clientVars, waitVars, bulkLock, ask, up>> /\ PortUnchanged

mmal_vc_port_info_get(t) ==
    /\ Is(t, "info") /\ Answered(t)
    /\ IF Good(t) THEN up' = [up EXCEPT ![t] = TRUE] /\ Step(t)
       ELSE UNCHANGED up /\ Continue(t, Destroy)
    /\ UNCHANGED <<clientVars, waitVars, bulkLock, nfail>> /\ PortUnchanged

\* The rest of a destruction is done whatever the server answers; Q's parameter
\* requests and flushes only hand the status on.
Ignored(t) ==
    /\ Is(t, "destroy") \/ (t = "Q" /\ (Is(t, "param") \/ Is(t, "sync")))
    /\ Answered(t) /\ Step(t)
    /\ UNCHANGED <<clientVars, waitVars, bulkLock, up, nfail>> /\ PortUnchanged

\* Q: parameters, statistics, memory (one request each), or a flush of a port of
\* its own component on which data was sent.
OtherRequest == \E msg \in {"param", "sync"} : up["Q"] /\ Begin("Q", <<msg>>) /\ UNCHANGED up

Component(t) ==
    \/ mmal_vc_component_create(t) \/ mmal_vc_component_destroy(t)
    \/ mmal_vc_init(t) \/ mmal_vc_use(t) \/ mmal_vc_release(t) \/ mmal_vc_deinit(t)
    \/ Request(t) \/ Created(t) \/ AllocComponent(t) \/ mmal_vc_port_info_get(t)
    \/ Ignored(t)

-----------------------------------------------------------------------------
(* C's port: what mmal_port.c and mmal_vc_api.c do to enable, disable,      *)
(* flush and connect it.                                                    *)

KeepPort  == UNCHANGED <<fixed, waitVars, clientVars, bulkLock, up, vcVars>>
PortIdle  == todo["C"] = <<>> /\ ask["C"].pc = "none" /\ up["C"]
StartPort(steps) ==
    /\ PortIdle /\ Continue("C", steps)
    /\ UNCHANGED <<ask, portVars, bufVars, nfail, broken>> /\ KeepPort

mmal_vc_port_enable ==
    ~en /\ StartPort(IF connected THEN <<"require", "enable", "after", "on">>
                                  ELSE <<"pool", "enable", "on">>)

mmal_vc_port_disable ==
    en /\ StartPort(<<"off", "actlock", "disable", "drop", "drain">> \o
                    (IF connected THEN <<"after">> ELSE <<>>) \o <<"unlock", "back">>)

mmal_port_flush == en /\ StartPort(<<"actlock", "sendlock", "flush?">>)

mmal_vc_port_connect == events /\ ~en /\ StartPort(<<"connect">>)

\* A step of C's call that asks the server.
PortRequest ==
    /\ todo["C"] # <<>>
    /\ Head(todo["C"]) \in {"require", "enable", "after", "disable", "flush", "version", "connect"}
    /\ Ask("C", Head(todo["C"]))
    /\ UNCHANGED <<fixed, inuse, sem, dest, clientVars, todo, up, portVars, bufVars, vcVars, nfail,
                   broken>>

CreatePool ==
    /\ Is("C", "pool")
    /\ \/ pool' = "live" /\ Step("C") /\ UNCHANGED nfail
       \/ Fails /\ Continue("C", <<>>) /\ UNCHANGED pool
    /\ UNCHANGED <<ask, en, slock, act, ctx, sent, connected, compat, zerolen, bufVars, broken>>
    /\ KeepPort

\* A failed request deletes the pool and leaves has_pool set; a pool that was
\* left so is deleted again.
EnableAnswered ==
    /\ Is("C", "require") \/ Is("C", "enable")
    /\ Answered("C")
    /\ IF Good("C") THEN Step("C") /\ UNCHANGED <<pool, broken>>
       ELSE /\ Continue("C", <<>>)
            /\ pool' = IF pool = "live" THEN "stale" ELSE pool
            /\ broken' = IF pool = "stale" THEN "pool" ELSE broken
    /\ UNCHANGED <<en, slock, act, ctx, sent, connected, compat, zerolen, bufVars, nfail>>
    /\ KeepPort

\* Plain steps: the port lock's other half is in Mmal.
PortStep ==
    /\ \/ Is("C", "on") /\ slock = Nobody /\ en' = TRUE /\ UNCHANGED <<slock, act>>
       \/ Is("C", "off") /\ slock = Nobody /\ en' = FALSE /\ UNCHANGED <<slock, act>>
       \/ Is("C", "actlock") /\ act = Nobody /\ act' = "C" /\ UNCHANGED <<en, slock>>
       \/ Is("C", "sendlock") /\ slock = Nobody /\ slock' = "C" /\ UNCHANGED <<en, act>>
       \/ Is("C", "unlock") /\ act' = Nobody /\ UNCHANGED <<en, slock>>
       \/ /\ Is("C", "unflush") \/ Is("C", "failed")
          /\ act' = Nobody /\ slock' = Nobody /\ UNCHANGED en
       \/ Is("C", "back") /\ Buffers \subseteq home /\ UNCHANGED <<en, slock, act>>
    /\ Step("C")
    /\ UNCHANGED <<ask, pool, ctx, sent, connected, compat, zerolen, bufVars, nfail, broken>>
    /\ KeepPort

\* Whatever the server says the pool is deleted; when it refuses, the core takes
\* the port for enabled again.
DisableAnswered ==
    /\ Is("C", "disable") /\ Answered("C")
    /\ Continue("C", IF Good("C") THEN Tail(todo["C"])
                     ELSE [i \in DOMAIN Tail(todo["C"]) |->
                              IF todo["C"][i + 1] = "back" THEN "on" ELSE todo["C"][i + 1]])
    /\ UNCHANGED <<portVars, bufVars, nfail, broken>> /\ KeepPort

DropPool ==
    /\ Is("C", "drop") /\ Step("C")
    /\ pool' = "none"
    /\ broken' = IF pool = "stale" \/ (pool = "live" /\ ctx # {}) THEN "pool" ELSE broken
    /\ UNCHANGED <<ask, en, slock, act, ctx, sent, connected, compat, zerolen, bufVars, nfail>>
    /\ KeepPort

\* C makes the callbacks that are queued itself.
Drain ==
    /\ Is("C", "drain")
    /\ IF cbq = <<>> THEN Step("C") /\ UNCHANGED <<home, cbq>>
       ELSE home' = home \union {Head(cbq)} /\ cbq' = Tail(cbq) /\ UNCHANGED todo
    /\ UNCHANGED <<ask, portVars, snd, nfail, broken>> /\ KeepPort

\* Data of a bulk transfer may still be on its way: a flush then has to follow it.
mmal_vc_port_flush ==
    /\ Is("C", "flush?")
    /\ Continue("C", <<IF zeroCopy \/ ~sent \/ compat = "no" THEN "flush"
                       ELSE IF compat = "yes" THEN "sync" ELSE "version", "unflush">>)
    /\ UNCHANGED <<ask, portVars, bufVars, nfail, broken>> /\ KeepPort

\* The version is asked for once, and an answer that fails counts as an old server.
VersionKnown ==
    /\ Is("C", "version") /\ Answered("C")
    /\ LET new == Good("C") /\ newServer IN
       /\ compat' = IF new THEN "yes" ELSE "no"
       /\ Continue("C", <<IF new THEN "sync" ELSE "flush", "unflush">>)
    /\ UNCHANGED <<en, slock, act, pool, ctx, sent, connected, zerolen, bufVars, nfail, broken>>
    /\ KeepPort

Flushed ==
    /\ Is("C", "flush") \/ Is("C", "sync")
    /\ Answered("C")
    /\ Continue("C", IF Good("C") THEN <<"unflush">> ELSE <<"failed">>)
    /\ UNCHANGED <<portVars, bufVars, nfail, broken>> /\ KeepPort

Connected ==
    /\ Is("C", "connect") \/ Is("C", "after")
    /\ Answered("C") /\ Step("C")
    /\ connected' = IF Is("C", "connect") /\ Good("C") THEN ~connected ELSE connected
    /\ UNCHANGED <<en, slock, act, pool, ctx, sent, compat, zerolen, bufVars, nfail, broken>>
    /\ KeepPort

Port ==
    \/ mmal_vc_port_enable \/ mmal_vc_port_disable \/ mmal_port_flush
    \/ mmal_vc_port_connect \/ mmal_vc_port_flush
    \/ PortRequest \/ CreatePool \/ EnableAnswered \/ PortStep \/ DisableAnswered
    \/ DropPool \/ Drain \/ VersionKnown \/ Flushed \/ Connected

-----------------------------------------------------------------------------
(* mmal_vc_port_send() under the send lock, by S.                           *)

KeepSend == UNCHANGED <<fixed, clientVars, inuse, sem, dest, todo, up, en, act, pool, connected, compat,
                        cbq, held, arr, rx, bulkRx>>

Unsent == snd' = NotSending /\ slock' = Nobody

\* The core has taken the lock and seen the port enabled.
mmal_vc_port_send(b, bulk) ==
    /\ snd.pc = "none" /\ slock = Nobody /\ en /\ up["C"]
    /\ bulk => ~zeroCopy
    /\ slock' = "S" /\ home' = home \ {b}
    /\ snd' = [pc |-> "context", buf |-> b, bulk |-> bulk]
    /\ UNCHANGED <<ask, ctx, sent, zerolen, bulkLock, poolSem, msgs, bulks, nfail, broken>> /\ KeepSend

\* The context of the buffer; with has_pool left set it comes from a deleted pool.  The handles the
\* server gave are taken to be well formed: the returns for others (lines 633-643) leak the context.
AllocContext ==
    /\ snd.pc = "context"
    /\ \/ /\ pool = "none" /\ Unsent /\ home' = home \union {snd.buf}
          /\ UNCHANGED <<ctx, broken>>
       \/ /\ pool = "live" /\ ctx' = ctx \union {snd.buf}
          /\ snd' = [snd EXCEPT !.pc = IF zerolen THEN "bulklock" ELSE "version"]
          /\ UNCHANGED <<slock, home, broken>>
       \/ pool = "stale" /\ broken' = "pool" /\ UNCHANGED <<slock, home, ctx, snd>>
    /\ UNCHANGED <<ask, poolSem, sent, zerolen, bulkLock, msgs, bulks, nfail>> /\ KeepSend

\* The first sender asks for the version of the server.
SendVersion ==
    /\ snd.pc = "version"
    /\ \/ Ask("S", "version") /\ UNCHANGED <<snd, zerolen>>
       \/ /\ Answered("S") /\ zerolen' = TRUE
          /\ snd' = [snd EXCEPT !.pc = "bulklock"] /\ UNCHANGED <<bulkLock, poolSem>>
    /\ UNCHANGED <<slock, home, ctx, sent, msgs, bulks, nfail, broken>> /\ KeepSend

\* mmal_vc_send_message(): message and data in one order, under bulk_lock.
LockBulk ==
    /\ snd.pc = "bulklock"
    /\ sent' = (sent \/ snd.bulk)
    /\ snd' = [snd EXCEPT !.pc = "queue"]
    /\ IF snd.bulk THEN bulkLock = Nobody /\ bulkLock' = "S" ELSE UNCHANGED bulkLock
    /\ UNCHANGED <<ask, poolSem, slock, home, ctx, zerolen, msgs, bulks, nfail, broken>> /\ KeepSend

mmal_vc_send_message ==
    /\ snd.pc = "queue"
    /\ \/ /\ msgs' = Append(msgs, Message("S", "buffer", snd.buf, snd.bulk))
          /\ IF snd.bulk THEN snd' = [snd EXCEPT !.pc = "bulk"] /\ UNCHANGED slock ELSE Unsent
          /\ UNCHANGED <<home, ctx, bulkLock, nfail>>
       \/ /\ Fails /\ Unsent
          /\ ctx' = ctx \ {snd.buf} /\ home' = home \union {snd.buf}
          /\ bulkLock' = IF snd.bulk THEN Nobody ELSE bulkLock
          /\ UNCHANGED msgs
    /\ UNCHANGED <<ask, poolSem, sent, zerolen, bulks, broken>> /\ KeepSend

QueueBulk ==
    /\ snd.pc = "bulk" /\ Unsent
    /\ bulks' = Append(bulks, snd.buf) /\ bulkLock' = Nobody
    /\ UNCHANGED <<ask, poolSem, home, ctx, sent, zerolen, msgs, nfail, broken>> /\ KeepSend

Send ==
    \/ \E b \in home \ {Ev}, bulk \in BOOLEAN : mmal_vc_port_send(b, bulk)
    \/ AllocContext \/ SendVersion \/ LockBulk \/ mmal_vc_send_message \/ QueueBulk

-----------------------------------------------------------------------------
(* External: the server.  It takes the messages in order.                   *)

KeepServer == UNCHANGED <<fixed, clientVars, waitVars, bulkLock, ask, todo, up, portVars, bufVars,
                          broken>>

\* Buffers go back before a flush or a disable is answered, unless it is refused.
Cleared(m) ==
    /\ (m.id = "flush" \/ (m.id = "sync" /\ m.from = "C")) => held = {}
    /\ m.id = "disable" =>
          held = {} /\ arr = <<>> /\ bulkRx = <<>> /\ \A i \in DOMAIN rx : rx[i].id # "bulk"
Reply(m) ==
    \/ Cleared(m) /\ rx' = Append(rx, m) /\ UNCHANGED nfail
    \/ Fails /\ rx' = Append(rx, [m EXCEPT !.ok = FALSE])

ServerTakes ==
    /\ msgs # <<>> /\ msgs' = Tail(msgs)
    /\ LET m == Head(msgs) IN
       \/ m.bulk /\ arr' = Append(arr, m) /\ UNCHANGED <<held, rx, nfail>>
       \/ /\ ~m.bulk /\ m.id = "buffer" /\ held' = held \union {m.buf}
          /\ UNCHANGED <<arr, rx, nfail>>
       \/ ~m.bulk /\ m.id # "buffer" /\ Reply(m) /\ UNCHANGED <<held, arr>>
    /\ UNCHANGED <<bulks, bulkRx>> /\ KeepServer

DataArrives ==
    /\ arr # <<>> /\ bulks # <<>>
    /\ arr' = Tail(arr) /\ bulks' = Tail(bulks)
    /\ LET m == Head(arr) IN
       \/ m.id = "buffer" /\ held' = held \union {m.buf} /\ UNCHANGED <<rx, nfail>>
       \/ m.id = "sync" /\ Reply(m) /\ UNCHANGED held
    /\ UNCHANGED <<msgs, bulkRx>> /\ KeepServer

\* The data of a buffer comes in a transfer of its own, in the message, or not at all.
ServerReturns ==
    /\ \E b \in held, how \in {"plain", "bulk", "short"} :
          /\ how # "plain" => ~zeroCopy
          /\ held' = held \ {b}
          /\ rx' = Append(rx, [Message("S", how, b, FALSE) EXCEPT !.w = 0])
    /\ UNCHANGED <<msgs, bulks, arr, bulkRx, nfail>> /\ KeepServer

ServerEvent ==
    /\ events /\ en /\ \A i \in DOMAIN rx : rx[i].buf # Ev \/ rx[i].w # 0
    /\ \E how \in {"plain", "bulk"} :
          rx' = Append(rx, [Message("S", how, Ev, FALSE) EXCEPT !.w = 0])
    /\ UNCHANGED <<msgs, bulks, held, arr, bulkRx, nfail>> /\ KeepServer

Server == ServerTakes \/ DataArrives \/ ServerReturns \/ ServerEvent

-----------------------------------------------------------------------------
(* K, mmal_vc_vchiq_callback(), and A, which runs mmal_vc_do_callback().    *)

KeepClient == UNCHANGED <<fixed, clientVars, inuse, poolSem, bulkLock, ask, todo, up, en, slock, act,
                          pool, sent, connected, compat, zerolen, snd, msgs, bulks, held, arr>>

\* mmal_vc_port_send_callback() frees the context of a buffer and queues it, like
\* mmal_vc_port_send_event_callback().
Queue(b) == ctx' = ctx \ {b} /\ cbq' = Append(cbq, b)

WakeWaiter ==
    /\ rx # <<>> /\ Head(rx).w # 0 /\ rx' = Tail(rx)
    /\ LET m == Head(rx) IN
       /\ dest' = [dest EXCEPT ![m.w] = [id |-> m.id, from |-> m.from, ok |-> m.ok]]
       /\ sem' = [sem EXCEPT ![m.w] = @ + 1]
    /\ UNCHANGED <<ctx, home, cbq, bulkRx, nfail, broken>> /\ KeepClient

\* A message with short data is released before its callback looks at it again.
BufferToHost ==
    /\ rx # <<>> /\ Head(rx).w = 0 /\ Head(rx).buf # Ev /\ rx' = Tail(rx)
    /\ LET m == Head(rx) IN
       \/ m.id = "plain" /\ Queue(m.buf) /\ UNCHANGED <<bulkRx, nfail, broken>>
       \/ /\ m.id = "bulk"
          /\ \/ bulkRx' = Append(bulkRx, m.buf) /\ UNCHANGED <<ctx, cbq, nfail>>
             \/ Fails /\ Queue(m.buf) /\ UNCHANGED bulkRx
          /\ UNCHANGED broken
       \/ /\ m.id = "short"
          /\ \/ Queue(m.buf) /\ UNCHANGED broken
             \/ broken' = "message" /\ UNCHANGED <<ctx, cbq>>
          /\ UNCHANGED <<bulkRx, nfail>>
    /\ UNCHANGED <<sem, dest, home>> /\ KeepClient

\* An event for which there is no buffer is dropped.  The server is taken to send no event that is
\* larger than its buffer, and the component to have set the buffers up: the returns after these
\* assertions (mmal_vc_client.c:224-240) lose the buffer.
mmal_vc_handle_event_msg ==
    /\ rx # <<>> /\ Head(rx).w = 0 /\ Head(rx).buf = Ev /\ rx' = Tail(rx)
    /\ IF Ev \notin home THEN UNCHANGED <<ctx, home, cbq, bulkRx, nfail>>
       ELSE \/ /\ Head(rx).id = "plain" /\ Queue(Ev) /\ home' = home \ {Ev}
               /\ UNCHANGED <<bulkRx, nfail>>
            \/ /\ Head(rx).id = "bulk"
               /\ \/ /\ bulkRx' = Append(bulkRx, Ev) /\ home' = home \ {Ev}
                     /\ UNCHANGED nfail
                  \/ Fails /\ UNCHANGED <<bulkRx, home>>
               /\ UNCHANGED <<ctx, cbq>>
    /\ UNCHANGED <<sem, dest, broken>> /\ KeepClient

\* Done or aborted: an aborted transfer only marks the buffer.
BulkReceived ==
    /\ bulkRx # <<>> /\ bulkRx' = Tail(bulkRx) /\ Queue(Head(bulkRx))
    /\ UNCHANGED <<sem, dest, home, rx, nfail, broken>> /\ KeepClient

mmal_vc_vchiq_callback ==
    WakeWaiter \/ BufferToHost \/ mmal_vc_handle_event_msg \/ BulkReceived

mmal_vc_do_callback ==
    /\ act = Nobody /\ cbq # <<>>
    /\ home' = home \union {Head(cbq)} /\ cbq' = Tail(cbq)
    /\ UNCHANGED <<fixed, clientVars, waitVars, bulkLock, ask, todo, up, portVars, snd, vcVars,
                   nfail, broken>>

-----------------------------------------------------------------------------
Sane == broken = "no"

Next ==
    /\ Sane
    /\ \/ \E t \in Asker : mmal_vc_sendwait_message(t)
       \/ \E t \in {"C", "Q"} : Component(t)
       \/ OtherRequest \/ Port \/ Send \/ Server \/ mmal_vc_vchiq_callback \/ mmal_vc_do_callback

\* The threads run, the server answers, and a mutex is handed on in the end.
\* Nothing makes a thread begin a call, or the server send an event or fail.
ThreadC == todo["C"] # <<>> /\ (mmal_vc_sendwait_message("C") \/ Component("C") \/ Port)
ThreadQ == todo["Q"] # <<>> /\ (mmal_vc_sendwait_message("Q") \/ Component("Q"))
ThreadS == snd.pc # "none" /\ (mmal_vc_sendwait_message("S") \/ Send)
Fairness ==
    /\ SF_vars(Sane /\ ThreadC) /\ SF_vars(Sane /\ ThreadQ) /\ SF_vars(Sane /\ ThreadS)
    /\ WF_vars(Sane /\ (ServerTakes \/ ServerReturns)) /\ WF_vars(Sane /\ DataArrives)
    /\ WF_vars(Sane /\ mmal_vc_vchiq_callback) /\ WF_vars(Sane /\ mmal_vc_do_callback)

Spec == Init /\ [][Next]_vars /\ Fairness

-----------------------------------------------------------------------------
\* Counts, locks and queues have their types, and nothing is in two queues.
TypeOK ==
    /\ refcount \in 0..2 /\ usecount \in Int /\ poolSem \in 0..MAX_WAITERS
    /\ \A w \in Waiters : sem[w] \in 0..1
    /\ bulkLock \in Asker \union {Nobody} /\ act \in {"C", Nobody}
    /\ slock \in {"C", "S", Nobody}
    /\ home \subseteq Buffers \union {Ev} /\ ctx \subseteq Buffers
    /\ ToSet(cbq) \intersect home = {} /\ held \intersect home = {}
    /\ pool \in {"none", "live", "stale"} /\ compat \in {"unknown", "yes", "no"}
    /\ broken \in {"no", "pool", "message"}

\* get_waiter() finds a waiter whenever the semaphore let it pass ("If this fails,
\* the semaphore is not working").
WaiterFound == \A t \in Asker : ask[t].pc = "pick" => \E w \in Waiters : ~inuse[w]

\* A reply that a thread gets is the reply to its own request.
OwnReply ==
    \A t \in Asker : ask[t].reply.id # "none" =>
        ask[t].reply.from = t /\ ask[t].reply.id = ask[t].msg

Tag(m) == IF m.id = "buffer" THEN m.buf ELSE m.from
Announced(k) == Len(arr) + Cardinality({j \in 1..k : msgs[j].bulk})

\* The n-th bulk transfer is the data of the n-th message that announces one, with
\* senders on several ports.
BulksMatch ==
    /\ Len(bulks) <= Announced(Len(msgs))
    /\ \A k \in DOMAIN arr : k <= Len(bulks) => bulks[k] = Tag(arr[k])
    /\ \A k \in DOMAIN msgs : msgs[k].bulk /\ Announced(k) <= Len(bulks) =>
                                   bulks[Announced(k)] = Tag(msgs[k])

\* While a component exists or a request is under way the client is open and the
\* service in use, unless a vchiq_use_service() that nobody checks has failed.
ServiceUsed ==
    \A t \in {"C", "Q"} :
        up[t] \/ ask[t].pc \in {"queue", "dummy", "wait"} => inited /\ (used \/ drift)

\* The pool of contexts is deleted with no context in use and never used after
\* that, unless a request or an allocation has failed.
PoolSafe == broken = "pool" => nfail > 0

\* After a flush that succeeds the server has no buffer that was sent before it: not
\* with a server that is too old, and not after a failure (the version may be unknown).
FlushComplete ==
    /\ todo["C"] = <<"unflush">> /\ ask["C"].pc = "none"
    /\ zeroCopy \/ ~sent \/ (newServer /\ nfail = 0)
    => held = {} /\ \A i \in DOMAIN (arr \o msgs) : (arr \o msgs)[i].id # "buffer"

\* Every call of C and Q returns: replies come, waiters and locks are given back,
\* and a disable gets its buffers.
CallsReturn == \A t \in {"C", "Q"} : todo[t] # <<>> ~> (todo[t] = <<>> \/ ~Sane)

\* A thread that asks gets a waiter, the service, and the reply to its own request.
RepliesRight == TypeOK /\ WaiterFound /\ OwnReply /\ ServiceUsed

\* Data stays with its message, does not outlast a flush, and has its context.
BulksRight == BulksMatch /\ FlushComplete /\ PoolSafe

-----------------------------------------------------------------------------
(* The inductive invariant of RepliesRight and BulksRight, in parts.        *)

PortSteps ==
    {"require", "enable", "after", "on", "pool", "off", "actlock", "disable", "drop", "drain",
     "unlock", "back", "sendlock", "flush?", "flush", "sync", "version", "unflush", "failed",
     "connect"}
RequestNames ==
    {"create", "info", "destroy", "param", "sync", "require", "enable", "after", "disable",
     "flush", "version", "connect"}
StepNames == PortSteps \cup {"init", "release", "use", "create", "alloc", "info", "destroy",
                             "deinit", "param"}
MessageNames == RequestNames \cup {"buffer", "plain", "bulk", "short"}

MessageOf == [id : MessageNames, from : Asker, w : 0..MAX_WAITERS, buf : Buffers \cup {Ev},
              bulk : BOOLEAN, ok : BOOLEAN]
ReplyOf   == [id : MessageNames, from : Asker, ok : BOOLEAN] \cup {NoReply}
AskOf     == [pc : {"none", "pick", "queue", "dummy", "wait", "failed", "give", "post", "done"},
              msg : RequestNames \cup {"none"}, w : 0..MAX_WAITERS, reply : ReplyOf]

Counts == refcount \in Int /\ usecount \in Int /\ poolSem \in Int /\ nfail \in Nat
Holders ==
    /\ bulkLock \in Asker \cup {Nobody} /\ slock \in {"C", "S", Nobody} /\ act \in {"C", Nobody}
    /\ pool \in {"none", "live", "stale"} /\ ctx \subseteq Buffers
    /\ compat \in {"unknown", "yes", "no"} /\ broken \in {"no", "pool", "message"}
Threads ==
    /\ up \in [{"C", "Q"} -> BOOLEAN]
    /\ snd \in [pc : {"none", "context", "version", "bulklock", "queue", "bulk"},
               buf : Buffers \cup {Ev}, bulk : BOOLEAN]
    /\ snd.pc # "none" => snd.buf \in Buffers
PlainInv == Counts /\ Holders /\ Threads
WaiterTypes ==
    /\ ask \in [Asker -> AskOf] /\ inuse \in [Waiters -> BOOLEAN] /\ sem \in [Waiters -> Int]
    /\ dest \in [Waiters -> ReplyOf]
QueueTypes ==
    /\ msgs \in Seq(MessageOf) /\ arr \in Seq(MessageOf) /\ rx \in Seq(MessageOf)
    /\ bulks \in Seq(Buffers \cup Asker) /\ bulkRx \in Seq(Buffers \cup {Ev})
    /\ cbq \in Seq(Buffers \cup {Ev}) /\ home \subseteq Buffers \cup {Ev} /\ held \subseteq Buffers

\* What is left of a call that creates or destroys a component.
LifeSteps ==
    {<<>>, Create, <<"release", "use", "create", "alloc", "info">>,
     <<"use", "create", "alloc", "info">>, <<"create", "alloc", "info">>, <<"alloc", "info">>,
     <<"info">>, Destroy, <<"release", "deinit">>, <<"deinit">>}

\* What is left of a call on C's port: a flush has the send lock and asks once, a pool is
\* dropped after the port is off and the server has been asked, and "on" is the end.
PortShaped(s) ==
    /\ s \in Seq(PortSteps)
    /\ \A j \in DOMAIN s :
          /\ s[j] \in {"off", "failed"} => j = 1
          /\ s[j] \in {"on", "unflush", "failed", "flush?", "back", "connect"} => j = Len(s)
          /\ s[j] = "disable" => j < Len(s) /\ s[j + 1] = "drop"
          /\ s[j] = "drop" /\ j > 1 => s[j - 1] = "disable"
          /\ s[j] = "sendlock" => j + 1 = Len(s) /\ s[j + 1] = "flush?"
          /\ s[j] = "flush?" /\ j > 1 => s[j - 1] = "sendlock"
          /\ s[j] \in {"flush", "sync", "version"} => j = 1 /\ Len(s) = 2 /\ s[2] = "unflush"
          /\ s[j] = "unflush" /\ j > 1 => s[1] \in {"flush", "sync", "version"}

TodoInv ==
    /\ todo \in [{"C", "Q"} -> Seq(StepNames)]
    /\ \A t \in {"C", "Q"} : ~up[t] => todo[t] \in LifeSteps
    /\ up["C"] => PortShaped(todo["C"])
    /\ up["Q"] => todo["Q"] \in {<<>>, <<"param">>, <<"sync">>}

\* A thread asks what its call is at, and S for the version before it sends.
AskInv ==
    /\ \A t \in Asker :
          /\ ask[t].pc = "none" <=> ask[t].msg = "none"
          /\ ask[t].pc = "none" => ask[t].w = 0
          /\ ask[t].pc \notin {"give", "post", "done"} => ask[t].reply = NoReply
          /\ ask[t].reply.id # "none" => ask[t].reply.from = t /\ ask[t].reply.id = ask[t].msg
    /\ \A t \in {"C", "Q"} : ask[t].pc # "none" => Is(t, ask[t].msg)
    /\ ask["S"].pc # "none" => snd.pc = "version" /\ ask["S"].msg = "version"
    /\ snd.pc # "none" => up["C"]

\* The references and the uses of the client are counted.
One(p)    == IF p THEN 1 ELSE 0
Opened(t) == up[t] \/ (todo[t] # <<>> /\ ~Is(t, "init"))
Uses(t)   == Opened(t) /\ ~Is(t, "use") /\ ~Is(t, "deinit")
UsesAsk(t) == ask[t].pc \in {"queue", "dummy", "wait", "failed"}

RefCount  == One(Opened("C")) + One(Opened("Q"))
UseCount  == One(Uses("C")) + One(Uses("Q")) + One(UsesAsk("C")) + One(UsesAsk("Q"))
                + One(UsesAsk("S"))

ClientInv ==
    /\ refcount = RefCount /\ (inited <=> refcount > 0)
    /\ ~drift => usecount >= UseCount
    /\ inited /\ ~drift /\ usecount > 0 => used

\* A waiter in use is that of one thread; the semaphore counts the others.
HasToken(t)  == ask[t].pc \notin {"none", "done"}
HasWaiter(t) == ask[t].pc \in {"queue", "dummy", "wait", "failed", "give"}

WaitInv ==
    /\ poolSem >= 0
    /\ poolSem + One(HasToken("C")) + One(HasToken("Q")) + One(HasToken("S")) = MAX_WAITERS
    /\ \A w \in Waiters : inuse[w] <=> \E t \in Asker : HasWaiter(t) /\ ask[t].w = w
    /\ \A t \in Asker : HasWaiter(t) => ask[t].w \in Waiters
    /\ \A s, t \in Asker : HasWaiter(s) /\ HasWaiter(t) /\ ask[s].w = ask[t].w => s = t

\* A buffer is in one place, and so is what a waiter waits for.
Tokens   == (Waiters \X {Ev}) \cup ({0} \X (Buffers \cup {Ev}))
Token(m) == <<m.w, m.buf>>
Carries(m) == m.w # 0 \/ m.buf # Ev        \* not a message of an event
Queued(place, q, x) ==
    /\ \A k \in DOMAIN q : Carries(q[k]) => Token(q[k]) \in Tokens /\ place[Token(q[k])] = x
    /\ \A j, k \in DOMAIN q : Carries(q[k]) /\ Token(q[j]) = Token(q[k]) => j = k
InLine(place, q, x) ==
    /\ \A k \in DOMAIN q : place[<<0, q[k]>>] = x
    /\ \A j, k \in DOMAIN q : q[j] = q[k] => j = k

Out(t) == ask[t].pc \in {"dummy", "wait"}
Places == {"none", "home", "snd", "msgs", "arr", "held", "rx", "bulkRx", "cbq", "dest"}
BuffersPlaced(place) ==
    /\ Queued(place, msgs, "msgs") /\ Queued(place, arr, "arr") /\ Queued(place, rx, "rx")
    /\ InLine(place, bulkRx, "bulkRx") /\ InLine(place, cbq, "cbq")
    /\ \A b \in home : place[<<0, b>>] = "home"
    /\ \A b \in held : place[<<0, b>>] = "held"
    /\ snd.pc \in {"context", "version", "bulklock", "queue"} => place[<<0, snd.buf>>] = "snd"
    /\ \A b \in ctx : place[<<0, b>>] \notin {"home", "cbq"}
    /\ snd.pc = "context" => snd.buf \notin ctx
WaitersPlaced(place) ==
    \A w \in Waiters :
          /\ sem[w] = IF place[<<w, Ev>>] = "dest" THEN 1 ELSE 0
          /\ place[<<w, Ev>>] # "none" => \E t \in Asker : Out(t) /\ ask[t].w = w
PlaceInv == \E place \in [Tokens -> Places] : BuffersPlaced(place) /\ WaitersPlaced(place)

\* What is on its way is what was asked, and buffers.
RightRequest(m) ==
    /\ m.w # 0 => /\ Out(m.from) /\ ask[m.from].w = m.w /\ ask[m.from].msg = m.id
                  /\ (m.bulk <=> m.id = "sync")
    /\ ~m.ok => nfail > 0
MessageInv ==
    /\ \A k \in DOMAIN msgs :
          /\ RightRequest(msgs[k]) /\ msgs[k].ok /\ (msgs[k].w = 0 <=> msgs[k].id = "buffer")
          /\ msgs[k].w = 0 <=> msgs[k].buf # Ev
    /\ \A k \in DOMAIN arr :
          /\ RightRequest(arr[k]) /\ arr[k].ok /\ arr[k].bulk
          /\ arr[k].id = IF arr[k].w = 0 THEN "buffer" ELSE "sync"
          /\ arr[k].w = 0 <=> arr[k].buf # Ev
    /\ \A k \in DOMAIN rx : RightRequest(rx[k]) /\ (rx[k].w = 0 <=> rx[k].id \notin RequestNames)
    /\ \A w \in Waiters : sem[w] > 0 =>
          /\ dest[w].from \in Asker /\ Out(dest[w].from) /\ ask[dest[w].from].w = w
          /\ ask[dest[w].from].msg = dest[w].id /\ (~dest[w].ok => nfail > 0)
    /\ \A t \in Asker : ask[t].pc \in {"failed", "give", "post", "done"} /\ ~ask[t].reply.ok => nfail > 0

\* The locks are held from where they are taken to where they are given back.
FlushSteps == {"flush?", "flush", "sync", "version", "unflush", "failed"}
Flushing   == up["C"] /\ todo["C"] # <<>> /\ Head(todo["C"]) \in FlushSteps
SendLocked == (snd.pc # "none" <=> slock = "S") /\ (Flushing <=> slock = "C")
BulkLocked ==
    /\ \A t \in Asker : ask[t].pc \in {"pick", "queue", "dummy"} /\ ask[t].msg = "sync" => bulkLock = t
    /\ \A t \in Asker : ask[t].pc = "dummy" => ask[t].msg = "sync"
    /\ snd.bulk /\ snd.pc \in {"queue", "bulk"} => bulkLock = "S"
    /\ snd.pc = "bulk" => snd.bulk
LockInv == SendLocked /\ BulkLocked

\* Messages: requests of C, those that are not refused, buffers, and what is no reply.
OfC  == {m \in MessageOf : m.w # 0 /\ m.from = "C"}
OkC  == {m \in OfC : m.ok}
Buf  == {m \in MessageOf : m.id = "buffer"}
BulkBuf == {m \in Buf : m.bulk}
Back == {m \in MessageOf : m.w = 0}
NoneOf(q, B) == \A k \in DOMAIN q : q[k] \notin B
NoneAfter(q, A, B) == \A j, k \in DOMAIN q : q[k] \in A /\ q[j] \in B => j <= k
ServerEmpty == held = {} /\ NoneOf(arr, Buf) /\ NoneOf(msgs, Buf)

\* Nothing is sent behind a flush or a disable of C.
BehindInv ==
    /\ zeroCopy \/ ~sent => /\ NoneOf(arr, Buf) /\ (snd.pc \in {"queue", "bulk"} => ~snd.bulk)
                            /\ NoneOf(msgs, BulkBuf)
    /\ zeroCopy => ~snd.bulk
    /\ compat = "no" => ~newServer \/ nfail > 0
    /\ ask["C"].msg \in {"flush", "sync", "disable"} => NoneAfter(msgs, OfC, Buf)
    /\ NoneAfter(arr, OfC, Buf)
    /\ NoneOf(arr, OfC) \/ NoneOf(msgs, Buf)

\* C's waiter, or C itself, has got the server's consent.
Accepted ==
    ask["C"].reply.ok \/ \E w \in Waiters : sem[w] > 0 /\ dest[w].from = "C" /\ dest[w].ok

\* A flush that the server has answered is complete, unless it was too old.
Promised == zeroCopy \/ ~sent \/ (newServer /\ nfail = 0)
FlushInv ==
    Promised =>
        /\ Is("C", "flush") => zeroCopy \/ ~sent
        /\ Is("C", "flush") \/ Is("C", "sync") =>
              (NoneOf(rx, OkC) /\ ~Accepted) \/ ServerEmpty
        /\ Is("C", "unflush") => ServerEmpty

\* A context is that of a buffer on its way: a disable that the server has answered has
\* them all back.
Of(b) == {m \in Back : m.buf = b}
Gone(b) ==
    /\ NoneOf(msgs, Of(b)) /\ NoneOf(arr, Of(b)) /\ b \notin held /\ NoneOf(rx, Of(b))
    /\ NoneOf(bulkRx, {b})
ContextInv ==
    Sane => \A b \in ctx :
        Gone(b) => snd.pc \in {"version", "bulklock", "queue"} /\ snd.buf = b
Down == up["C"] /\ (\E k \in DOMAIN todo["C"] : todo["C"][k] = "drop") /\ ~Is("C", "off")
Returned == ServerEmpty /\ bulkRx = <<>> /\ NoneOf(rx, {m \in MessageOf : m.id = "bulk"})
DisableInv ==
    /\ Down => ~en /\ snd.pc = "none"
    /\ Is("C", "disable") =>
          /\ NoneAfter(rx, OkC, Back) /\ (NoneOf(rx, OkC) \/ Returned)
          /\ Accepted => ctx = {}
    /\ Is("C", "drop") /\ nfail = 0 => ctx = {}
    /\ pool = "stale" => nfail > 0
    /\ broken = "pool" => nfail > 0

\* The n-th bulk transfer is that of the n-th message that announces one, and at most one
\* of these is still without: that of the thread that holds bulk_lock.
Line == IF snd.pc = "bulk" THEN Append(bulks, snd.buf)
        ELSE IF ask["C"].pc = "dummy" THEN Append(bulks, "C")
        ELSE IF ask["Q"].pc = "dummy" THEN Append(bulks, "Q") ELSE bulks
BulkInv ==
    /\ Announced(Len(msgs)) = Len(Line)
    /\ \A k \in DOMAIN arr : Line[k] = Tag(arr[k])
    /\ \A k \in DOMAIN msgs : msgs[k].bulk => Line[Announced(k)] = Tag(msgs[k])

RepliesInv ==
    /\ PlainInv /\ WaiterTypes /\ QueueTypes /\ TodoInv /\ AskInv /\ ClientInv /\ WaitInv
    /\ PlaceInv /\ MessageInv
IndInv ==
    /\ RepliesInv
    /\ LockInv /\ BehindInv /\ FlushInv /\ ContextInv /\ DisableInv /\ BulkInv

=============================================================================
