-------------------------------- MODULE Mmal --------------------------------
(***************************************************************************)
(* The core of MMAL: the output port O of component A feeds the input port *)
(* I of component B with buffer headers of one pool.  The connection is    *)
(* either tunnelled (mmal_port_connect: the core hands the buffers on in   *)
(* the callbacks of the ports) or driven by the worker thread of a graph   *)
(* (mmal_connection and mmal_graph: a queue between the two ports).        *)
(*                                                                         *)
(* Threads: the action thread of A and a thread of B, which hand buffers   *)
(* back through the callback of their port; the worker W of the graph; and *)
(* the thread that is inside an API call (enable, disable, flush, component*)
(* enable and disable, release), C: the client, or W when it reconfigures  *)
(* the connection.  The client makes one call at a time.                   *)
(*                                                                         *)
(* A critical section (the send lock, the queue lock, the transit lock) is *)
(* one step.  The action mutex, which is held while callbacks run, and the *)
(* lock of port O, held while a port is being disabled, are kept.  What a  *)
(* component does inside pf_send, pf_disable and pf_flush is external: it  *)
(* keeps the buffers in order and returns them through the callback; a     *)
(* call of it may fail.  A buffer header whose next pointer is left behind *)
(* by mmal_queue_get() is in linked.                                       *)
(***************************************************************************)
EXTENDS Integers, Sequences, FiniteSets, SequencesExt

CONSTANTS
    Buffers,    \* the headers of the pool
    Ev,         \* the header of a format-changed event, of A's event pool
    MaxFail     \* bound: calls into a component, or of malloc(), that fail, but for
                \* the ones of an error path

ASSUME MmalAssumption == IsFiniteSet(Buffers) /\ Ev \notin Buffers /\ MaxFail \in Nat

Ports == {"O", "I"}
Owner(p) == IF p = "O" THEN "A" ELSE "B"
Nobody == "nobody"

VARIABLES
    tunnel,     \* MMAL_CONNECTION_FLAG_TUNNELLING
    poolPort,   \* the port whose payloads the pool uses, and that knows the pool
    en, paused, \* is_enabled and is_paused of each port
    iq,         \* queue_first: buffers sent to a paused port
    comp,       \* the buffers inside the component, by port
    transit,    \* transit_buffer_headers
    cb,         \* is buffer_header_callback set?
    plock,      \* the holder of the lock of port O
    slock,      \* the holder of the send lock of each port, during a flush
    act,        \* the holder of the action mutex of A; B has no action
    compEn,     \* is a component "on", "off", or "half": enabled and said not to be
    hdr,        \* the headers of the pool ({}: no pool, or an empty one)
    poolq,      \* the queue of the pool
    poolCb,     \* is mmal_port_connected_pool_cb set?
    connq,      \* the queue of the connection (graph)
    connEn,     \* is_enabled of the connection
    linked,     \* headers outside a queue whose next is not NULL
    evRef,      \* refcount of Ev; 0: in the event pool
    th,         \* the callback each of A, B, C is running
    todo,       \* the rest of the API call under way
    ret,        \* buffers that C has still to hand back by callback
    recover,    \* is the call in the error path of mmal_port_enable()?
    w, again,   \* the worker of the graph, run_again
    sema, stop, \* its semaphore and stop_thread
    quit,       \* release of the component and of the connection
    refPorts,   \* refcount_ports of the component of poolPort
    pending,    \* destruction_pending
    destroyed,  \* how often the component was destroyed
    nfail,      \* calls that failed (bound)
    broken      \* "no", or what made the rest undefined

portVars == <<en, paused, iq, comp, transit, cb>>
lockVars == <<plock, slock, act>>
poolVars == <<hdr, poolq, poolCb, linked>>
connVars == <<connq, connEn>>
callVars == <<todo, ret, recover>>
workVars == <<w, again, sema, stop>>
lifeVars == <<quit, refPorts, pending, destroyed>>
fixed    == <<tunnel, poolPort>>
vars == <<fixed, portVars, lockVars, compEn, poolVars, connVars, evRef, th,
          callVars, workVars, lifeVars, nfail, broken>>

Idle == [pc |-> "idle", port |-> "O", buf |-> Ev, counted |-> FALSE]
Off  == [pc |-> "none", buf |-> Ev]
Seq0 == [p \in Ports |-> <<>>]
None == [p \in Ports |-> FALSE]

\* After mmal_connection_create(): formats agreed, ports connected (tunnel) or
\* an empty pool and a queue (graph); the components are enabled.
Init ==
    /\ tunnel \in BOOLEAN /\ poolPort \in Ports
    /\ ~tunnel => poolPort = "O"        \* where it makes no difference
    /\ en = None /\ paused = None /\ iq = Seq0 /\ comp = Seq0
    /\ transit = [p \in Ports |-> 0] /\ cb = None
    /\ plock = Nobody /\ slock = [p \in Ports |-> Nobody] /\ act = Nobody
    /\ compEn = [c \in {"A", "B"} |-> "on"]
    /\ hdr = {} /\ poolq = <<>> /\ poolCb = FALSE /\ linked = {}
    /\ connq = <<>> /\ connEn = FALSE /\ evRef = 0
    /\ th = [t \in {"A", "B", "C"} |-> Idle]
    /\ todo = <<>> /\ ret = <<>> /\ recover = FALSE
    /\ w = Off /\ again = FALSE /\ sema = 0 /\ stop = FALSE
    /\ quit = "no" /\ refPorts = 0 /\ pending = FALSE /\ destroyed = 0
    /\ nfail = 0 /\ broken = "no"

Fails == nfail < MaxFail /\ nfail' = nfail + 1

-----------------------------------------------------------------------------
(* Queues: mmal_queue_put() ends the list at the buffer, mmal_queue_get()   *)
(* leaves the buffer pointing at the one behind it.                         *)

LinkAfterGet(q) ==
    IF Len(q) > 1 THEN linked \cup {Head(q)} ELSE linked \ {Head(q)}

PoolPut(b) == poolq' = Append(poolq, b) /\ linked' = linked \ {b}

mmal_queue_put_back(b) == poolq' = <<b>> \o poolq /\ UNCHANGED linked

\* The walk over the internal queue of a port leaves all but the last linked.
\* It runs on into other buffers if the last still has a pointer of its own:
\* nothing is said of what follows.
LinkAfterWalk(q) == linked \cup Range(Front(q))
Walk(q) ==
    /\ linked' = IF q = <<>> THEN linked ELSE LinkAfterWalk(q)
    /\ broken' = IF q # <<>> /\ Last(q) \in linked THEN "link" ELSE broken

-----------------------------------------------------------------------------
(* mmal_port_send_buffer().  A paused port links the buffer to the end of   *)
(* its queue as it is, with the next pointer that was left in it.           *)

SendOk(p, b) ==
    /\ en[p] /\ slock[p] = Nobody
    /\ transit' = [transit EXCEPT ![p] = @ + 1]
    /\ IF paused[p]
       THEN iq' = [iq EXCEPT ![p] = Append(@, b)] /\ UNCHANGED comp
       ELSE comp' = [comp EXCEPT ![p] = Append(@, b)] /\ UNCHANGED iq
    /\ UNCHANGED <<en, paused, cb, nfail, broken>>

SendFails(p) ==
    /\ slock[p] = Nobody
    /\ \/ ~en[p] /\ UNCHANGED nfail
       \/ en[p] /\ ~paused[p] /\ Fails
    /\ UNCHANGED <<portVars, broken>>

-----------------------------------------------------------------------------
(* mmal_port_buffer_header_callback(), run by A, B or C.                    *)

Callback(p, b) == [pc |-> "cb", port |-> p, buf |-> b, counted |-> TRUE]

At(t, pc) == th' = [th EXCEPT ![t].pc = pc]
\* The buffer is somewhere else; the count is still to be taken back.
Gone(t) == th' = [th EXCEPT ![t].pc = "dec", ![t].buf = Ev]

\* The action mutex is held until pf_action has returned.
Finish(t) ==
    /\ th' = [th EXCEPT ![t] = Idle]
    /\ act' = IF t = "A" THEN Nobody ELSE act

\* A: pf_action takes the next buffer that the component is done with.  B: its
\* own thread does (it has not registered an action), and still does so for a port
\* that is being disabled when the component is.
mmal_component_action_thread_func(t) ==
    LET p == IF t = "A" THEN "O" ELSE "I" IN
    /\ th[t].pc = "idle" /\ (t = "A" => act = Nobody)
    /\ compEn[t] # "off" \/ (t = "B" /\ ~en["I"])
    /\ comp[p] # <<>>
    /\ act' = IF t = "A" THEN "A" ELSE act
    /\ comp' = [comp EXCEPT ![p] = Tail(@)]
    /\ th' = [th EXCEPT ![t] = Callback(p, Head(comp[p]))]
    /\ UNCHANGED <<fixed, en, paused, iq, transit, cb, plock, slock, compEn, poolVars,
                   connVars, evRef, callVars, workVars, lifeVars, nfail, broken>>

\* C hands back the next of the buffers it took from the component or from the
\* internal queue.
HandBack ==
    /\ th["C"].pc = "idle" /\ ret # <<>>
    /\ th' = [th EXCEPT !["C"] = Callback(Head(todo)[2], Head(ret))]
    /\ ret' = Tail(ret)
    /\ UNCHANGED <<fixed, portVars, lockVars, compEn, poolVars, connVars, evRef,
                   todo, recover, workVars, lifeVars, nfail, broken>>

\* mmal_port_connected_input_cb() and mmal_connection_bh_in_cb() release.
connected_input_cb(t) ==
    /\ th[t].pc = "cb" /\ th[t].port = "I"
    /\ At(t, "rel")
    /\ UNCHANGED <<fixed, portVars, lockVars, compEn, poolVars, connVars, evRef,
                   callVars, workVars, lifeVars, nfail, broken>>

\* is_enabled is read without the lock: a disabled port is being flushed.
mmal_port_connected_output_cb(t) ==
    /\ th[t].pc = "cb" /\ th[t].port = "O" /\ tunnel
    /\ At(t, IF en["O"] THEN "send" ELSE "rel")
    /\ UNCHANGED <<fixed, portVars, lockVars, compEn, poolVars, connVars, evRef,
                   callVars, workVars, lifeVars, nfail, broken>>

Post == sema' = IF sema < 2 THEN sema + 1 ELSE sema

\* Queued for the worker, and the semaphore of the graph is posted.
mmal_connection_bh_out_cb(t) ==
    /\ th[t].pc = "cb" /\ th[t].port = "O" /\ ~tunnel
    /\ connq' = Append(connq, th[t].buf)
    /\ linked' = linked \ {th[t].buf}
    /\ Post
    /\ Gone(t)
    /\ UNCHANGED <<fixed, portVars, lockVars, compEn, hdr, poolq, poolCb, connEn,
                   evRef, callVars, w, again, stop, lifeVars, nfail, broken>>

\* The buffer, or the event, goes on to the connected port.
Forward(t) ==
    /\ th[t].pc = "send"
    /\ \/ SendOk("I", th[t].buf) /\ Gone(t)
       \/ SendFails("I") /\ At(t, "rel")
    /\ UNCHANGED <<fixed, lockVars, compEn, poolVars, connVars, evRef, callVars,
                   workVars, lifeVars>>

\* mmal_buffer_header_release() of the last reference: the header goes to
\* mmal_pool_buffer_header_release(), which reads the callback of the pool.
mmal_buffer_header_release(t) ==
    /\ th[t].pc = "rel"
    /\ \/ /\ th[t].buf = Ev
          /\ evRef' = evRef - 1 /\ Gone(t)
          /\ UNCHANGED <<poolq, linked, sema>>
       \/ /\ th[t].buf # Ev /\ tunnel /\ poolCb
          /\ At(t, "pcb") /\ UNCHANGED <<poolq, linked, sema, evRef>>
       \/ /\ th[t].buf # Ev /\ tunnel /\ ~poolCb
          /\ PoolPut(th[t].buf) /\ Gone(t) /\ UNCHANGED <<sema, evRef>>
       \/ /\ th[t].buf # Ev /\ ~tunnel      \* mmal_connection_bh_release_cb
          /\ PoolPut(th[t].buf) /\ Post /\ Gone(t) /\ UNCHANGED evRef
    /\ UNCHANGED <<fixed, portVars, lockVars, compEn, hdr, poolCb, connVars,
                   callVars, w, again, stop, lifeVars, nfail, broken>>

\* Back to the output port, or to the queue of the pool if that refuses it.
mmal_port_connected_pool_cb(t) ==
    /\ th[t].pc = "pcb"
    /\ \/ SendOk("O", th[t].buf) /\ UNCHANGED <<poolq, linked>>
       \/ SendFails("O") /\ PoolPut(th[t].buf)
    /\ Gone(t)
    /\ UNCHANGED <<fixed, lockVars, compEn, hdr, poolCb, connVars, evRef, callVars,
                   workVars, lifeVars>>

\* Mutant of mmal_port_buffer_header_callback: the count is not taken back.
mmal_port_buffer_header_callback_Late(t) ==
    /\ th[t].pc = "dec" /\ Finish(t)
    /\ UNCHANGED <<fixed, portVars, plock, slock, compEn, poolVars, connVars, evRef,
                   callVars, workVars, lifeVars, nfail, broken>>

\* IN_TRANSIT_DECREMENT after the callback.  An event of A was never in transit
\* at O: mmal_port_event_send() does not count.
mmal_port_buffer_header_callback(t) ==
    /\ th[t].pc = "dec"
    /\ transit' = IF th[t].counted THEN [transit EXCEPT ![th[t].port] = @ - 1]
                  ELSE transit
    /\ Finish(t)
    /\ UNCHANGED <<fixed, en, paused, iq, comp, cb, plock, slock, compEn, poolVars,
                   connVars, evRef, callVars, workVars, lifeVars, nfail, broken>>

\* pf_action of A finds that the format of its output has changed (it does so
\* between two buffers, so the callback is set) and sends the event.
mmal_port_event_send ==
    /\ th["A"].pc = "idle" /\ act = Nobody /\ compEn["A"] # "off"
    /\ comp["O"] # <<>> /\ evRef = 0
    /\ act' = "A"
    /\ th' = [th EXCEPT !["A"] = [pc |-> IF tunnel THEN "commit" ELSE "cb",
                                  port |-> "O", buf |-> Ev, counted |-> FALSE]]
    /\ evRef' = 1 /\ linked' = linked \cup {Ev}
    /\ UNCHANGED <<fixed, portVars, plock, slock, compEn, hdr, poolq, poolCb, connVars,
                   callVars, workVars, lifeVars, nfail, broken>>

\* mmal_port_format_commit() takes the lock of the port; pf_set_format may fail.
mmal_port_format_commit ==
    /\ th["A"].pc = "commit" /\ plock = Nobody
    /\ \/ At("A", "send") /\ UNCHANGED nfail
       \/ At("A", "rel") /\ Fails
    /\ UNCHANGED <<fixed, portVars, lockVars, compEn, poolVars, connVars, evRef,
                   callVars, workVars, lifeVars, broken>>

-----------------------------------------------------------------------------
(* API calls.  A call is the list of the steps it has still to do.          *)

Step(s, p) == <<<<s, p>>>>
disable_internal(p) ==
    Step("off", p) \o Step("pf_disable", p) \o Step("unlock", p)
        \o Step("flushq", p) \o Step("wait", p)

\* Output first, input last, then the connection.
mmal_port_disable == disable_internal("O") \o disable_internal("I") \o Step("destroy", "O")

\* mmal_port_enable(out): connection_enable, input first, output last,
\* connection_start.
mmal_port_enable ==
    Step("pool", "O") \o Step("on", "I") \o Step("on", "O")
        \o FlattenSeq([i \in 1..Cardinality(Buffers) |-> Step("populate", "O")])

\* Its error path; called on out, the connected port is the input.
EnableFailed == disable_internal("I") \o disable_internal("O") \o Step("destroy", "O")

mmal_connection_enable ==
    IF tunnel THEN mmal_port_enable
    ELSE Step("resize", "O") \o Step("on", "O") \o Step("on", "I")

\* The flush of the queue asserts that all the headers are back.
mmal_connection_disable ==
    IF tunnel THEN mmal_port_disable
    ELSE disable_internal("I") \o disable_internal("O") \o Step("drain", "O")

\* Nothing to lock where no action is registered.
mmal_component_action_lock(p) == p = "O" => act = Nobody

Doing(s, p) ==
    /\ todo # <<>> /\ Head(todo) = <<s, p>> /\ th["C"].pc = "idle" /\ ret = <<>>

\* The call goes on, ends with an error, or goes into its error path.
GoOn == todo' = Tail(todo) /\ UNCHANGED recover
Fail == todo' = <<>> /\ recover' = FALSE
FailEnable == todo' = EnableFailed /\ recover' = TRUE

\* mmal_pool_create(): all the headers, or nothing.
PoolCreate ==
    /\ Doing("pool", "O")
    /\ \/ /\ hdr' = Buffers /\ poolq' = SetToSeq(Buffers) /\ poolCb' = TRUE
          /\ linked' = linked \ Buffers
          /\ GoOn /\ UNCHANGED nfail
       \/ Fails /\ Fail /\ UNCHANGED <<hdr, poolq, poolCb, linked>>
    /\ UNCHANGED <<fixed, portVars, lockVars, compEn, connVars, evRef, th, ret,
                   workVars, lifeVars, broken>>

\* mmal_pool_resize(): nothing to do, new payloads (an allocation that fails
\* leaves fewer headers, and success), or no memory for the headers.  It takes
\* for granted that no header is out.
mmal_pool_resize ==
    /\ Doing("resize", "O")
    /\ \/ hdr # {} /\ GoOn /\ UNCHANGED <<hdr, poolq, linked, nfail, broken>>
       \/ /\ \/ hdr' = Buffers /\ GoOn /\ UNCHANGED nfail
             \/ hdr' \in SUBSET Buffers \ {Buffers} /\ Fails /\ GoOn
             \/ hdr' = {} /\ Fails /\ Fail
          /\ poolq' = SetToSeq(hdr')
          /\ linked' = linked \ Buffers
          /\ broken' = IF Range(poolq) # hdr THEN "freed" ELSE broken
    /\ UNCHANGED <<fixed, portVars, lockVars, compEn, poolCb, connVars, evRef, th,
                   ret, workVars, lifeVars>>

\* mmal_port_enable_internal(): the callback is set before pf_enable is called.
\* Without a tunnel mmal_port_enable() refuses a port that is enabled, and
\* mmal_connection_enable() disables the output if the input fails.
mmal_port_enable_internal(p) ==
    /\ Doing("on", p)
    /\ cb' = [cb EXCEPT ![p] = TRUE]
    /\ \/ /\ tunnel \/ ~en[p]
          /\ en' = [en EXCEPT ![p] = TRUE] /\ GoOn /\ UNCHANGED nfail
          /\ connEn' = (~tunnel /\ p = "I")
       \/ /\ IF en[p] THEN ~tunnel /\ UNCHANGED nfail ELSE Fails
          /\ UNCHANGED <<en, connEn>>
          /\ IF tunnel THEN FailEnable
             ELSE IF p = "I" THEN todo' = disable_internal("O") /\ recover' = TRUE
             ELSE Fail
    /\ UNCHANGED <<fixed, paused, iq, comp, transit, lockVars, compEn, poolVars,
                   connq, evRef, th, ret, workVars, lifeVars, broken>>

\* mmal_port_populate_from_pool(), from the pool just made.  If the port refuses
\* a buffer the connection is not started: C releases it, and disables again.
Populate ==
    /\ Doing("populate", "O")
    /\ poolq' = Tail(poolq) /\ linked' = LinkAfterGet(poolq)
    /\ LET b == Head(poolq) IN
       \/ /\ SendOk("O", b) /\ GoOn /\ UNCHANGED th
          /\ connEn' = (Len(todo) = 1)
       \/ /\ SendFails("O") /\ FailEnable /\ UNCHANGED connEn
          /\ th' = [th EXCEPT !["C"] = [pc |-> "rel", port |-> "O", buf |-> b,
                                        counted |-> FALSE]]
    /\ UNCHANGED <<fixed, lockVars, compEn, hdr, poolCb, connq, evRef, ret,
                   workVars, lifeVars>>

\* mmal_port_disable_internal(): nothing more refuses to be sent once the flag
\* is cleared; then the action mutex keeps the component out while pf_disable
\* returns its buffers.  A port that is disabled is skipped, but without a tunnel
\* mmal_port_disable() fails.
DisableOff(p) ==
    /\ Doing("off", p)
    /\ IF en[p]
       THEN /\ en' = [en EXCEPT ![p] = FALSE]
            /\ plock' = IF p = "O" THEN "C" ELSE plock
            /\ todo' = Tail(todo)
            /\ UNCHANGED recover
       ELSE /\ IF tunnel THEN todo' = SubSeq(todo, 6, Len(todo)) /\ UNCHANGED recover
               ELSE Fail
            /\ UNCHANGED <<en, plock>>
    /\ UNCHANGED <<fixed, paused, iq, comp, transit, cb, slock, act, compEn, poolVars,
                   connVars, evRef, th, ret, workVars, lifeVars, nfail, broken>>

\* Mutant of PfDisable: the action mutex is not taken.
PfDisable_NoLock(p) ==
    /\ Doing("pf_disable", p)
    /\ poolCb' = (poolCb /\ poolPort # p)
    /\ ret' = comp[p] /\ comp' = [comp EXCEPT ![p] = <<>>] /\ GoOn
    /\ UNCHANGED <<fixed, en, paused, iq, transit, cb, lockVars, compEn, hdr,
                   poolq, linked, connVars, evRef, th, workVars, lifeVars, nfail, broken>>

\* pf_disable of A hands the buffers back before it returns, B does so later.
\* If it fails the port is enabled again, but the pool has lost its callback; in
\* the error path of mmal_port_enable() the failure is ignored.
PfDisable(p) ==
    /\ Doing("pf_disable", p) /\ mmal_component_action_lock(p)
    /\ poolCb' = (poolCb /\ poolPort # p)
    /\ \/ /\ act' = IF p = "O" THEN "C" ELSE act
          /\ IF p = "O" THEN ret' = comp[p] /\ comp' = [comp EXCEPT ![p] = <<>>]
             ELSE UNCHANGED <<ret, comp>>
          /\ GoOn
          /\ UNCHANGED <<en, plock, nfail>>
       \/ /\ Fails \/ (recover /\ UNCHANGED nfail)
          /\ en' = [en EXCEPT ![p] = TRUE]
          /\ plock' = Nobody
          /\ IF recover THEN todo' = SubSeq(todo, 5, Len(todo)) /\ UNCHANGED recover
             ELSE Fail
          /\ UNCHANGED <<act, ret, comp>>
    /\ UNCHANGED <<fixed, paused, iq, transit, cb, slock, compEn, hdr, poolq, linked,
                   connVars, evRef, th, workVars, lifeVars, broken>>

DisableUnlock(p) ==
    /\ Doing("unlock", p)
    /\ act' = IF p = "O" THEN Nobody ELSE act
    /\ GoOn
    /\ UNCHANGED <<fixed, portVars, plock, slock, compEn, poolVars, connVars, evRef, th,
                   ret, workVars, lifeVars, nfail, broken>>

FlushQueue(p) ==
    /\ Doing("flushq", p)
    /\ ret' = iq[p] /\ iq' = [iq EXCEPT ![p] = <<>>]
    /\ Walk(iq[p])
    /\ GoOn
    /\ UNCHANGED <<fixed, en, paused, comp, transit, cb, lockVars, compEn, hdr, poolq,
                   poolCb, connVars, evRef, th, workVars, lifeVars, nfail>>

\* Mutant of TransitWait: the buffers in transit are not waited for.
TransitWait_No(p) ==
    /\ Doing("wait", p)
    /\ cb' = [cb EXCEPT ![p] = FALSE]
    /\ plock' = Nobody
    /\ GoOn
    /\ UNCHANGED <<fixed, en, paused, iq, comp, transit, slock, act, compEn, poolVars,
                   connVars, evRef, th, ret, workVars, lifeVars, nfail, broken>>

\* IN_TRANSIT_WAIT.
TransitWait(p) ==
    /\ Doing("wait", p) /\ transit[p] = 0
    /\ cb' = [cb EXCEPT ![p] = FALSE]
    /\ plock' = Nobody
    /\ IF Len(todo) = 1 THEN Fail ELSE GoOn    \* the end of an error path
    /\ UNCHANGED <<fixed, en, paused, iq, comp, transit, slock, act, compEn, poolVars,
                   connVars, evRef, th, ret, workVars, lifeVars, nfail, broken>>

\* mmal_port_connection_disable(): the pool is freed, wherever its headers are.
PoolDestroy ==
    /\ Doing("destroy", "O")
    /\ hdr' = {} /\ poolq' = <<>> /\ poolCb' = FALSE
    /\ broken' = IF Range(poolq) # hdr THEN "freed" ELSE broken
    /\ connEn' = FALSE
    /\ Fail
    /\ UNCHANGED <<fixed, portVars, lockVars, compEn, linked, connq, evRef, th, ret,
                   workVars, lifeVars, nfail>>

\* mmal_connection_disable() releases what the connection has queued.
Drain ==
    /\ Doing("drain", "O")
    /\ LET data == SelectSeq(connq, LAMBDA b : b # Ev) IN
       /\ poolq' = poolq \o data /\ linked' = linked \ Range(data)
       /\ evRef' = IF Len(data) < Len(connq) THEN evRef - 1 ELSE evRef
    /\ connq' = <<>> /\ connEn' = FALSE
    /\ GoOn
    /\ UNCHANGED <<fixed, portVars, lockVars, compEn, hdr, poolCb, th, ret, workVars,
                   lifeVars, nfail, broken>>

\* mmal_port_flush(): pf_flush returns the buffers of the component while the
\* action mutex and the send lock of the port are held.
PfFlush(p) ==
    /\ Doing("pf_flush", p) /\ mmal_component_action_lock(p)
    /\ \/ /\ act' = IF p = "O" THEN "C" ELSE act
          /\ slock' = [slock EXCEPT ![p] = "C"]
          /\ ret' = comp[p] /\ comp' = [comp EXCEPT ![p] = <<>>]
          /\ GoOn /\ UNCHANGED nfail
       \/ Fails /\ Fail /\ UNCHANGED <<act, slock, ret, comp>>
    /\ UNCHANGED <<fixed, en, paused, iq, transit, cb, plock, compEn, poolVars,
                   connVars, evRef, th, workVars, lifeVars, broken>>

UnlockFlush(p) ==
    /\ Doing("unflush", p)
    /\ act' = IF p = "O" THEN Nobody ELSE act
    /\ slock' = [slock EXCEPT ![p] = Nobody]
    /\ ret' = iq[p] /\ iq' = [iq EXCEPT ![p] = <<>>]
    /\ Walk(iq[p])
    /\ GoOn
    /\ UNCHANGED <<fixed, en, paused, comp, transit, cb, plock, compEn, hdr, poolq,
                   poolCb, connVars, evRef, th, workVars, lifeVars, nfail>>

Flushed(p) ==
    /\ Doing("flushed", p)
    /\ GoOn
    /\ UNCHANGED <<fixed, portVars, lockVars, compEn, poolVars, connVars, evRef, th, ret,
                   workVars, lifeVars, nfail, broken>>

mmal_port_flush(p) == Step("pf_flush", p) \o Step("unflush", p) \o Step("flushed", p)

\* The last step of mmal_graph_enable(): the worker is to fill the output port.
GraphPost ==
    /\ Doing("post", "O")
    /\ Post /\ GoOn
    /\ UNCHANGED <<fixed, portVars, lockVars, compEn, poolVars, connVars, evRef, th, ret,
                   w, again, stop, lifeVars, nfail, broken>>

CallStep ==
    \/ PoolCreate \/ mmal_pool_resize \/ Populate \/ PoolDestroy \/ Drain \/ GraphPost
    \/ HandBack
    \/ \E p \in Ports :
          \/ mmal_port_enable_internal(p) \/ DisableOff(p) \/ PfDisable(p)
          \/ DisableUnlock(p) \/ FlushQueue(p) \/ TransitWait(p)
          \/ PfFlush(p) \/ UnlockFlush(p) \/ Flushed(p)

-----------------------------------------------------------------------------
(* The client.                                                              *)

Reconfiguring == w.pc \in {"commit", "enable"}
Free == todo = <<>> /\ th["C"].pc = "idle" /\ quit = "no" /\ ~Reconfiguring
WorkerGone == w.pc \in {"none", "done"}

Call(steps) ==
    /\ todo' = steps
    /\ UNCHANGED <<fixed, portVars, lockVars, compEn, poolVars, connVars, evRef, th, ret,
                   recover, lifeVars, nfail, broken>>

\* mmal_connection_enable() and _disable() of a tunnelled connection.  A port
\* that is disabled refuses to be disabled.
ConnectionEnable ==
    Free /\ tunnel /\ ~connEn /\ ~en["O"] /\ Call(mmal_connection_enable) /\ UNCHANGED workVars
ConnectionDisable ==
    Free /\ tunnel /\ connEn /\ en["O"] /\ Call(mmal_connection_disable) /\ UNCHANGED workVars
Flush(p) ==
    Free /\ tunnel /\ Call(mmal_port_flush(p)) /\ UNCHANGED workVars

mmal_graph_enable ==
    /\ Free /\ ~tunnel /\ ~connEn /\ WorkerGone
    /\ w' = [pc |-> "wait", buf |-> Ev]
    /\ Call(mmal_connection_enable \o Step("post", "O"))
    /\ UNCHANGED <<again, sema, stop>>

\* graph_stop_worker_thread(): by mmal_graph_disable(), and by
\* mmal_graph_enable() when a connection could not be enabled.  stop_thread is
\* never cleared again.
graph_stop_worker_thread ==
    /\ Free \/ (Reconfiguring /\ quit = "no")
    /\ ~tunnel /\ ~WorkerGone /\ ~stop
    /\ stop' = TRUE /\ Post
    /\ UNCHANGED <<fixed, portVars, lockVars, compEn, poolVars, connVars, evRef, th,
                   callVars, w, again, lifeVars, nfail, broken>>

\* The worker has been joined.
mmal_graph_disable ==
    /\ Free /\ ~tunnel /\ stop /\ WorkerGone /\ connEn
    /\ Call(mmal_connection_disable) /\ UNCHANGED workVars

\* mmal_component_disable(): pf_disable, then the ports are paused.
mmal_component_disable(p) ==
    /\ Free /\ tunnel /\ compEn[Owner(p)] = "on"
    /\ \/ /\ compEn' = [compEn EXCEPT ![Owner(p)] = "off"]
          /\ paused' = [paused EXCEPT ![p] = TRUE] /\ UNCHANGED nfail
       \/ Fails /\ UNCHANGED <<compEn, paused>>
    /\ UNCHANGED <<fixed, en, iq, comp, transit, cb, lockVars, poolVars, connVars, evRef,
                   th, callVars, workVars, lifeVars, broken>>

\* mmal_component_enable(): pf_enable, then mmal_port_pause(FALSE) sends what
\* waited.  A buffer that cannot be sent stays, with those behind it, in the
\* queue of a port that stays paused.
mmal_component_enable(p) ==
    /\ Free /\ tunnel /\ compEn[Owner(p)] # "on"
    /\ LET q == IF en[p] THEN iq[p] ELSE <<>> IN
       \/ /\ comp' = [comp EXCEPT ![p] = @ \o q] /\ iq' = [iq EXCEPT ![p] = <<>>]
          /\ Walk(q)
          /\ paused' = [paused EXCEPT ![p] = FALSE]
          /\ compEn' = [compEn EXCEPT ![Owner(p)] = "on"]
          /\ UNCHANGED nfail
       \/ /\ Fails /\ UNCHANGED paused
          /\ \E k \in 0..(Len(q) - 1) :
                /\ comp' = [comp EXCEPT ![p] = @ \o SubSeq(q, 1, k)]
                /\ iq' = [iq EXCEPT ![p] = SubSeq(q, k + 1, Len(q))]
                /\ linked' = linked \cup Range(SubSeq(q, 1, k))
          /\ compEn' = [compEn EXCEPT ![Owner(p)] = "half"]
          /\ UNCHANGED broken
       \/ /\ Fails      \* pf_enable
          /\ UNCHANGED <<comp, iq, linked, paused, compEn, broken>>
    /\ UNCHANGED <<fixed, en, transit, cb, lockVars, hdr, poolq, poolCb, connVars, evRef,
                   th, callVars, workVars, lifeVars>>

Client ==
    \/ ConnectionEnable \/ ConnectionDisable \/ mmal_graph_enable
    \/ graph_stop_worker_thread \/ mmal_graph_disable
    \/ \E p \in Ports : Flush(p) \/ mmal_component_disable(p) \/ mmal_component_enable(p)

-----------------------------------------------------------------------------
(* The worker of the graph: graph_worker_thread(), graph_do_processing().   *)

Worker(pc) == w' = [pc |-> pc, buf |-> Ev]

WorkerWaits ==
    /\ w.pc = "wait" /\ sema > 0
    /\ sema' = sema - 1 /\ again' = FALSE
    /\ w' = [w EXCEPT !.pc = IF stop THEN "done" ELSE "move"]
    /\ UNCHANGED <<fixed, portVars, lockVars, compEn, poolVars, connVars, evRef, th,
                   callVars, stop, lifeVars, nfail, broken>>

\* The next buffer of the connection; with none, the empty buffers are next.
WorkerMoves ==
    /\ w.pc = "move"
    /\ IF connq = <<>>
       THEN Worker("fill") /\ UNCHANGED <<connq, linked, again>>
       ELSE /\ w' = [pc |-> IF Head(connq) = Ev THEN "event" ELSE "sendI",
                     buf |-> Head(connq)]
            /\ connq' = Tail(connq) /\ linked' = LinkAfterGet(connq) /\ again' = TRUE
    /\ UNCHANGED <<fixed, portVars, lockVars, compEn, hdr, poolq, poolCb, connEn, evRef,
                   th, callVars, sema, stop, lifeVars, nfail, broken>>

\* To the input; a buffer it refuses is released (and the release posts).
WorkerSends ==
    /\ w.pc = "sendI"
    /\ \/ SendOk("I", w.buf) /\ UNCHANGED <<poolq, linked, sema>>
       \/ SendFails("I") /\ PoolPut(w.buf) /\ Post
    /\ Worker("move")
    /\ UNCHANGED <<fixed, lockVars, compEn, hdr, poolCb, connVars, evRef, th, callVars,
                   again, stop, lifeVars>>

\* graph_port_event_handler() with mmal_connection_event_format_changed(): the
\* format is committed and the event goes on with a reference of its own, or
\* the connection has to be reconfigured.
EventForwarded ==
    /\ w.pc = "event"
    /\ \/ SendOk("I", Ev) /\ UNCHANGED evRef
       \/ SendFails("I") /\ evRef' = evRef - 1
       \/ Fails /\ evRef' = evRef - 1 /\ UNCHANGED <<portVars, broken>>
    /\ Worker("move")
    /\ UNCHANGED <<fixed, lockVars, compEn, poolVars, connVars, th, callVars,
                   again, sema, stop, lifeVars>>

ReconfigureStarts ==
    /\ w.pc = "event" /\ todo = <<>> /\ th["C"].pc = "idle"
    /\ w' = [w EXCEPT !.pc = "commit"]
    /\ todo' = IF connEn THEN mmal_connection_disable ELSE <<>>
    /\ UNCHANGED <<fixed, portVars, lockVars, compEn, poolVars, connVars, evRef, th, ret,
                   recover, again, sema, stop, lifeVars, nfail, broken>>

CallDone == todo = <<>> /\ th["C"].pc = "idle"

\* mmal_connection_reconfigure() once the connection is disabled: both formats
\* are committed and the connection is enabled again.
ReconfigureCommits ==
    /\ w.pc = "commit" /\ CallDone /\ ~connEn
    /\ w' = [w EXCEPT !.pc = "enable"]
    /\ todo' = mmal_connection_enable
    /\ UNCHANGED <<fixed, portVars, lockVars, compEn, poolVars, connVars, evRef, th, ret,
                   recover, again, sema, stop, lifeVars, nfail, broken>>

\* The end of it, well or not; the event is released.
ReconfigureEnds ==
    /\ CallDone
    /\ \/ w.pc = "commit" /\ connEn /\ UNCHANGED nfail
       \/ w.pc = "commit" /\ ~connEn /\ Fails
       \/ w.pc = "enable" /\ UNCHANGED nfail
    /\ Worker("move")
    /\ evRef' = evRef - 1
    /\ UNCHANGED <<fixed, portVars, lockVars, compEn, poolVars, connVars, th, callVars,
                   again, sema, stop, lifeVars, broken>>

\* An empty buffer for the output; with none, again or back to the semaphore.
WorkerFills ==
    /\ w.pc = "fill"
    /\ IF poolq = <<>>
       THEN /\ w' = [w EXCEPT !.pc = IF again THEN "move" ELSE "wait"]
            /\ again' = FALSE /\ UNCHANGED <<poolq, linked>>
       ELSE /\ w' = [pc |-> "sendO", buf |-> Head(poolq)]
            /\ poolq' = Tail(poolq) /\ linked' = LinkAfterGet(poolq) /\ again' = TRUE
    /\ UNCHANGED <<fixed, portVars, lockVars, compEn, hdr, poolCb, connVars, evRef, th,
                   callVars, sema, stop, lifeVars, nfail, broken>>

WorkerSendsEmpty ==
    /\ w.pc = "sendO"
    /\ \/ /\ SendOk("O", w.buf) /\ UNCHANGED <<poolq, linked, again>>
          /\ Worker("fill")
       \/ /\ SendFails("O") /\ mmal_queue_put_back(w.buf)
          /\ again' = FALSE /\ Worker("wait")
    /\ UNCHANGED <<fixed, lockVars, compEn, hdr, poolCb, connVars, evRef, th, callVars,
                   sema, stop, lifeVars>>

graph_do_processing ==
    \/ WorkerMoves \/ WorkerSends \/ EventForwarded \/ ReconfigureStarts
    \/ ReconfigureCommits \/ ReconfigureEnds \/ WorkerFills \/ WorkerSendsEmpty
graph_worker_thread == WorkerWaits \/ graph_do_processing

-----------------------------------------------------------------------------
(* The end: one thread drops the last reference of the component whose      *)
(* payloads the pool uses, another destroys the pool.                       *)

\* mmal_component_release(): the last reference.  Each payload holds the port.
mmal_component_release ==
    /\ Free /\ ~tunnel /\ WorkerGone /\ ~connEn /\ en = None
    /\ quit' = "ports" /\ pending' = TRUE /\ refPorts' = Cardinality(hdr)
    /\ UNCHANGED <<fixed, portVars, lockVars, compEn, poolVars, connVars, evRef, th,
                   callVars, workVars, destroyed, nfail, broken>>

\* The ports are disabled and disconnected: destroyed, or left to the pool.
mmal_component_destroy ==
    /\ quit = "ports"
    /\ quit' = "released"
    /\ IF refPorts > 0 THEN pending' = FALSE /\ UNCHANGED destroyed
       ELSE destroyed' = destroyed + 1 /\ UNCHANGED pending
    /\ UNCHANGED <<fixed, portVars, lockVars, compEn, poolVars, connVars, evRef, th,
                   callVars, workVars, refPorts, nfail, broken>>

\* mmal_pool_destroy() frees a payload, which releases the port.
mmal_port_release ==
    /\ quit # "no" /\ refPorts > 0
    /\ refPorts' = refPorts - 1
    /\ hdr' = hdr \ {Head(poolq)} /\ poolq' = Tail(poolq) /\ linked' = LinkAfterGet(poolq)
    /\ destroyed' = IF refPorts' = 0 /\ ~pending THEN destroyed + 1 ELSE destroyed
    /\ UNCHANGED <<fixed, portVars, lockVars, compEn, poolCb, connVars, evRef, th,
                   callVars, workVars, quit, pending, nfail, broken>>

-----------------------------------------------------------------------------

CallbackStep(t) ==
    \/ connected_input_cb(t) \/ mmal_port_connected_output_cb(t)
    \/ mmal_connection_bh_out_cb(t) \/ Forward(t) \/ mmal_buffer_header_release(t)
    \/ mmal_port_connected_pool_cb(t) \/ mmal_port_buffer_header_callback(t)

Life == mmal_component_release \/ mmal_component_destroy \/ mmal_port_release

Next ==
    /\ broken = "no"
    /\ \/ Client \/ CallStep \/ graph_worker_thread \/ Life
       \/ mmal_port_event_send \/ mmal_port_format_commit
       \/ \E t \in {"A", "B"} : mmal_component_action_thread_func(t)
       \/ \E t \in {"A", "B", "C"} : CallbackStep(t)

Spec == Init /\ [][Next]_vars

ThreadA ==
    mmal_component_action_thread_func("A") \/ mmal_port_format_commit \/ CallbackStep("A")
ThreadB == mmal_component_action_thread_func("B") \/ CallbackStep("B")
ThreadC == CallStep \/ CallbackStep("C")

\* Threads go on with what they have begun, and a mutex that is free again and
\* again is got in the end.  Nobody has to call, to send an event or to fail.
FairSpec ==
    /\ Spec
    /\ SF_vars(broken = "no" /\ ThreadA)
    /\ SF_vars(broken = "no" /\ ThreadB)
    /\ SF_vars(broken = "no" /\ ThreadC)
    /\ WF_vars(broken = "no" /\ graph_worker_thread)

-----------------------------------------------------------------------------
(* Properties.                                                              *)

Holding == {"cb", "send", "rel", "pcb", "commit"}
Mine(t) == IF th[t].pc \in Holding THEN <<th[t].buf>> ELSE <<>>
Workers == IF w.pc \in {"sendI", "sendO", "event", "commit", "enable"} THEN <<w.buf>> ELSE <<>>
Held == poolq \o connq \o iq["O"] \o iq["I"] \o comp["O"] \o comp["I"] \o ret
            \o Mine("A") \o Mine("B") \o Mine("C") \o Workers

\* Type correctness of the ports, the pool, the connection and the threads.
TypeOK ==
    /\ \A p \in Ports : transit[p] \in 0..Cardinality(Buffers) + 4
    /\ hdr \subseteq Buffers /\ Range(poolq) \subseteq hdr /\ linked \subseteq Buffers \cup {Ev}
    /\ evRef \in 0..1 /\ sema \in 0..2 /\ nfail \in 0..MaxFail
    /\ plock \in {Nobody, "C"} /\ \A p \in Ports : slock[p] \in {Nobody, "C"}
    /\ act \in {Nobody, "A", "C"} /\ \A c \in {"A", "B"} : compEn[c] \in {"on", "off", "half"}
    /\ refPorts \in 0..Cardinality(Buffers)
    /\ broken \in {"no", "link", "freed"}

\* Every header of the pool, and the event once it is sent, is in exactly one
\* place, whatever the threads, the failures, the flushes and the enabling and
\* disabling of ports and components do with it.
Conserved ==
    broken = "no" =>
        /\ IsInjective(Held)
        /\ Range(Held) = hdr \cup (IF evRef > 0 THEN {Ev} ELSE {})

\* The transit count of a port, on which disabling it waits, counts the buffers
\* that were sent to it and whose callback has not returned.
TransitCounts ==
    \A p \in Ports :
        transit[p] = Len(comp[p]) + Len(iq[p])
            + (IF todo # <<>> /\ Head(todo)[2] = p THEN Len(ret) ELSE 0)
            + Cardinality({t \in {"A", "B", "C"} :
                              th[t].pc # "idle" /\ th[t].counted /\ th[t].port = p})

\* No thread is in the callback of a port when mmal_port_disable_internal()
\* clears it; for the events, which are not counted, it is the action mutex
\* that sees to it.
CallbackSet ==
    \A t \in {"A", "B", "C"} : th[t].pc \in {"cb", "commit"} => cb[th[t].port]

\* When the pool of a connection is freed or resized, and when
\* mmal_connection_disable() asserts that the headers are back, they are: unless
\* a port refused to be disabled after another failed to be enabled.
HeadersHome ==
    todo # <<>> /\ broken = "no" =>
        /\ Head(todo)[1] \in {"destroy", "resize"} =>
              Range(poolq) = hdr \/ \E p \in Ports : en[p]
        /\ Head(todo)[1] = "destroy" /\ ~recover => Range(poolq) = hdr
        /\ Head(todo)[1] = "drain" => hdr \subseteq Range(poolq) \cup Range(connq)

\* The component is destroyed exactly once, by whoever comes last of the thread
\* that drops its last reference and the one that frees the payloads of its ports.
DestroyedOnce == destroyed = IF quit = "released" /\ refPorts = 0 THEN 1 ELSE 0

\* The deadlocks of the code: a format-changed event wants the lock of the port
\* from a thread that holds the action mutex, while mmal_port_disable() has them
\* the other way round; and a flush of O that hands a buffer back to O wants the
\* send lock it holds.
Stuck ==
    \/ /\ th["A"].pc = "commit" /\ plock = "C"
       /\ todo # <<>> /\ Head(todo) = <<"pf_disable", "O">>
    \/ th["C"].pc = "pcb" /\ slock["O"] = "C"

\* Apart from those two deadlocks every call returns: all the buffers that a
\* port waits for come back.
CallReturns == todo # <<>> ~> (CallDone \/ Stuck \/ broken # "no")

\* No header is lost or used twice, and pools and components go when nothing of
\* theirs is out.
HeadersKept == TypeOK /\ Conserved /\ HeadersHome /\ DestroyedOnce

\* What disabling a port waits for is right: it counts the buffers and nobody is left
\* in the callback.
TransitRight == TransitCounts /\ CallbackSet

=============================================================================
