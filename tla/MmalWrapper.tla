----------------------------- MODULE MmalWrapper -----------------------------
(***************************************************************************)
(* MMAL's wrapper of a component (util/mmal_component_wrapper.c), here of  *)
(* one with an input and an output port.  Each port has a pool; the output *)
(* port has a queue too.  Threads of the client get empty and full buffers *)
(* from these queues, and may wait for one: all of them on the same        *)
(* semaphore, which is posted once for each buffer that comes back and for *)
(* each error of the component.                                            *)
(*                                                                         *)
(* An operation of a queue, which has a lock, is one step; so is a read of *)
(* the status, which has none.  The component A is external: it keeps what *)
(* it is sent and hands it back by the callback of the port, from a thread *)
(* of its own or, while the port is being disabled, from the caller's.     *)
(* The client's duties: one thread enables, disables and destroys, the     *)
(* latter when no other call is under way and the client holds no buffer.  *)
(* The client's own callback, the statistics and the payloads are left     *)
(* out.                                                                    *)
(***************************************************************************)
EXTENDS Integers, FiniteSets

CONSTANTS
    Threads,    \* the client's threads
    A,          \* the component's thread
    Master,     \* the one that enables, disables and destroys
    Gets,       \* the queues each thread gets buffers from
    BufferNums, \* what the client may set buffer_num of each port to
    MaxTrouble, \* bound: error events, calls into the core, or of malloc(), that fail
    MaxSetup,   \* bound: calls that enable or disable a port
    MaxSema     \* bound: no buffer goes back while the semaphore counts that many

VARIABLES
    up,         \* is there a wrapper? "no", "yes", "destroyed"
    status,     \* wrapper->status: "success" or "error"
    sema,       \* the count of private->sema
    num,        \* headers_num of each pool
    q,          \* the queues: "in", "out": of the pools; "full": output_queue
    en,         \* the ports that are enabled
    comp,       \* the headers inside the component
    call,       \* the call, or callback, each thread is in
    held,       \* the headers each thread of the client holds
    lost,       \* headers in *buffer of a call that returned an error
    stolen,     \* waiters another waiter has taken a post from, since they looked
    resized,    \* waiters whose queue was filled by a resize, which posts nothing
    ntrouble, nsetup,
    broken      \* a pool was resized while headers were out

pools == <<num, q>>
excuses == <<stolen, resized>>
counts == <<ntrouble, nsetup>>
vars == <<up, status, sema, pools, en, comp, call, held, lost, excuses, counts, broken>>

Ports == {"in", "out"}
None == <<"none", 0>>
Headers(p, n) == {p} \X (1 .. n)
\* The headers of a pool are alike: any will do.
One(S) == CHOOSE h \in S : TRUE

Idle == [pc |-> "idle", q |-> "in", n |-> 0, buf |-> None, wait |-> FALSE, then |-> "idle"]

Init ==
    /\ up = "no" /\ status = "success" /\ sema = 0
    /\ num = [p \in Ports |-> 0] /\ q = [p \in Ports \cup {"full"} |-> {}]
    /\ en = {} /\ comp = {}
    /\ call = [t \in Threads \cup {A} |-> Idle] /\ held = [t \in Threads |-> {}]
    /\ lost = {} /\ stolen = {} /\ resized = {}
    /\ ntrouble = 0 /\ nsetup = 0 /\ broken = FALSE

At(t, pc) == call[t].pc = pc /\ ~broken
Goto(t, pc) == call' = [call EXCEPT ![t].pc = pc]
Return(t) == call' = [call EXCEPT ![t] = Idle]
Fails == ntrouble < MaxTrouble /\ ntrouble' = ntrouble + 1

\* The pools start empty; an error on the way gives everything back.
mmal_wrapper_create(t) ==
    /\ At(t, "idle") /\ up = "no" /\ up' = "yes"
    /\ UNCHANGED <<status, sema, pools, en, comp, call, held, lost, excuses, counts, broken>>
-----------------------------------------------------------------------------
\* Callbacks.  A buffer goes to a queue, then the semaphore is posted.

Put(t, name) ==
    /\ q' = [q EXCEPT ![name] = @ \cup {call[t].buf}]
    /\ call' = [call EXCEPT ![t].pc = "post", ![t].buf = None]
    /\ UNCHANGED <<up, status, sema, num, en, comp, held, lost, excuses, counts, broken>>

\* Mutant of mmal_wrapper_bh_out_cb: the semaphore is posted before the buffer is in the queue.
mmal_wrapper_bh_out_cb_PostsFirst(t) ==
    \/ /\ At(t, "out_cb") /\ sema' = sema + 1 /\ Goto(t, "out_put")
       /\ UNCHANGED <<up, status, pools, en, comp, held, lost, excuses, counts, broken>>
    \/ /\ At(t, "out_put") /\ q' = [q EXCEPT !["full"] = @ \cup {call[t].buf}]
       /\ call' = [call EXCEPT ![t] = [Idle EXCEPT !.pc = call[t].then]]
       /\ UNCHANGED <<up, status, sema, num, en, comp, held, lost, excuses, counts, broken>>

mmal_wrapper_bh_out_cb(t) == At(t, "out_cb") /\ Put(t, "full")

mmal_wrapper_bh_release_cb(t) == At(t, "release_cb") /\ Put(t, call[t].buf[1])

\* Nothing but mmal_buffer_header_release(), which calls the pool's callback.
mmal_wrapper_bh_in_cb(t) == At(t, "in_cb") /\ Put(t, "in")

Post(t) ==
    /\ At(t, "post") /\ sema' = sema + 1
    /\ IF call[t].then = "idle" THEN Return(t) ELSE Goto(t, call[t].then)
    /\ UNCHANGED <<up, status, pools, en, comp, held, lost, excuses, counts, broken>>

mmal_wrapper_control_cb ==
    /\ At(A, "idle") /\ up = "yes" /\ Fails
    /\ status' = "error"
    /\ call' = [call EXCEPT ![A] = [Idle EXCEPT !.pc = "post", !.q = "control"]]
    /\ UNCHANGED <<up, sema, pools, en, comp, held, lost, excuses, nsetup, broken>>

Inside(p) == {h \in comp : h[1] = p}

\* mmal_port_buffer_header_callback(): the component gives a buffer back.
HandBack(t, h, then) ==
    /\ comp' = comp \ {h}
    /\ call' = [call EXCEPT ![t] = [Idle EXCEPT !.pc = IF h[1] = "in" THEN "in_cb" ELSE "out_cb",
                                                !.q = h[1], !.buf = h, !.then = then]]
    /\ UNCHANGED <<up, status, sema, pools, en, held, lost, excuses, counts, broken>>

Component == /\ At(A, "idle") /\ sema < MaxSema
             /\ \E p \in Ports : Inside(p) # {} /\ HandBack(A, One(Inside(p)), "idle")
-----------------------------------------------------------------------------
\* The client's side: get a buffer, send it, release it.

mmal_wrapper_buffer_get_empty(t, p, wait) ==
    /\ At(t, "idle") /\ up = "yes"
    /\ call' = [call EXCEPT ![t] = [Idle EXCEPT !.pc = "test", !.q = p, !.wait = wait]]
    /\ UNCHANGED <<up, status, sema, pools, en, comp, held, lost, excuses, counts, broken>>

mmal_wrapper_buffer_get_full(t, wait) == mmal_wrapper_buffer_get_empty(t, "full", wait)

TestStatus(t) ==
    /\ At(t, "test") /\ Goto(t, IF status = "success" THEN "get" ELSE "return")
    /\ UNCHANGED <<up, status, sema, pools, en, comp, held, lost, excuses, counts, broken>>

QueueGet(t) ==
    /\ At(t, "get")
    /\ LET name == call[t].q IN
       \/ /\ q[name] # {}
          /\ LET h == One(q[name]) IN
             q' = [q EXCEPT ![name] = @ \ {h}] /\ call' = [call EXCEPT ![t].pc = "return", ![t].buf = h]
       \/ /\ q[name] = {} /\ Goto(t, IF call[t].wait THEN "wait" ELSE "return") /\ UNCHANGED q
    /\ UNCHANGED <<up, status, sema, num, en, comp, held, lost, excuses, counts, broken>>

\* Whoever waits takes the post, for another's buffer too; it looks at its own queue only.
SemaphoreWait(t) ==
    /\ At(t, "wait") /\ sema > 0 /\ sema' = sema - 1 /\ Goto(t, "test")
    /\ stolen' = {u \in Threads \ {t} : u \in stolen \/ call[u].pc \in {"get", "wait"}}
    /\ resized' = resized \ {t}
    /\ UNCHANGED <<up, status, pools, en, comp, held, lost, counts, broken>>

\* wrapper->status is read again: an error that came since returns without the buffer.
GetReturns(t) ==
    /\ At(t, "return") /\ Return(t)
    /\ LET got == {call[t].buf} \ {None} IN
       \/ status = "success" /\ held' = [held EXCEPT ![t] = @ \cup got] /\ UNCHANGED lost
       \/ status = "error" /\ lost' = lost \cup got /\ UNCHANGED held
    /\ stolen' = stolen \ {t}
    /\ UNCHANGED <<up, status, sema, pools, en, comp, resized, counts, broken>>

\* mmal_port_send_buffer(): an error on a disabled port, and the client keeps the buffer.
Send(t, h) ==
    /\ At(t, "idle") /\ h \in held[t] /\ h[1] \in en
    /\ held' = [held EXCEPT ![t] = @ \ {h}] /\ comp' = comp \cup {h}
    /\ UNCHANGED <<up, status, sema, pools, en, call, lost, excuses, counts, broken>>

\* mmal_buffer_header_release() by the client, which calls mmal_wrapper_bh_release_cb()
Release(t, h) ==
    /\ At(t, "idle") /\ h \in held[t] /\ sema < MaxSema
    /\ held' = [held EXCEPT ![t] = @ \ {h}]
    /\ q' = [q EXCEPT ![h[1]] = @ \cup {h}] /\ Goto(t, "post")
    /\ UNCHANGED <<up, status, sema, num, en, comp, lost, excuses, counts, broken>>
-----------------------------------------------------------------------------
\* Enable, disable, destroy

InSetup(t) == \/ call[t].pc \in {"resize", "fill", "enable", "flush", "drain", "destroy"}
              \/ call[t].then # "idle"
MaySetUp(t) == At(t, "idle") /\ t = Master /\ up = "yes"

\* mmal_pool_resize() does nothing if the number is right.
mmal_wrapper_port_enable(t, p, n) ==
    /\ MaySetUp(t) /\ p \notin en /\ nsetup < MaxSetup /\ nsetup' = nsetup + 1
    /\ call' = [call EXCEPT ![t] = [Idle EXCEPT !.pc = IF n = num[p] THEN "enable" ELSE "resize",
                                                !.q = p, !.n = n]]
    /\ UNCHANGED <<up, status, sema, pools, en, comp, held, lost, excuses, ntrouble, broken>>

\* mmal_pool_resize(): takes as many headers as there are, and does not see if there were less.
EmptyPool(t) ==
    /\ At(t, "resize")
    /\ LET p == call[t].q IN
       /\ broken' = (Headers(p, num[p]) # q[p])
       /\ q' = [q EXCEPT ![p] = {}] /\ num' = [num EXCEPT ![p] = 0]
    /\ Goto(t, "fill")
    /\ UNCHANGED <<up, status, sema, en, comp, held, lost, excuses, counts>>

\* Without an array, when it has to grow, the call fails; without a payload it succeeds, with the
\* headers before it.
FillPool(t) ==
    /\ At(t, "fill")
    /\ LET p == call[t].q
           n == call[t].n
           Fill(k) == /\ q' = [q EXCEPT ![p] = Headers(p, k)] /\ num' = [num EXCEPT ![p] = k]
                      /\ resized' = resized \cup {u \in Threads : call[u].pc = "wait"
                                                              /\ call[u].q = p}
                      /\ Goto(t, "enable")
       IN  \/ Fill(n) /\ UNCHANGED ntrouble
           \/ Fails /\ \E k \in 0 .. n - 1 : Fill(k)
           \/ Fails /\ Return(t) /\ UNCHANGED <<pools, resized>>
    /\ UNCHANGED <<up, status, sema, en, comp, held, lost, stolen, nsetup, broken>>

PortEnable(t) ==
    /\ At(t, "enable") /\ Return(t)
    /\ \/ en' = en \cup {call[t].q} /\ UNCHANGED ntrouble
       \/ Fails /\ UNCHANGED en
    /\ UNCHANGED <<up, status, sema, pools, comp, held, lost, excuses, nsetup, broken>>

\* A failing mmal_port_disable() leaves the port enabled.
mmal_wrapper_port_disable(t, p) ==
    /\ MaySetUp(t) /\ p \in en /\ nsetup < MaxSetup /\ nsetup' = nsetup + 1
    /\ en' = en \ {p}
    /\ call' = [call EXCEPT ![t] = [Idle EXCEPT !.pc = "flush", !.q = p]]
    /\ UNCHANGED <<up, status, sema, pools, comp, held, lost, excuses, ntrouble, broken>>

InCallback(p) == call[A].buf[1] = p \/ (call[A].pc = "post" /\ call[A].q = p)

\* mmal_port_disable() returns when all the buffers have come back, their callbacks included.
Flush(t) ==
    /\ At(t, "flush")
    /\ LET p == call[t].q IN
       \/ Inside(p) # {} /\ HandBack(t, One(Inside(p)), "flush")
       \/ /\ Inside(p) = {} /\ ~InCallback(p)
          /\ IF p = "out" THEN Goto(t, "drain") ELSE Return(t)
          /\ UNCHANGED <<up, status, sema, pools, en, comp, held, lost, excuses, counts, broken>>

\* The loop over output_queue
Drain(t) ==
    /\ At(t, "drain")
    /\ \/ /\ q["full"] # {}
          /\ LET h == One(q["full"]) IN
             /\ q' = [q EXCEPT !["full"] = @ \ {h}]
             /\ call' = [call EXCEPT ![t].pc = "release_cb", ![t].buf = h, ![t].then = "drain"]
       \/ q["full"] = {} /\ Return(t) /\ UNCHANGED q
    /\ UNCHANGED <<up, status, sema, num, en, comp, held, lost, excuses, counts, broken>>

\* mmal_component_destroy() disables the ports; then the pools and the queue go.
mmal_wrapper_destroy(t) ==
    \/ /\ MaySetUp(t) /\ held = [u \in Threads |-> {}]
       /\ \A u \in Threads \ {t} : call[u] = Idle
       /\ up' = "destroyed" /\ en' = {} /\ Goto(t, "destroy")
       /\ UNCHANGED <<status, sema, pools, comp, held, lost, excuses, counts, broken>>
    \/ At(t, "destroy") /\ comp # {} /\ HandBack(t, One(comp), "destroy")
    \/ /\ At(t, "destroy") /\ comp = {} /\ call[A] = Idle /\ Return(t)
       /\ q' = [name \in DOMAIN q |-> {}] /\ num' = [p \in Ports |-> 0] /\ lost' = {}
       /\ UNCHANGED <<up, status, sema, en, comp, held, excuses, counts, broken>>
-----------------------------------------------------------------------------
Callbacks(t) == \/ mmal_wrapper_bh_out_cb(t) \/ mmal_wrapper_bh_release_cb(t)
                \/ mmal_wrapper_bh_in_cb(t) \/ Post(t)

Getting(t) == TestStatus(t) \/ QueueGet(t) \/ SemaphoreWait(t) \/ GetReturns(t)

SettingUp(t) == EmptyPool(t) \/ FillPool(t) \/ PortEnable(t) \/ Flush(t) \/ Drain(t)

Client(t) ==
    \/ mmal_wrapper_create(t) \/ mmal_wrapper_destroy(t)
    \/ \E wait \in BOOLEAN :
          \/ \E p \in Ports \cap Gets[t] : mmal_wrapper_buffer_get_empty(t, p, wait)
          \/ "full" \in Gets[t] /\ mmal_wrapper_buffer_get_full(t, wait)
    \/ \E p \in Ports : LET mine == {h \in held[t] : h[1] = p} IN
                      mine # {} /\ (Send(t, One(mine)) \/ Release(t, One(mine)))
    \/ \E p \in Ports : \/ \E n \in BufferNums[p] : mmal_wrapper_port_enable(t, p, n)
                        \/ mmal_wrapper_port_disable(t, p)

Next ==
    \/ \E t \in Threads : Client(t) \/ Getting(t) \/ SettingUp(t) \/ Callbacks(t)
    \/ Component \/ mmal_wrapper_control_cb \/ Callbacks(A)

Spec == Init /\ [][Next]_vars
-----------------------------------------------------------------------------
Waiting(t) == call[t].pc = "wait"
Ready(t) == status = "error" \/ q[call[t].q] # {}

\* No wake-up is lost (mmal_component_wrapper.c:334-340, 359-365): a thread sleeps on the semaphore
\* while there is what it waits for, a buffer or an error, only if a post is there or due.  The code
\* has two exceptions: another waiter took the post, as all wait on one semaphore (line 339), or the buffers were put
\* into the pool by the resize of mmal_wrapper_port_enable() (line 253), which posts nothing.
WakeUpKept ==
    \A t \in Threads : Waiting(t) /\ Ready(t) =>
        \/ sema > 0 \/ \E x \in DOMAIN call : call[x].pc = "post"
        \/ t \in stolen \cup resized

Places(h) ==
    {<<"queue", name>> : name \in {name \in DOMAIN q : h \in q[name]}}
    \cup {<<"call", x>> : x \in {x \in DOMAIN call : call[x].buf = h}}
    \cup {<<"held", t>> : t \in {t \in Threads : h \in held[t]}}
    \cup {<<"in", "component">> : x \in comp \cap {h}}
    \cup {<<"in", "lost">> : x \in lost \cap {h}}

\* Over every order of callbacks, calls, failures, enables and disables each header of a pool is in
\* one place, and one of a port that is disabled is not in the component, not in the output queue
\* and not in a callback (mmal_component_wrapper.c:291-312): a resize, and the end, free no header
\* but the ones the client has.
HeadersKept ==
    /\ ~broken => \A p \in Ports : \A h \in Headers(p, num[p]) : Cardinality(Places(h)) = 1
    /\ \A p \in Ports \ en :
          (\A t \in Threads : InSetup(t) => call[t].pc \in {"resize", "fill", "enable"}) =>
             Inside(p) = {} /\ ~InCallback(p) /\ (p = "out" => q["full"] = {})

\* What the wrapper promises: no wake-up is lost but for the exceptions of WakeUpKept, and no
\* header (mmal_component_wrapper.c:291-367).
WrapperRight == WakeUpKept /\ HeadersKept
=============================================================================
