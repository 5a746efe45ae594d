----------------------------- MODULE MmalClock ------------------------------
(***************************************************************************)
(* The clock of MMAL (mmal_clock.c) and the port it is used through        *)
(* (mmal_port_clock.c).  Clients ask to be called back at a media time;    *)
(* the worker thread W calls them, and sets a timer for the next of them.  *)
(* Meanwhile other threads set the time, its offset and its speed, stop    *)
(* and start the clock, flush it and destroy it, and clock ports tell each *)
(* other of the changes in buffers.                                        *)
(*                                                                         *)
(* A call is the sequence of its steps (Program); each step between two    *)
(* uses of the lock or of the time is one.  mmal_clock_update_local_time() *)
(* reads and writes the time without the lock: it is two steps, "sample"   *)
(* and "apply", and others may come in between.                            *)
(* Times are in units of MIN_TIMER_DELAY, in which CLOCK_TARGET_OFFSET is  *)
(* nothing.  Speeds are whole numbers, so that no fraction is kept.        *)
(***************************************************************************)
EXTENDS Integers, Sequences, SequencesExt, FiniteSetsExt

CONSTANTS
    Callers,             \* the threads that make calls
    Nobody,
    SLOTS,               \* CLOCK_REQUEST_SLOTS
    MIN_TIMER_DELAY,
    CLOCK_WAIT_TIME,
    update_lower, update_upper,        \* update_threshold_lower and _upper
    discont_threshold, discont_duration,
    Scripts,             \* bound: the calls each caller makes, <<kind, argument>>
    NBuffers,            \* buffers of the connection of the port
    MaxTime              \* bound: the real time that passes

ASSUME ClockAssumption ==
    /\ Nobody \notin Callers \cup {"W"} /\ "W" \notin Callers
    /\ SLOTS \in Nat /\ MIN_TIMER_DELAY \in Nat /\ CLOCK_WAIT_TIME \in Nat
    /\ update_lower \in Nat /\ update_upper \in Nat
    /\ discont_threshold \in Nat /\ discont_duration \in Nat
    /\ IsFiniteSet(Callers) /\ NBuffers \in Nat /\ MaxTime \in Nat

VARIABLES
    now,                       \* vcos_getmicrosecs()
    rtc, media, wall,          \* rtc_at_update, media_time, wall_time
    avg, offset, scale,        \* average_ref_diff, media_time_offset, scale
    active, stopping,          \* is_active, stop_thread
    discont, at_timer,         \* discont_*, media_time_at_timer
    limit,                     \* request_threshold, -1 when it is not enabled
    free, requests,            \* the request slots: how many are free; the list
    event, timer, lock,        \* the semaphore; when the timer goes off; the mutex
    wpc, next,                 \* W, and the request in its hand
    local,                     \* what each thread has sampled, and the time it got
    steps, call,               \* the steps left of each call, and its arguments
    reference, queue, away,    \* is_reference; the buffers here and at the other end
    state,                     \* "ok", "freed", or "crashed"
    calls,                     \* the calls each caller has still to make
    accepted, called,          \* history: requests taken, how often each was called
    mixed,                     \* history: two updates of the time overlapped
    turned                     \* history: the speed turned round over requests

timeVars  == <<rtc, media, wall>>
setVars   == <<avg, offset, scale, active, limit>>
discVars  == <<discont, at_timer>>
slotVars  == <<free, requests, called>>
callVars  == <<steps, call, calls, accepted>>
portVars  == <<reference, queue, away>>
clockVars == <<now, timeVars, setVars, discVars, slotVars, event, timer, lock, stopping, wpc,
               next, local, callVars, portVars, state, mixed, turned>>

Threads == Callers \cup {"W"}
Ids == Callers \X (1..4)             \* a request is a call of a caller
Off == -1                            \* the timer is not set
NoRequest == [id |-> <<>>, adj |-> 0]
NoLocal == [now |-> 0, rtc |-> 0, media |-> 0, wall |-> 0, time |-> 0]

\* mmal_clock_create() and, later, mmal_clock_start().
Init ==
    /\ now = 0 /\ rtc = 0 /\ media = 0 /\ wall = 0 /\ avg = 0 /\ offset = 0 /\ scale = 1
    /\ active = TRUE /\ stopping = FALSE /\ discont = [start |-> 0, end |-> 0, expiry |-> 0]
    /\ at_timer = 0 /\ limit = -1 /\ free = SLOTS /\ requests = <<>>
    /\ event = 1 /\ timer = Off /\ lock = Nobody /\ wpc = "wait" /\ next = NoRequest
    /\ local = [t \in Threads |-> NoLocal]
    /\ steps = [c \in Callers |-> <<>>]
    /\ call = [c \in Callers |-> [id |-> <<>>, arg |-> 0]]
    /\ reference = FALSE /\ queue = 0 /\ away = NBuffers
    /\ state = "ok" /\ calls \in Scripts /\ accepted = {} /\ called = [i \in Ids |-> 0]
    /\ mixed = FALSE /\ turned = FALSE

-----------------------------------------------------------------------------
(* The time.                                                                *)

Media(m) == m + scale * offset       \* mmal_clock_media_time_get()

Sample(t) ==
    /\ local' = [local EXCEPT ![t] = [now |-> now, rtc |-> rtc, media |-> media, wall |-> wall,
                                      time |-> 0]]
    /\ UNCHANGED <<timeVars, mixed>>

\* Only these look at the time they get.
Wanted(t) == t = "W" \/ (Len(steps[t]) > 1 /\ steps[t][2] = "check")
Elapsed(l) == IF l.now > l.rtc THEN l.now - l.rtc ELSE 0

\* The increment is added to the value that was sampled or to the one there is now: the
\* code leaves it open.
Apply(t) ==
    \E base \in {local[t], [media |-> media, wall |-> wall]} :
        /\ wall'  = base.wall + Elapsed(local[t])
        /\ media' = IF active THEN base.media + Elapsed(local[t]) * scale ELSE media
        /\ rtc'   = local[t].now
        /\ local' = [local EXCEPT ![t] = [NoLocal EXCEPT !.time = IF Wanted(t) THEN Media(media') ELSE 0]]
        /\ mixed' = (mixed \/ local[t].rtc # rtc \/ local[t].media # media)

\* A unit, 10 ms, does not end between sampling the time and using it.
Tick ==
    /\ now < MaxTime /\ now' = now + 1
    /\ wpc \notin {"d_apply", "detect", "apply", "serve"}
    /\ \A c \in Callers : steps[c] # <<>> => Head(steps[c]) # "apply"
    /\ UNCHANGED <<timeVars, setVars, discVars, slotVars, event, timer, lock, stopping, wpc,
                   next, local, callVars, portVars, state, mixed, turned>>

\* mmal_clock_timer_cb(); at the bound of the time the timer goes off too.
TimerExpires ==
    /\ state = "ok" /\ timer # Off /\ (now >= timer \/ now = MaxTime)
    /\ timer' = Off /\ event' = event + 1
    /\ UNCHANGED <<now, timeVars, setVars, discVars, slotVars, lock, stopping, wpc, next, local,
                   callVars, portVars, state, mixed, turned>>

-----------------------------------------------------------------------------
(* mmal_clock_worker_thread().                                              *)

WorkerAt(p) == state = "ok" /\ wpc = p

\* mmal_clock_request_flush_locked(): the clients are called.
Flushed ==
    LET ids == {requests[k].id : k \in DOMAIN requests}
    IN  /\ called' = [i \in DOMAIN called |-> called[i] + IF i \in ids THEN 1 ELSE 0]
        /\ free' = free + Len(requests) /\ requests' = <<>>
        /\ at_timer' = 0

WaitEvent ==
    /\ WorkerAt("wait") /\ event > 0 /\ event' = event - 1
    /\ timer' = Off
    /\ wpc' = IF stopping THEN "ended" ELSE "test"
    /\ UNCHANGED <<now, timeVars, setVars, discVars, slotVars, lock, stopping, next, local,
                   callVars, portVars, state, mixed, turned>>

TestPending ==
    /\ WorkerAt("test")
    /\ wpc' = IF requests = <<>> \/ ~active THEN "wait" ELSE "lock"
    /\ UNCHANGED <<now, timeVars, setVars, discVars, slotVars, event, timer, lock, stopping,
                   next, local, callVars, portVars, state, mixed, turned>>

LockRequests ==
    /\ WorkerAt("lock") /\ lock = Nobody /\ lock' = "W"
    /\ wpc' = IF at_timer # 0 THEN "d_sample" ELSE "pop"
    /\ UNCHANGED <<now, timeVars, setVars, discVars, slotVars, event, timer, stopping, next,
                   local, callVars, portVars, state, mixed, turned>>

WorkerTime ==
    /\ \/ WorkerAt("d_sample") /\ Sample("W") /\ wpc' = "d_apply"
       \/ WorkerAt("d_apply")  /\ Apply("W")  /\ wpc' = "detect"
       \/ WorkerAt("sample")   /\ Sample("W") /\ wpc' = "apply"
       \/ WorkerAt("apply")    /\ Apply("W")  /\ wpc' = "serve"
    /\ UNCHANGED <<now, setVars, discVars, slotVars, event, timer, lock, stopping, next,
                   callVars, portVars, state, turned>>

\* The time has gone back: all requests are served.
DetectDiscontinuity ==
    /\ WorkerAt("detect") /\ wpc' = "pop"
    /\ IF scale > 0 /\ local["W"].time + discont_threshold < at_timer
       THEN /\ discont' = [start  |-> at_timer, end |-> at_timer + discont_duration,
                           expiry |-> wall + discont_duration]
            /\ Flushed
       ELSE UNCHANGED <<discVars, slotVars>>
    /\ local' = [local EXCEPT !["W"] = NoLocal]
    /\ UNCHANGED <<now, timeVars, setVars, event, timer, lock, stopping, next,
                   callVars, portVars, state, mixed, turned>>

PopRequest ==
    /\ WorkerAt("pop")
    /\ IF requests = <<>>
       THEN lock' = Nobody /\ wpc' = "wait" /\ UNCHANGED <<next, requests>>
       ELSE next' = Head(requests) /\ requests' = Tail(requests) /\ wpc' = "sample" /\ UNCHANGED lock
    /\ UNCHANGED <<now, timeVars, setVars, discVars, free, called, event, timer, stopping, local,
                   callVars, portVars, state, mixed, turned>>

Distance(x, y) == IF x < y THEN y - x ELSE x - y
Expired == discont.expiry # 0 /\ wall > discont.expiry

\* The request is of the time before a discontinuity, or its time has come.
Due(r, t) ==
    \/ /\ discont.expiry # 0 /\ ~Expired
       /\ r.adj >= discont.start /\ r.adj < discont.end
    \/ scale > 0 /\ t + MIN_TIMER_DELAY >= r.adj
    \/ scale < 0 /\ t - MIN_TIMER_DELAY <= r.adj

ServeRequest ==
    /\ WorkerAt("serve") /\ Due(next, local["W"].time)
    /\ called' = [called EXCEPT ![next.id] = @ + 1]
    /\ free' = free + 1 /\ next' = NoRequest /\ wpc' = "pop"
    /\ discont' = IF Expired THEN [discont EXCEPT !.expiry = 0] ELSE discont
    /\ local' = [local EXCEPT !["W"] = NoLocal]
    /\ UNCHANGED <<now, timeVars, setVars, at_timer, requests, event, timer, lock, stopping,
                   callVars, portVars, state, mixed, turned>>

\* Mutant of SetTimer: it counts from the time of the request.
SetTimer_Absolute(d) == timer' = next.adj + d

\* mmal_clock_timer_set(), in real time: the distance over the speed, rounded down.
SetTimer(d) == timer' = now + IF scale = 0 THEN CLOCK_WAIT_TIME ELSE d \div Distance(scale, 0)

Reschedule ==
    /\ WorkerAt("serve") /\ ~Due(next, local["W"].time)
    /\ SetTimer(Distance(local["W"].time, next.adj))
    /\ requests' = <<next>> \o requests /\ next' = NoRequest
    /\ at_timer' = local["W"].time
    /\ discont' = IF Expired THEN [discont EXCEPT !.expiry = 0] ELSE discont
    /\ lock' = Nobody /\ wpc' = "wait"
    /\ local' = [local EXCEPT !["W"] = NoLocal]
    /\ UNCHANGED <<now, timeVars, setVars, free, called, event, stopping,
                   callVars, portVars, state, mixed, turned>>

mmal_clock_worker_thread ==
    \/ WaitEvent \/ TestPending \/ LockRequests \/ WorkerTime \/ DetectDiscontinuity
    \/ PopRequest \/ ServeRequest \/ Reschedule

-----------------------------------------------------------------------------
(* The calls.                                                               *)

\* Mutant of mmal_clock_request_add: the worker is woken before the request is in the list.
mmal_clock_request_add_PostsFirst == <<"sample", "apply", "check", "post", "insert">>

mmal_clock_request_add == <<"sample", "apply", "check", "insert", "post">>

mmal_clock_destroy == <<"halt", "post", "join", "flush", "free">>

Program ==
    [request_add   |-> mmal_clock_request_add,
     request_flush |-> <<"flush">>,
     time_get      |-> <<"sample", "apply">>,
     time_set      |-> <<"sample", "apply", "time", "post_tell">>,
     offset_set    |-> <<"offset", "post_tell">>,
     scale_set     |-> <<"sample", "apply", "scale", "post_tell">>,
     threshold_set |-> <<"threshold">>,
     start         |-> <<"start", "post", "sample", "apply">>,
     stop          |-> <<"stop", "sample", "apply">>,
     reference     |-> <<"refer", "sample", "apply">>,
     empty_buffer  |-> <<"enqueue">>,
     time_buffer   |-> <<"sample", "apply", "time", "post", "return">>,
     scale_buffer  |-> <<"sample", "apply", "scale", "post", "return">>,
     disable       |-> <<"stop", "unqueue">>,
     destroy       |-> mmal_clock_destroy]

\* What the callers may be given to do: no more calls than Ids has names for.
ASSUME ScriptsAssumption ==
    \A s \in Scripts :
        /\ s \in [Callers -> Seq((DOMAIN Program) \X Int)]
        /\ \A c \in Callers : Len(s[c]) <= 4

Destroying == stopping \/ \E c \in Callers : steps[c] # <<>> /\ Head(steps[c]) = "halt"

\* A caller makes its next call, but none once the clock is being destroyed; a buffer of
\* the other port is one of those it has.
Call(c) ==
    /\ state = "ok" /\ steps[c] = <<>> /\ calls[c] # <<>> /\ ~Destroying
    /\ LET k == Head(calls[c])[1]
           received == k \in {"time_buffer", "scale_buffer", "empty_buffer"}
       IN  /\ received => away > 0
           /\ away' = IF received THEN away - 1 ELSE away
           /\ steps' = [steps EXCEPT ![c] = Program[k]]
           /\ call' = [call EXCEPT ![c] = [id |-> <<c, Len(calls[c])>>, arg |-> Head(calls[c])[2]]]
    /\ calls' = [calls EXCEPT ![c] = Tail(@)]
    /\ UNCHANGED <<now, timeVars, setVars, discVars, slotVars, event, timer, lock, stopping, wpc,
                   next, local, accepted, reference, queue, state, mixed, turned>>

At(c, s) == state = "ok" /\ steps[c] # <<>> /\ Head(steps[c]) = s
GoOn(c) == steps' = [steps EXCEPT ![c] = Tail(@)] /\ UNCHANGED <<call, calls>>
Leave(c) == steps' = [steps EXCEPT ![c] = <<>>] /\ UNCHANGED <<call, calls>>

CallerTime(c) ==
    /\ \/ At(c, "sample") /\ Sample(c)
       \/ At(c, "apply")  /\ Apply(c)
    /\ GoOn(c)
    /\ UNCHANGED <<now, setVars, discVars, slotVars, event, timer, lock, stopping, wpc, next,
                   accepted, portVars, state, turned>>

\* mmal_clock_wake_thread().
Post(c) ==
    /\ At(c, "post") /\ event' = event + 1 /\ GoOn(c)
    /\ UNCHANGED <<now, timeVars, setVars, discVars, slotVars, timer, lock, stopping, wpc, next,
                   local, accepted, portVars, state, mixed, turned>>

\* The same, after which a reference tells the other port.
PostTell(c) ==
    /\ At(c, "post_tell") /\ event' = event + 1
    /\ steps' = [steps EXCEPT ![c] = IF reference THEN <<"sample", "apply", "forward">> ELSE <<>>]
    /\ UNCHANGED <<now, timeVars, setVars, discVars, slotVars, timer, lock, stopping, wpc, next,
                   local, call, calls, accepted, portVars, state, mixed, turned>>

\* mmal_clock_request_add(): a request too far ahead is dropped, and so is one for which
\* there is no slot.
TakeSlot(c) ==
    /\ At(c, "check") /\ lock = Nobody
    /\ IF free = 0 \/ (limit >= 0 /\ call[c].arg > local[c].time + limit)
       THEN Leave(c) /\ UNCHANGED free
       ELSE free' = free - 1 /\ GoOn(c)
    /\ local' = [local EXCEPT ![c] = NoLocal]
    /\ UNCHANGED <<now, timeVars, setVars, discVars, requests, called, event, timer, lock, stopping,
                   wpc, next, accepted, portVars, state, mixed, turned>>

\* mmal_clock_request_compare_pos() and _neg().
Before(r, s) == IF scale >= 0 THEN r.adj < s.adj ELSE r.adj > s.adj

\* mmal_clock_request_insert(): at the end if it may, else before the first later one.
Inserted(r) ==
    LET later == {k \in DOMAIN requests : Before(r, requests[k])}
    IN  IF requests = <<>> \/ ~Before(r, Last(requests)) \/ later = {}
        THEN Append(requests, r)
        ELSE InsertAt(requests, Min(later), r)

\* Mutant of InsertRequest: the end of the clock is not looked at.
InsertRequest_Late(c) ==
    /\ At(c, "insert") /\ lock = Nobody
    /\ requests' = Inserted([id |-> call[c].id, adj |-> call[c].arg])
    /\ accepted' = accepted \cup {call[c].id}
    /\ turned' = (turned /\ requests # <<>>)
    /\ GoOn(c)
    /\ UNCHANGED <<now, timeVars, setVars, discVars, free, called, event, timer, lock, stopping,
                   wpc, next, local, portVars, state, mixed>>

InsertRequest(c) ==
    /\ At(c, "insert") /\ lock = Nobody
    /\ IF stopping THEN Leave(c) /\ UNCHANGED <<requests, accepted, turned>>
       ELSE /\ requests' = Inserted([id |-> call[c].id, adj |-> call[c].arg])
            /\ accepted' = accepted \cup {call[c].id}
            /\ turned' = (turned /\ requests # <<>>)
            /\ GoOn(c)
    /\ UNCHANGED <<now, timeVars, setVars, discVars, free, called, event, timer, lock, stopping,
                   wpc, next, local, portVars, state, mixed>>

mmal_clock_request_flush(c) ==
    /\ At(c, "flush") /\ lock = Nobody /\ Flushed /\ GoOn(c)
    /\ UNCHANGED <<now, timeVars, setVars, discont, event, timer, lock, stopping, wpc, next,
                   local, accepted, portVars, state, mixed, turned>>

\* mmal_clock_media_time_set(): a large difference sets the time, a small one only when
\* the average of them has grown.
Average(d) == (63 * avg + d) \div 64

mmal_clock_media_time_set(c) ==
    LET d == media - call[c].arg
    IN  /\ At(c, "time")
        /\ IF Distance(d, 0) > update_upper
           THEN media' = call[c].arg /\ avg' = 0 /\ GoOn(c)
           ELSE IF Distance(Average(d), 0) > update_lower
           THEN media' = media - Average(d) /\ avg' = 0 /\ GoOn(c)
           ELSE /\ avg' = Average(d) /\ UNCHANGED <<media, call, calls>>
                /\ steps' = [steps EXCEPT ![c] = IF Last(@) = "return" THEN <<"return">> ELSE <<>>]
        /\ UNCHANGED <<now, rtc, wall, offset, scale, active, limit, discVars, slotVars, event,
                       timer, lock, stopping, wpc, next, local, accepted, portVars, state,
                       mixed, turned>>

\* mmal_clock_media_time_offset_set(), mmal_clock_request_threshold_set(),
\* mmal_clock_start(), mmal_clock_stop() and MMAL_PARAMETER_CLOCK_REFERENCE.
Set(c) ==
    /\ \/ At(c, "offset") /\ offset' = call[c].arg /\ UNCHANGED <<active, limit, reference>>
       \/ At(c, "threshold") /\ lock = Nobody /\ limit' = 0 /\ UNCHANGED <<active, offset, reference>>
       \/ At(c, "start") /\ active' = TRUE  /\ UNCHANGED <<offset, limit, reference>>
       \/ At(c, "stop")  /\ active' = FALSE /\ UNCHANGED <<offset, limit, reference>>
       \/ At(c, "refer") /\ reference' = TRUE /\ UNCHANGED <<active, offset, limit>>
    /\ GoOn(c)
    /\ UNCHANGED <<now, timeVars, avg, scale, discVars, slotVars, event, timer, lock, stopping,
                   wpc, next, local, accepted, queue, away, state, mixed, turned>>

mmal_clock_scale_set(c) ==
    /\ At(c, "scale") /\ lock = Nobody /\ scale' = call[c].arg
    /\ turned' = (turned \/ (requests # <<>> /\ (scale >= 0) # (scale' >= 0)))
    /\ GoOn(c)
    /\ UNCHANGED <<now, timeVars, avg, offset, active, limit, discVars, slotVars, event, timer,
                   lock, stopping, wpc, next, local, accepted, portVars, state, mixed>>

-----------------------------------------------------------------------------
(* The port, and the end of the clock.                                      *)

\* mmal_port_clock_forward_payload(), mmal_port_clock_send(), of a buffer that is not
\* empty the end of mmal_port_clock_process_buffer(), and mmal_port_clock_flush().
Buffer(c) ==
    /\ \/ /\ At(c, "forward")
          /\ IF queue > 0 THEN queue' = queue - 1 /\ away' = away + 1 ELSE UNCHANGED <<queue, away>>
       \/ At(c, "enqueue") /\ queue' = queue + 1 /\ UNCHANGED away
       \/ At(c, "return") /\ away' = away + 1 /\ UNCHANGED queue
       \/ At(c, "unqueue") /\ queue' = 0 /\ away' = away + queue
    /\ GoOn(c)
    /\ UNCHANGED <<now, timeVars, setVars, discVars, slotVars, event, timer, lock, stopping, wpc,
                   next, local, accepted, reference, state, mixed, turned>>

\* mmal_clock_stop_thread() and mmal_clock_destroy().
Destroy(c) ==
    /\ \/ At(c, "halt") /\ stopping' = TRUE /\ UNCHANGED state
       \/ At(c, "join") /\ wpc = "ended" /\ UNCHANGED <<stopping, state>>
       \/ At(c, "free") /\ state' = "freed" /\ UNCHANGED stopping
    /\ GoOn(c)
    /\ UNCHANGED <<now, timeVars, setVars, discVars, slotVars, event, timer, lock, wpc, next,
                   local, accepted, portVars, mixed, turned>>

\* A call that was under way uses the clock that is no more.
UseFreed(c) ==
    /\ state = "freed" /\ steps[c] # <<>> /\ state' = "crashed"
    /\ UNCHANGED <<now, timeVars, setVars, discVars, slotVars, event, timer, lock, stopping, wpc,
                   next, local, callVars, portVars, mixed, turned>>

CallStep(c) ==
    \/ CallerTime(c) \/ Post(c) \/ PostTell(c) \/ TakeSlot(c)
    \/ InsertRequest(c) \/ mmal_clock_request_flush(c) \/ mmal_clock_media_time_set(c) \/ Set(c)
    \/ mmal_clock_scale_set(c) \/ Buffer(c) \/ Destroy(c) \/ UseFreed(c)

Next ==
    \/ Tick \/ TimerExpires \/ mmal_clock_worker_thread
    \/ \E c \in Callers : Call(c) \/ CallStep(c)

Spec == Init /\ [][Next]_clockVars

\* Time passes and threads run; a thread that wants the lock often enough gets it.
\* Nobody has to make a call.
FairSpec ==
    /\ Spec
    /\ WF_clockVars(mmal_clock_worker_thread) /\ WF_clockVars(TimerExpires)
    /\ WF_clockVars(Tick)
    /\ \A c \in Callers : SF_clockVars(CallStep(c))

-----------------------------------------------------------------------------
(* Properties.                                                              *)

Places == {"wait", "test", "lock", "d_sample", "d_apply", "detect", "pop", "sample", "apply",
           "serve", "ended"}

\* Type correctness of the clock and its port.
TypeOK ==
    /\ free \in 0..SLOTS /\ Len(requests) <= SLOTS /\ event \in Nat /\ wpc \in Places
    /\ timer \in Nat \cup {Off} /\ rtc \in 0..MaxTime /\ lock \in {Nobody, "W"}
    /\ queue \in 0..NBuffers /\ away \in 0..NBuffers
    /\ state \in {"ok", "freed", "crashed"}

Listed(i) == Cardinality({k \in DOMAIN requests : requests[k].id = i})
InHand(i) == IF next.id = i THEN 1 ELSE 0

\* A request that was accepted is waiting or is called, and called once, whatever
\* flushes, jumps of the time and the end of the clock come in between.
RequestKept ==
    \A i \in Ids :
        Listed(i) + InHand(i) + called[i] = IF i \in accepted THEN 1 ELSE 0

\* No slot is lost or used twice, but for those of the calls that came too late.
SlotsKept ==
    ~stopping =>
        free + Len(requests) + Cardinality({i \in {1} : next # NoRequest})
            + Cardinality({c \in Callers : At(c, "insert")}) = SLOTS

\* "Earliest request is always at the front" (mmal_clock.c:356): unless the speed was
\* turned round while requests waited.
PendingOrdered ==
    (~turned /\ lock = Nobody) => \A j, k \in DOMAIN requests : j < k => ~Before(requests[k], requests[j])

Quiet == state = "ok" /\ wpc = "wait" /\ event = 0 /\ \A c \in Callers : steps[c] = <<>>
MediaNow == Media(media + scale * (now - rtc))
ToGo(r) == IF scale > 0 THEN r.adj - MediaNow ELSE MediaNow - r.adj

\* When the thread sleeps over requests the timer is set, and for no later than the
\* first of them, unless threads have counted the same time twice
\* (mmal_clock_update_local_time() without the lock).
TimerInTime ==
    (Quiet /\ active /\ requests # <<>>) =>
        /\ timer # Off
        /\ (scale # 0 /\ ~mixed /\ ToGo(Head(requests)) > 0) =>
              timer <= now + ToGo(Head(requests))

\* When the clock is gone nobody waits for it.
EndsServed == state = "freed" => \A i \in accepted : called[i] = 1

-----------------------------------------------------------------------------
(* The inductive invariant of RequestsServed, in parts.                     *)

Request == [id : Ids, adj : Int]
Sampled == [now : 0..MaxTime, rtc : 0..MaxTime, media : Int, wall : Int, time : Int]

TimeInv ==
    /\ now \in 0..MaxTime /\ rtc \in 0..MaxTime /\ media \in Int /\ wall \in Int
    /\ avg \in Int /\ offset \in Int /\ scale \in Int /\ at_timer \in Int /\ limit \in Int
    /\ discont \in [start : Int, end : Int, expiry : Int]
    /\ event \in Nat /\ timer \in Nat \cup {Off} /\ local \in [Threads -> Sampled]
    /\ lock \in {Nobody, "W"} /\ active \in BOOLEAN /\ stopping \in BOOLEAN

\* The worker has a request in its hand just where it serves one.
HandInv ==
    /\ wpc \in Places
    /\ wpc \in {"sample", "apply", "serve"} => next \in Request
    /\ wpc \notin {"sample", "apply", "serve"} => next = NoRequest

StepNames ==
    {"apply", "check", "enqueue", "flush", "forward", "free", "halt", "insert", "join", "offset",
     "post", "post_tell", "refer", "return", "sample", "scale", "start", "stop", "threshold",
     "time", "unqueue"}

Has(s, x) == \E k \in DOMAIN s : s[k] = x

\* What is left of a call: a request is inserted once, and just after its slot is taken;
\* a buffer goes back, the other port is told and the clock is freed at the end; what
\* frees it is what is left of mmal_clock_destroy().
Shaped(s) ==
    /\ s \in Seq(StepNames)
    /\ \A j \in DOMAIN s :
          /\ s[j] = "check" => j < Len(s) /\ s[j + 1] = "insert"
          /\ s[j] = "insert" /\ j > 1 => s[j - 1] = "check"
          /\ s[j] \in {"return", "post_tell"} => j = Len(s)
          /\ s[j] = "enqueue" => Len(s) = 1
          /\ \A k \in DOMAIN s :
                s[j] = "insert" => (s[k] = "insert" => j = k) /\ s[k] # "return"
    /\ Has(s, "free") =>
          /\ Len(s) <= 5
          /\ \A j \in DOMAIN s : s[j] = mmal_clock_destroy[5 - Len(s) + j]

CallsInv ==
    /\ steps \in [Callers -> Seq(StepNames)] /\ \A c \in Callers : Shaped(steps[c])
    /\ call \in [Callers -> [id : Ids \cup {<<>>}, arg : Int]]
    /\ calls \in [Callers -> Seq((DOMAIN Program) \X Int)]
    /\ \A c \in Callers : Len(calls[c]) <= 4

\* A request that is still to be inserted is none of those that were accepted, nor are
\* those of the calls to come.
FreshInv ==
    /\ accepted \subseteq Ids
    /\ \A c \in Callers :
          /\ \A n \in 1..4 : <<c, n>> \in accepted => n > Len(calls[c])
          /\ Has(steps[c], "insert") =>
                /\ Len(calls[c]) < 4 /\ call[c].id = <<c, Len(calls[c]) + 1>>
                /\ call[c].id \notin accepted

Waiting(i) == \E k \in DOMAIN requests : requests[k].id = i

\* A request that was accepted is in the list, in the hand of the worker, or called.
KeptInv ==
    /\ requests \in Seq(Request)
    /\ called \in [Ids -> Int]
    /\ \A j, k \in DOMAIN requests : requests[j].id = requests[k].id => j = k
    /\ \A i \in Ids :
          /\ Waiting(i) => i \in accepted /\ next.id # i /\ called[i] = 0
          /\ next.id = i => i \in accepted /\ called[i] = 0
          /\ called[i] = IF i \in accepted /\ ~Waiting(i) /\ next.id # i THEN 1 ELSE 0

Inserting == {c \in Callers : steps[c] # <<>> /\ Head(steps[c]) = "insert"}

\* A slot is free, in the list, in the hand of the worker, or of a caller that inserts;
\* the slot of one that comes too late is lost.
SlotsInv ==
    LET taken == Len(requests) + (IF next = NoRequest THEN 0 ELSE 1) + Cardinality(Inserting)
    IN  /\ free \in Nat /\ free + taken <= SLOTS
        /\ ~stopping => free + taken = SLOTS

Returns(s) == \E k \in DOMAIN s : s[k] \in {"return", "enqueue"}
Returning == {c \in Callers : Returns(steps[c])}

BuffersInv ==
    /\ queue \in Nat /\ away \in Nat
    /\ queue + away + Cardinality(Returning) = NBuffers

\* What mmal_clock_destroy() has done by each of its steps.
EndInv ==
    /\ state \in {"ok", "freed", "crashed"}
    /\ state # "ok" => stopping /\ wpc = "ended" /\ requests = <<>>
    /\ \A c \in Callers :
          Has(steps[c], "free") =>
              /\ Len(steps[c]) <= 4 => stopping
              /\ Len(steps[c]) <= 2 => wpc = "ended"
              /\ Len(steps[c]) <= 1 => requests = <<>>

IndInv ==
    /\ TimeInv /\ HandInv /\ CallsInv /\ FreshInv /\ KeptInv /\ SlotsInv /\ BuffersInv /\ EndInv

-----------------------------------------------------------------------------
(* The inductive invariant of TimerRight, on top of that one.               *)

Holding == {"d_sample", "d_apply", "detect", "pop", "sample", "apply", "serve"}

\* The worker has the lock from LockRequests to the end of its round.
LockInv == lock = "W" <=> wpc \in Holding

\* The list is in order, and a request in the hand of the worker comes before it.
OrderInv ==
    ~turned =>
        /\ \A j, k \in DOMAIN requests : j < k => ~Before(requests[k], requests[j])
        /\ next # NoRequest => \A k \in DOMAIN requests : ~Before(requests[k], next)

\* What changes the list or the time is followed by a wake-up; the time is applied just
\* after it is sampled.
Telling(s) ==
    \A j \in DOMAIN s :
        /\ s[j] \in {"insert", "time", "offset", "scale", "start"} =>
              j < Len(s) /\ s[j + 1] \in {"post", "post_tell"}
        /\ s[j] = "apply" /\ j > 1 => s[j - 1] = "sample"
TellingInv == \A c \in Callers : Telling(steps[c])

\* The time does not pass while a thread has sampled it and not applied it.
SampleInv ==
    /\ rtc <= now
    /\ wpc \in {"d_apply", "apply"} => local["W"].now = now
    /\ \A c \in Callers : steps[c] # <<>> /\ Head(steps[c]) = "apply" => local[c].now = now

Posts(s) == s # <<>> /\ Head(s) \in {"post", "post_tell"}
Waking == event > 0 \/ \E c \in Callers : Posts(steps[c])

\* Unless a wake-up is under way, the worker that serves a request has the right time,
\* and the one that sleeps has set a timer that goes off when the first request is due.
AlarmInv ==
    (state = "ok" /\ active /\ ~Waking) =>
        /\ (wpc = "serve" /\ ~mixed) => local["W"].time = MediaNow
        /\ (wpc = "wait" /\ requests # <<>>) =>
              /\ timer # Off
              /\ (scale # 0 /\ ~mixed) =>
                    Distance(scale, 0) * (timer - now) <= ToGo(Head(requests))

RightInv == LockInv /\ OrderInv /\ TellingInv /\ SampleInv /\ AlarmInv

-----------------------------------------------------------------------------

HeadDue == state = "ok" /\ active /\ scale # 0 /\ requests # <<>> /\ Due(Head(requests), MediaNow)

\* The first request does not stay due for ever: the wake-up that makes the worker look
\* again is never lost, though it tests the list without the lock.
DueServed == []<>~HeadDue

\* mmal_clock_destroy() returns, whatever the worker is doing when it is told to stop.
DestroyReturns == stopping ~> (state # "ok")

\* Requests and their slots are neither lost nor used twice, to the end of the clock.
RequestsServed == TypeOK /\ RequestKept /\ SlotsKept /\ EndsServed

\* The thread sleeps no longer than the first request allows, and it is the first.
TimerRight == PendingOrdered /\ TimerInTime

\* A request that is due is served, and mmal_clock_destroy() returns.
ClockProgress == DueServed /\ DestroyReturns

=============================================================================
