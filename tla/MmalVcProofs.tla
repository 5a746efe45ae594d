---------------------------- MODULE MmalVcProofs ----------------------------
(***************************************************************************)
(* RepliesRight and BulksRight of MmalVc (mmal_vc_client.c, mmal_vc_api.c) *)
(* for any buffers, any number of waiters and any number of failures.      *)
(* RepliesInv of MmalVc is inductive: a thread that asks the VideoCore     *)
(* finds a waiter, has the service in use, and gets the reply to its own   *)
(* request.  So is IndInv, which adds the locks, what the server has       *)
(* consented to and the order of the transfers: data stays with its        *)
(* message, a flush that succeeds is complete, and no context outlasts its *)
(* pool.                                                                   *)
(*                                                                         *)
(* The proof of a part goes by the effect of the actions: what they do to  *)
(* the requests under way (Moves, AskMoves), to the calls (CallEffects,    *)
(* PortTurns), to the places of buffers and waiters (Moved, Queued,        *)
(* InLine), to the messages (MessageEffects, NewMessages, ServerEffects)   *)
(* and to the transfers (LineEffects).                                     *)
(***************************************************************************)
EXTENDS MmalVc, FiniteSetTheorems, TLAPS

-----------------------------------------------------------------------------
(* Queues.                                                                  *)

\* Queues keep the type of their elements.
LEMMA QueueOf ==
    ASSUME NEW S, NEW q \in Seq(S)
    PROVE  /\ \A x \in S : Append(q, x) \in Seq(S)
           /\ q # <<>> => Head(q) \in S /\ Tail(q) \in Seq(S)
OBVIOUS

-----------------------------------------------------------------------------
(* Types.                                                                   *)

\* The counts stay numbers, and failures are not forgotten.
LEMMA CountsStep == ASSUME Counts, Next PROVE Counts' /\ nfail' >= nfail
<1> USE DEF Counts, Asker, Nobody, Fails
<1>1. ASSUME NEW t \in Asker, mmal_vc_sendwait_message(t) PROVE Counts' /\ nfail' >= nfail
  <2>1. CASE get_waiter(t)
    BY <2>1 DEF get_waiter, mmal_vc_use_internal, AskUnchanged, fixed, portVars, bufVars
  <2>2. CASE QueueMessage(t)
    BY <2>2 DEF QueueMessage, AskUnchanged, fixed, portVars, bufVars, clientVars, waitVars
  <2>3. CASE QueueDummy(t)
    BY <2>3 DEF QueueDummy, AskUnchanged, fixed, portVars, bufVars, clientVars, waitVars
  <2>4. CASE WaitReply(t)
    BY <2>4 DEF WaitReply, mmal_vc_release_internal, AskUnchanged, fixed, portVars, bufVars
  <2>5. CASE release_waiter(t)
    BY <2>5 DEF release_waiter, AskUnchanged, fixed, portVars, bufVars, clientVars
  <2> QED
    BY <1>1, <2>1, <2>2, <2>3, <2>4, <2>5 DEF mmal_vc_sendwait_message
<1>2. ASSUME NEW t \in {"C", "Q"}, Component(t) PROVE Counts' /\ nfail' >= nfail
  <2> USE DEF PortUnchanged, fixed, portVars, bufVars, clientVars, waitVars, Begin
  <2>1. CASE mmal_vc_component_create(t) \/ mmal_vc_component_destroy(t)
    BY <2>1 DEF mmal_vc_component_create, mmal_vc_component_destroy
  <2>2. CASE mmal_vc_init(t)
    BY <2>2, MmalVcAssumption DEF mmal_vc_init
  <2>3. CASE mmal_vc_use(t) \/ mmal_vc_release(t)
    BY <2>3 DEF mmal_vc_use, mmal_vc_release, mmal_vc_use_internal, mmal_vc_release_internal
  <2>4. CASE mmal_vc_deinit(t)
    BY <2>4 DEF mmal_vc_deinit
  <2>5. CASE Request(t)
    BY <2>5 DEF Request, Ask
  <2>6. CASE Created(t) \/ Ignored(t)
    BY <2>6 DEF Created, Ignored
  <2>7. CASE AllocComponent(t) \/ mmal_vc_port_info_get(t)
    BY <2>7 DEF AllocComponent, mmal_vc_port_info_get
  <2> QED
    BY <1>2, <2>1, <2>2, <2>3, <2>4, <2>5, <2>6, <2>7 DEF Component
<1>3. CASE OtherRequest
  BY <1>3 DEF OtherRequest, PortUnchanged, fixed, portVars, bufVars, clientVars, waitVars, Begin
<1>4. CASE Port
  <2> USE DEF KeepPort, fixed, portVars, bufVars, clientVars, waitVars, StartPort
  <2>1. CASE mmal_vc_port_enable \/ mmal_vc_port_disable \/ mmal_port_flush
             \/ mmal_vc_port_connect \/ mmal_vc_port_flush
    BY <2>1 DEF mmal_vc_port_enable, mmal_vc_port_disable, mmal_port_flush,
                mmal_vc_port_connect, mmal_vc_port_flush
  <2>2. CASE PortRequest
    BY <2>2 DEF PortRequest, Ask
  <2>3. CASE CreatePool \/ EnableAnswered \/ DropPool
    BY <2>3 DEF CreatePool, EnableAnswered, DropPool
  <2>4. CASE PortStep
    BY <2>4 DEF PortStep
  <2>5. CASE DisableAnswered \/ Drain \/ VersionKnown \/ Flushed \/ Connected
    BY <2>5 DEF DisableAnswered, Drain, VersionKnown, Flushed, Connected
  <2> QED
    BY <1>4, <2>1, <2>2, <2>3, <2>4, <2>5 DEF Port
<1>5. CASE Send
  <2> USE DEF KeepSend, fixed, clientVars, Unsent, NotSending
  <2>1. ASSUME NEW b \in home \ {Ev}, NEW bulk \in BOOLEAN, mmal_vc_port_send(b, bulk)
        PROVE  Counts' /\ nfail' >= nfail
    BY <2>1 DEF mmal_vc_port_send, QueueTypes
  <2>2. CASE AllocContext
    BY <2>2 DEF AllocContext
  <2>3. CASE SendVersion
    BY <2>3 DEF SendVersion, Ask, Answered
  <2>4. CASE LockBulk
    BY <2>4 DEF LockBulk
  <2>5. CASE mmal_vc_send_message
    BY <2>5 DEF mmal_vc_send_message
  <2>6. CASE QueueBulk
    BY <2>6 DEF QueueBulk
  <2> QED
    BY <1>5, <2>1, <2>2, <2>3, <2>4, <2>5, <2>6 DEF Send
<1>6. CASE Server
  <2>1. UNCHANGED <<clientVars, waitVars>>
    BY <1>6 DEF Server, ServerTakes, DataArrives, ServerReturns, ServerEvent, KeepServer
  <2>2. nfail' = nfail \/ nfail' = nfail + 1
    <3>1. ASSUME NEW m, Reply(m) PROVE nfail' = nfail \/ nfail' = nfail + 1
      BY <3>1 DEF Reply
    <3>2. ServerTakes => nfail' = nfail \/ nfail' = nfail + 1
      BY <3>1 DEF ServerTakes
    <3>3. DataArrives => nfail' = nfail \/ nfail' = nfail + 1
      BY <3>1 DEF DataArrives
    <3> QED
      BY <1>6, <3>2, <3>3 DEF Server, ServerReturns, ServerEvent
  <2> QED
    BY <2>1, <2>2 DEF clientVars, waitVars
<1>7. CASE mmal_vc_vchiq_callback \/ mmal_vc_do_callback
  BY <1>7 DEF mmal_vc_vchiq_callback, mmal_vc_do_callback, WakeWaiter, BufferToHost, Queue,
              mmal_vc_handle_event_msg, BulkReceived, KeepClient, fixed, clientVars, waitVars,
              portVars, vcVars
<1> QED
  BY <1>1, <1>2, <1>3, <1>4, <1>5, <1>6, <1>7 DEF Next

\* Locks, pool and contexts have their types.
LEMMA HoldersStep == ASSUME Holders, Counts, QueueTypes, Threads, Next PROVE Holders'
<1> USE DEF Holders, Asker, Nobody, Fails
<1>1. ASSUME NEW t \in Asker, mmal_vc_sendwait_message(t) PROVE Holders'
  <2>1. CASE get_waiter(t)
    BY <2>1 DEF get_waiter, mmal_vc_use_internal, AskUnchanged, fixed, portVars, bufVars
  <2>2. CASE QueueMessage(t)
    BY <2>2 DEF QueueMessage, AskUnchanged, fixed, portVars, bufVars, clientVars, waitVars
  <2>3. CASE QueueDummy(t)
    BY <2>3 DEF QueueDummy, AskUnchanged, fixed, portVars, bufVars, clientVars, waitVars
  <2>4. CASE WaitReply(t)
    BY <2>4 DEF WaitReply, mmal_vc_release_internal, AskUnchanged, fixed, portVars, bufVars
  <2>5. CASE release_waiter(t)
    BY <2>5 DEF release_waiter, AskUnchanged, fixed, portVars, bufVars, clientVars
  <2> QED
    BY <1>1, <2>1, <2>2, <2>3, <2>4, <2>5 DEF mmal_vc_sendwait_message
<1>2. ASSUME NEW t \in {"C", "Q"}, Component(t) PROVE Holders'
  <2> USE DEF PortUnchanged, fixed, portVars, bufVars, clientVars, waitVars, Begin
  <2>1. CASE mmal_vc_component_create(t) \/ mmal_vc_component_destroy(t)
    BY <2>1 DEF mmal_vc_component_create, mmal_vc_component_destroy
  <2>2. CASE mmal_vc_init(t)
    BY <2>2, MmalVcAssumption DEF mmal_vc_init
  <2>3. CASE mmal_vc_use(t) \/ mmal_vc_release(t)
    BY <2>3 DEF mmal_vc_use, mmal_vc_release, mmal_vc_use_internal, mmal_vc_release_internal
  <2>4. CASE mmal_vc_deinit(t)
    BY <2>4 DEF mmal_vc_deinit
  <2>5. CASE Request(t)
    BY <2>5 DEF Request, Ask
  <2>6. CASE Created(t) \/ Ignored(t)
    BY <2>6 DEF Created, Ignored
  <2>7. CASE AllocComponent(t) \/ mmal_vc_port_info_get(t)
    BY <2>7 DEF AllocComponent, mmal_vc_port_info_get
  <2> QED
    BY <1>2, <2>1, <2>2, <2>3, <2>4, <2>5, <2>6, <2>7 DEF Component
<1>3. CASE OtherRequest
  BY <1>3 DEF OtherRequest, PortUnchanged, fixed, portVars, bufVars, clientVars, waitVars, Begin
<1>4. CASE Port
  <2> USE DEF KeepPort, fixed, portVars, bufVars, clientVars, waitVars, StartPort
  <2>1. CASE mmal_vc_port_enable \/ mmal_vc_port_disable \/ mmal_port_flush
             \/ mmal_vc_port_connect \/ mmal_vc_port_flush
    BY <2>1 DEF mmal_vc_port_enable, mmal_vc_port_disable, mmal_port_flush,
                mmal_vc_port_connect, mmal_vc_port_flush
  <2>2. CASE PortRequest
    BY <2>2 DEF PortRequest, Ask
  <2>3. CASE CreatePool \/ EnableAnswered \/ DropPool
    BY <2>3 DEF CreatePool, EnableAnswered, DropPool
  <2>4. CASE PortStep
    BY <2>4 DEF PortStep
  <2>5. CASE DisableAnswered \/ Drain \/ VersionKnown \/ Flushed \/ Connected
    BY <2>5 DEF DisableAnswered, Drain, VersionKnown, Flushed, Connected
  <2> QED
    BY <1>4, <2>1, <2>2, <2>3, <2>4, <2>5 DEF Port
<1>5. CASE Send
  <2> USE DEF KeepSend, fixed, clientVars, Unsent, NotSending
  <2>1. ASSUME NEW b \in home \ {Ev}, NEW bulk \in BOOLEAN, mmal_vc_port_send(b, bulk)
        PROVE  Holders'
    BY <2>1 DEF mmal_vc_port_send, QueueTypes
  <2>2. CASE AllocContext
    <3>1. ctx' = ctx \/ ctx' = ctx \cup {snd.buf}
      BY <2>2 DEF AllocContext
    <3>2. ctx' \subseteq Buffers
      BY <2>2, <3>1 DEF AllocContext, Threads
    <3>3. slock' = slock \/ slock' = "nobody"
      BY <2>2 DEF AllocContext
    <3>4. broken' = broken \/ broken' = "pool"
      BY <2>2 DEF AllocContext
    <3> QED
      BY <2>2, <3>2, <3>3, <3>4 DEF AllocContext
  <2>3. CASE SendVersion
    BY <2>3 DEF SendVersion, Ask, Answered
  <2>4. CASE LockBulk
    BY <2>4 DEF LockBulk
  <2>5. CASE mmal_vc_send_message
    BY <2>5 DEF mmal_vc_send_message
  <2>6. CASE QueueBulk
    BY <2>6 DEF QueueBulk
  <2> QED
    BY <1>5, <2>1, <2>2, <2>3, <2>4, <2>5, <2>6 DEF Send
<1>6. CASE Server
  BY <1>6 DEF Server, ServerTakes, DataArrives, ServerReturns, ServerEvent, KeepServer, Reply,
              fixed, clientVars, waitVars, portVars, bufVars
<1>7. CASE mmal_vc_vchiq_callback \/ mmal_vc_do_callback
  BY <1>7 DEF mmal_vc_vchiq_callback, mmal_vc_do_callback, WakeWaiter, BufferToHost, Queue,
              mmal_vc_handle_event_msg, BulkReceived, KeepClient, fixed, clientVars, waitVars,
              portVars, vcVars
<1> QED
  BY <1>1, <1>2, <1>3, <1>4, <1>5, <1>6, <1>7 DEF Next


\* What exists, and what S sends.
LEMMA ThreadsStep == ASSUME Threads, QueueTypes, Next PROVE Threads'
<1> USE DEF Threads, Asker, Nobody, Fails
<1>1. ASSUME NEW t \in Asker, mmal_vc_sendwait_message(t) PROVE Threads'
  <2>1. CASE get_waiter(t)
    BY <2>1 DEF get_waiter, mmal_vc_use_internal, AskUnchanged, fixed, portVars, bufVars
  <2>2. CASE QueueMessage(t)
    BY <2>2 DEF QueueMessage, AskUnchanged, fixed, portVars, bufVars, clientVars, waitVars
  <2>3. CASE QueueDummy(t)
    BY <2>3 DEF QueueDummy, AskUnchanged, fixed, portVars, bufVars, clientVars, waitVars
  <2>4. CASE WaitReply(t)
    BY <2>4 DEF WaitReply, mmal_vc_release_internal, AskUnchanged, fixed, portVars, bufVars
  <2>5. CASE release_waiter(t)
    BY <2>5 DEF release_waiter, AskUnchanged, fixed, portVars, bufVars, clientVars
  <2> QED
    BY <1>1, <2>1, <2>2, <2>3, <2>4, <2>5 DEF mmal_vc_sendwait_message
<1>2. ASSUME NEW t \in {"C", "Q"}, Component(t) PROVE Threads'
  <2> USE DEF PortUnchanged, fixed, portVars, bufVars, clientVars, waitVars, Begin
  <2>1. CASE mmal_vc_component_create(t) \/ mmal_vc_component_destroy(t)
    BY <2>1 DEF mmal_vc_component_create, mmal_vc_component_destroy
  <2>2. CASE mmal_vc_init(t)
    BY <2>2, MmalVcAssumption DEF mmal_vc_init
  <2>3. CASE mmal_vc_use(t) \/ mmal_vc_release(t)
    BY <2>3 DEF mmal_vc_use, mmal_vc_release, mmal_vc_use_internal, mmal_vc_release_internal
  <2>4. CASE mmal_vc_deinit(t)
    BY <2>4 DEF mmal_vc_deinit
  <2>5. CASE Request(t)
    BY <2>5 DEF Request, Ask
  <2>6. CASE Created(t) \/ Ignored(t)
    BY <2>6 DEF Created, Ignored
  <2>7. CASE AllocComponent(t) \/ mmal_vc_port_info_get(t)
    BY <2>7 DEF AllocComponent, mmal_vc_port_info_get
  <2> QED
    BY <1>2, <2>1, <2>2, <2>3, <2>4, <2>5, <2>6, <2>7 DEF Component
<1>3. CASE OtherRequest
  BY <1>3 DEF OtherRequest, PortUnchanged, fixed, portVars, bufVars, clientVars, waitVars, Begin
<1>4. CASE Port
  <2> USE DEF KeepPort, fixed, portVars, bufVars, clientVars, waitVars, StartPort
  <2>1. CASE mmal_vc_port_enable \/ mmal_vc_port_disable \/ mmal_port_flush
             \/ mmal_vc_port_connect \/ mmal_vc_port_flush
    BY <2>1 DEF mmal_vc_port_enable, mmal_vc_port_disable, mmal_port_flush,
                mmal_vc_port_connect, mmal_vc_port_flush
  <2>2. CASE PortRequest
    BY <2>2 DEF PortRequest, Ask
  <2>3. CASE CreatePool \/ EnableAnswered \/ DropPool
    BY <2>3 DEF CreatePool, EnableAnswered, DropPool
  <2>4. CASE PortStep
    BY <2>4 DEF PortStep
  <2>5. CASE DisableAnswered \/ Drain \/ VersionKnown \/ Flushed \/ Connected
    BY <2>5 DEF DisableAnswered, Drain, VersionKnown, Flushed, Connected
  <2> QED
    BY <1>4, <2>1, <2>2, <2>3, <2>4, <2>5 DEF Port
<1>5. CASE Send
  <2> USE DEF KeepSend, fixed, clientVars, Unsent, NotSending
  <2>1. ASSUME NEW b \in home \ {Ev}, NEW bulk \in BOOLEAN, mmal_vc_port_send(b, bulk)
        PROVE  Threads'
    BY <2>1 DEF mmal_vc_port_send, QueueTypes
  <2>2. CASE AllocContext
    <3>1. \/ snd' = NotSending
          \/ snd' = snd
          \/ \E x \in {"bulklock", "version"} : snd' = [snd EXCEPT !.pc = x]
      BY <2>2 DEF AllocContext
    <3>2. up' = up /\ snd.pc = "context"
      BY <2>2 DEF AllocContext
    <3>3. CASE snd' = NotSending
      BY <3>2, <3>3
    <3>4. CASE snd' = snd
      BY <3>2, <3>4
    <3>5. ASSUME NEW x \in {"bulk", "bulklock", "version"}, snd' = [snd EXCEPT !.pc = x]
          PROVE  Threads'
      <4>1. snd' = [pc |-> x, buf |-> snd.buf, bulk |-> snd.bulk]
        BY <3>5
      <4> QED
        BY <3>2, <4>1
    <3> QED
      BY <3>1, <3>3, <3>4, <3>5
  <2>3. CASE SendVersion
    BY <2>3 DEF SendVersion, Ask, Answered
  <2>4. CASE LockBulk
    BY <2>4 DEF LockBulk
  <2>5. CASE mmal_vc_send_message
    <3>1. snd' = NotSending \/ snd' = [snd EXCEPT !.pc = "bulk"]
      BY <2>5 DEF mmal_vc_send_message
    <3>2. up' = up /\ snd.pc = "queue"
      BY <2>5 DEF mmal_vc_send_message
    <3>3. CASE snd' = NotSending
      BY <3>2, <3>3
    <3>4. CASE snd' = snd
      BY <3>2, <3>4
    <3>5. ASSUME NEW x \in {"bulk", "bulklock", "version"}, snd' = [snd EXCEPT !.pc = x]
          PROVE  Threads'
      <4>1. snd' = [pc |-> x, buf |-> snd.buf, bulk |-> snd.bulk]
        BY <3>5
      <4> QED
        BY <3>2, <4>1
    <3> QED
      BY <3>1, <3>3, <3>4, <3>5
  <2>6. CASE QueueBulk
    BY <2>6 DEF QueueBulk
  <2> QED
    BY <1>5, <2>1, <2>2, <2>3, <2>4, <2>5, <2>6 DEF Send
<1>6. CASE Server
  BY <1>6 DEF Server, ServerTakes, DataArrives, ServerReturns, ServerEvent, KeepServer, Reply,
              fixed, clientVars, waitVars, portVars, bufVars
<1>7. CASE mmal_vc_vchiq_callback \/ mmal_vc_do_callback
  BY <1>7 DEF mmal_vc_vchiq_callback, mmal_vc_do_callback, WakeWaiter, BufferToHost, Queue,
              mmal_vc_handle_event_msg, BulkReceived, KeepClient, fixed, clientVars, waitVars,
              portVars, vcVars
<1> QED
  BY <1>1, <1>2, <1>3, <1>4, <1>5, <1>6, <1>7 DEF Next

\* What the other steps do to a request: its begin and its end; most leave it alone.
Others ==
    \/ \E t \in {"C", "Q"} : Component(t)
    \/ OtherRequest \/ Port \/ Send \/ Server \/ mmal_vc_vchiq_callback \/ mmal_vc_do_callback

\* What any step that is not of C's port does to the requests under way.
LEMMA AskOthers ==
    ASSUME Others
    PROVE  \/ UNCHANGED <<ask, inuse, poolSem>>
           \/ \E t \in Asker : \E msg \in RequestNames :
                 /\ Ask(t, msg) /\ UNCHANGED <<inuse, todo, up, snd>>
                 /\ t \in {"C", "Q"} => Is(t, msg)
                 /\ t = "S" => snd.pc = "version" /\ msg = "version"
           \/ \E t \in Asker : Answered(t) /\ UNCHANGED <<inuse, poolSem>>
           \/ /\ ask' = ask /\ \E t \in {"C", "Q"} : mmal_vc_init(t) /\ refcount = 0
<1> USE DEF Asker
<1>1. ASSUME NEW t \in {"C", "Q"}, Component(t)
      PROVE  \/ UNCHANGED <<ask, inuse, poolSem>>
             \/ \E msg \in RequestNames :
                   Ask(t, msg) /\ UNCHANGED <<inuse, todo, up, snd>> /\ Is(t, msg)
             \/ Answered(t) /\ UNCHANGED <<inuse, poolSem>>
             \/ ask' = ask /\ mmal_vc_init(t) /\ refcount = 0
  <2>1. CASE Request(t)
    BY <2>1 DEF Request, RequestNames, Is, PortUnchanged, bufVars
  <2>2. CASE Created(t) \/ Ignored(t) \/ mmal_vc_port_info_get(t)
    BY <2>2 DEF Created, Ignored, mmal_vc_port_info_get, waitVars
  <2>3. CASE mmal_vc_init(t)
    BY <2>3 DEF mmal_vc_init
  <2> QED
    BY <1>1, <2>1, <2>2, <2>3
       DEF Component, mmal_vc_component_create, mmal_vc_component_destroy, mmal_vc_use,
           mmal_vc_release, mmal_vc_deinit, AllocComponent, Begin, waitVars
<1>2. CASE OtherRequest
  BY <1>2 DEF OtherRequest, Begin, waitVars
<1>3. CASE Port
  <2>1. CASE PortRequest
    BY <2>1 DEF PortRequest, RequestNames, Is, bufVars
  <2>2. CASE EnableAnswered \/ DisableAnswered \/ VersionKnown \/ Flushed \/ Connected
    BY <2>2 DEF EnableAnswered, DisableAnswered, VersionKnown, Flushed, Connected, KeepPort,
                waitVars
  <2> QED
    BY <1>3, <2>1, <2>2
       DEF Port, mmal_vc_port_enable, mmal_vc_port_disable, mmal_port_flush,
           mmal_vc_port_connect, mmal_vc_port_flush, StartPort, CreatePool, PortStep, DropPool,
           Drain, KeepPort, waitVars
<1>4. CASE Send
  <2>1. CASE SendVersion
    BY <2>1 DEF SendVersion, KeepSend, RequestNames
  <2> QED
    BY <1>4, <2>1 DEF Send, mmal_vc_port_send, AllocContext, LockBulk, mmal_vc_send_message,
                      QueueBulk, KeepSend
<1>5. CASE Server
  BY <1>5 DEF Server, ServerTakes, DataArrives, ServerReturns, ServerEvent, KeepServer, waitVars
<1>6. CASE mmal_vc_vchiq_callback \/ mmal_vc_do_callback
  BY <1>6 DEF mmal_vc_vchiq_callback, mmal_vc_do_callback, WakeWaiter, BufferToHost,
              mmal_vc_handle_event_msg, BulkReceived, KeepClient, waitVars
<1> QED
  BY <1>1, <1>2, <1>3, <1>4, <1>5, <1>6 DEF Others

\* What a step does to the requests.
LEMMA AskEffects ==
    ASSUME Next
    PROVE  \/ UNCHANGED <<ask, inuse, poolSem>>
           \/ \E t \in Asker : mmal_vc_sendwait_message(t)
           \/ \E t \in Asker : \E msg \in RequestNames :
                 /\ Ask(t, msg) /\ UNCHANGED <<inuse, todo, up, snd>>
                 /\ t \in {"C", "Q"} => Is(t, msg)
                 /\ t = "S" => snd.pc = "version" /\ msg = "version"
           \/ \E t \in Asker : Answered(t) /\ UNCHANGED <<inuse, poolSem>>
           \/ /\ ask' = ask /\ \E t \in {"C", "Q"} : mmal_vc_init(t) /\ refcount = 0
<1>1. CASE Others
  BY <1>1, AskOthers
<1>2. Others \/ \E t \in Asker : mmal_vc_sendwait_message(t)
  BY DEF Next, Others
<1> QED
  BY <1>1, <1>2

\* The semaphores of the waiters, and the replies, are those of the waiters.
LEMMA SemEffects ==
    ASSUME Next
    PROVE  \/ UNCHANGED <<sem, dest>>
           \/ \E t \in Asker : WaitReply(t)
           \/ WakeWaiter
           \/ dest' = dest /\ \E t \in {"C", "Q"} : mmal_vc_init(t) /\ refcount = 0
<1> USE DEF Asker
<1>1. ASSUME NEW t \in Asker, mmal_vc_sendwait_message(t)
      PROVE  UNCHANGED <<sem, dest>> \/ WaitReply(t)
  BY <1>1 DEF mmal_vc_sendwait_message, get_waiter, QueueMessage, QueueDummy, release_waiter,
              waitVars
<1>2. ASSUME NEW t \in {"C", "Q"}, Component(t)
      PROVE  UNCHANGED <<sem, dest>> \/ (dest' = dest /\ mmal_vc_init(t) /\ refcount = 0)
  <2>1. CASE mmal_vc_init(t)
    BY <2>1 DEF mmal_vc_init
  <2> QED
    BY <1>2, <2>1
       DEF Component, mmal_vc_component_create, mmal_vc_component_destroy, mmal_vc_use,
           mmal_vc_release, mmal_vc_deinit, AllocComponent, Begin, waitVars, Request, Created,
           Ignored, mmal_vc_port_info_get
<1>3. CASE OtherRequest
  BY <1>3 DEF OtherRequest, Begin, waitVars
<1>4. CASE Port
  BY <1>4 DEF Port, mmal_vc_port_enable, mmal_vc_port_disable, mmal_port_flush,
           mmal_vc_port_connect, mmal_vc_port_flush, StartPort, CreatePool, PortStep, DropPool,
           Drain, KeepPort, waitVars, PortRequest, EnableAnswered, DisableAnswered,
           VersionKnown, Flushed, Connected
<1>5. CASE Send
  BY <1>5 DEF Send, mmal_vc_port_send, AllocContext, LockBulk, mmal_vc_send_message,
                      QueueBulk, KeepSend, SendVersion
<1>6. CASE Server
  BY <1>6 DEF Server, ServerTakes, DataArrives, ServerReturns, ServerEvent, KeepServer, waitVars
<1>7. CASE mmal_vc_vchiq_callback \/ mmal_vc_do_callback
  BY <1>7 DEF mmal_vc_vchiq_callback, mmal_vc_do_callback, BufferToHost,
              mmal_vc_handle_event_msg, BulkReceived, KeepClient, waitVars
<1> QED
  BY <1>1, <1>2, <1>3, <1>4, <1>5, <1>6, <1>7 DEF Next

\* The request of thread t goes on, and no other.
Moves(t, pc, m, w, r) ==
    /\ ask' \in [Asker -> AskOf]
    /\ ask'[t].pc = pc /\ ask'[t].msg = m /\ ask'[t].w = w /\ ask'[t].reply = r
    /\ \A s \in Asker \ {t} : ask'[s] = ask[s]

\* A thread's request that gets a new value.
LEMMA AskSet ==
    ASSUME WaiterTypes, NEW t \in Asker, NEW a \in AskOf, ask' = [ask EXCEPT ![t] = a]
    PROVE  Moves(t, a.pc, a.msg, a.w, a.reply)
BY DEF WaiterTypes, Moves

\* The steps of a request, one by one.
LEMMA AskMoves ==
    ASSUME WaiterTypes, WaitInv, NEW t \in Asker
    PROVE  /\ get_waiter(t) => \E w \in Waiters :
                 /\ ask[t].pc = "pick" /\ Moves(t, "queue", ask[t].msg, w, ask[t].reply)
                 /\ ~inuse[w] /\ inuse' = [inuse EXCEPT ![w] = TRUE]
           /\ QueueMessage(t) => \E pc \in {"dummy", "wait", "failed"} :
                 ask[t].pc = "queue" /\ Moves(t, pc, ask[t].msg, ask[t].w, ask[t].reply)
           /\ QueueDummy(t) =>
                 ask[t].pc = "dummy" /\ Moves(t, "wait", ask[t].msg, ask[t].w, ask[t].reply)
           /\ WaitReply(t) =>
                 \/ ask[t].pc = "wait" /\ Moves(t, "give", ask[t].msg, ask[t].w, dest[ask[t].w])
                 \/ ask[t].pc = "failed" /\ Moves(t, "give", ask[t].msg, ask[t].w, ask[t].reply)
           /\ release_waiter(t) =>
                 \/ ask[t].pc = "give" /\ Moves(t, "post", ask[t].msg, ask[t].w, ask[t].reply)
                 \/ ask[t].pc = "post" /\ Moves(t, "done", ask[t].msg, ask[t].w, ask[t].reply)
           /\ \A msg \in RequestNames :
                 Ask(t, msg) => ask[t].pc = "none" /\ Moves(t, "pick", msg, 0, NoReply)
           /\ Answered(t) => ask[t].pc = "done" /\ Moves(t, "none", "none", 0, NoReply)
<1>a. ask[t] \in AskOf
  BY DEF WaiterTypes
<1>b. NoReply \in ReplyOf /\ 0 \in 0..MAX_WAITERS
  BY MmalVcAssumption DEF ReplyOf
<1>1. ASSUME get_waiter(t)
      PROVE  \E w \in Waiters :
                 /\ ask[t].pc = "pick" /\ Moves(t, "queue", ask[t].msg, w, ask[t].reply)
                 /\ ~inuse[w] /\ inuse' = [inuse EXCEPT ![w] = TRUE]
  <2>1. PICK w \in Waiters :
           /\ ~inuse[w] /\ inuse' = [inuse EXCEPT ![w] = TRUE]
           /\ ask' = [ask EXCEPT ![t].pc = "queue", ![t].w = w]
    BY <1>1 DEF get_waiter
  <2>2. w \in 0..MAX_WAITERS
    BY MmalVcAssumption DEF Waiters
  <2> DEFINE a == [ask[t] EXCEPT !.pc = "queue", !.w = w]
  <2>3. ask' = [ask EXCEPT ![t] = a]
    BY <2>1 DEF WaiterTypes
  <2>4. a \in AskOf /\ a.pc = "queue" /\ a.msg = ask[t].msg /\ a.w = w /\ a.reply = ask[t].reply
    BY <1>a, <2>2 DEF AskOf
  <2>5. Moves(t, "queue", ask[t].msg, w, ask[t].reply)
    <3> HIDE DEF a
    <3>1. Moves(t, a.pc, a.msg, a.w, a.reply)
      BY <2>3, <2>4, AskSet
    <3> QED
      BY <2>4, <3>1
  <2> QED
    BY <1>1, <2>1, <2>5 DEF get_waiter
<1>2. ASSUME NEW pc \in {"dummy", "wait", "failed", "give", "post", "done"}, At(t, pc)
      PROVE  Moves(t, pc, ask[t].msg, ask[t].w, ask[t].reply)
  <2> DEFINE a == [ask[t] EXCEPT !.pc = pc]
  <2>1. ask' = [ask EXCEPT ![t] = a]
    BY <1>2 DEF At
  <2>2. a \in AskOf /\ a.pc = pc /\ a.msg = ask[t].msg /\ a.w = ask[t].w /\ a.reply = ask[t].reply
    BY <1>a DEF AskOf
  <2> HIDE DEF a
  <2>3. Moves(t, a.pc, a.msg, a.w, a.reply)
    BY <2>1, <2>2, AskSet
  <2> QED
    BY <2>2, <2>3
<1>3. QueueMessage(t) => \E pc \in {"dummy", "wait", "failed"} :
                 ask[t].pc = "queue" /\ Moves(t, pc, ask[t].msg, ask[t].w, ask[t].reply)
  BY <1>2 DEF QueueMessage
<1>4. QueueDummy(t) =>
         ask[t].pc = "dummy" /\ Moves(t, "wait", ask[t].msg, ask[t].w, ask[t].reply)
  BY <1>2 DEF QueueDummy
<1>5. release_waiter(t) =>
                 \/ ask[t].pc = "give" /\ Moves(t, "post", ask[t].msg, ask[t].w, ask[t].reply)
                 \/ ask[t].pc = "post" /\ Moves(t, "done", ask[t].msg, ask[t].w, ask[t].reply)
  BY <1>2 DEF release_waiter
<1>6. ASSUME WaitReply(t)
      PROVE  \/ ask[t].pc = "wait" /\ Moves(t, "give", ask[t].msg, ask[t].w, dest[ask[t].w])
             \/ ask[t].pc = "failed" /\ Moves(t, "give", ask[t].msg, ask[t].w, ask[t].reply)
  <2>1. CASE ask[t].pc = "failed" /\ At(t, "give")
    BY <1>2, <2>1
  <2>2. CASE /\ ask[t].pc = "wait" /\ sem[ask[t].w] > 0
             /\ ask' = [ask EXCEPT ![t].pc = "give", ![t].reply = dest[ask[t].w]]
    <3> DEFINE r == dest[ask[t].w]
               a == [ask[t] EXCEPT !.pc = "give", !.reply = r]
    <3>1. ask' = [ask EXCEPT ![t] = a]
      BY <2>2 DEF WaiterTypes
    <3>2. r \in ReplyOf
      BY <2>2 DEF WaiterTypes, WaitInv, HasWaiter
    <3>3. a \in AskOf /\ a.pc = "give" /\ a.msg = ask[t].msg /\ a.w = ask[t].w /\ a.reply = r
      <4> HIDE DEF r
      <4> QED
        BY <1>a, <3>2 DEF AskOf
    <3> HIDE DEF r, a
    <3>4. Moves(t, a.pc, a.msg, a.w, a.reply)
      BY <3>1, <3>3, AskSet
    <3>5. Moves(t, "give", ask[t].msg, ask[t].w, r)
      BY <3>3, <3>4
    <3> QED
      BY <2>2, <3>5 DEF r
  <2> QED
    BY <1>6, <2>1, <2>2 DEF WaitReply
<1>7. ASSUME NEW msg \in RequestNames, Ask(t, msg)
      PROVE  ask[t].pc = "none" /\ Moves(t, "pick", msg, 0, NoReply)
  <2> DEFINE a == [NoAsk EXCEPT !.pc = "pick", !.msg = msg]
  <2>1. ask' = [ask EXCEPT ![t] = a]
    BY <1>7 DEF Ask
  <2>2. a \in AskOf /\ a.pc = "pick" /\ a.msg = msg /\ a.w = 0 /\ a.reply = NoReply
    BY <1>b DEF AskOf, NoAsk
  <2> HIDE DEF a
  <2>3. Moves(t, a.pc, a.msg, a.w, a.reply)
    BY <2>1, <2>2, AskSet
  <2> QED
    BY <1>7, <2>2, <2>3 DEF Ask
<1>8. ASSUME Answered(t)
      PROVE  ask[t].pc = "done" /\ Moves(t, "none", "none", 0, NoReply)
  <2>1. NoAsk \in AskOf /\ NoAsk.pc = "none" /\ NoAsk.msg = "none" /\ NoAsk.w = 0 /\ NoAsk.reply = NoReply
    BY <1>b DEF AskOf, NoAsk
  <2>2. Moves(t, NoAsk.pc, NoAsk.msg, NoAsk.w, NoAsk.reply)
    BY <1>8, <2>1, AskSet DEF Answered
  <2> QED
    BY <1>8, <2>1, <2>2 DEF Answered
<1> QED
  BY <1>1, <1>3, <1>4, <1>5, <1>6, <1>7, <1>8

\* Requests, waiters and replies have their types.
LEMMA WaiterTypesStep ==
    ASSUME WaiterTypes, WaitInv, QueueTypes, Next
    PROVE  WaiterTypes'
<1>1. ask' \in [Asker -> AskOf]
  <2>1. CASE ask' = ask
    BY <2>1 DEF WaiterTypes
  <2>2. ASSUME NEW t \in Asker, mmal_vc_sendwait_message(t) PROVE ask' \in [Asker -> AskOf]
    BY <2>2, AskMoves DEF mmal_vc_sendwait_message, Moves
  <2>3. ASSUME NEW t \in Asker, NEW msg \in RequestNames, Ask(t, msg) PROVE ask' \in [Asker -> AskOf]
    BY <2>3, AskMoves DEF Moves
  <2>4. ASSUME NEW t \in Asker, Answered(t) PROVE ask' \in [Asker -> AskOf]
    BY <2>4, AskMoves DEF Moves
  <2> QED
    BY <2>1, <2>2, <2>3, <2>4, AskEffects
<1>2. inuse' \in [Waiters -> BOOLEAN]
  <2>1. CASE inuse' = inuse
    BY <2>1 DEF WaiterTypes
  <2>2. ASSUME NEW t \in Asker, mmal_vc_sendwait_message(t) PROVE inuse' \in [Waiters -> BOOLEAN]
    BY <2>2 DEF mmal_vc_sendwait_message, get_waiter, QueueMessage, QueueDummy, WaitReply,
                release_waiter, waitVars, WaiterTypes
  <2>3. ASSUME NEW t \in {"C", "Q"}, mmal_vc_init(t), refcount = 0 PROVE inuse' \in [Waiters -> BOOLEAN]
    BY <2>3 DEF mmal_vc_init, WaiterTypes
  <2> QED
    BY <2>1, <2>2, <2>3, AskEffects
<1>3. sem' \in [Waiters -> Int] /\ dest' \in [Waiters -> ReplyOf]
  <2>1. CASE UNCHANGED <<sem, dest>>
    BY <2>1 DEF WaiterTypes
  <2>2. ASSUME NEW t \in Asker, WaitReply(t)
        PROVE  sem' \in [Waiters -> Int] /\ dest' \in [Waiters -> ReplyOf]
    <3>1. NoReply \in ReplyOf
      BY DEF ReplyOf
    <3> QED
      BY <2>2, <3>1 DEF WaitReply, WaiterTypes
  <2>3. CASE WakeWaiter
    <3> DEFINE m == Head(rx)
               r == [id |-> m.id, from |-> m.from, ok |-> m.ok]
    <3>1. m \in MessageOf
      BY <2>3 DEF WakeWaiter, QueueTypes
    <3>2. r \in ReplyOf
      <4> HIDE DEF m
      <4> QED
        BY <3>1 DEF MessageOf, ReplyOf
    <3> HIDE DEF r
    <3>3. dest' \in [Waiters -> ReplyOf]
      BY <2>3, <3>2 DEF WakeWaiter, WaiterTypes, r
    <3>4. sem' \in [Waiters -> Int]
      <4>1. m.w \in Waiters /\ sem' = [sem EXCEPT ![m.w] = @ + 1]
        BY <2>3, <3>1, MmalVcAssumption DEF WakeWaiter, MessageOf, Waiters
      <4> HIDE DEF m
      <4> QED
        BY <4>1 DEF WaiterTypes
    <3> QED
      BY <3>3, <3>4
  <2>4. ASSUME NEW t \in {"C", "Q"}, mmal_vc_init(t), refcount = 0, dest' = dest
        PROVE  sem' \in [Waiters -> Int] /\ dest' \in [Waiters -> ReplyOf]
    BY <2>4 DEF mmal_vc_init, WaiterTypes
  <2> QED
    BY <2>1, <2>2, <2>3, <2>4, SemEffects
<1> QED
  BY <1>1, <1>2, <1>3 DEF WaiterTypes

\* The steps that move messages and buffers.
LEMMA BufferEffects ==
    ASSUME Next
    PROVE  \/ UNCHANGED <<snd, home, cbq, ctx, msgs, bulks, held, arr, rx, bulkRx>>
           \/ \E t \in Asker : QueueMessage(t) \/ QueueDummy(t)
           \/ Drain \/ Send \/ Server \/ mmal_vc_vchiq_callback \/ mmal_vc_do_callback
<1> USE DEF Asker, vcVars, bufVars, portVars
<1>1. ASSUME NEW t \in Asker, mmal_vc_sendwait_message(t)
      PROVE  \/ UNCHANGED <<snd, home, cbq, ctx, msgs, bulks, held, arr, rx, bulkRx>>
             \/ QueueMessage(t) \/ QueueDummy(t)
  BY <1>1 DEF mmal_vc_sendwait_message, get_waiter, WaitReply, release_waiter, AskUnchanged
<1>2. ASSUME NEW t \in {"C", "Q"}, Component(t)
      PROVE  UNCHANGED <<snd, home, cbq, ctx, msgs, bulks, held, arr, rx, bulkRx>>
  BY <1>2 DEF Component, mmal_vc_component_create, mmal_vc_component_destroy, mmal_vc_use,
       mmal_vc_release, mmal_vc_deinit, AllocComponent, Begin, Request, Created, mmal_vc_init,
       Ignored, mmal_vc_port_info_get, PortUnchanged
<1>3. CASE OtherRequest
  BY <1>3 DEF OtherRequest, Begin, PortUnchanged
<1>4. ASSUME Port
      PROVE  UNCHANGED <<snd, home, cbq, ctx, msgs, bulks, held, arr, rx, bulkRx>> \/ Drain
  BY <1>4 DEF Port, mmal_vc_port_enable, mmal_vc_port_disable, mmal_port_flush,
       mmal_vc_port_connect, mmal_vc_port_flush, StartPort, CreatePool, PortStep, DropPool,
       KeepPort, PortRequest, EnableAnswered, DisableAnswered, VersionKnown, Flushed, Connected
<1> QED
  BY <1>1, <1>2, <1>3, <1>4 DEF Next

\* A new message has its type.
LEMMA MessageType ==
    ASSUME WaiterTypes, NEW t \in Asker, NEW id \in MessageNames, NEW b \in Buffers \cup {Ev},
           NEW bulk \in BOOLEAN
    PROVE  Message(t, id, b, bulk) \in MessageOf
           /\ [Message(t, id, b, bulk) EXCEPT !.w = 0] \in MessageOf
<1>1. ask[t] \in AskOf
  BY DEF WaiterTypes
<1>2. ask[t].w \in 0..MAX_WAITERS /\ 0 \in 0..MAX_WAITERS
  BY <1>1, MmalVcAssumption DEF AskOf
<1> QED
  BY <1>2 DEF Message, MessageOf

\* Queues hold messages and buffers.
LEMMA QueueTypesStep ==
    ASSUME QueueTypes, Threads, WaiterTypes, AskInv, MessageInv, Next
    PROVE  QueueTypes'
<1> USE DEF QueueTypes
<1>1. CASE UNCHANGED <<snd, home, cbq, ctx, msgs, bulks, held, arr, rx, bulkRx>>
  BY <1>1
<1>2. ASSUME NEW t \in Asker, QueueMessage(t) PROVE QueueTypes'
  <2>1. ask[t].msg \in RequestNames
    BY <1>2 DEF QueueMessage, AskInv, WaiterTypes, AskOf
  <2>2. Message(t, ask[t].msg, Ev, ask[t].msg = "sync") \in MessageOf
    BY <2>1, MessageType DEF MessageNames
  <2> DEFINE m == Message(t, ask[t].msg, Ev, ask[t].msg = "sync")
  <2>4. msgs' = msgs \/ msgs' = Append(msgs, m)
    BY <1>2 DEF QueueMessage
  <2>3. msgs' \in Seq(MessageOf)
    <3>1. m \in MessageOf
      BY <2>2
    <3> HIDE DEF m
    <3> QED
      BY <2>4, <3>1, QueueOf
  <2> QED
    BY <1>2, <2>3 DEF QueueMessage, AskUnchanged, bufVars
<1>3. ASSUME NEW t \in Asker, QueueDummy(t) PROVE QueueTypes'
  BY <1>3 DEF QueueDummy, AskUnchanged, bufVars
<1>4. CASE Drain
  <2>1. UNCHANGED <<held, arr, rx, bulkRx, msgs, bulks>>
    BY <1>4 DEF Drain, KeepPort, vcVars
  <2>2. \/ UNCHANGED <<home, cbq>>
        \/ cbq # <<>> /\ home' = home \cup {Head(cbq)} /\ cbq' = Tail(cbq)
    BY <1>4 DEF Drain
  <2>3. cbq' \in Seq(Buffers \cup {Ev}) /\ home' \subseteq Buffers \cup {Ev}
    BY <2>2, QueueOf
  <2> QED
    BY <2>1, <2>3
<1>5. CASE Send
  <2>1. UNCHANGED <<cbq, held, arr, rx, bulkRx>>
    BY <1>5 DEF Send, KeepSend, mmal_vc_port_send, AllocContext, SendVersion, LockBulk,
                mmal_vc_send_message, QueueBulk
  <2>2. snd.pc # "none" => snd.buf \in Buffers
    BY DEF Threads
  <2>3. home' \subseteq Buffers \cup {Ev}
    BY <1>5, <2>2 DEF Send, mmal_vc_port_send, AllocContext, SendVersion, LockBulk,
                mmal_vc_send_message, QueueBulk
  <2>4. bulks' \in Seq(Buffers \cup Asker)
    <3>1. CASE QueueBulk
      BY <3>1, <2>2 DEF QueueBulk
    <3> QED
      BY <1>5, <3>1 DEF Send, mmal_vc_port_send, AllocContext, SendVersion, LockBulk,
                mmal_vc_send_message
  <2>5. msgs' \in Seq(MessageOf)
    <3>1. CASE mmal_vc_send_message
      <4>1. snd.buf \in Buffers /\ snd.bulk \in BOOLEAN
        BY <3>1, <2>2 DEF mmal_vc_send_message, Threads
      <4>2. Message("S", "buffer", snd.buf, snd.bulk) \in MessageOf
        BY <4>1, MessageType DEF MessageNames, Asker
      <4> DEFINE m == Message("S", "buffer", snd.buf, snd.bulk)
      <4>3. msgs' = msgs \/ msgs' = Append(msgs, m)
        BY <3>1 DEF mmal_vc_send_message
      <4>4. m \in MessageOf
        BY <4>2
      <4> HIDE DEF m
      <4> QED
        BY <4>3, <4>4, QueueOf
    <3> QED
      BY <1>5, <3>1 DEF Send, mmal_vc_port_send, AllocContext, SendVersion, LockBulk, QueueBulk
  <2> QED
    BY <2>1, <2>3, <2>4, <2>5
<1>6. CASE Server
  <2>1. UNCHANGED <<home, cbq, bulkRx>>
    BY <1>6 DEF Server, KeepServer, ServerTakes, DataArrives, ServerReturns, ServerEvent, bufVars
  <2>2. ASSUME NEW m \in MessageOf, Reply(m) PROVE rx' \in Seq(MessageOf)
    <3> DEFINE f == [m EXCEPT !.ok = FALSE]
    <3>1. f \in MessageOf
      BY DEF MessageOf
    <3>2. rx' = Append(rx, m) \/ rx' = Append(rx, f)
      BY <2>2 DEF Reply
    <3> HIDE DEF f
    <3> QED
      BY <3>1, <3>2, QueueOf
  <2>3. CASE ServerTakes
    <3>1. Head(msgs) \in MessageOf /\ msgs' = Tail(msgs) /\ msgs # <<>> /\ bulks' = bulks
      BY <2>3 DEF ServerTakes
    <3> DEFINE m == Head(msgs)
    <3>2. m.id = "buffer" => m.buf \in Buffers
      BY <3>1 DEF MessageInv, MessageOf
    <3>3. \/ arr' = Append(arr, m) /\ UNCHANGED <<held, rx>>
          \/ m.id = "buffer" /\ held' = held \cup {m.buf} /\ UNCHANGED <<arr, rx>>
          \/ Reply(m) /\ UNCHANGED <<held, arr>>
      BY <2>3 DEF ServerTakes
    <3>4. m \in MessageOf
      BY <3>1
    <3> HIDE DEF m
    <3>5. held' \in SUBSET Buffers /\ rx' \in Seq(MessageOf) /\ arr' \in Seq(MessageOf)
      BY <2>2, <3>2, <3>3, <3>4, QueueOf
    <3> QED
      BY <2>1, <3>1, <3>5
  <2>4. CASE DataArrives
    <3>1. Head(arr) \in MessageOf /\ arr' = Tail(arr) /\ arr # <<>> /\ bulks' = Tail(bulks)
          /\ bulks # <<>> /\ msgs' = msgs
      BY <2>4 DEF DataArrives
    <3> DEFINE m == Head(arr)
    <3>2. m.id = "buffer" => m.buf \in Buffers
      BY <3>1 DEF MessageInv, MessageOf
    <3>3. \/ m.id = "buffer" /\ held' = held \cup {m.buf} /\ UNCHANGED rx
          \/ Reply(m) /\ UNCHANGED held
      BY <2>4 DEF DataArrives
    <3>4. m \in MessageOf
      BY <3>1
    <3> HIDE DEF m
    <3>5. held' \in SUBSET Buffers /\ rx' \in Seq(MessageOf)
      BY <2>2, <3>2, <3>3, <3>4
    <3>6. arr' \in Seq(MessageOf) /\ bulks' \in Seq(Buffers \cup Asker)
      BY <3>1
    <3> QED
      BY <2>1, <3>1, <3>5, <3>6
  <2>5. CASE ServerReturns
    <3>1. PICK b \in held, how \in {"plain", "bulk", "short"} :
             /\ held' = held \ {b}
             /\ rx' = Append(rx, [Message("S", how, b, FALSE) EXCEPT !.w = 0])
      BY <2>5 DEF ServerReturns
    <3>2. [Message("S", how, b, FALSE) EXCEPT !.w = 0] \in MessageOf
      BY <3>1, MessageType DEF MessageNames, Asker
    <3> QED
      BY <2>1, <2>5, <3>1, <3>2 DEF ServerReturns
  <2>6. CASE ServerEvent
    <3>1. PICK how \in {"plain", "bulk"} :
             rx' = Append(rx, [Message("S", how, Ev, FALSE) EXCEPT !.w = 0])
      BY <2>6 DEF ServerEvent
    <3>2. [Message("S", how, Ev, FALSE) EXCEPT !.w = 0] \in MessageOf
      BY <3>1, MessageType DEF MessageNames, Asker
    <3> QED
      BY <2>1, <2>6, <3>1, <3>2 DEF ServerEvent
  <2> QED
    BY <1>6, <2>3, <2>4, <2>5, <2>6 DEF Server
<1>7. CASE mmal_vc_vchiq_callback
  <2>1. UNCHANGED <<msgs, bulks, arr, held>>
    BY <1>7 DEF mmal_vc_vchiq_callback, KeepClient, WakeWaiter, BufferToHost,
                mmal_vc_handle_event_msg, BulkReceived
  <2>2. CASE WakeWaiter
    BY <2>1, <2>2 DEF WakeWaiter
  <2>3. CASE BufferToHost
    <3>1. Head(rx) \in MessageOf /\ rx' \in Seq(MessageOf) /\ home' = home
      BY <2>3 DEF BufferToHost
    <3> DEFINE b == Head(rx).buf
    <3>2. /\ bulkRx' = bulkRx \/ bulkRx' = Append(bulkRx, b)
          /\ cbq' = cbq \/ cbq' = Append(cbq, b)
      BY <2>3 DEF BufferToHost, Queue
    <3>3. b \in Buffers \cup {Ev}
      BY <3>1 DEF MessageOf
    <3> HIDE DEF b
    <3>4. /\ Append(bulkRx, b) \in Seq(Buffers \cup {Ev})
          /\ Append(cbq, b) \in Seq(Buffers \cup {Ev})
      BY <3>3
    <3>5. bulkRx' \in Seq(Buffers \cup {Ev}) /\ cbq' \in Seq(Buffers \cup {Ev})
      BY <3>2, <3>4
    <3> QED
      BY <2>1, <3>1, <3>5
  <2>4. CASE mmal_vc_handle_event_msg
    <3>1. rx # <<>> /\ rx' = Tail(rx) /\ (home' = home \/ home' = home \ {Ev})
      BY <2>4 DEF mmal_vc_handle_event_msg
    <3>2. /\ bulkRx' = bulkRx \/ bulkRx' = Append(bulkRx, Ev)
          /\ cbq' = cbq \/ cbq' = Append(cbq, Ev)
      BY <2>4 DEF mmal_vc_handle_event_msg, Queue
    <3>3. /\ Append(bulkRx, Ev) \in Seq(Buffers \cup {Ev})
          /\ Append(cbq, Ev) \in Seq(Buffers \cup {Ev})
      OBVIOUS
    <3>4. bulkRx' \in Seq(Buffers \cup {Ev}) /\ cbq' \in Seq(Buffers \cup {Ev})
      BY <3>2, <3>3
    <3> QED
      BY <2>1, <3>1, <3>4, QueueOf
  <2>5. CASE BulkReceived
    BY <2>1, <2>5 DEF BulkReceived, Queue
  <2> QED
    BY <1>7, <2>2, <2>3, <2>4, <2>5 DEF mmal_vc_vchiq_callback
<1>8. CASE mmal_vc_do_callback
  BY <1>8 DEF mmal_vc_do_callback, vcVars
<1> QED
  BY <1>1, <1>2, <1>3, <1>4, <1>5, <1>6, <1>7, <1>8, BufferEffects

-----------------------------------------------------------------------------
(* What is left of the calls.                                               *)

\* The rest of a call that creates or destroys a component is one too.
LEMMA LifeRest ==
    /\ Tail(Create) = <<"release", "use", "create", "alloc", "info">>
    /\ Tail(<<"release", "use", "create", "alloc", "info">>) = <<"use", "create", "alloc", "info">>
    /\ Tail(<<"use", "create", "alloc", "info">>) = <<"create", "alloc", "info">>
    /\ Tail(<<"create", "alloc", "info">>) = <<"alloc", "info">>
    /\ Tail(<<"alloc", "info">>) = <<"info">>
    /\ Tail(<<"info">>) = <<>>
    /\ Tail(Destroy) = <<"release", "deinit">>
    /\ Tail(<<"release", "deinit">>) = <<"deinit">>
    /\ Tail(<<"deinit">>) = <<>>
<1>1. Tail(Create) = <<"release", "use", "create", "alloc", "info">>
  BY DEF Create
<1>2. Tail(Destroy) = <<"release", "deinit">>
  BY DEF Destroy
<1> QED
  BY <1>1, <1>2

\* What is left of a call that creates or destroys a component has the next step first.
LEMMA LifeStep ==
    ASSUME NEW s \in LifeSteps
    PROVE  /\ s \in Seq(StepNames)
           /\ s # <<>> => Tail(s) \in LifeSteps /\ Head(s) \notin PortSteps \cup {"param"}
           /\ s # <<>> /\ Head(s) = "init" => s = Create /\ Tail(Tail(s)) \in LifeSteps
           /\ s # <<>> /\ Head(s) = "info" => Tail(s) = <<>>
<1> USE DEF PortSteps, StepNames
<1>1. CASE s = <<>>
  BY <1>1
<1>2. CASE s = Create
  <2>1. Head(s) = "init" /\ s \in Seq(StepNames)
    BY <1>2 DEF Create
  <2> QED
    BY <1>2, <2>1, LifeRest DEF LifeSteps
<1>3. CASE s = <<"release", "use", "create", "alloc", "info">>
  <2>1. Head(s) = "release" /\ s \in Seq(StepNames)
    BY <1>3
  <2> QED
    BY <1>3, <2>1, LifeRest DEF LifeSteps
<1>4. CASE s = <<"use", "create", "alloc", "info">>
  <2>1. Head(s) = "use" /\ s \in Seq(StepNames)
    BY <1>4
  <2> QED
    BY <1>4, <2>1, LifeRest DEF LifeSteps
<1>5. CASE s = <<"create", "alloc", "info">>
  <2>1. Head(s) = "create" /\ s \in Seq(StepNames)
    BY <1>5
  <2> QED
    BY <1>5, <2>1, LifeRest DEF LifeSteps
<1>6. CASE s = <<"alloc", "info">>
  <2>1. Head(s) = "alloc" /\ s \in Seq(StepNames)
    BY <1>6
  <2> QED
    BY <1>6, <2>1, LifeRest DEF LifeSteps
<1>7. CASE s = <<"info">>
  <2>1. Head(s) = "info" /\ s \in Seq(StepNames)
    BY <1>7
  <2> QED
    BY <1>7, <2>1, LifeRest DEF LifeSteps
<1>8. CASE s = Destroy
  <2>1. Head(s) = "destroy" /\ s \in Seq(StepNames)
    BY <1>8 DEF Destroy
  <2> QED
    BY <1>8, <2>1, LifeRest DEF LifeSteps
<1>9. CASE s = <<"release", "deinit">>
  <2>1. Head(s) = "release" /\ s \in Seq(StepNames)
    BY <1>9
  <2> QED
    BY <1>9, <2>1, LifeRest DEF LifeSteps
<1>10. CASE s = <<"deinit">>
  <2>1. Head(s) = "deinit" /\ s \in Seq(StepNames)
    BY <1>10
  <2> QED
    BY <1>10, <2>1, LifeRest DEF LifeSteps
<1> QED
  BY <1>1, <1>2, <1>3, <1>4, <1>5, <1>6, <1>7, <1>8, <1>9, <1>10 DEF LifeSteps

\* The order of the steps of such a call.
LEMMA LifeOrder ==
    ASSUME NEW s \in LifeSteps, s # <<>>
    PROVE  /\ Head(s) = "init" =>
                 /\ Tail(s) # <<>> /\ Head(Tail(s)) = "release"
                 /\ Tail(Tail(s)) # <<>> /\ Head(Tail(Tail(s))) = "use"
           /\ Head(s) = "release" => Tail(s) # <<>> /\ Head(Tail(s)) \in {"use", "deinit"}
           /\ Head(s) = "use" => Tail(s) # <<>> /\ Head(Tail(s)) = "create"
           /\ Head(s) = "create" => Tail(s) # <<>> /\ Head(Tail(s)) = "alloc"
           /\ Head(s) = "alloc" => Tail(s) # <<>> /\ Head(Tail(s)) = "info"
           /\ Head(s) = "destroy" => Tail(s) # <<>> /\ Head(Tail(s)) = "release"
           /\ Head(s) \in {"info", "deinit"} => Tail(s) = <<>>
<1>1. CASE s = Create
  <2>1. Head(s) = "init"
    BY <1>1 DEF Create
  <2>2. /\ Tail(s) # <<>> /\ Head(Tail(s)) = "release"
    <3>1. Tail(s) = <<"release", "use", "create", "alloc", "info">>
      BY <1>1, LifeRest
    <3>2. /\ <<"release", "use", "create", "alloc", "info">> # <<>>
          /\ Head(<<"release", "use", "create", "alloc", "info">>) = "release"
      OBVIOUS
    <3> QED
      BY <3>1, <3>2
  <2>3. Tail(Tail(s)) # <<>> /\ Head(Tail(Tail(s))) = "use"
    <3>1. Tail(Tail(s)) = <<"use", "create", "alloc", "info">>
      BY <1>1, LifeRest
    <3>2. /\ <<"use", "create", "alloc", "info">> # <<>>
          /\ Head(<<"use", "create", "alloc", "info">>) = "use"
      OBVIOUS
    <3> QED
      BY <3>1, <3>2
  <2> QED
    BY <2>1, <2>2, <2>3
<1>2. CASE s = <<"release", "use", "create", "alloc", "info">>
  <2>1. Head(s) = "release"
    BY <1>2
  <2>2. Tail(s) # <<>> /\ Head(Tail(s)) = "use"
    <3>1. Tail(s) = <<"use", "create", "alloc", "info">>
      BY <1>2
    <3>2. <<"use", "create", "alloc", "info">> # <<>> /\ Head(<<"use", "create", "alloc", "info">>) = "use"
      OBVIOUS
    <3> QED
      BY <3>1, <3>2
  <2> QED
    BY <2>1, <2>2
<1>3. CASE s = <<"use", "create", "alloc", "info">>
  <2>1. Head(s) = "use"
    BY <1>3
  <2>2. Tail(s) # <<>> /\ Head(Tail(s)) = "create"
    <3>1. Tail(s) = <<"create", "alloc", "info">>
      BY <1>3
    <3>2. <<"create", "alloc", "info">> # <<>> /\ Head(<<"create", "alloc", "info">>) = "create"
      OBVIOUS
    <3> QED
      BY <3>1, <3>2
  <2> QED
    BY <2>1, <2>2
<1>4. CASE s = <<"create", "alloc", "info">>
  <2>1. Head(s) = "create"
    BY <1>4
  <2>2. Tail(s) # <<>> /\ Head(Tail(s)) = "alloc"
    <3>1. Tail(s) = <<"alloc", "info">>
      BY <1>4
    <3>2. <<"alloc", "info">> # <<>> /\ Head(<<"alloc", "info">>) = "alloc"
      OBVIOUS
    <3> QED
      BY <3>1, <3>2
  <2> QED
    BY <2>1, <2>2
<1>5. CASE s = <<"alloc", "info">>
  <2>1. Head(s) = "alloc"
    BY <1>5
  <2>2. Tail(s) # <<>> /\ Head(Tail(s)) = "info"
    <3>1. Tail(s) = <<"info">>
      BY <1>5
    <3>2. <<"info">> # <<>> /\ Head(<<"info">>) = "info"
      OBVIOUS
    <3> QED
      BY <3>1, <3>2
  <2> QED
    BY <2>1, <2>2
<1>6. CASE s = <<"info">>
  <2>1. Head(s) = "info" /\ Tail(s) = <<>>
    BY <1>6
  <2> QED
    BY <2>1
<1>7. CASE s = Destroy
  <2>1. Head(s) = "destroy"
    BY <1>7 DEF Destroy
  <2>2. Tail(s) # <<>> /\ Head(Tail(s)) = "release"
    <3>1. Tail(s) = <<"release", "deinit">>
      BY <1>7 DEF Destroy
    <3>2. <<"release", "deinit">> # <<>> /\ Head(<<"release", "deinit">>) = "release"
      OBVIOUS
    <3> QED
      BY <3>1, <3>2
  <2> QED
    BY <2>1, <2>2
<1>8. CASE s = <<"release", "deinit">>
  <2>1. Head(s) = "release"
    BY <1>8
  <2>2. Tail(s) # <<>> /\ Head(Tail(s)) = "deinit"
    <3>1. Tail(s) = <<"deinit">>
      BY <1>8
    <3>2. <<"deinit">> # <<>> /\ Head(<<"deinit">>) = "deinit"
      OBVIOUS
    <3> QED
      BY <3>1, <3>2
  <2> QED
    BY <2>1, <2>2
<1>9. CASE s = <<"deinit">>
  <2>1. Head(s) = "deinit" /\ Tail(s) = <<>>
    BY <1>9
  <2> QED
    BY <2>1
<1> QED
  BY <1>1, <1>2, <1>3, <1>4, <1>5, <1>6, <1>7, <1>8, <1>9 DEF LifeSteps

\* The rest of a call on the port is one too.
LEMMA ShapeRest ==
    ASSUME NEW s, PortShaped(s), s # <<>>
    PROVE  PortShaped(Tail(s)) /\ Head(s) \in PortSteps
<1> USE DEF PortShaped
<1> DEFINE r == Tail(s)
           n == Len(s)
<1>1. /\ r \in Seq(PortSteps) /\ n \in Nat \ {0} /\ Len(r) = n - 1
      /\ \A j \in 1..(n - 1) : r[j] = s[j + 1]
  OBVIOUS
<1>2. /\ DOMAIN s = 1..n /\ DOMAIN r = 1..(n - 1)
  BY <1>1
<1>3. Head(s) \in PortSteps
  OBVIOUS
<1> HIDE DEF r, n
<1>4. ASSUME NEW j \in DOMAIN r
      PROVE  /\ r[j] \in {"off", "failed"} => j = 1
             /\ r[j] \in {"on", "unflush", "failed", "flush?", "back", "connect"} => j = Len(r)
             /\ r[j] = "disable" => j < Len(r) /\ r[j + 1] = "drop"
             /\ r[j] = "drop" /\ j > 1 => r[j - 1] = "disable"
             /\ r[j] = "sendlock" => j + 1 = Len(r) /\ r[j + 1] = "flush?"
             /\ r[j] = "flush?" /\ j > 1 => r[j - 1] = "sendlock"
             /\ r[j] \in {"flush", "sync", "version"} => j = 1 /\ Len(r) = 2 /\ r[2] = "unflush"
             /\ r[j] = "unflush" /\ j > 1 => r[1] \in {"flush", "sync", "version"}
  <2>1. j \in 1..(n - 1) /\ j + 1 \in 1..n /\ r[j] = s[j + 1]
    BY <1>1, <1>2
  <2>2. n = Len(s)
    BY DEF n
  <2>3. /\ s[j + 1] \in {"off", "failed"} => j + 1 = 1
        /\ s[j + 1] \in {"on", "unflush", "failed", "flush?", "back", "connect"} => j + 1 = n
        /\ s[j + 1] = "disable" => j + 1 < n /\ s[j + 1 + 1] = "drop"
        /\ s[j + 1] = "drop" /\ j + 1 > 1 => s[j + 1 - 1] = "disable"
        /\ s[j + 1] = "sendlock" => j + 1 + 1 = n /\ s[j + 1 + 1] = "flush?"
        /\ s[j + 1] = "flush?" /\ j + 1 > 1 => s[j + 1 - 1] = "sendlock"
        /\ s[j + 1] \in {"flush", "sync", "version"} => j + 1 = 1 /\ n = 2 /\ s[2] = "unflush"
        /\ s[j + 1] = "unflush" /\ j + 1 > 1 => s[1] \in {"flush", "sync", "version"}
    BY <1>2, <2>1, <2>2
  <2>4. s[1] \in {"flush", "sync", "version"} => n = 2
    BY <1>1, <1>2, <2>2
  <2>5. j \in Nat /\ n \in Nat /\ Len(r) = n - 1
    BY <1>1, <2>1
  <2>6. r[j] \notin {"off", "failed", "flush", "sync", "version"}
    <3>1. j + 1 # 1
      BY <2>5, <2>1
    <3> QED
      BY <2>1, <2>3, <3>1
  <2>7. r[j] \in {"on", "unflush", "failed", "flush?", "back", "connect"} => j = Len(r)
    BY <2>1, <2>3, <2>5
  <2>8. r[j] = "disable" => j < Len(r) /\ r[j + 1] = "drop"
    <3>1. j + 1 < n => j < Len(r) /\ r[j + 1] = s[j + 1 + 1]
      BY <1>1, <1>2, <2>1, <2>5
    <3> QED
      BY <2>1, <2>3, <3>1
  <2>9. /\ r[j] = "drop" /\ j > 1 => r[j - 1] = "disable"
        /\ r[j] = "flush?" /\ j > 1 => r[j - 1] = "sendlock"
    <3>1. j > 1 => j + 1 > 1 /\ r[j - 1] = s[j + 1 - 1]
      BY <1>1, <1>2, <2>1, <2>5
    <3> QED
      BY <2>1, <2>3, <3>1
  <2>10. r[j] = "sendlock" => j + 1 = Len(r) /\ r[j + 1] = "flush?"
    <3>1. j + 1 + 1 = n => j + 1 = Len(r) /\ r[j + 1] = s[j + 1 + 1]
      BY <1>1, <1>2, <2>1, <2>5
    <3> QED
      BY <2>1, <2>3, <3>1
  <2>11. ~(r[j] = "unflush" /\ j > 1)
    <3>1. ASSUME r[j] = "unflush", j > 1 PROVE FALSE
      <4>1. s[1] \in {"flush", "sync", "version"}
        BY <2>1, <2>3, <2>5, <3>1
      <4>2. n = 2
        BY <2>4, <4>1
      <4> QED
        BY <2>1, <2>5, <3>1, <4>2
    <3> QED
      BY <3>1
  <2> QED
    BY <2>6, <2>7, <2>8, <2>9, <2>10, <2>11
<1> QED
  BY <1>1, <1>3, <1>4 DEF r

\* A call goes on with other steps.
LEMMA TodoSet ==
    ASSUME TodoInv, NEW t \in {"C", "Q"}, NEW s, Continue(t, s), UNCHANGED up,
           ~up[t] => s \in LifeSteps,
           t = "C" /\ up[t] => PortShaped(s),
           t = "Q" /\ up[t] => s \in {<<>>, <<"param">>, <<"sync">>}
    PROVE  TodoInv' /\ todo'[t] = s
<1>1. s \in Seq(StepNames)
  <2>1. CASE ~up[t]
    BY <2>1, LifeStep
  <2>2. CASE t = "C" /\ up[t]
    BY <2>2 DEF PortShaped, StepNames
  <2>3. CASE t = "Q" /\ up[t]
    <3>1. s = <<>> \/ s = <<"param">> \/ s = <<"sync">>
      BY <2>3
    <3>2. <<"param">> \in Seq(StepNames) /\ <<"sync">> \in Seq(StepNames) /\ <<>> \in Seq(StepNames)
      BY DEF StepNames, PortSteps
    <3> QED
      BY <3>1, <3>2
  <2> QED
    BY <2>1, <2>2, <2>3
<1>2. /\ todo \in [{"C", "Q"} -> Seq(StepNames)] /\ todo' = [todo EXCEPT ![t] = s]
  BY DEF TodoInv, Continue
<1>3. todo'[t] = s /\ \A u \in {"C", "Q"} \ {t} : todo'[u] = todo[u]
  BY <1>2
<1>4. todo' \in [{"C", "Q"} -> Seq(StepNames)]
  BY <1>1, <1>2
<1>5. \A u \in {"C", "Q"} : ~up'[u] => todo'[u] \in LifeSteps
  BY <1>3 DEF TodoInv
<1>6. up'["C"] => PortShaped(todo'["C"])
  BY <1>3 DEF TodoInv
<1>7. up'["Q"] => todo'["Q"] \in {<<>>, <<"param">>, <<"sync">>}
  BY <1>3 DEF TodoInv
<1> QED
  BY <1>3, <1>4, <1>5, <1>6, <1>7 DEF TodoInv

\* Only a thread without a component is at the steps that make one, and only C with a
\* component is at those of the port.
LEMMA AtLife ==
    ASSUME TodoInv, Threads, NEW t \in {"C", "Q"}, todo[t] # <<>>
    PROVE  /\ up[t] /\ t = "C" => Head(todo[t]) \in PortSteps /\ PortShaped(Tail(todo[t]))
           /\ up[t] /\ t = "Q" => Head(todo[t]) \in {"param", "sync"} /\ Tail(todo[t]) = <<>>
           /\ ~up[t] => Head(todo[t]) \notin PortSteps /\ Tail(todo[t]) \in LifeSteps
<1>1. ASSUME up[t], t = "C" PROVE Head(todo[t]) \in PortSteps /\ PortShaped(Tail(todo[t]))
  BY <1>1, ShapeRest DEF TodoInv
<1>2. ASSUME up[t], t = "Q" PROVE Head(todo[t]) \in {"param", "sync"} /\ Tail(todo[t]) = <<>>
  <2>1. todo["Q"] = <<"param">> \/ todo["Q"] = <<"sync">>
    BY <1>2 DEF TodoInv
  <2>2. /\ Head(<<"param">>) = "param" /\ Tail(<<"param">>) = <<>>
        /\ Head(<<"sync">>) = "sync" /\ Tail(<<"sync">>) = <<>>
    OBVIOUS
  <2>3. CASE todo["Q"] = <<"param">>
    BY <1>2, <2>2, <2>3
  <2>4. CASE todo["Q"] = <<"sync">>
    BY <1>2, <2>2, <2>4
  <2> QED
    BY <2>1, <2>3, <2>4
<1>3. ASSUME ~up[t] PROVE Head(todo[t]) \notin PortSteps /\ Tail(todo[t]) \in LifeSteps
  BY <1>3, LifeStep DEF TodoInv
<1> QED
  BY <1>1, <1>2, <1>3

\* A step of a call is done.
LEMMA TodoStep ==
    ASSUME TodoInv, Threads, NEW t \in {"C", "Q"}, todo[t] # <<>>, Step(t), UNCHANGED up
    PROVE  TodoInv' /\ todo'[t] = Tail(todo[t])
<1>1. Continue(t, Tail(todo[t]))
  BY DEF Step
<1>2. /\ ~up[t] => Tail(todo[t]) \in LifeSteps
      /\ t = "C" /\ up[t] => PortShaped(Tail(todo[t]))
      /\ t = "Q" /\ up[t] => Tail(todo[t]) \in {<<>>, <<"param">>, <<"sync">>}
  BY AtLife
<1> QED
  BY <1>1, <1>2, TodoSet

\* The steps of a life begin and go on.
LEMMA LifeInv ==
    ASSUME TodoInv, Threads, NEW t \in {"C", "Q"}, Component(t)
    PROVE  TodoInv'
<1> USE DEF PortSteps
<1>a. Create \in LifeSteps /\ Destroy \in LifeSteps /\ <<>> \in LifeSteps /\ Tail(Destroy) \in LifeSteps
  BY LifeRest DEF LifeSteps
<1>b. up \in [{"C", "Q"} -> BOOLEAN]
  BY DEF Threads
<1>1. CASE mmal_vc_component_create(t)
  <2>1. ~up[t] /\ Continue(t, Create) /\ UNCHANGED up
    BY <1>1 DEF mmal_vc_component_create, Begin
  <2> QED
    BY <1>a, <2>1, TodoSet
<1>2. CASE mmal_vc_component_destroy(t)
  <2>1. todo' = [todo EXCEPT ![t] = Destroy] /\ up' = [up EXCEPT ![t] = FALSE]
    BY <1>2 DEF mmal_vc_component_destroy, Begin, Continue
  <2>2. \A u \in {"C", "Q"} \ {t} : todo'[u] = todo[u] /\ up'[u] = up[u]
    BY <1>b, <2>1 DEF TodoInv
  <2>3. todo'[t] = Destroy /\ ~up'[t]
    BY <1>b, <2>1 DEF TodoInv
  <2>4. todo' \in [{"C", "Q"} -> Seq(StepNames)]
    BY <2>1, <1>a, LifeStep DEF TodoInv
  <2>5. \A u \in {"C", "Q"} : ~up'[u] => todo'[u] \in LifeSteps
    BY <1>a, <2>2, <2>3 DEF TodoInv
  <2>6. up'["C"] => PortShaped(todo'["C"])
    BY <2>2, <2>3 DEF TodoInv
  <2>7. up'["Q"] => todo'["Q"] \in {<<>>, <<"param">>, <<"sync">>}
    BY <2>2, <2>3 DEF TodoInv
  <2> QED
    BY <2>4, <2>5, <2>6, <2>7 DEF TodoInv
<1>3. CASE mmal_vc_init(t)
  <2>1. UNCHANGED up /\ todo[t] # <<>> /\ Head(todo[t]) = "init"
    BY <1>3 DEF mmal_vc_init, Is
  <2>2. ~up[t]
    BY <2>1, AtLife
  <2>3. Tail(Tail(todo[t])) \in LifeSteps /\ Tail(todo[t]) \in LifeSteps
    BY <2>1, <2>2, LifeStep DEF TodoInv
  <2>4. Continue(t, Tail(Tail(todo[t]))) \/ Continue(t, Tail(todo[t])) \/ Continue(t, <<>>)
    BY <1>3 DEF mmal_vc_init, Step
  <2> QED
    BY <1>a, <2>1, <2>2, <2>3, <2>4, TodoSet
<1>4. CASE mmal_vc_use(t) \/ mmal_vc_release(t) \/ mmal_vc_deinit(t) \/ Ignored(t)
  BY <1>4, TodoStep DEF mmal_vc_use, mmal_vc_release, mmal_vc_deinit, Ignored, Is
<1>5. CASE Request(t)
  BY <1>5 DEF Request, TodoInv
<1>6. CASE Created(t) \/ AllocComponent(t)
  <2>1. UNCHANGED up /\ todo[t] # <<>> /\ Head(todo[t]) \in {"create", "alloc"}
    BY <1>6 DEF Created, AllocComponent, Is
  <2>2. ~up[t]
    BY <2>1, AtLife
  <2>3. Step(t) \/ Continue(t, Tail(Destroy)) \/ Continue(t, Destroy)
    BY <1>6 DEF Created, AllocComponent
  <2> QED
    BY <1>a, <2>1, <2>2, <2>3, TodoSet, TodoStep
<1>7. CASE mmal_vc_port_info_get(t)
  <2>1. todo[t] # <<>> /\ Head(todo[t]) = "info"
    BY <1>7 DEF mmal_vc_port_info_get, Is
  <2>2. ~up[t]
    BY <2>1, AtLife
  <2>3. CASE UNCHANGED up /\ Continue(t, Destroy)
    BY <1>a, <2>2, <2>3, TodoSet
  <2>4. CASE up' = [up EXCEPT ![t] = TRUE] /\ Step(t)
    <3>1. Tail(todo[t]) = <<>>
      BY <2>1, <2>2, LifeStep DEF TodoInv
    <3>2. todo' = [todo EXCEPT ![t] = <<>>]
      BY <2>4, <3>1 DEF Step, Continue
    <3>3. \A u \in {"C", "Q"} \ {t} : todo'[u] = todo[u] /\ up'[u] = up[u]
      BY <1>b, <2>4, <3>2 DEF TodoInv
    <3>4. todo'[t] = <<>> /\ up'[t]
      BY <1>b, <2>4, <3>2 DEF TodoInv
    <3>5. todo' \in [{"C", "Q"} -> Seq(StepNames)]
      BY <3>2 DEF TodoInv
    <3>6. \A u \in {"C", "Q"} : ~up'[u] => todo'[u] \in LifeSteps
      BY <3>3, <3>4 DEF TodoInv
    <3>7. PortShaped(<<>>)
      BY DEF PortShaped
    <3>8. up'["C"] => PortShaped(todo'["C"])
      BY <3>3, <3>4, <3>7 DEF TodoInv
    <3>9. up'["Q"] => todo'["Q"] \in {<<>>, <<"param">>, <<"sync">>}
      BY <3>3, <3>4 DEF TodoInv
    <3> QED
      BY <3>5, <3>6, <3>8, <3>9 DEF TodoInv
  <2> QED
    BY <1>7, <2>3, <2>4 DEF mmal_vc_port_info_get
<1> QED
  BY <1>1, <1>2, <1>3, <1>4, <1>5, <1>6, <1>7 DEF Component

\* The calls on the port.
LEMMA Shapes ==
    /\ PortShaped(<<>>)
    /\ PortShaped(<<"require", "enable", "after", "on">>) /\ PortShaped(<<"pool", "enable", "on">>)
    /\ PortShaped(<<"off", "actlock", "disable", "drop", "drain">> \o <<"after">> \o
                  <<"unlock", "back">>)
    /\ PortShaped(<<"off", "actlock", "disable", "drop", "drain">> \o <<>> \o <<"unlock", "back">>)
    /\ PortShaped(<<"actlock", "sendlock", "flush?">>) /\ PortShaped(<<"connect">>)
    /\ PortShaped(<<"flush", "unflush">>) /\ PortShaped(<<"sync", "unflush">>)
    /\ PortShaped(<<"version", "unflush">>)
    /\ PortShaped(<<"unflush">>) /\ PortShaped(<<"failed">>)
<1> USE DEF PortShaped, PortSteps
<1>1. PortShaped(<<>>)
  OBVIOUS
<1>2. PortShaped(<<"require", "enable", "after", "on">>)
  OBVIOUS
<1>3. PortShaped(<<"pool", "enable", "on">>)
  OBVIOUS
<1>4. PortShaped(<<"off", "actlock", "disable", "drop", "drain">> \o <<"after">> \o
                  <<"unlock", "back">>)
  OBVIOUS
<1>5. PortShaped(<<"off", "actlock", "disable", "drop", "drain">> \o <<>> \o <<"unlock", "back">>)
  OBVIOUS
<1>6. PortShaped(<<"actlock", "sendlock", "flush?">>) /\ PortShaped(<<"connect">>)
  OBVIOUS
<1>7. PortShaped(<<"flush", "unflush">>)
  OBVIOUS
<1>8. PortShaped(<<"sync", "unflush">>)
  OBVIOUS
<1>9. PortShaped(<<"version", "unflush">>)
  OBVIOUS
<1>10. PortShaped(<<"unflush">>) /\ PortShaped(<<"failed">>)
  OBVIOUS
<1> QED
  BY <1>1, <1>2, <1>3, <1>4, <1>5, <1>6, <1>7, <1>8, <1>9, <1>10

\* A port whose disable the server refused is on again in the end.
LEMMA ShapeOn ==
    ASSUME NEW s, PortShaped(s), s # <<>>
    PROVE  PortShaped([i \in DOMAIN Tail(s) |-> IF s[i + 1] = "back" THEN "on" ELSE s[i + 1]])
<1> DEFINE r == Tail(s)
           q == [i \in DOMAIN r |-> IF s[i + 1] = "back" THEN "on" ELSE s[i + 1]]
           n == Len(r)
<1>1. PortShaped(r)
  BY ShapeRest
<1>2. /\ n \in Nat /\ DOMAIN r = 1..n /\ r \in Seq(PortSteps) /\ \A i \in 1..n : r[i] = s[i + 1]
  BY <1>1 DEF PortShaped
<1>3. \A i \in 1..n : q[i] = IF r[i] = "back" THEN "on" ELSE r[i]
  BY <1>2
<1>4. q \in [1..n -> PortSteps]
  <2>1. \A i \in 1..n : r[i] \in PortSteps
    BY <1>2
  <2>2. DOMAIN q = 1..n
    BY <1>2
  <2> QED
    BY <1>3, <2>1, <2>2 DEF PortSteps
<1>5. q \in Seq(PortSteps) /\ Len(q) = n /\ DOMAIN q = 1..n
  BY <1>2, <1>4
<1>6. n = Len(r)
  OBVIOUS
<1> HIDE DEF r, q, n
<1>7. ASSUME NEW j \in 1..n
      PROVE  /\ q[j] \in {"off", "failed"} => j = 1
             /\ q[j] \in {"on", "unflush", "failed", "flush?", "back", "connect"} => j = n
             /\ q[j] = "disable" => j < n /\ q[j + 1] = "drop"
             /\ q[j] = "drop" /\ j > 1 => q[j - 1] = "disable"
             /\ q[j] = "sendlock" => j + 1 = n /\ q[j + 1] = "flush?"
             /\ q[j] = "flush?" /\ j > 1 => q[j - 1] = "sendlock"
             /\ q[j] \in {"flush", "sync", "version"} => j = 1 /\ n = 2 /\ q[2] = "unflush"
             /\ q[j] = "unflush" /\ j > 1 => q[1] \in {"flush", "sync", "version"}
  <2>1. /\ r[j] \in {"off", "failed"} => j = 1
        /\ r[j] \in {"on", "unflush", "failed", "flush?", "back", "connect"} => j = n
        /\ r[j] = "disable" => j < n /\ r[j + 1] = "drop"
        /\ r[j] = "drop" /\ j > 1 => r[j - 1] = "disable"
        /\ r[j] = "sendlock" => j + 1 = n /\ r[j + 1] = "flush?"
        /\ r[j] = "flush?" /\ j > 1 => r[j - 1] = "sendlock"
        /\ r[j] \in {"flush", "sync", "version"} => j = 1 /\ n = 2 /\ r[2] = "unflush"
        /\ r[j] = "unflush" /\ j > 1 => r[1] \in {"flush", "sync", "version"}
    BY <1>1, <1>2, <1>6 DEF PortShaped
  <2> QED
    BY <1>2, <1>3, <2>1
<1>8. PortShaped(q)
  BY <1>5, <1>7 DEF PortShaped
<1> QED
  BY <1>8 DEF q, r

\* The steps of the calls on the port.
LEMMA PortTodo ==
    ASSUME TodoInv, Threads, Port
    PROVE  TodoInv' /\ up' = up
<1>a. up \in [{"C", "Q"} -> BOOLEAN]
  BY DEF Threads
<1>0. up' = up
  BY DEF Port, mmal_vc_port_enable, mmal_vc_port_disable, mmal_port_flush,
         mmal_vc_port_connect, mmal_vc_port_flush, StartPort, CreatePool, PortStep, DropPool,
         Drain, KeepPort, PortRequest, EnableAnswered, DisableAnswered, VersionKnown, Flushed,
         Connected
<1> SUFFICES TodoInv'
  BY <1>0
<1>b. ASSUME NEW x \in PortSteps, Is("C", x) PROVE up["C"]
  BY <1>b, AtLife DEF Is
<1>c. ASSUME up["C"], NEW s, PortShaped(s), Continue("C", s) PROVE TodoInv'
  BY <1>0, <1>c, TodoSet
<1>d. ASSUME todo["C"] # <<>>, Step("C") PROVE TodoInv'
  BY <1>0, <1>d, TodoStep
<1>1. CASE mmal_vc_port_enable
  BY <1>1, <1>c, Shapes DEF mmal_vc_port_enable, StartPort, PortIdle
<1>2. CASE mmal_vc_port_disable
  BY <1>2, <1>c, Shapes DEF mmal_vc_port_disable, StartPort, PortIdle
<1>3. CASE mmal_port_flush \/ mmal_vc_port_connect
  BY <1>3, <1>c, Shapes DEF mmal_port_flush, mmal_vc_port_connect, StartPort, PortIdle
<1>4. CASE mmal_vc_port_flush
  BY <1>4, <1>b, <1>c, Shapes DEF mmal_vc_port_flush, PortSteps
<1>5. CASE PortRequest
  BY <1>5 DEF PortRequest, TodoInv
<1>6. CASE CreatePool
  BY <1>6, <1>b, <1>c, <1>d, Shapes DEF CreatePool, PortSteps, Is
<1>7. CASE EnableAnswered
  <2>1. up["C"] /\ todo["C"] # <<>>
    BY <1>7, <1>b DEF EnableAnswered, PortSteps, Is
  <2> QED
    BY <1>7, <2>1, <1>c, <1>d, Shapes DEF EnableAnswered
<1>8. CASE PortStep \/ DropPool \/ Connected
  <2>1. todo["C"] # <<>> /\ Step("C")
    BY <1>8 DEF PortStep, DropPool, Connected, Is
  <2> QED
    BY <2>1, <1>d
<1>9. CASE DisableAnswered
  <2>1. up["C"] /\ todo["C"] # <<>>
    BY <1>9, <1>b DEF DisableAnswered, PortSteps, Is
  <2>2. PortShaped(todo["C"])
    BY <2>1 DEF TodoInv
  <2> QED
    BY <1>9, <2>1, <2>2, <1>c, ShapeRest, ShapeOn DEF DisableAnswered
<1>10. CASE Drain
  <2>1. CASE todo' = todo
    BY <1>0, <2>1 DEF TodoInv
  <2> QED
    BY <1>10, <2>1, <1>d DEF Drain, Is
<1>11. CASE VersionKnown
  <2>1. up["C"]
    BY <1>11, <1>b DEF VersionKnown, PortSteps
  <2> QED
    BY <1>11, <2>1, <1>c, Shapes DEF VersionKnown
<1>12. CASE Flushed
  <2>1. up["C"]
    BY <1>12, <1>b DEF Flushed, PortSteps
  <2> QED
    BY <1>12, <2>1, <1>c, Shapes DEF Flushed
<1> QED
  BY <1>0, <1>1, <1>2, <1>3, <1>4, <1>5, <1>6, <1>7, <1>8, <1>9, <1>10, <1>11, <1>12 DEF Port

\* The calls of C and Q go on, and nothing else changes what is left of them.
LEMMA CallEffects ==
    ASSUME Next
    PROVE  UNCHANGED <<todo, up>> \/ (\E t \in {"C", "Q"} : Component(t)) \/ OtherRequest \/ Port
<1>1. ASSUME NEW t \in Asker, mmal_vc_sendwait_message(t) PROVE UNCHANGED <<todo, up>>
  BY <1>1 DEF mmal_vc_sendwait_message, get_waiter, QueueMessage, QueueDummy, WaitReply,
              release_waiter, AskUnchanged
<1>2. CASE Send
  BY <1>2 DEF Send, mmal_vc_port_send, AllocContext, LockBulk, mmal_vc_send_message,
              QueueBulk, KeepSend, SendVersion
<1>3. CASE Server
  BY <1>3 DEF Server, ServerTakes, DataArrives, ServerReturns, ServerEvent, KeepServer
<1>4. CASE mmal_vc_vchiq_callback \/ mmal_vc_do_callback
  BY <1>4 DEF mmal_vc_vchiq_callback, mmal_vc_do_callback, WakeWaiter, BufferToHost,
              mmal_vc_handle_event_msg, BulkReceived, KeepClient
<1> QED
  BY <1>1, <1>2, <1>3, <1>4 DEF Next

\* What is left of every call keeps its shape.
LEMMA TodoInvStep ==
    ASSUME TodoInv, Threads, Next
    PROVE  TodoInv'
<1>1. CASE UNCHANGED <<todo, up>>
  BY <1>1 DEF TodoInv
<1>2. CASE OtherRequest
  <2>1. up["Q"] /\ UNCHANGED up /\ \E msg \in {"param", "sync"} : Continue("Q", <<msg>>)
    BY <1>2 DEF OtherRequest, Begin
  <2> QED
    BY <2>1, TodoSet
<1> QED
  BY <1>1, <1>2, CallEffects, LifeInv, PortTodo

\* While a thread asks, its call stays where it is, and so does its component.
LEMMA AskingStays ==
    ASSUME AskInv, TodoInv, Threads, WaiterTypes, Next, NEW t \in {"C", "Q"}, ask[t].pc # "none"
    PROVE  (todo'[t] = todo[t] /\ up'[t] = up[t]) \/ Answered(t)
<1>0. Is(t, ask[t].msg) /\ ask[t].msg \in RequestNames
  <2>1. ask[t] \in AskOf /\ ask[t].msg # "none"
    BY DEF AskInv, WaiterTypes, Asker
  <2> QED
    BY <2>1 DEF AskInv, AskOf
<1>a. Head(todo[t]) = ask[t].msg /\ todo[t] # <<>>
  BY <1>0 DEF Is
<1>b. todo \in [{"C", "Q"} -> Seq(StepNames)] /\ up \in [{"C", "Q"} -> BOOLEAN]
  BY DEF TodoInv, Threads
<1>1. ASSUME NEW u \in {"C", "Q"}, u # t, Component(u)
      PROVE  todo'[t] = todo[t] /\ up'[t] = up[t]
  BY <1>1, <1>b DEF Component, mmal_vc_component_create, mmal_vc_component_destroy, mmal_vc_init,
       mmal_vc_use, mmal_vc_release, mmal_vc_deinit, AllocComponent, Begin, Request, Created,
       Ignored, mmal_vc_port_info_get, Continue, Step
<1>2. ASSUME Component(t)
      PROVE  (todo'[t] = todo[t] /\ up'[t] = up[t]) \/ Answered(t)
  <2>1. CASE Created(t) \/ Ignored(t) \/ mmal_vc_port_info_get(t)
    BY <2>1 DEF Created, Ignored, mmal_vc_port_info_get
  <2>2. CASE Request(t)
    BY <2>2 DEF Request
  <2> QED
    BY <1>2, <1>0, <1>a, <2>1, <2>2
       DEF Component, mmal_vc_component_create, mmal_vc_component_destroy, mmal_vc_init,
           mmal_vc_use, mmal_vc_release, mmal_vc_deinit, AllocComponent, Begin, Is, RequestNames
<1>3. ASSUME OtherRequest
      PROVE  todo'[t] = todo[t] /\ up'[t] = up[t]
  BY <1>3, <1>a, <1>b DEF OtherRequest, Begin, Continue
<1>4. ASSUME Port
      PROVE  (todo'[t] = todo[t] /\ up'[t] = up[t]) \/ Answered(t)
  <2>1. up' = up
    BY <1>4, PortTodo
  <2>2. CASE t = "Q"
    BY <1>4, <1>b, <2>1, <2>2
       DEF Port, mmal_vc_port_enable, mmal_vc_port_disable, mmal_port_flush,
           mmal_vc_port_connect, mmal_vc_port_flush, StartPort, CreatePool, PortStep, DropPool,
           Drain, PortRequest, EnableAnswered, DisableAnswered, VersionKnown, Flushed, Connected,
           Continue, Step
  <2>3. CASE t = "C"
    <3>1. CASE EnableAnswered \/ DisableAnswered \/ VersionKnown \/ Flushed \/ Connected
      BY <2>3, <3>1 DEF EnableAnswered, DisableAnswered, VersionKnown, Flushed, Connected
    <3>2. CASE PortRequest
      BY <2>1, <3>2 DEF PortRequest
    <3> QED
      BY <1>4, <1>0, <1>a, <2>3, <3>1, <3>2
         DEF Port, mmal_vc_port_enable, mmal_vc_port_disable, mmal_port_flush, PortIdle,
             mmal_vc_port_connect, mmal_vc_port_flush, StartPort, CreatePool, PortStep, DropPool,
             Drain, Is, RequestNames
  <2> QED
    BY <2>2, <2>3
<1> QED
  BY <1>1, <1>2, <1>3, <1>4, CallEffects

\* The reply that is waiting for a thread is the one to its request.
LEMMA OwnDest ==
    ASSUME WaitInv, MessageInv, NEW t \in Asker, ask[t].pc = "wait", sem[ask[t].w] > 0
    PROVE  /\ ask[t].w \in Waiters
           /\ dest[ask[t].w].from = t /\ dest[ask[t].w].id = ask[t].msg
           /\ ~dest[ask[t].w].ok => nfail > 0
<1>1. ask[t].w \in Waiters /\ HasWaiter(t)
  BY DEF WaitInv, HasWaiter
<1> DEFINE s == dest[ask[t].w].from
<1>2. s \in Asker /\ Out(s) /\ ask[s].w = ask[t].w /\ ask[s].msg = dest[ask[t].w].id
      /\ (~dest[ask[t].w].ok => nfail > 0)
  BY <1>1 DEF MessageInv
<1>3. HasWaiter(s)
  BY <1>2 DEF Out, HasWaiter
<1> HIDE DEF s
<1>4. s = t
  BY <1>1, <1>2, <1>3 DEF WaitInv
<1> QED
  BY <1>1, <1>2, <1>4 DEF s

\* A thread asks what its call is at, and gets the reply to that.
LEMMA AskInvStep ==
    ASSUME AskInv, TodoInv, PlainInv, WaiterTypes, WaitInv, MessageInv, Next
    PROVE  AskInv'
<1> DEFINE Own(t) == /\ ask[t].pc = "none" <=> ask[t].msg = "none"
                     /\ ask[t].pc = "none" => ask[t].w = 0
                     /\ ask[t].pc \notin {"give", "post", "done"} => ask[t].reply = NoReply
                     /\ ask[t].reply.id # "none" => ask[t].reply.from = t /\ ask[t].reply.id = ask[t].msg
<1>a. \A t \in Asker : Own(t)
  BY DEF AskInv
<1>b. NoReply.id = "none" /\ "none" \notin RequestNames
  BY DEF NoReply, RequestNames
<1>c. Threads
  BY DEF PlainInv
<1>1. \A t \in Asker : Own(t)'
  <2>1. ASSUME NEW t \in Asker, NEW pc, NEW m, NEW w, NEW r, Moves(t, pc, m, w, r),
               pc = "none" <=> m = "none", pc = "none" => w = 0, pc \notin {"give", "post", "done"} => r = NoReply,
               r.id # "none" => r.from = t /\ r.id = m
        PROVE  \A s \in Asker : Own(s)'
    BY <1>a, <2>1 DEF Moves
  <2>2. CASE ask' = ask
    BY <1>a, <2>2
  <2> HIDE DEF Own
  <2>3. ASSUME NEW t \in Asker, mmal_vc_sendwait_message(t) PROVE \A s \in Asker : Own(s)'
    <3>0. /\ ask[t].pc = "none" <=> ask[t].msg = "none"
          /\ ask[t].pc \notin {"give", "post", "done"} => ask[t].reply = NoReply
          /\ ask[t].reply.id # "none" => ask[t].reply.from = t /\ ask[t].reply.id = ask[t].msg
      BY <1>a DEF Own
    <3>1. CASE get_waiter(t)
      <4>1. PICK w \in Waiters : ask[t].pc = "pick" /\ Moves(t, "queue", ask[t].msg, w, ask[t].reply)
        BY <3>1, AskMoves
      <4> QED
        BY <2>1, <3>0, <4>1
    <3>2. CASE QueueMessage(t)
      <4>1. PICK pc \in {"dummy", "wait", "failed"} :
               ask[t].pc = "queue" /\ Moves(t, pc, ask[t].msg, ask[t].w, ask[t].reply)
        BY <3>2, AskMoves
      <4> QED
        BY <2>1, <3>0, <4>1
    <3>3. CASE QueueDummy(t)
      <4>1. ask[t].pc = "dummy" /\ Moves(t, "wait", ask[t].msg, ask[t].w, ask[t].reply)
        BY <3>3, AskMoves
      <4> QED
        BY <2>1, <3>0, <4>1
    <3>4. CASE WaitReply(t)
      <4>1. CASE ask[t].pc = "failed"
        <5>1. Moves(t, "give", ask[t].msg, ask[t].w, ask[t].reply)
          BY <3>4, <4>1, AskMoves
        <5> QED
          BY <2>1, <3>0, <4>1, <5>1
      <4>2. CASE ask[t].pc = "wait"
        <5>1. Moves(t, "give", ask[t].msg, ask[t].w, dest[ask[t].w])
          BY <3>4, <4>2, AskMoves
        <5>2. sem[ask[t].w] > 0
          BY <3>4, <4>2 DEF WaitReply
        <5>3. dest[ask[t].w].from = t /\ dest[ask[t].w].id = ask[t].msg
          BY <4>2, <5>2, OwnDest
        <5> QED
          BY <2>1, <3>0, <4>2, <5>1, <5>3
      <4> QED
        BY <3>4, <4>1, <4>2 DEF WaitReply
    <3>5. CASE release_waiter(t)
      <4>1. PICK pc \in {"post", "done"} :
               ask[t].pc \in {"give", "post"} /\ Moves(t, pc, ask[t].msg, ask[t].w, ask[t].reply)
        BY <3>5, AskMoves
      <4> QED
        BY <2>1, <3>0, <4>1
    <3> QED
      BY <2>3, <3>1, <3>2, <3>3, <3>4, <3>5 DEF mmal_vc_sendwait_message
  <2>4. ASSUME NEW t \in Asker, NEW msg \in RequestNames, Ask(t, msg) PROVE \A s \in Asker : Own(s)'
    <3>1. Moves(t, "pick", msg, 0, NoReply)
      BY <2>4, AskMoves
    <3> QED
      BY <2>1, <3>1, <1>b
  <2>5. ASSUME NEW t \in Asker, Answered(t) PROVE \A s \in Asker : Own(s)'
    <3>1. Moves(t, "none", "none", 0, NoReply)
      BY <2>5, AskMoves
    <3> QED
      BY <2>1, <3>1, <1>b
  <2> QED
    BY <2>2, <2>3, <2>4, <2>5, AskEffects
<1>2. \A t \in {"C", "Q"} : ask'[t].pc # "none" => Is(t, ask[t].msg)'
  <2>1. ASSUME NEW t \in {"C", "Q"}, ask[t].pc # "none", ask'[t].pc # "none",
               ask'[t].msg = ask[t].msg
        PROVE  Is(t, ask[t].msg)'
    <3>1. ~Answered(t)
      BY <2>1, AskMoves DEF Moves, Asker
    <3>2. todo'[t] = todo[t]
      BY <1>c, <2>1, <3>1, AskingStays
    <3> QED
      BY <2>1, <3>2 DEF Is, AskInv
  <2>2. CASE ask' = ask
    BY <2>1, <2>2
  <2>3. ASSUME NEW u \in Asker, NEW pc, NEW w, NEW r, Moves(u, pc, ask[u].msg, w, r),
               ask[u].pc # "none", NEW t \in {"C", "Q"}, ask'[t].pc # "none"
        PROVE  Is(t, ask[t].msg)'
    BY <2>1, <2>3 DEF Moves, Asker
  <2>4. ASSUME NEW u \in Asker, mmal_vc_sendwait_message(u), NEW t \in {"C", "Q"}, ask'[t].pc # "none"
        PROVE  Is(t, ask[t].msg)'
    BY <2>3, <2>4, AskMoves DEF mmal_vc_sendwait_message
  <2>5. ASSUME NEW u \in Asker, NEW msg \in RequestNames, Ask(u, msg), UNCHANGED <<todo, up, snd>>,
               u \in {"C", "Q"} => Is(u, msg), NEW t \in {"C", "Q"}, ask'[t].pc # "none"
        PROVE  Is(t, ask[t].msg)'
    BY <2>1, <2>5, AskMoves DEF Moves, Is, Asker
  <2>6. ASSUME NEW u \in Asker, Answered(u), NEW t \in {"C", "Q"}, ask'[t].pc # "none"
        PROVE  Is(t, ask[t].msg)'
    BY <2>1, <2>6, AskMoves DEF Moves, Asker
  <2> QED
    BY <2>2, <2>4, <2>5, <2>6, AskEffects
<1>3. ask'["S"].pc # "none" => snd'.pc = "version" /\ ask'["S"].msg = "version"
  <2>1. ASSUME ask["S"].pc # "none", ask'["S"].pc # "none", ask'["S"].msg = ask["S"].msg
        PROVE  snd'.pc = "version" /\ ask'["S"].msg = "version"
    <3>1. ~Answered("S")
      BY <2>1, AskMoves DEF Moves, Asker
    <3>2. snd.pc = "version" /\ ask["S"].msg = "version"
      BY <2>1 DEF AskInv
    <3>3. snd' = snd
      <4>1. CASE Send
        BY <3>1, <3>2, <4>1 DEF Send, mmal_vc_port_send, AllocContext, SendVersion, LockBulk,
                              mmal_vc_send_message, QueueBulk
      <4> QED
        BY <4>1, BufferEffects DEF QueueMessage, QueueDummy, AskUnchanged, bufVars, Drain,
           Server, ServerTakes, DataArrives, ServerReturns, ServerEvent, KeepServer,
           mmal_vc_vchiq_callback, WakeWaiter, BufferToHost, mmal_vc_handle_event_msg,
           BulkReceived, KeepClient, mmal_vc_do_callback
    <3> QED
      BY <2>1, <3>2, <3>3
  <2>2. CASE ask' = ask
    BY <2>1, <2>2
  <2>3. ASSUME NEW u \in Asker, NEW pc, NEW w, NEW r, Moves(u, pc, ask[u].msg, w, r),
               ask[u].pc # "none", ask'["S"].pc # "none"
        PROVE  snd'.pc = "version" /\ ask'["S"].msg = "version"
    BY <2>1, <2>3 DEF Moves, Asker
  <2>4. ASSUME NEW u \in Asker, mmal_vc_sendwait_message(u), ask'["S"].pc # "none"
        PROVE  snd'.pc = "version" /\ ask'["S"].msg = "version"
    BY <2>3, <2>4, AskMoves DEF mmal_vc_sendwait_message
  <2>5. ASSUME NEW u \in Asker, NEW msg \in RequestNames, Ask(u, msg), UNCHANGED <<todo, up, snd>>,
               u = "S" => snd.pc = "version" /\ msg = "version", ask'["S"].pc # "none"
        PROVE  snd'.pc = "version" /\ ask'["S"].msg = "version"
    BY <2>1, <2>5, AskMoves DEF Moves, Asker
  <2>6. ASSUME NEW u \in Asker, Answered(u), ask'["S"].pc # "none"
        PROVE  snd'.pc = "version" /\ ask'["S"].msg = "version"
    BY <2>1, <2>6, AskMoves DEF Moves, Asker
  <2> QED
    BY <2>2, <2>4, <2>5, <2>6, AskEffects
<1>4. snd'.pc # "none" => up'["C"]
  <2>1. CASE snd' = snd
    <3>1. CASE up' = up
      BY <2>1, <3>1 DEF AskInv
    <3>2. ASSUME NEW t \in {"C", "Q"}, Component(t), snd.pc # "none" PROVE up'["C"]
      <4>1. up["C"] /\ up \in [{"C", "Q"} -> BOOLEAN]
        BY <1>c, <3>2 DEF AskInv, Threads
      <4> QED
        BY <3>2, <4>1 DEF Component, mmal_vc_component_create, mmal_vc_component_destroy, mmal_vc_init,
           mmal_vc_use, mmal_vc_release, mmal_vc_deinit, AllocComponent, Begin, Request, Created,
           Ignored, mmal_vc_port_info_get
    <3>3. CASE Port
      BY <1>c, <2>1, <3>1, <3>3, PortTodo
    <3> QED
      BY <2>1, <3>1, <3>2, <3>3, CallEffects DEF OtherRequest
  <2>2. CASE Send
    <3>1. up' = up
      BY <2>2 DEF Send, mmal_vc_port_send, AllocContext, SendVersion, LockBulk,
                  mmal_vc_send_message, QueueBulk, KeepSend
    <3>2. snd.pc # "none" \/ up["C"]
      BY <2>2 DEF Send, mmal_vc_port_send, AllocContext, SendVersion, LockBulk,
                  mmal_vc_send_message, QueueBulk
    <3> QED
      BY <3>1, <3>2 DEF AskInv
  <2> QED
    BY <2>1, <2>2, BufferEffects DEF QueueMessage, QueueDummy, AskUnchanged, bufVars, Drain,
           Server, ServerTakes, DataArrives, ServerReturns, ServerEvent, KeepServer,
           mmal_vc_vchiq_callback, WakeWaiter, BufferToHost, mmal_vc_handle_event_msg,
           BulkReceived, KeepClient, mmal_vc_do_callback
<1> QED
  BY <1>1, <1>2, <1>3, <1>4 DEF AskInv

-----------------------------------------------------------------------------
(* The client: its references and its uses.                                 *)

\* The other steps leave a thread that uses the service for a request where it is.
LEMMA OthersKeep ==
    ASSUME Others, WaiterTypes, WaitInv, NEW t \in Asker
    PROVE  (UsesAsk(t)' <=> UsesAsk(t)) /\ (HasWaiter(t)' <=> HasWaiter(t))
<1> USE DEF UsesAsk, HasWaiter
<1>1. CASE ask' = ask
  BY <1>1
<1>2. ASSUME NEW u \in Asker, NEW msg \in RequestNames, Ask(u, msg)
      PROVE  (UsesAsk(t)' <=> UsesAsk(t)) /\ (HasWaiter(t)' <=> HasWaiter(t))
  BY <1>2, AskMoves DEF Moves
<1>3. ASSUME NEW u \in Asker, Answered(u)
      PROVE  (UsesAsk(t)' <=> UsesAsk(t)) /\ (HasWaiter(t)' <=> HasWaiter(t))
  BY <1>3, AskMoves DEF Moves
<1> QED
  BY <1>1, <1>2, <1>3, AskOthers

\* A component is a reference and a use.
LEMMA UpUses ==
    ASSUME TodoInv, Threads, NEW t \in {"C", "Q"}, up[t]
    PROVE  Opened(t) /\ Uses(t)
BY AtLife DEF Opened, Uses, Is, PortSteps

\* References and uses stay when calls go on between their steps.
LEMMA ClientSame ==
    ASSUME ClientInv, UNCHANGED clientVars, Counts,
           \A t \in {"C", "Q"} : (Opened(t)' <=> Opened(t)) /\ (Uses(t)' => Uses(t)),
           \A t \in Asker : UsesAsk(t)' => UsesAsk(t)
    PROVE  ClientInv'
<1>1. /\ One(Opened("C"))' = One(Opened("C")) /\ One(Opened("Q"))' = One(Opened("Q"))
      /\ One(Uses("C"))' <= One(Uses("C")) /\ One(Uses("Q"))' <= One(Uses("Q"))
      /\ One(UsesAsk("C"))' <= One(UsesAsk("C")) /\ One(UsesAsk("Q"))' <= One(UsesAsk("Q"))
      /\ One(UsesAsk("S"))' <= One(UsesAsk("S"))
  BY DEF One, Asker
<1>2. /\ One(Uses("C")) \in Int /\ One(Uses("Q")) \in Int /\ One(UsesAsk("C")) \in Int
      /\ One(UsesAsk("Q")) \in Int /\ One(UsesAsk("S")) \in Int
      /\ One(Uses("C"))' \in Int /\ One(Uses("Q"))' \in Int /\ One(UsesAsk("C"))' \in Int
      /\ One(UsesAsk("Q"))' \in Int /\ One(UsesAsk("S"))' \in Int
  BY DEF One
<1> QED
  BY <1>1, <1>2 DEF ClientInv, clientVars, Counts, RefCount, UseCount

\* The sums change with what one thread does.
LEMMA SumTypes == RefCount \in 0..2 /\ UseCount \in Nat
BY DEF RefCount, UseCount, One

\* When one request moves, the sum of the uses moves with it.
LEMMA SumAsk ==
    ASSUME NEW t \in Asker, \A s \in Asker \ {t} : UsesAsk(s)' <=> UsesAsk(s),
           \A s \in {"C", "Q"} : Uses(s)' <=> Uses(s)
    PROVE  UseCount' = UseCount + One(UsesAsk(t))' - One(UsesAsk(t))
<1>1. CASE t = "C"
  BY <1>1 DEF UseCount, One, Asker
<1>2. CASE t = "Q"
  BY <1>2 DEF UseCount, One, Asker
<1>3. CASE t = "S"
  BY <1>3 DEF UseCount, One, Asker
<1> QED
  BY <1>1, <1>2, <1>3 DEF Asker

\* When one call of a component moves, the sums of references and uses move with it.
LEMMA SumCall ==
    ASSUME NEW t \in {"C", "Q"}, \A s \in Asker : UsesAsk(s)' <=> UsesAsk(s),
           \A s \in {"C", "Q"} \ {t} : (Uses(s)' <=> Uses(s)) /\ (Opened(s)' <=> Opened(s))
    PROVE  /\ UseCount' = UseCount + One(Uses(t))' - One(Uses(t))
           /\ RefCount' = RefCount + One(Opened(t))' - One(Opened(t))
<1>1. CASE t = "C"
  BY <1>1 DEF UseCount, RefCount, One, Asker
<1>2. CASE t = "Q"
  BY <1>2 DEF UseCount, RefCount, One, Asker
<1> QED
  BY <1>1, <1>2

\* One more use, or one less, is counted unless the service cannot be used.
LEMMA UseMore ==
    ASSUME ClientInv, Counts, mmal_vc_use_internal, UNCHANGED <<refcount, inited>>,
           RefCount' = RefCount, UseCount' = UseCount + 1
    PROVE  ClientInv'
<1>1. RefCount \in Int /\ UseCount \in Int /\ usecount \in Int /\ refcount \in Int
  BY SumTypes DEF Counts
<1>2. refcount' = RefCount' /\ (inited' <=> refcount' > 0)
  BY <1>1 DEF ClientInv
<1>3. CASE usecount' = usecount + 1 /\ used' = (used \/ usecount = 0) /\ UNCHANGED drift
  <2>1. ~drift' => usecount' >= UseCount'
    BY <1>1, <1>3 DEF ClientInv
  <2>2. (used => used') /\ (usecount = 0 => used')
    BY <1>3
  <2>3. inited /\ ~drift => used \/ usecount <= 0
    BY <1>1 DEF ClientInv
  <2>4. ~drift => usecount >= 0
    BY <1>1, SumTypes DEF ClientInv
  <2>5. inited /\ ~drift => used \/ usecount = 0
    BY <1>1, <2>3, <2>4
  <2> QED
    BY <1>2, <1>3, <2>1, <2>2, <2>5 DEF ClientInv
<1>4. CASE drift' = TRUE
  BY <1>2, <1>4 DEF ClientInv
<1> QED
  BY <1>3, <1>4 DEF mmal_vc_use_internal

\* One use less is counted, and the service stays in use for those that are left.
LEMMA UseLess ==
    ASSUME ClientInv, Counts, mmal_vc_release_internal, UNCHANGED <<refcount, inited, drift>>,
           RefCount' = RefCount, UseCount' = UseCount - 1
    PROVE  ClientInv'
<1>1. RefCount \in Int /\ UseCount \in Int /\ usecount \in Int /\ refcount \in Int
  BY SumTypes DEF Counts
<1>2. refcount' = RefCount' /\ (inited' <=> refcount' > 0)
  BY <1>1 DEF ClientInv
<1>3. CASE usecount' = usecount - 1 /\ used' = (used /\ usecount # 1)
  <2>1. ~drift' => usecount' >= UseCount'
    BY <1>1, <1>3 DEF ClientInv
  <2>2. used /\ usecount # 1 => used'
    BY <1>3
  <2>3. usecount' > 0 => usecount > 0 /\ usecount # 1
    BY <1>1, <1>3
  <2>4. inited /\ ~drift /\ usecount > 0 => used
    BY DEF ClientInv
  <2> QED
    BY <1>2, <2>1, <2>2, <2>3, <2>4 DEF ClientInv
<1>4. CASE UNCHANGED <<usecount, used>>
  <2>1. ~drift' => usecount' >= UseCount'
    BY <1>1, <1>4 DEF ClientInv
  <2> QED
    BY <1>2, <1>4, <2>1 DEF ClientInv
<1> QED
  BY <1>3, <1>4 DEF mmal_vc_release_internal

\* A request uses the service while it waits.
LEMMA ClientAsk ==
    ASSUME ClientInv, Counts, WaiterTypes, WaitInv, NEW t \in Asker, mmal_vc_sendwait_message(t)
    PROVE  ClientInv'
<1> USE DEF UsesAsk
<1>1. UNCHANGED <<todo, up>>
  BY DEF mmal_vc_sendwait_message, get_waiter, QueueMessage, QueueDummy, WaitReply,
         release_waiter, AskUnchanged
<1>2. \A s \in {"C", "Q"} : (Opened(s)' <=> Opened(s)) /\ (Uses(s)' <=> Uses(s))
  BY <1>1 DEF Opened, Uses, Is
<1>3. RefCount' = RefCount
  BY <1>2 DEF RefCount, One
<1>4. CASE QueueMessage(t) \/ QueueDummy(t) \/ release_waiter(t)
  <2>1. UNCHANGED clientVars
    BY <1>4 DEF QueueMessage, QueueDummy, release_waiter
  <2>2. \A s \in Asker : UsesAsk(s)' => UsesAsk(s)
    BY <1>4, AskMoves DEF Moves
  <2> QED
    BY <1>2, <2>1, <2>2, ClientSame
<1>5. CASE get_waiter(t)
  <2>1. /\ \A s \in Asker \ {t} : UsesAsk(s)' <=> UsesAsk(s)
        /\ UsesAsk(t)' /\ ~UsesAsk(t)
    BY <1>5, AskMoves DEF Moves
  <2> HIDE DEF UsesAsk
  <2>2. UseCount' = UseCount + 1
    BY <1>2, <2>1, SumAsk, SumTypes DEF One
  <2> QED
    BY <1>3, <1>5, <2>2, UseMore DEF get_waiter
<1>6. CASE WaitReply(t)
  <2>1. /\ \A s \in Asker \ {t} : UsesAsk(s)' <=> UsesAsk(s)
        /\ ~UsesAsk(t)' /\ UsesAsk(t)
    BY <1>6, AskMoves DEF Moves
  <2> HIDE DEF UsesAsk
  <2>2. UseCount' = UseCount - 1
    BY <1>2, <2>1, SumAsk, SumTypes DEF One
  <2> QED
    BY <1>3, <1>6, <2>2, UseLess DEF WaitReply
<1> QED
  BY <1>4, <1>5, <1>6 DEF mmal_vc_sendwait_message

\* Without a reference to the client nobody asks.
LEMMA NobodyAsks ==
    ASSUME ClientInv, TodoInv, AskInv, WaiterTypes, refcount = 0
    PROVE  \A t \in Asker : ask[t].pc = "none"
<1>1. \A s \in {"C", "Q"} : ~Opened(s)
  BY DEF ClientInv, RefCount, One
<1>2. ASSUME NEW s \in {"C", "Q"}, ask[s].pc # "none" PROVE Opened(s)
  <2>1. Is(s, ask[s].msg) /\ ask[s].msg \in RequestNames
    BY <1>2 DEF AskInv, WaiterTypes, AskOf, Asker
  <2> QED
    BY <2>1 DEF Opened, Is, RequestNames
<1>3. ask["S"].pc = "none"
  BY <1>1 DEF AskInv, Opened
<1> QED
  BY <1>1, <1>2, <1>3 DEF Asker

\* The calls of C and Q open the client, use it, and close it.
LEMMA ClientCall ==
    ASSUME ClientInv, Counts, Threads, TodoInv, AskInv, WaiterTypes, WaitInv,
           NEW t \in {"C", "Q"}, Component(t)
    PROVE  ClientInv'
<1>a. up \in [{"C", "Q"} -> BOOLEAN] /\ todo \in [{"C", "Q"} -> Seq(StepNames)]
  BY DEF Threads, TodoInv
<1>b. \A s \in Asker : UsesAsk(s)' <=> UsesAsk(s)
  BY OthersKeep DEF Others
<1>c. \A s \in {"C", "Q"} \ {t} : todo'[s] = todo[s] /\ up'[s] = up[s]
  BY <1>a DEF Component, mmal_vc_component_create, mmal_vc_component_destroy, mmal_vc_init,
       mmal_vc_use, mmal_vc_release, mmal_vc_deinit, AllocComponent, Begin, Request, Created,
       Ignored, mmal_vc_port_info_get, Continue, Step
<1>d. \A s \in {"C", "Q"} \ {t} : (Uses(s)' <=> Uses(s)) /\ (Opened(s)' <=> Opened(s))
  BY <1>c DEF Uses, Opened, Is
<1>e. ASSUME UNCHANGED clientVars, Opened(t)' <=> Opened(t), Uses(t)' => Uses(t)
      PROVE  ClientInv'
  BY <1>b, <1>d, <1>e, ClientSame
<1>f. ASSUME NEW s, Continue(t, s) PROVE todo'[t] = s
  BY <1>a, <1>f DEF Continue
<1>g. TodoInv'
  BY LifeInv
<1>1. CASE mmal_vc_component_create(t)
  <2>1. todo'[t] = Create /\ ~up[t] /\ up' = up /\ todo[t] = <<>>
    BY <1>1, <1>f DEF mmal_vc_component_create, Begin
  <2>2. Is(t, "init")'
    BY <2>1 DEF Is, Create
  <2> QED
    BY <1>1, <1>e, <2>1, <2>2 DEF Opened, Uses, mmal_vc_component_create, Begin
<1>2. CASE mmal_vc_component_destroy(t)
  <2>1. todo'[t] = Destroy /\ up[t]
    BY <1>2, <1>f DEF mmal_vc_component_destroy, Begin
  <2>2. Opened(t) /\ Uses(t)
    BY <2>1, UpUses
  <2>3. Destroy # <<>> /\ Head(Destroy) = "destroy"
    BY DEF Destroy
  <2>4. Opened(t)' /\ Uses(t)'
    BY <2>1, <2>3 DEF Opened, Uses, Is
  <2> QED
    BY <1>2, <1>e, <2>2, <2>4 DEF mmal_vc_component_destroy, Begin
<1>3. CASE mmal_vc_init(t)
  <2>1. todo[t] # <<>> /\ Head(todo[t]) = "init" /\ up' = up /\ ~up[t] /\ todo[t] \in LifeSteps
    BY <1>3, AtLife DEF mmal_vc_init, Is, PortSteps, TodoInv
  <2>2. ~Opened(t) /\ ~Uses(t)
    BY <2>1 DEF Opened, Uses, Is
  <2>3. CASE Continue(t, <<>>) /\ UNCHANGED <<refcount, usecount, used, inited>>
    <3>1. ~Opened(t)' /\ ~Uses(t)'
      BY <1>f, <2>1, <2>3 DEF Opened, Uses
    <3> QED
      BY <1>3, <1>e, <2>2, <2>3, <3>1 DEF clientVars, mmal_vc_init
  <2>4. CASE /\ refcount > 0 /\ refcount' = refcount + 1 /\ Continue(t, Tail(Tail(todo[t])))
             /\ UNCHANGED <<usecount, used, inited>>
    <3>1. todo'[t] # <<>> /\ Head(todo'[t]) = "use"
      BY <1>f, <2>1, <2>4, LifeOrder
    <3>2. Opened(t)' /\ ~Uses(t)'
      BY <3>1 DEF Opened, Uses, Is
    <3>3. UseCount' = UseCount /\ RefCount' = RefCount + 1
      BY <1>b, <1>d, <2>2, <3>2, SumCall, SumTypes DEF One
    <3>4. UNCHANGED drift
      BY <1>3 DEF mmal_vc_init
    <3>5. RefCount \in Int /\ UseCount \in Int /\ refcount \in Int
      BY SumTypes DEF Counts
    <3>6. refcount' = RefCount' /\ (inited' <=> refcount' > 0)
      BY <2>4, <3>3, <3>5 DEF ClientInv
    <3> QED
      BY <2>4, <3>3, <3>4, <3>6 DEF ClientInv
  <2>5. CASE /\ refcount = 0 /\ Step(t)
             /\ refcount' = 1 /\ usecount' = 1 /\ used' = TRUE /\ inited' = TRUE
    <3>1. todo'[t] # <<>> /\ Head(todo'[t]) = "release"
      BY <1>f, <2>1, <2>5, LifeOrder DEF Step
    <3>2. Opened(t)' /\ Uses(t)'
      BY <3>1 DEF Opened, Uses, Is
    <3>3. RefCount' = RefCount + 1 /\ UseCount' = UseCount + 1
      BY <1>b, <1>d, <2>2, <3>2, SumCall, SumTypes DEF One
    <3>4. \A s \in {"C", "Q"} : ~Opened(s)
      BY <2>5 DEF ClientInv, RefCount, One
    <3>5. \A s \in Asker : ~UsesAsk(s)
      BY <2>5, NobodyAsks DEF UsesAsk
    <3>6. UseCount = 0
      BY <3>4, <3>5 DEF UseCount, Uses, One, Asker
    <3>7. RefCount = 0
      BY <2>5 DEF ClientInv
    <3>8. RefCount' = 1 /\ UseCount' = 1
      BY <3>3, <3>6, <3>7
    <3> QED
      BY <2>5, <3>8 DEF ClientInv
  <2> QED
    BY <1>3, <2>3, <2>4, <2>5 DEF mmal_vc_init
<1>4. CASE mmal_vc_use(t)
  <2>1. todo[t] # <<>> /\ Head(todo[t]) = "use" /\ up' = up /\ ~up[t] /\ todo[t] \in LifeSteps
    BY <1>4, AtLife DEF mmal_vc_use, Is, PortSteps, TodoInv
  <2>2. Opened(t) /\ ~Uses(t)
    BY <2>1 DEF Opened, Uses, Is
  <2>3. todo'[t] # <<>> /\ Head(todo'[t]) = "create"
    BY <1>4, <1>f, <2>1, LifeOrder DEF Step, mmal_vc_use
  <2>4. Opened(t)' /\ Uses(t)'
    BY <2>3 DEF Opened, Uses, Is
  <2>5. UseCount' = UseCount + 1 /\ RefCount' = RefCount
    BY <1>b, <1>d, <2>2, <2>4, SumCall, SumTypes DEF One
  <2> QED
    BY <1>4, <2>5, UseMore DEF mmal_vc_use
<1>5. CASE mmal_vc_release(t)
  <2>1. todo[t] # <<>> /\ Head(todo[t]) = "release" /\ up' = up /\ ~up[t] /\ todo[t] \in LifeSteps
    BY <1>5, AtLife DEF mmal_vc_release, Is, PortSteps, TodoInv
  <2>2. Opened(t) /\ Uses(t)
    BY <2>1 DEF Opened, Uses, Is
  <2>3. todo'[t] # <<>> /\ Head(todo'[t]) \in {"use", "deinit"}
    BY <1>5, <1>f, <2>1, LifeOrder DEF Step, mmal_vc_release
  <2>4. Opened(t)' /\ ~Uses(t)'
    BY <2>3 DEF Opened, Uses, Is
  <2>5. UseCount' = UseCount - 1 /\ RefCount' = RefCount
    BY <1>b, <1>d, <2>2, <2>4, SumCall, SumTypes DEF One
  <2> QED
    BY <1>5, <2>5, UseLess DEF mmal_vc_release
<1>6. CASE mmal_vc_deinit(t)
  <2>1. todo[t] # <<>> /\ Head(todo[t]) = "deinit" /\ up' = up /\ ~up[t] /\ todo[t] \in LifeSteps
    BY <1>6, AtLife DEF mmal_vc_deinit, Is, PortSteps, TodoInv
  <2>2. Opened(t) /\ ~Uses(t)
    BY <2>1 DEF Opened, Uses, Is
  <2>3. todo'[t] = <<>>
    BY <1>6, <1>f, <2>1, LifeOrder DEF Step, mmal_vc_deinit
  <2>4. ~Opened(t)' /\ ~Uses(t)'
    BY <2>1, <2>3 DEF Opened, Uses, Is
  <2>5. UseCount' = UseCount /\ RefCount' = RefCount - 1
    BY <1>b, <1>d, <2>2, <2>4, SumCall, SumTypes DEF One
  <2> QED
    <3>1. /\ refcount' = refcount - 1 /\ inited' = (refcount # 1)
          /\ used' = (used /\ refcount # 1) /\ UNCHANGED <<usecount, drift>>
      BY <1>6 DEF mmal_vc_deinit
    <3>2. RefCount \in Int /\ UseCount \in Int /\ refcount \in Int /\ RefCount' >= 0
      BY <2>2, <2>5, SumTypes DEF Counts, One, RefCount
    <3>6. inited' <=> refcount # 1
      BY <3>1
    <3>7. refcount # 1 <=> refcount' > 0
      BY <2>5, <3>1, <3>2 DEF ClientInv
    <3>3. refcount' = RefCount' /\ (inited' <=> refcount' > 0)
      BY <2>5, <3>1, <3>2, <3>6, <3>7 DEF ClientInv
    <3>4. ~drift' => usecount' >= UseCount'
      BY <2>5, <3>1 DEF ClientInv
    <3>8. used /\ refcount # 1 => used'
      BY <3>1
    <3>9. refcount # 1 => inited
      BY <2>2, <3>2, <3>7, <3>1 DEF ClientInv
    <3>5. inited' /\ ~drift' /\ usecount' > 0 => used'
      BY <3>1, <3>6, <3>8, <3>9 DEF ClientInv
    <3> QED
      BY <3>3, <3>4, <3>5 DEF ClientInv
<1>7. CASE Request(t)
  BY <1>7, <1>e DEF Request, Opened, Uses, Is
<1>8. CASE Created(t) \/ AllocComponent(t)
  <2>1. /\ todo[t] # <<>> /\ Head(todo[t]) \in {"create", "alloc"} /\ up' = up /\ ~up[t]
        /\ todo[t] \in LifeSteps /\ UNCHANGED clientVars
    BY <1>8, AtLife DEF Created, AllocComponent, Is, PortSteps, TodoInv
  <2>2. Opened(t) /\ Uses(t)
    BY <2>1 DEF Opened, Uses, Is
  <2>3. Step(t) \/ Continue(t, Tail(Destroy)) \/ Continue(t, Destroy)
    BY <1>8 DEF Created, AllocComponent
  <2>4. /\ Tail(Destroy) # <<>> /\ Head(Tail(Destroy)) = "release"
        /\ Destroy # <<>> /\ Head(Destroy) = "destroy"
    BY DEF Destroy
  <2>5. todo'[t] # <<>> /\ Head(todo'[t]) \in {"alloc", "info", "release", "destroy"}
    BY <1>f, <2>1, <2>3, <2>4, LifeOrder DEF Step
  <2>6. Opened(t)' /\ Uses(t)'
    BY <2>5 DEF Opened, Uses, Is
  <2> QED
    BY <1>e, <2>1, <2>2, <2>6
<1>9. CASE mmal_vc_port_info_get(t)
  <2>1. /\ todo[t] # <<>> /\ Head(todo[t]) = "info" /\ ~up[t]
        /\ todo[t] \in LifeSteps /\ UNCHANGED clientVars
    BY <1>9, AtLife DEF mmal_vc_port_info_get, Is, PortSteps, TodoInv
  <2>2. Opened(t) /\ Uses(t)
    BY <2>1 DEF Opened, Uses, Is
  <2>3. Destroy # <<>> /\ Head(Destroy) = "destroy"
    BY DEF Destroy
  <2>4. CASE Continue(t, Destroy)
    BY <1>e, <1>f, <2>1, <2>2, <2>3, <2>4 DEF Opened, Uses, Is
  <2>5. CASE Step(t) /\ up' = [up EXCEPT ![t] = TRUE]
    <3>1. todo'[t] = <<>> /\ up'[t]
      BY <1>a, <1>f, <2>1, <2>5, LifeOrder DEF Step
    <3> QED
      BY <1>e, <2>1, <2>2, <3>1 DEF Opened, Uses, Is
  <2> QED
    BY <1>9, <2>4, <2>5 DEF mmal_vc_port_info_get
<1>10. CASE Ignored(t)
  <2>1. /\ todo[t] # <<>> /\ Head(todo[t]) \in {"destroy", "param", "sync"} /\ up' = up
        /\ UNCHANGED clientVars /\ Step(t)
    BY <1>10 DEF Ignored, Is
  <2>2. Opened(t) /\ Uses(t)
    BY <2>1 DEF Opened, Uses, Is
  <2>3. CASE up[t]
    <3>1. todo'[t] = Tail(todo[t]) /\ up'[t]
      BY <1>f, <2>1, <2>3 DEF Step
    <3>2. t = "Q"
      BY <1>10, <2>1, <2>3, AtLife DEF Ignored, Is, PortSteps
    <3>3. Opened(t)' /\ Uses(t)'
      BY <2>1, <2>3, <3>1, <3>2, AtLife DEF Opened, Uses, Is
    <3> QED
      BY <1>e, <2>1, <2>2, <3>3
  <2>4. CASE ~up[t]
    <3>1. todo[t] \in LifeSteps /\ Head(todo[t]) = "destroy"
      BY <2>1, <2>4, LifeStep DEF TodoInv, PortSteps
    <3>2. todo'[t] # <<>> /\ Head(todo'[t]) = "release"
      BY <1>f, <2>1, <3>1, LifeOrder DEF Step
    <3>3. Opened(t)' /\ Uses(t)'
      BY <3>2 DEF Opened, Uses, Is
    <3> QED
      BY <1>e, <2>1, <2>2, <3>3
  <2> QED
    BY <2>3, <2>4
<1> QED
  BY <1>1, <1>2, <1>3, <1>4, <1>5, <1>6, <1>7, <1>8, <1>9, <1>10 DEF Component

\* References and uses are counted.
LEMMA ClientInvStep ==
    ASSUME ClientInv, PlainInv, TodoInv, AskInv, WaiterTypes, WaitInv, Next
    PROVE  ClientInv'
<1>a. Counts /\ Threads
  BY DEF PlainInv
<1>1. ASSUME NEW t \in Asker, mmal_vc_sendwait_message(t) PROVE ClientInv'
  BY <1>a, <1>1, ClientAsk
<1>2. ASSUME NEW t \in {"C", "Q"}, Component(t) PROVE ClientInv'
  BY <1>a, <1>2, ClientCall
<1>3. ASSUME OtherRequest \/ Port \/ Send \/ Server \/ mmal_vc_vchiq_callback \/ mmal_vc_do_callback
      PROVE  ClientInv'
  <2>1. UNCHANGED clientVars
    <3>1. CASE OtherRequest
      BY <3>1 DEF OtherRequest, Begin
    <3>2. CASE Port
      BY <3>2 DEF Port, mmal_vc_port_enable, mmal_vc_port_disable, mmal_port_flush,
           mmal_vc_port_connect, mmal_vc_port_flush, StartPort, CreatePool, PortStep, DropPool,
           Drain, KeepPort, PortRequest, EnableAnswered, DisableAnswered, VersionKnown, Flushed,
           Connected
    <3>3. CASE Send
      BY <3>3 DEF Send, mmal_vc_port_send, AllocContext, LockBulk, mmal_vc_send_message,
                  QueueBulk, KeepSend, SendVersion
    <3>4. CASE Server
      BY <3>4 DEF Server, ServerTakes, DataArrives, ServerReturns, ServerEvent, KeepServer
    <3>5. CASE mmal_vc_vchiq_callback \/ mmal_vc_do_callback
      BY <3>5 DEF mmal_vc_vchiq_callback, mmal_vc_do_callback, WakeWaiter, BufferToHost,
                  mmal_vc_handle_event_msg, BulkReceived, KeepClient
    <3> QED
      BY <1>3, <3>1, <3>2, <3>3, <3>4, <3>5
  <2>2. \A s \in Asker : UsesAsk(s)' => UsesAsk(s)
    BY <1>3, OthersKeep DEF Others
  <2>3. \A t \in {"C", "Q"} : (Opened(t)' <=> Opened(t)) /\ (Uses(t)' => Uses(t))
    <3>1. CASE UNCHANGED <<todo, up>>
      BY <3>1 DEF Opened, Uses, Is
    <3>2. CASE OtherRequest
      <4>1. UNCHANGED up /\ up["Q"] /\ todo["Q"] = <<>>
        BY <3>2 DEF OtherRequest, Begin
      <4>2. PICK m \in {"param", "sync"} : todo' = [todo EXCEPT !["Q"] = <<m>>]
        BY <3>2 DEF OtherRequest, Begin, Continue
      <4>3. todo'["C"] = todo["C"] /\ todo'["Q"] = <<m>>
        BY <4>2 DEF TodoInv
      <4>4. Head(<<m>>) = m /\ <<m>> # <<>>
        OBVIOUS
      <4> QED
        BY <4>1, <4>2, <4>3, <4>4 DEF Opened, Uses, Is
    <3>3. CASE Port
      <4>1. UNCHANGED up /\ TodoInv'
        BY <1>a, <3>3, PortTodo
      <4>2. todo'["Q"] = todo["Q"]
        BY <3>3 DEF TodoInv, Continue, Step, Port, mmal_vc_port_enable, mmal_vc_port_disable,
             mmal_port_flush, mmal_vc_port_connect, mmal_vc_port_flush, StartPort, CreatePool,
             PortStep, DropPool, Drain, PortRequest, EnableAnswered, DisableAnswered,
             VersionKnown, Flushed, Connected
      <4>3. up["C"] \/ todo'["C"] = todo["C"]
        <5>1. ASSUME NEW x \in PortSteps, Is("C", x) PROVE up["C"]
          BY <1>a, <5>1, AtLife DEF Is
        <5> QED
          BY <3>3, <5>1 DEF PortSteps, Is, PortIdle, Port, mmal_vc_port_enable,
             mmal_vc_port_disable, mmal_port_flush, mmal_vc_port_connect, mmal_vc_port_flush,
             StartPort, CreatePool, PortStep, DropPool, Drain, PortRequest, EnableAnswered,
             DisableAnswered, VersionKnown, Flushed, Connected
      <4>4. CASE up["C"]
        <5>1. Opened("C") /\ Uses("C")
          BY <1>a, <4>4, UpUses
        <5>2. PortShaped(todo'["C"])
          BY <4>1, <4>4 DEF TodoInv
        <5>3. todo'["C"] # <<>> => Head(todo'["C"]) \in PortSteps
          BY <5>2, ShapeRest
        <5>4. Opened("C")' /\ Uses("C")'
          BY <4>1, <4>4, <5>3 DEF Opened, Uses, Is, PortSteps
        <5> QED
          BY <4>1, <4>2, <5>1, <5>4 DEF Opened, Uses, Is
      <4> QED
        BY <4>1, <4>2, <4>3, <4>4 DEF Opened, Uses, Is
    <3>4. CASE Send \/ Server \/ mmal_vc_vchiq_callback \/ mmal_vc_do_callback
      <4>1. UNCHANGED <<todo, up>>
        BY <3>4 DEF Send, mmal_vc_port_send, AllocContext, LockBulk, mmal_vc_send_message,
                  QueueBulk, KeepSend, SendVersion, Server, ServerTakes, DataArrives,
                  ServerReturns, ServerEvent, KeepServer, mmal_vc_vchiq_callback,
                  mmal_vc_do_callback, WakeWaiter, BufferToHost, mmal_vc_handle_event_msg,
                  BulkReceived, KeepClient
      <4> QED
        BY <3>1, <4>1
    <3> QED
      BY <1>3, <3>2, <3>3, <3>4
  <2> QED
    BY <1>a, <2>1, <2>2, <2>3, ClientSame
<1> QED
  BY <1>1, <1>2, <1>3 DEF Next

-----------------------------------------------------------------------------
(* The waiters.                                                             *)

Tokens3 == One(HasToken("C")) + One(HasToken("Q")) + One(HasToken("S"))

\* The semaphore's sum changes with what one thread does.
LEMMA SumTokens ==
    ASSUME NEW t \in Asker, \A s \in Asker \ {t} : HasToken(s)' <=> HasToken(s)
    PROVE  /\ Tokens3' = Tokens3 + One(HasToken(t))' - One(HasToken(t))
           /\ Tokens3 \in Nat
<1>1. CASE t = "C"
  BY <1>1 DEF Tokens3, One, Asker
<1>2. CASE t = "Q"
  BY <1>2 DEF Tokens3, One, Asker
<1>3. CASE t = "S"
  BY <1>3 DEF Tokens3, One, Asker
<1> QED
  BY <1>1, <1>2, <1>3 DEF Asker

\* The semaphore counts the waiters that no thread has a right to.
LEMMA TokensStep ==
    ASSUME WaitInv, PlainInv, ClientInv, TodoInv, AskInv, WaiterTypes, Next
    PROVE  poolSem' >= 0 /\ poolSem' + Tokens3' = MAX_WAITERS
<1>a. poolSem \in Int /\ poolSem >= 0 /\ poolSem + Tokens3 = MAX_WAITERS /\ Tokens3 \in Nat
  BY DEF WaitInv, Tokens3, PlainInv, Counts, One
<1> USE MmalVcAssumption
<1>1. ASSUME UNCHANGED poolSem, NEW t \in Asker, HasToken(t)' <=> HasToken(t),
             \A s \in Asker \ {t} : HasToken(s)' <=> HasToken(s)
      PROVE  poolSem' >= 0 /\ poolSem' + Tokens3' = MAX_WAITERS
  BY <1>a, <1>1, SumTokens DEF One
<1>2. CASE UNCHANGED <<ask, inuse, poolSem>>
  BY <1>a, <1>2 DEF Tokens3, HasToken
<1>3. ASSUME NEW t \in Asker, mmal_vc_sendwait_message(t)
      PROVE  poolSem' >= 0 /\ poolSem' + Tokens3' = MAX_WAITERS
  <2>1. CASE get_waiter(t) \/ QueueMessage(t) \/ QueueDummy(t) \/ WaitReply(t)
    <3>1. UNCHANGED poolSem
      BY <2>1 DEF get_waiter, QueueMessage, QueueDummy, WaitReply, waitVars
    <3>2. /\ HasToken(t)' <=> HasToken(t)
          /\ \A s \in Asker \ {t} : HasToken(s)' <=> HasToken(s)
      BY <2>1, AskMoves DEF Moves, HasToken
    <3> QED
      BY <1>1, <3>1, <3>2
  <2>2. CASE release_waiter(t)
    <3>0. \A s \in Asker \ {t} : HasToken(s)' <=> HasToken(s)
      BY <2>2, AskMoves DEF Moves, HasToken
    <3>1. CASE ask[t].pc = "give"
      <4>1. UNCHANGED poolSem /\ (HasToken(t)' <=> HasToken(t))
        BY <2>2, <3>1, AskMoves DEF Moves, HasToken, release_waiter
      <4> QED
        BY <1>1, <3>0, <4>1
    <3>2. CASE ask[t].pc = "post"
      <4>1. poolSem' = poolSem + 1 /\ ~HasToken(t)' /\ HasToken(t)
        BY <2>2, <3>2, AskMoves DEF Moves, HasToken, release_waiter
      <4>2. Tokens3' = Tokens3 - 1
        BY <1>a, <3>0, <4>1, SumTokens DEF One
      <4> QED
        BY <1>a, <4>1, <4>2
    <3> QED
      BY <2>2, <3>1, <3>2 DEF release_waiter
  <2> QED
    BY <1>3, <2>1, <2>2 DEF mmal_vc_sendwait_message
<1>4. ASSUME NEW t \in Asker, NEW msg \in RequestNames, Ask(t, msg)
      PROVE  poolSem' >= 0 /\ poolSem' + Tokens3' = MAX_WAITERS
  <2>1. /\ \A s \in Asker \ {t} : HasToken(s)' <=> HasToken(s)
        /\ HasToken(t)' /\ ~HasToken(t)
    BY <1>4, AskMoves DEF Moves, HasToken
  <2>2. Tokens3' = Tokens3 + 1
    BY <1>a, <2>1, SumTokens DEF One
  <2> QED
    BY <1>a, <1>4, <2>2 DEF Ask
<1>5. ASSUME NEW t \in Asker, Answered(t), UNCHANGED <<inuse, poolSem>>
      PROVE  poolSem' >= 0 /\ poolSem' + Tokens3' = MAX_WAITERS
  <2>1. /\ \A s \in Asker \ {t} : HasToken(s)' <=> HasToken(s)
        /\ HasToken(t)' <=> HasToken(t)
    BY <1>5, AskMoves DEF Moves, HasToken
  <2> QED
    BY <1>1, <1>5, <2>1
<1>6. ASSUME ask' = ask, NEW t \in {"C", "Q"}, mmal_vc_init(t), refcount = 0
      PROVE  poolSem' >= 0 /\ poolSem' + Tokens3' = MAX_WAITERS
  <2>1. Tokens3' = Tokens3
    BY <1>6 DEF Tokens3, HasToken
  <2>2. Tokens3 = 0
    BY <1>6, NobodyAsks DEF Tokens3, HasToken, One, Asker
  <2>3. poolSem' = MAX_WAITERS \/ poolSem' = poolSem
    BY <1>6 DEF mmal_vc_init
  <2> QED
    BY <1>a, <2>1, <2>2, <2>3
<1> QED
  BY <1>2, <1>3, <1>4, <1>5, <1>6, AskEffects

\* A waiter in use is that of one thread.
LEMMA WaitInvStep ==
    ASSUME WaitInv, PlainInv, ClientInv, TodoInv, AskInv, WaiterTypes, Next
    PROVE  WaitInv'
<1> DEFINE Taken == /\ \A w \in Waiters : inuse[w] <=> \E t \in Asker : HasWaiter(t) /\ ask[t].w = w
                    /\ \A t \in Asker : HasWaiter(t) => ask[t].w \in Waiters
                    /\ \A s, t \in Asker : HasWaiter(s) /\ HasWaiter(t) /\ ask[s].w = ask[t].w => s = t
<1>a. Taken
  BY DEF WaitInv
<1>b. inuse \in [Waiters -> BOOLEAN]
  BY DEF WaiterTypes
<1>1. ASSUME UNCHANGED inuse,
             \A t \in Asker : (HasWaiter(t)' <=> HasWaiter(t)) /\ (HasWaiter(t) => ask'[t].w = ask[t].w)
      PROVE  Taken'
  BY <1>a, <1>1
<1>2. ASSUME NEW t \in Asker, mmal_vc_sendwait_message(t)
      PROVE  Taken'
  <2>1. CASE get_waiter(t)
    <3>1. PICK w \in Waiters : /\ ask[t].pc = "pick" /\ Moves(t, "queue", ask[t].msg, w, ask[t].reply)
                               /\ ~inuse[w] /\ inuse' = [inuse EXCEPT ![w] = TRUE]
      BY <2>1, AskMoves
    <3>2. /\ ~HasWaiter(t) /\ HasWaiter(t)' /\ ask'[t].w = w
          /\ \A s \in Asker \ {t} : (HasWaiter(s)' <=> HasWaiter(s)) /\ ask'[s].w = ask[s].w
      BY <3>1 DEF HasWaiter, Moves
    <3>3. inuse'[w] /\ \A v \in Waiters \ {w} : inuse'[v] = inuse[v]
      BY <1>b, <3>1
    <3> HIDE DEF Taken
    <3>4. \A s \in Asker : HasWaiter(s) => ask[s].w # w
      BY <1>a, <3>1 DEF Taken
    <3> QED
      BY <1>a, <3>2, <3>3, <3>4 DEF Taken
  <2>2. CASE QueueMessage(t) \/ QueueDummy(t) \/ WaitReply(t)
    <3>1. UNCHANGED inuse
      BY <2>2 DEF QueueMessage, QueueDummy, WaitReply, waitVars
    <3>2. \A s \in Asker : (HasWaiter(s)' <=> HasWaiter(s)) /\ ask'[s].w = ask[s].w
      BY <2>2, AskMoves DEF Moves, HasWaiter
    <3> QED
      BY <1>1, <3>1, <3>2
  <2>3. CASE release_waiter(t)
    <3>0. \A s \in Asker \ {t} : (HasWaiter(s)' <=> HasWaiter(s)) /\ ask'[s].w = ask[s].w
      BY <2>3, AskMoves DEF Moves, HasWaiter
    <3>1. CASE ask[t].pc = "post"
      <4>1. UNCHANGED inuse /\ (HasWaiter(t)' <=> HasWaiter(t)) /\ ask'[t].w = ask[t].w
        BY <2>3, <3>1, AskMoves DEF Moves, HasWaiter, release_waiter
      <4> QED
        BY <1>1, <3>0, <4>1
    <3>2. CASE ask[t].pc = "give"
      <4>1. inuse' = [inuse EXCEPT ![ask[t].w] = FALSE] /\ HasWaiter(t) /\ ~HasWaiter(t)'
        BY <2>3, <3>2, AskMoves DEF Moves, HasWaiter, release_waiter
      <4>2. ask[t].w \in Waiters
        BY <1>a, <4>1
      <4>3. ~inuse'[ask[t].w] /\ \A v \in Waiters \ {ask[t].w} : inuse'[v] = inuse[v]
        BY <1>b, <4>1, <4>2
      <4> HIDE DEF Taken
      <4> QED
        BY <1>a, <3>0, <4>1, <4>2, <4>3 DEF Taken
    <3> QED
      BY <2>3, <3>1, <3>2 DEF release_waiter
  <2> QED
    BY <1>2, <2>1, <2>2, <2>3 DEF mmal_vc_sendwait_message
<1>3. ASSUME NEW t \in Asker, NEW msg \in RequestNames, Ask(t, msg), UNCHANGED inuse
      PROVE  Taken'
  <2>1. \A s \in Asker : (HasWaiter(s)' <=> HasWaiter(s)) /\ (HasWaiter(s) => ask'[s].w = ask[s].w)
    BY <1>3, AskMoves DEF Moves, HasWaiter
  <2> QED
    BY <1>1, <1>3, <2>1
<1>4. ASSUME NEW t \in Asker, Answered(t), UNCHANGED inuse
      PROVE  Taken'
  <2>1. \A s \in Asker : (HasWaiter(s)' <=> HasWaiter(s)) /\ (HasWaiter(s) => ask'[s].w = ask[s].w)
    BY <1>4, AskMoves DEF Moves, HasWaiter
  <2> QED
    BY <1>1, <1>4, <2>1
<1>5. ASSUME ask' = ask, NEW t \in {"C", "Q"}, mmal_vc_init(t), refcount = 0
      PROVE  Taken'
  <2>1. \A s \in Asker : ~HasWaiter(s) /\ ~HasWaiter(s)'
    BY <1>5, NobodyAsks DEF HasWaiter
  <2>2. inuse' = inuse \/ \A w \in Waiters : ~inuse'[w]
    BY <1>5 DEF mmal_vc_init
  <2> QED
    BY <1>a, <2>1, <2>2
<1>6. ASSUME ask' = ask, UNCHANGED inuse
      PROVE  Taken'
  <2>1. \A t \in Asker : (HasWaiter(t)' <=> HasWaiter(t)) /\ ask'[t].w = ask[t].w
    BY <1>6 DEF HasWaiter
  <2> QED
    BY <1>1, <1>6, <2>1
<1> HIDE DEF Taken
<1>7. Taken'
  BY <1>2, <1>3, <1>4, <1>5, <1>6, AskEffects
<1>8. poolSem' >= 0 /\ poolSem' + Tokens3' = MAX_WAITERS
  BY TokensStep
<1>9. poolSem' + One(HasToken("C"))' + One(HasToken("Q"))' + One(HasToken("S"))' = MAX_WAITERS
  <2>1. poolSem' \in Int
    BY CountsStep DEF PlainInv, Counts
  <2> QED
    BY <1>8, <2>1 DEF Tokens3, One
<1> QED
  BY <1>7, <1>8, <1>9 DEF WaitInv, Taken

-----------------------------------------------------------------------------
(* Where messages and buffers are.                                          *)

\* A place for a token changes, and no other.
Moved(p, p2, a, y) == p2[a] = y /\ \A c \in Tokens \ {a} : p2[c] = p[c]

\* A queue from which nothing is taken, to which something is added, and of which the
\* first message is taken.
LEMMA QueuedKept ==
    ASSUME NEW p, NEW p2, NEW q, NEW x, NEW a, NEW y, Queued(p, q, x), Moved(p, p2, a, y), p[a] # x
    PROVE  Queued(p2, q, x)
BY DEF Queued, Moved

\* A message that is put into a queue is placed there.
LEMMA QueuedMore ==
    ASSUME NEW p, NEW p2, NEW q \in Seq(MessageOf), NEW x, NEW m, Queued(p, q, x),
           Token(m) \in Tokens, Moved(p, p2, Token(m), x), p[Token(m)] # x
    PROVE  Queued(p2, Append(q, m), x)
<1> DEFINE r == Append(q, m)
           n == Len(q)
<1>1. n \in Nat /\ DOMAIN q = 1..n /\ DOMAIN r = 1..(n + 1) /\ r[n + 1] = m
  OBVIOUS
<1>2. \A k \in 1..n : r[k] = q[k]
  OBVIOUS
<1> HIDE DEF r, n
<1>3. ASSUME NEW k \in 1..(n + 1), Carries(r[k]) PROVE Token(r[k]) \in Tokens /\ p2[Token(r[k])] = x
  <2>1. CASE k = n + 1
    BY <1>1, <2>1 DEF Moved
  <2>2. CASE k \in 1..n
    BY <1>1, <1>2, <1>3, <2>2 DEF Queued, Moved
  <2> QED
    BY <1>1, <2>1, <2>2
<1>4. ASSUME NEW k \in 1..n, Carries(q[k]) PROVE Token(q[k]) # Token(m)
  BY <1>1, <1>4 DEF Queued
<1>5. ASSUME NEW j \in 1..(n + 1), NEW k \in 1..(n + 1), Carries(r[k]), Token(r[j]) = Token(r[k])
      PROVE  j = k
  <2>0. Carries(r[j])
    BY <1>5 DEF Carries, Token
  <2>1. CASE j \in 1..n /\ k \in 1..n
    BY <1>1, <1>2, <1>5, <2>1 DEF Queued
  <2>2. CASE j \in 1..n /\ k = n + 1
    BY <1>1, <1>2, <1>4, <1>5, <2>0, <2>2
  <2>3. CASE k \in 1..n /\ j = n + 1
    BY <1>1, <1>2, <1>4, <1>5, <2>3
  <2> QED
    BY <1>1, <2>1, <2>2, <2>3
<1> QED
  BY <1>1, <1>3, <1>5 DEF Queued, r

\* The message of an event carries nothing that has a place.
LEMMA QueuedEvent ==
    ASSUME NEW p, NEW q \in Seq(MessageOf), NEW x, NEW m, Queued(p, q, x), ~Carries(m)
    PROVE  Queued(p, Append(q, m), x)
<1> DEFINE r == Append(q, m)
           n == Len(q)
<1>1. n \in Nat /\ DOMAIN q = 1..n /\ DOMAIN r = 1..(n + 1) /\ r[n + 1] = m
  OBVIOUS
<1>2. \A k \in 1..n : r[k] = q[k]
  OBVIOUS
<1> HIDE DEF r, n
<1>3. ASSUME NEW k \in 1..(n + 1), Carries(r[k]) PROVE k \in 1..n
  BY <1>1, <1>3
<1>4. ASSUME NEW j \in 1..(n + 1), NEW k \in 1..(n + 1), Carries(r[k]), Token(r[j]) = Token(r[k])
      PROVE  j = k
  <2>1. Carries(r[j])
    BY <1>4 DEF Carries, Token
  <2>2. j \in 1..n /\ k \in 1..n
    BY <1>3, <1>4, <2>1
  <2> QED
    BY <1>1, <1>2, <1>4, <2>2 DEF Queued
<1>5. ASSUME NEW k \in 1..(n + 1), Carries(r[k]) PROVE Token(r[k]) \in Tokens /\ p[Token(r[k])] = x
  BY <1>1, <1>2, <1>3, <1>5 DEF Queued
<1> QED
  BY <1>1, <1>4, <1>5 DEF Queued, r

\* The message that is taken from a queue was placed there, and may be placed anywhere.
LEMMA QueuedRest ==
    ASSUME NEW p, NEW q \in Seq(MessageOf), NEW x, Queued(p, q, x), q # <<>>
    PROVE  /\ Queued(p, Tail(q), x)
           /\ Carries(Head(q)) => Token(Head(q)) \in Tokens /\ p[Token(Head(q))] = x
           /\ \A p2, y : Carries(Head(q)) /\ Moved(p, p2, Token(Head(q)), y) =>
                           Queued(p2, Tail(q), x)
<1> DEFINE r == Tail(q)
           m == Head(q)
           n == Len(q)
<1>1. n \in Nat \ {0} /\ DOMAIN q = 1..n /\ DOMAIN r = 1..(n - 1) /\ m = q[1]
  OBVIOUS
<1>2. \A k \in 1..(n - 1) : r[k] = q[k + 1]
  OBVIOUS
<1> HIDE DEF r, n, m
<1>3. \A k \in 1..(n - 1) : k + 1 \in 1..n
  BY <1>1
<1>4. \A k \in 1..(n - 1) : Carries(r[k]) => Token(r[k]) \in Tokens /\ p[Token(r[k])] = x
  BY <1>1, <1>2, <1>3 DEF Queued
<1>5. ASSUME NEW j \in 1..(n - 1), NEW k \in 1..(n - 1), Carries(r[k]), Token(r[j]) = Token(r[k])
      PROVE  j = k
  <2>1. j + 1 = k + 1
    BY <1>1, <1>2, <1>3, <1>5 DEF Queued
  <2> QED
    BY <2>1
<1>6. Carries(m) => Token(m) \in Tokens /\ p[Token(m)] = x
  BY <1>1 DEF Queued
<1>7. ASSUME NEW k \in 1..(n - 1), Carries(m) PROVE Token(r[k]) # Token(m)
  <2>1. k + 1 \in 1..n /\ 1 \in 1..n /\ k + 1 # 1
    BY <1>1, <1>3
  <2> QED
    BY <1>1, <1>2, <1>7, <2>1 DEF Queued
<1>8. ASSUME NEW p2, NEW y, Carries(m), Moved(p, p2, Token(m), y)
      PROVE  \A k \in 1..(n - 1) : Carries(r[k]) => Token(r[k]) \in Tokens /\ p2[Token(r[k])] = x
  BY <1>4, <1>7, <1>8 DEF Moved
<1> QED
  BY <1>1, <1>4, <1>5, <1>6, <1>8 DEF Queued, r, m

\* The same for queues of buffers.
LEMMA InLineKept ==
    ASSUME NEW p, NEW p2, NEW q \in Seq(Buffers \cup {Ev}), NEW x, NEW a, NEW y, InLine(p, q, x),
           Moved(p, p2, a, y), p[a] # x
    PROVE  InLine(p2, q, x)
<1>1. \A k \in DOMAIN q : <<0, q[k]>> \in Tokens
  BY DEF Tokens
<1> QED
  BY <1>1 DEF InLine, Moved

\* A buffer that is put into a queue is placed there.
LEMMA InLineMore ==
    ASSUME NEW p, NEW p2, NEW q \in Seq(Buffers \cup {Ev}), NEW x, NEW b \in Buffers \cup {Ev},
           InLine(p, q, x), Moved(p, p2, <<0, b>>, x), p[<<0, b>>] # x
    PROVE  InLine(p2, Append(q, b), x)
<1> DEFINE r == Append(q, b)
           n == Len(q)
<1>0. \A k \in DOMAIN q : <<0, q[k]>> \in Tokens
  BY DEF Tokens
<1>1. n \in Nat /\ DOMAIN q = 1..n /\ DOMAIN r = 1..(n + 1) /\ r[n + 1] = b
  OBVIOUS
<1>2. \A k \in 1..n : r[k] = q[k]
  OBVIOUS
<1> HIDE DEF r, n
<1>3. \A k \in 1..n : q[k] # b
  BY <1>1 DEF InLine
<1>4. ASSUME NEW k \in 1..(n + 1) PROVE p2[<<0, r[k]>>] = x
  <2>1. CASE k = n + 1
    BY <1>1, <2>1 DEF Moved
  <2>2. CASE k \in 1..n
    <3>1. <<0, q[k]>> \in Tokens \ {<<0, b>>}
      BY <1>0, <1>1, <1>3, <2>2
    <3> QED
      BY <1>1, <1>2, <2>2, <3>1 DEF Moved, InLine
  <2> QED
    BY <1>1, <2>1, <2>2
<1>5. ASSUME NEW j \in 1..(n + 1), NEW k \in 1..(n + 1), r[j] = r[k] PROVE j = k
  <2>1. CASE j \in 1..n /\ k \in 1..n
    BY <1>1, <1>2, <1>5, <2>1 DEF InLine
  <2>2. CASE j \in 1..n /\ k = n + 1
    BY <1>1, <1>2, <1>3, <1>5, <2>2
  <2>3. CASE k \in 1..n /\ j = n + 1
    BY <1>1, <1>2, <1>3, <1>5, <2>3
  <2> QED
    BY <1>1, <2>1, <2>2, <2>3
<1> QED
  BY <1>1, <1>4, <1>5 DEF InLine, r

\* The buffer that is taken from a queue was placed there, and may be placed anywhere.
LEMMA InLineRest ==
    ASSUME NEW p, NEW q \in Seq(Buffers \cup {Ev}), NEW x, InLine(p, q, x), q # <<>>
    PROVE  /\ Head(q) \in Buffers \cup {Ev} /\ p[<<0, Head(q)>>] = x
           /\ \A p2, y : Moved(p, p2, <<0, Head(q)>>, y) => InLine(p2, Tail(q), x)
<1> DEFINE r == Tail(q)
           b == Head(q)
           n == Len(q)
<1>0. \A k \in DOMAIN q : <<0, q[k]>> \in Tokens
  BY DEF Tokens
<1>1. n \in Nat \ {0} /\ DOMAIN q = 1..n /\ DOMAIN r = 1..(n - 1) /\ b = q[1]
      /\ b \in Buffers \cup {Ev}
  OBVIOUS
<1>2. \A k \in 1..(n - 1) : r[k] = q[k + 1]
  OBVIOUS
<1> HIDE DEF r, n, b
<1>3. \A k \in 1..(n - 1) : k + 1 \in 1..n
  BY <1>1
<1>4. ASSUME NEW j \in 1..(n - 1), NEW k \in 1..(n - 1), r[j] = r[k] PROVE j = k
  <2>1. j + 1 = k + 1
    BY <1>1, <1>2, <1>3, <1>4 DEF InLine
  <2> QED
    BY <2>1
<1>5. p[<<0, b>>] = x
  BY <1>1 DEF InLine
<1>6. ASSUME NEW k \in 1..(n - 1) PROVE r[k] # b
  <2>1. k + 1 \in 1..n /\ 1 \in 1..n /\ k + 1 # 1
    BY <1>1, <1>3
  <2> QED
    BY <1>1, <1>2, <2>1 DEF InLine
<1>7. ASSUME NEW p2, NEW y, Moved(p, p2, <<0, b>>, y), NEW k \in 1..(n - 1)
      PROVE  p2[<<0, r[k]>>] = x
  <2>1. <<0, r[k]>> \in Tokens \ {<<0, b>>} /\ p[<<0, r[k]>>] = x
    BY <1>0, <1>1, <1>2, <1>3, <1>6 DEF InLine
  <2> QED
    BY <1>7, <2>1 DEF Moved
<1> QED
  BY <1>1, <1>4, <1>5, <1>7 DEF InLine, r, b

\* A token can be moved.
LEMMA Move ==
    ASSUME NEW p \in [Tokens -> Places], NEW a \in Tokens, NEW y \in Places
    PROVE  \E p2 \in [Tokens -> Places] : Moved(p, p2, a, y)
<1>1. [p EXCEPT ![a] = y] \in [Tokens -> Places] /\ Moved(p, [p EXCEPT ![a] = y], a, y)
  BY DEF Moved
<1> QED
  BY <1>1

\* All but the two places between which a token is moved stay as they are.
LEMMA Elsewhere ==
    ASSUME QueueTypes, PlainInv, NEW p, NEW p2, NEW a, NEW y, BuffersPlaced(p), Moved(p, p2, a, y)
    PROVE  /\ p[a] # "msgs" => Queued(p2, msgs, "msgs")
           /\ p[a] # "arr" => Queued(p2, arr, "arr")
           /\ p[a] # "rx" => Queued(p2, rx, "rx")
           /\ p[a] # "bulkRx" => InLine(p2, bulkRx, "bulkRx")
           /\ p[a] # "cbq" => InLine(p2, cbq, "cbq")
           /\ \A b \in home : a # <<0, b>> => p2[<<0, b>>] = "home"
           /\ \A b \in held : a # <<0, b>> => p2[<<0, b>>] = "held"
           /\ snd.pc \in {"context", "version", "bulklock", "queue"} /\ a # <<0, snd.buf>> =>
                 p2[<<0, snd.buf>>] = "snd"
           /\ \A b \in ctx : a # <<0, b>> => p2[<<0, b>>] \notin {"home", "cbq"}
<1>1. /\ p[a] # "msgs" => Queued(p2, msgs, "msgs")
      /\ p[a] # "arr" => Queued(p2, arr, "arr")
      /\ p[a] # "rx" => Queued(p2, rx, "rx")
  BY QueuedKept DEF BuffersPlaced
<1>2. p[a] # "bulkRx" => InLine(p2, bulkRx, "bulkRx")
  BY InLineKept DEF BuffersPlaced, QueueTypes
<1>3. p[a] # "cbq" => InLine(p2, cbq, "cbq")
  BY InLineKept DEF BuffersPlaced, QueueTypes
<1>4. \A b \in Buffers \cup {Ev} : a # <<0, b>> => p2[<<0, b>>] = p[<<0, b>>]
  BY DEF Moved, Tokens
<1>5. \A b \in home : a # <<0, b>> => p2[<<0, b>>] = "home"
  BY <1>4 DEF BuffersPlaced, QueueTypes
<1>6. \A b \in held : a # <<0, b>> => p2[<<0, b>>] = "held"
  BY <1>4 DEF BuffersPlaced, QueueTypes
<1>7. snd.pc \in {"context", "version", "bulklock", "queue"} /\ a # <<0, snd.buf>> =>
                 p2[<<0, snd.buf>>] = "snd"
  BY <1>4 DEF BuffersPlaced, PlainInv, Threads
<1>8. \A b \in ctx : a # <<0, b>> => p2[<<0, b>>] \notin {"home", "cbq"}
  BY <1>4 DEF BuffersPlaced, PlainInv, Holders
<1> QED
  BY <1>1, <1>2, <1>3, <1>5, <1>6, <1>7, <1>8

\* The waiters stay as they are.
LEMMA WaitersKept ==
    ASSUME NEW p, NEW p2, WaitersPlaced(p), UNCHANGED sem,
           \A t \in Asker : Out(t) => Out(t)' /\ ask'[t].w = ask[t].w,
           \A w \in Waiters : /\ p2[<<w, Ev>>] = "dest" <=> p[<<w, Ev>>] = "dest"
                              /\ p2[<<w, Ev>>] # "none" => p[<<w, Ev>>] # "none"
    PROVE  WaitersPlaced(p2)'
BY DEF WaitersPlaced

\* A token is either a buffer or a waiter.
LEMMA TokenKinds ==
    /\ \A b \in Buffers \cup {Ev} : <<0, b>> \in Tokens
    /\ \A w \in Waiters : <<w, Ev>> \in Tokens
    /\ \A w \in Waiters, b \in Buffers \cup {Ev} : <<w, Ev>> # <<0, b>>
    /\ \A a, b : <<0, a>> = <<0, b>> <=> a = b
BY MmalVcAssumption DEF Tokens, Waiters

\* The waiters stay as they are when a buffer moves.
LEMMA WaitersStay ==
    ASSUME NEW p, NEW p2, NEW b \in Buffers \cup {Ev}, NEW y, WaitersPlaced(p),
           Moved(p, p2, <<0, b>>, y), UNCHANGED sem,
           \A t \in Asker : Out(t) => Out(t)' /\ ask'[t].w = ask[t].w
    PROVE  WaitersPlaced(p2)'
<1>1. \A w \in Waiters : p2[<<w, Ev>>] = p[<<w, Ev>>]
  BY TokenKinds DEF Moved
<1> QED
  BY <1>1, WaitersKept

\* Where S has its buffer.
LEMMA PlaceSend ==
    ASSUME PlaceInv, QueueTypes, PlainInv, WaiterTypes, WaitInv, AskInv, Send
    PROVE  PlaceInv'
<1> PICK p \in [Tokens -> Places] : BuffersPlaced(p) /\ WaitersPlaced(p)
  BY DEF PlaceInv
<1>a. UNCHANGED <<sem, cbq, held, arr, rx, bulkRx>>
  BY DEF Send, KeepSend, mmal_vc_port_send, AllocContext, SendVersion, LockBulk,
         mmal_vc_send_message, QueueBulk
<1>b. \A t \in Asker : Out(t) => Out(t)' /\ ask'[t].w = ask[t].w
  <2>1. CASE SendVersion
    BY <2>1, AskMoves DEF SendVersion, Moves, Out, Asker, RequestNames
  <2> QED
    BY <2>1 DEF Send, mmal_vc_port_send, AllocContext, LockBulk, mmal_vc_send_message, QueueBulk,
                Out
<1>c. WaitersPlaced(p)'
  BY <1>a, <1>b, WaitersKept
<1>d. snd.pc # "none" => snd.buf \in Buffers
  BY DEF PlainInv, Threads
<1> USE DEF Places
<1>1. ASSUME NEW b \in home \ {Ev}, NEW bulk \in BOOLEAN, mmal_vc_port_send(b, bulk)
      PROVE  PlaceInv'
  <2>0. b \in Buffers /\ p[<<0, b>>] = "home" /\ snd'.pc = "context" /\ snd'.buf = b
        /\ home' = home \ {b} /\ UNCHANGED <<msgs, ctx>>
    BY <1>1 DEF mmal_vc_port_send, QueueTypes, BuffersPlaced
  <2>1. PICK p2 \in [Tokens -> Places] : Moved(p, p2, <<0, b>>, "snd")
    BY <2>0, Move, TokenKinds
  <2>2. WaitersPlaced(p2)'
    BY <1>a, <1>b, <2>0, <2>1, WaitersStay
  <2>3. p2[<<0, b>>] = "snd"
    BY <2>1 DEF Moved
  <2>4. BuffersPlaced(p2)'
    BY <1>a, <2>0, <2>1, <2>3, Elsewhere, TokenKinds DEF BuffersPlaced
  <2> QED
    BY <2>2, <2>4 DEF PlaceInv
<1>2. ASSUME snd.pc \in {"context", "queue"}, snd'.pc = "none", home' = home \cup {snd.buf},
             ctx' = ctx \ {snd.buf}, UNCHANGED msgs
      PROVE  PlaceInv'
  <2>0. snd.buf \in Buffers /\ p[<<0, snd.buf>>] = "snd" /\ snd.buf \notin ctx'
    BY <1>2, <1>d DEF BuffersPlaced
  <2>1. PICK p2 \in [Tokens -> Places] : Moved(p, p2, <<0, snd.buf>>, "home")
    BY <2>0, Move, TokenKinds
  <2>2. WaitersPlaced(p2)'
    BY <1>a, <1>b, <2>0, <2>1, WaitersStay
  <2>3. p2[<<0, snd.buf>>] = "home"
    BY <2>1 DEF Moved
  <2>4. BuffersPlaced(p2)'
    <3>0. /\ \A b \in home : <<0, snd.buf>> # <<0, b>> => p2[<<0, b>>] = "home"
          /\ \A b \in held : <<0, snd.buf>> # <<0, b>> => p2[<<0, b>>] = "held"
          /\ \A b \in ctx : <<0, snd.buf>> # <<0, b>> => p2[<<0, b>>] \notin {"home", "cbq"}
      BY <2>1, Elsewhere
    <3>1. \A b \in home' : p2[<<0, b>>] = "home"
      BY <1>2, <2>3, <3>0
    <3>2. \A b \in ctx' : p2[<<0, b>>] \notin {"home", "cbq"}
      BY <1>2, <2>0, <3>0
    <3>3. \A b \in held' : p2[<<0, b>>] = "held"
      BY <1>a, <2>0, <3>0 DEF BuffersPlaced
    <3> QED
      BY <1>a, <1>2, <2>0, <2>1, <3>1, <3>2, <3>3, Elsewhere DEF BuffersPlaced
  <2> QED
    BY <2>2, <2>4 DEF PlaceInv
<1>3. ASSUME UNCHANGED <<home, msgs>>,
             snd'.pc \in {"version", "bulklock", "queue"} => snd.pc # "none" /\ snd'.buf = snd.buf
                                              /\ snd.pc # "bulk",
             snd'.pc # "context", \A b \in ctx' : b \in ctx \/ (snd.pc = "context" /\ b = snd.buf)
      PROVE  PlaceInv'
  <2>1. \A b \in ctx' : p[<<0, b>>] \notin {"home", "cbq"}
    BY <1>3 DEF BuffersPlaced
  <2>2. snd'.pc \in {"context", "version", "bulklock", "queue"} => p[<<0, snd'.buf>>] = "snd"
    BY <1>3 DEF BuffersPlaced, PlainInv, Threads
  <2>3. BuffersPlaced(p)'
    BY <1>a, <1>3, <2>1, <2>2 DEF BuffersPlaced
  <2> QED
    BY <1>c, <2>3 DEF PlaceInv
<1>e. snd = [pc |-> snd.pc, buf |-> snd.buf, bulk |-> snd.bulk]
  BY DEF PlainInv, Threads
<1>4. ASSUME NEW x, snd' = [snd EXCEPT !.pc = x] PROVE snd'.pc = x /\ snd'.buf = snd.buf
  BY <1>e, <1>4
<1>5. CASE AllocContext
  <2>1. CASE pool = "none"
    <3>1. /\ snd.pc = "context" /\ home' = home \cup {snd.buf} /\ ctx' = ctx /\ snd' = NotSending
          /\ UNCHANGED msgs
      BY <1>5, <2>1 DEF AllocContext, Unsent
    <3>2. snd.buf \notin ctx
      BY <3>1 DEF BuffersPlaced
    <3> QED
      BY <1>2, <3>1, <3>2 DEF NotSending
  <2>2. CASE pool = "live"
    <3>1. /\ snd.pc = "context" /\ ctx' = ctx \cup {snd.buf} /\ UNCHANGED <<home, msgs>>
          /\ snd' = [snd EXCEPT !.pc = IF zerolen THEN "bulklock" ELSE "version"]
      BY <1>5, <2>2 DEF AllocContext
    <3>2. snd'.pc \in {"bulklock", "version"} /\ snd'.buf = snd.buf
      BY <1>4, <3>1
    <3> QED
      BY <1>3, <3>1, <3>2
  <2>3. CASE pool = "stale"
    <3>1. UNCHANGED <<home, msgs, snd, ctx>>
      BY <1>5, <2>3 DEF AllocContext
    <3>2. BuffersPlaced(p)'
      BY <1>a, <3>1 DEF BuffersPlaced
    <3> QED
      BY <1>c, <3>2 DEF PlaceInv
  <2> QED
    BY <1>5, <2>1, <2>2, <2>3 DEF AllocContext
<1>6. CASE SendVersion
  <2>1. snd.pc = "version" /\ UNCHANGED <<home, msgs, ctx>> /\ (snd' = snd \/ snd' = [snd EXCEPT !.pc = "bulklock"])
    BY <1>6 DEF SendVersion
  <2>2. snd'.pc \in {"version", "bulklock"} /\ snd'.buf = snd.buf
    BY <1>4, <2>1
  <2> QED
    BY <1>3, <2>1, <2>2
<1>7. CASE LockBulk
  <2>1. snd.pc = "bulklock" /\ UNCHANGED <<home, msgs, ctx>> /\ snd' = [snd EXCEPT !.pc = "queue"]
    BY <1>7 DEF LockBulk
  <2>2. snd'.pc = "queue" /\ snd'.buf = snd.buf
    BY <1>4, <2>1
  <2> QED
    BY <1>3, <2>1, <2>2
<1>8. CASE QueueBulk
  <2>1. UNCHANGED <<home, msgs, ctx>> /\ snd' = NotSending
    BY <1>8 DEF QueueBulk, Unsent
  <2> QED
    BY <1>3, <2>1 DEF NotSending
<1>9. CASE mmal_vc_send_message
  <2> DEFINE b == snd.buf
             m == Message("S", "buffer", b, snd.bulk)
  <2>0. snd.pc = "queue" /\ b \in Buffers
    BY <1>9, <1>d DEF mmal_vc_send_message
  <2>1. CASE msgs' = Append(msgs, m) /\ UNCHANGED <<home, ctx>> /\ snd'.pc \in {"bulk", "none"}
    <3>0. PICK p2 \in [Tokens -> Places] : Moved(p, p2, <<0, b>>, "msgs")
      BY <2>0, Move, TokenKinds
    <3>1. Token(m) = <<0, b>> /\ m \in MessageOf
      <4>1. ask["S"].w = 0
        BY <2>0 DEF AskInv, Asker
      <4>2. m \in MessageOf
        BY <2>0, MessageType DEF PlainInv, Threads, Asker, MessageNames
      <4> QED
        BY <4>1, <4>2 DEF Token, Message
    <3>2. p[<<0, b>>] = "snd" /\ p2[<<0, b>>] = "msgs"
      BY <2>0, <3>0 DEF BuffersPlaced, Moved
    <3> HIDE DEF m, b
    <3>3. Queued(p2, msgs', "msgs")
      <4>1. /\ Token(m) \in Tokens /\ Moved(p, p2, Token(m), "msgs")
            /\ p[Token(m)] # "msgs"
        BY <2>0, <3>0, <3>1, <3>2, TokenKinds
      <4>2. Queued(p, msgs, "msgs") /\ msgs \in Seq(MessageOf)
        BY DEF BuffersPlaced, QueueTypes
      <4>3. Queued(p2, Append(msgs, m), "msgs")
        BY <4>1, <4>2, QueuedMore
      <4> QED
        BY <2>1, <4>3
    <3>4. WaitersPlaced(p2)'
      BY <1>a, <1>b, <2>0, <3>0, WaitersStay
    <3>5. /\ \A c \in home : <<0, b>> # <<0, c>> => p2[<<0, c>>] = "home"
          /\ \A c \in held : <<0, b>> # <<0, c>> => p2[<<0, c>>] = "held"
          /\ \A c \in ctx : <<0, b>> # <<0, c>> => p2[<<0, c>>] \notin {"home", "cbq"}
      BY <3>0, Elsewhere
    <3>6. /\ b \notin home /\ b \notin held
      BY <3>2 DEF BuffersPlaced
    <3>7. /\ \A c \in home' : p2[<<0, c>>] = "home"
          /\ \A c \in held' : p2[<<0, c>>] = "held"
          /\ \A c \in ctx' : p2[<<0, c>>] \notin {"home", "cbq"}
      BY <1>a, <2>1, <3>2, <3>5, <3>6
    <3>8. /\ Queued(p2, arr, "arr") /\ Queued(p2, rx, "rx") /\ InLine(p2, bulkRx, "bulkRx")
          /\ InLine(p2, cbq, "cbq")
      BY <3>0, <3>2, Elsewhere
    <3>9. BuffersPlaced(p2)'
      BY <1>a, <2>1, <3>3, <3>7, <3>8 DEF BuffersPlaced
    <3> QED
      BY <3>4, <3>9 DEF PlaceInv
  <2>2. CASE Fails /\ Unsent /\ ctx' = ctx \ {b} /\ home' = home \cup {b} /\ UNCHANGED msgs
    BY <1>2, <2>0, <2>2 DEF Unsent, NotSending
  <2>3. snd' = [snd EXCEPT !.pc = "bulk"] => snd'.pc = "bulk"
    BY <1>4
  <2> QED
    BY <1>9, <2>1, <2>2, <2>3 DEF mmal_vc_send_message, Unsent, NotSending
<1> QED
  BY <1>1, <1>5, <1>6, <1>7, <1>8, <1>9 DEF Send

\* The waiters stay as they are when a message moves.
LEMMA WaitersMoved ==
    ASSUME NEW p, NEW p2, NEW a \in Tokens, NEW y, WaitersPlaced(p), Moved(p, p2, a, y),
           p[a] \notin {"dest", "none"}, y # "dest", UNCHANGED <<sem, ask>>
    PROVE  WaitersPlaced(p2)'
<1>1. \A w \in Waiters : /\ p2[<<w, Ev>>] = "dest" <=> p[<<w, Ev>>] = "dest"
                         /\ p2[<<w, Ev>>] # "none" => p[<<w, Ev>>] # "none"
  BY TokenKinds DEF Moved
<1> QED
  BY <1>1, WaitersKept DEF Out

\* The server takes messages and data, and sends replies and buffers.
LEMMA PlaceServer ==
    ASSUME PlaceInv, QueueTypes, PlainInv, WaiterTypes, MessageInv, Server
    PROVE  PlaceInv'
<1> PICK p \in [Tokens -> Places] : BuffersPlaced(p) /\ WaitersPlaced(p)
  BY DEF PlaceInv
<1>a. UNCHANGED <<sem, ask, cbq, home, snd, ctx, bulkRx>>
  BY DEF Server, ServerTakes, DataArrives, ServerReturns, ServerEvent, KeepServer, waitVars,
         bufVars, portVars
<1> USE DEF Places
<1>b. ASSUME NEW p2 \in [Tokens -> Places], NEW a \in Tokens, NEW y, Moved(p, p2, a, y),
             p[a] \in {"msgs", "arr", "held", "rx"}, y \in {"msgs", "arr", "held", "rx"},
             Queued(p2, msgs', "msgs"), Queued(p2, arr', "arr"), Queued(p2, rx', "rx"),
             \A b \in held' : p2[<<0, b>>] = "held"
      PROVE  PlaceInv'
  <2>1. WaitersPlaced(p2)'
    BY <1>a, <1>b, WaitersMoved
  <2>2. InLine(p2, bulkRx, "bulkRx") /\ InLine(p2, cbq, "cbq")
    BY <1>b, Elsewhere
  <2>3. \A b \in home : a # <<0, b>>
    BY <1>b DEF BuffersPlaced
  <2>4. \A b \in home : p2[<<0, b>>] = "home"
    <3>1. \A b \in home : a # <<0, b>> => p2[<<0, b>>] = "home"
      BY <1>b, Elsewhere
    <3> QED
      BY <2>3, <3>1
  <2>5. snd.pc \in {"context", "version", "bulklock", "queue"} => p2[<<0, snd.buf>>] = "snd"
    <3>1. snd.pc \in {"context", "version", "bulklock", "queue"} => a # <<0, snd.buf>>
      BY <1>b DEF BuffersPlaced
    <3> QED
      BY <1>b, <3>1, Elsewhere
  <2>6. \A b \in ctx : p2[<<0, b>>] \notin {"home", "cbq"}
    <3>1. \A b \in ctx : a # <<0, b>> => p2[<<0, b>>] \notin {"home", "cbq"}
      BY <1>b, Elsewhere
    <3>2. p2[a] = y
      BY <1>b DEF Moved
    <3> QED
      BY <1>b, <3>1, <3>2
  <2>7. BuffersPlaced(p2)'
    BY <1>a, <1>b, <2>2, <2>4, <2>5, <2>6 DEF BuffersPlaced
  <2> QED
    BY <2>1, <2>7 DEF PlaceInv
<1>c. ASSUME NEW m \in MessageOf, NEW p2, Reply(m), Moved(p, p2, Token(m), "rx"),
             Token(m) \in Tokens, p[Token(m)] # "rx"
      PROVE  Queued(p2, rx', "rx")
  <2> DEFINE f == [m EXCEPT !.ok = FALSE]
  <2>1. Token(f) = Token(m)
    BY DEF Token, MessageOf
  <2>2. rx' = Append(rx, m) \/ rx' = Append(rx, f)
    BY <1>c DEF Reply
  <2> HIDE DEF f
  <2>3. Queued(p, rx, "rx") /\ rx \in Seq(MessageOf)
    BY DEF BuffersPlaced, QueueTypes
  <2>4. Queued(p2, Append(rx, m), "rx") /\ Queued(p2, Append(rx, f), "rx")
    BY <1>c, <2>1, <2>3, QueuedMore
  <2> QED
    BY <2>2, <2>4
<1>1. CASE ServerTakes
  <2> DEFINE m == Head(msgs)
  <2>1. msgs # <<>> /\ msgs' = Tail(msgs) /\ msgs \in Seq(MessageOf) /\ m \in MessageOf
    BY <1>1 DEF ServerTakes, QueueTypes
  <2>2. Carries(m) /\ (m.w = 0 <=> m.id = "buffer")
    <3>1. 1 \in DOMAIN msgs /\ m = msgs[1]
      BY <2>1
    <3> QED
      BY <3>1 DEF MessageInv, Carries
  <2>3. Queued(p, msgs, "msgs") /\ Queued(p, arr, "arr") /\ arr \in Seq(MessageOf)
    BY DEF BuffersPlaced, QueueTypes
  <2>4. Token(m) \in Tokens /\ p[Token(m)] = "msgs"
    BY <2>1, <2>2, <2>3, QueuedRest
  <2>5. ASSUME NEW p2, NEW y, Moved(p, p2, Token(m), y) PROVE Queued(p2, msgs', "msgs")
    BY <2>1, <2>2, <2>3, <2>5, QueuedRest
  <2>6. \/ arr' = Append(arr, m) /\ UNCHANGED <<held, rx>>
        \/ m.w = 0 /\ held' = held \cup {m.buf} /\ UNCHANGED <<arr, rx>>
        \/ Reply(m) /\ UNCHANGED <<held, arr>>
    BY <1>1, <2>2 DEF ServerTakes
  <2> HIDE DEF m
  <2>7. \A b \in held : Token(m) # <<0, b>>
    BY <2>4 DEF BuffersPlaced
  <2>8. CASE arr' = Append(arr, m) /\ UNCHANGED <<held, rx>>
    <3>1. PICK p2 \in [Tokens -> Places] : Moved(p, p2, Token(m), "arr")
      BY <2>4, Move
    <3>2. Queued(p2, arr', "arr")
      <4>1. Queued(p2, Append(arr, m), "arr")
        BY <2>3, <2>4, <3>1, QueuedMore
      <4> QED
        BY <2>8, <4>1
    <3>3. Queued(p2, rx, "rx") /\ \A b \in held : p2[<<0, b>>] = "held"
      BY <2>4, <2>7, <3>1, Elsewhere
    <3> QED
      BY <1>b, <2>4, <2>5, <2>8, <3>1, <3>2, <3>3
  <2>9. CASE m.w = 0 /\ held' = held \cup {m.buf} /\ UNCHANGED <<arr, rx>>
    <3>1. PICK p2 \in [Tokens -> Places] : Moved(p, p2, Token(m), "held")
      BY <2>4, Move
    <3>2. Queued(p2, rx, "rx") /\ Queued(p2, arr, "arr") /\ \A b \in held : p2[<<0, b>>] = "held"
      BY <2>4, <2>7, <3>1, Elsewhere
    <3>3. p2[<<0, m.buf>>] = "held"
      BY <2>9, <3>1 DEF Moved, Token
    <3>4. \A b \in held' : p2[<<0, b>>] = "held"
      BY <2>9, <3>2, <3>3
    <3> QED
      BY <1>b, <2>4, <2>5, <2>9, <3>1, <3>2, <3>4
  <2>10. CASE Reply(m) /\ UNCHANGED <<held, arr>>
    <3>1. PICK p2 \in [Tokens -> Places] : Moved(p, p2, Token(m), "rx")
      BY <2>4, Move
    <3>2. Queued(p2, rx', "rx")
      BY <1>c, <2>1, <2>4, <2>10, <3>1
    <3>3. Queued(p2, arr, "arr") /\ \A b \in held : p2[<<0, b>>] = "held"
      BY <2>4, <2>7, <3>1, Elsewhere
    <3> QED
      BY <1>b, <2>4, <2>5, <2>10, <3>1, <3>2, <3>3
  <2> QED
    BY <2>6, <2>8, <2>9, <2>10
<1>2. CASE DataArrives
  <2> DEFINE m == Head(arr)
  <2>1. arr # <<>> /\ arr' = Tail(arr) /\ arr \in Seq(MessageOf) /\ m \in MessageOf
    BY <1>2 DEF DataArrives, QueueTypes
  <2>2. Carries(m) /\ (m.w = 0 <=> m.id = "buffer")
    <3>1. 1 \in DOMAIN arr /\ m = arr[1]
      BY <2>1
    <3> QED
      BY <3>1 DEF MessageInv, Carries
  <2>3. Queued(p, arr, "arr")
    BY DEF BuffersPlaced, QueueTypes
  <2>4. Token(m) \in Tokens /\ p[Token(m)] = "arr"
    BY <2>1, <2>2, <2>3, QueuedRest
  <2>5. ASSUME NEW p2, NEW y, Moved(p, p2, Token(m), y) PROVE Queued(p2, arr', "arr")
    BY <2>1, <2>2, <2>3, <2>5, QueuedRest
  <2>6. \/ m.w = 0 /\ held' = held \cup {m.buf} /\ UNCHANGED <<msgs, rx>>
        \/ Reply(m) /\ UNCHANGED <<held, msgs>>
    BY <1>2, <2>2 DEF DataArrives
  <2> HIDE DEF m
  <2>7. \A b \in held : Token(m) # <<0, b>>
    BY <2>4 DEF BuffersPlaced
  <2>9. CASE m.w = 0 /\ held' = held \cup {m.buf} /\ UNCHANGED <<msgs, rx>>
    <3>1. PICK p2 \in [Tokens -> Places] : Moved(p, p2, Token(m), "held")
      BY <2>4, Move
    <3>2. Queued(p2, rx, "rx") /\ Queued(p2, msgs, "msgs") /\ \A b \in held : p2[<<0, b>>] = "held"
      BY <2>4, <2>7, <3>1, Elsewhere
    <3>3. p2[<<0, m.buf>>] = "held"
      BY <2>9, <3>1 DEF Moved, Token
    <3>4. \A b \in held' : p2[<<0, b>>] = "held"
      BY <2>9, <3>2, <3>3
    <3> QED
      BY <1>b, <2>4, <2>5, <2>9, <3>1, <3>2, <3>4
  <2>10. CASE Reply(m) /\ UNCHANGED <<held, msgs>>
    <3>1. PICK p2 \in [Tokens -> Places] : Moved(p, p2, Token(m), "rx")
      BY <2>4, Move
    <3>2. Queued(p2, rx', "rx")
      BY <1>c, <2>1, <2>4, <2>10, <3>1
    <3>3. Queued(p2, msgs, "msgs") /\ \A b \in held : p2[<<0, b>>] = "held"
      BY <2>4, <2>7, <3>1, Elsewhere
    <3> QED
      BY <1>b, <2>4, <2>5, <2>10, <3>1, <3>2, <3>3
  <2> QED
    BY <2>6, <2>9, <2>10
<1>3. CASE ServerReturns
  <2>1. PICK b \in held, how \in {"plain", "bulk", "short"} :
           /\ held' = held \ {b}
           /\ rx' = Append(rx, [Message("S", how, b, FALSE) EXCEPT !.w = 0])
    BY <1>3 DEF ServerReturns
  <2> DEFINE m == [Message("S", how, b, FALSE) EXCEPT !.w = 0]
  <2>2. Token(m) = <<0, b>>
    BY DEF Token, Message
  <2>3. UNCHANGED <<msgs, arr>> /\ rx' = Append(rx, m)
    BY <1>3, <2>1 DEF ServerReturns
  <2> HIDE DEF m
  <2>4. <<0, b>> \in Tokens /\ p[<<0, b>>] = "held" /\ b \in Buffers
    BY TokenKinds DEF BuffersPlaced, QueueTypes
  <2>5. PICK p2 \in [Tokens -> Places] : Moved(p, p2, <<0, b>>, "rx")
    BY <2>4, Move
  <2>6. Queued(p2, rx', "rx")
    <3>1. Queued(p, rx, "rx") /\ rx \in Seq(MessageOf)
      BY DEF BuffersPlaced, QueueTypes
    <3>2. Queued(p2, Append(rx, m), "rx")
      BY <2>2, <2>4, <2>5, <3>1, QueuedMore
    <3> QED
      BY <2>3, <3>2
  <2>7. Queued(p2, msgs, "msgs") /\ Queued(p2, arr, "arr")
    BY <2>4, <2>5, Elsewhere
  <2>8. \A c \in held : <<0, b>> # <<0, c>> => p2[<<0, c>>] = "held"
    BY <2>5, Elsewhere
  <2>9. \A c \in held' : p2[<<0, c>>] = "held"
    BY <2>1, <2>8
  <2> QED
    BY <1>b, <2>3, <2>4, <2>5, <2>6, <2>7, <2>9
<1>4. CASE ServerEvent
  <2>1. PICK how \in {"plain", "bulk"} : rx' = Append(rx, [Message("S", how, Ev, FALSE) EXCEPT !.w = 0])
    BY <1>4 DEF ServerEvent
  <2> DEFINE m == [Message("S", how, Ev, FALSE) EXCEPT !.w = 0]
  <2>2. ~Carries(m)
    BY DEF Carries, Message
  <2>3. UNCHANGED <<msgs, arr, held>> /\ rx' = Append(rx, m)
    BY <1>4, <2>1 DEF ServerEvent
  <2> HIDE DEF m
  <2>4. Queued(p, rx, "rx") /\ rx \in Seq(MessageOf)
    BY DEF BuffersPlaced, QueueTypes
  <2>5. Queued(p, Append(rx, m), "rx")
    BY <2>2, <2>4, QueuedEvent
  <2>6. BuffersPlaced(p)'
    BY <1>a, <2>3, <2>5 DEF BuffersPlaced
  <2>7. WaitersPlaced(p)'
    BY <1>a, WaitersKept DEF Out
  <2> QED
    BY <2>6, <2>7 DEF PlaceInv
<1> QED
  BY <1>1, <1>2, <1>3, <1>4 DEF Server

\* Buffers come back to the client, and home.
LEMMA PlaceHost ==
    ASSUME PlaceInv, QueueTypes, PlainInv,
           BufferToHost \/ mmal_vc_handle_event_msg \/ BulkReceived \/ mmal_vc_do_callback \/ Drain
    PROVE  PlaceInv'
<1> PICK p \in [Tokens -> Places] : BuffersPlaced(p) /\ WaitersPlaced(p)
  BY DEF PlaceInv
<1>a. UNCHANGED <<sem, ask, msgs, arr, held, snd>>
  BY DEF BufferToHost, mmal_vc_handle_event_msg, BulkReceived, mmal_vc_do_callback, Drain,
         KeepClient, KeepPort, waitVars, vcVars
<1> USE DEF Places
<1>p. /\ Queued(p, rx, "rx") /\ InLine(p, bulkRx, "bulkRx") /\ InLine(p, cbq, "cbq")
      /\ rx \in Seq(MessageOf) /\ bulkRx \in Seq(Buffers \cup {Ev}) /\ cbq \in Seq(Buffers \cup {Ev})
      /\ \A c \in home : p[<<0, c>>] = "home"
      /\ \A c \in ctx : p[<<0, c>>] \notin {"home", "cbq"}
      /\ ctx \subseteq Buffers
  BY DEF BuffersPlaced, QueueTypes, PlainInv, Holders
<1>b. ASSUME NEW p2 \in [Tokens -> Places], NEW b \in Buffers \cup {Ev}, NEW y,
             Moved(p, p2, <<0, b>>, y), p[<<0, b>>] \in {"rx", "bulkRx", "cbq", "home"},
             Queued(p2, rx', "rx"), InLine(p2, bulkRx', "bulkRx"), InLine(p2, cbq', "cbq"),
             \A c \in home' : p2[<<0, c>>] = "home",
             ctx' \subseteq ctx, b \in ctx' => y \notin {"home", "cbq"}
      PROVE  PlaceInv'
  <2>1. WaitersPlaced(p2)'
    <3>1. \A t \in Asker : Out(t) => Out(t)' /\ ask'[t].w = ask[t].w
      BY <1>a DEF Out
    <3> QED
      BY <1>a, <1>b, <3>1, WaitersStay
  <2>2. Queued(p2, msgs, "msgs") /\ Queued(p2, arr, "arr")
    BY <1>b, Elsewhere
  <2>3. \A c \in held : p2[<<0, c>>] = "held"
    <3>1. \A c \in held : <<0, b>> # <<0, c>> => p2[<<0, c>>] = "held"
      BY <1>b, Elsewhere
    <3>2. \A c \in held : <<0, b>> # <<0, c>>
      BY <1>b DEF BuffersPlaced
    <3> QED
      BY <3>1, <3>2
  <2>4. snd.pc \in {"context", "version", "bulklock", "queue"} => p2[<<0, snd.buf>>] = "snd"
    <3>1. snd.pc \in {"context", "version", "bulklock", "queue"} => <<0, b>> # <<0, snd.buf>>
      BY <1>b DEF BuffersPlaced
    <3>2. snd.pc \in {"context", "version", "bulklock", "queue"} /\ <<0, b>> # <<0, snd.buf>> =>
                 p2[<<0, snd.buf>>] = "snd"
      BY <1>b, Elsewhere
    <3> QED
      BY <3>1, <3>2
  <2>5. \A c \in ctx' : p2[<<0, c>>] \notin {"home", "cbq"}
    <3>1. \A c \in ctx : <<0, b>> # <<0, c>> => p2[<<0, c>>] \notin {"home", "cbq"}
      BY <1>b, Elsewhere
    <3>2. p2[<<0, b>>] = y
      BY <1>b DEF Moved
    <3> QED
      BY <1>b, <3>1, <3>2, TokenKinds
  <2>6. snd.pc = "context" => snd.buf \notin ctx'
    BY <1>b DEF BuffersPlaced
  <2>7. BuffersPlaced(p2)'
    BY <1>a, <1>b, <2>2, <2>3, <2>4, <2>5, <2>6 DEF BuffersPlaced
  <2> QED
    BY <2>1, <2>7 DEF PlaceInv
<1>c. ASSUME UNCHANGED <<home, cbq, bulkRx, ctx>>, Queued(p, rx', "rx") PROVE PlaceInv'
  <2>1. BuffersPlaced(p)'
    BY <1>a, <1>c DEF BuffersPlaced
  <2>2. WaitersPlaced(p)'
    BY <1>a, WaitersKept DEF Out
  <2> QED
    BY <2>1, <2>2 DEF PlaceInv
<1>d. ASSUME NEW b \in Buffers \cup {Ev}, p[<<0, b>>] \in {"rx", "bulkRx", "home"},
             NEW p2, Moved(p, p2, <<0, b>>, "cbq")
      PROVE  InLine(p2, Append(cbq, b), "cbq")
  BY <1>d, <1>p, InLineMore
<1>e. ASSUME NEW b \in Buffers \cup {Ev}, p[<<0, b>>] \in {"rx", "home"},
             NEW p2, Moved(p, p2, <<0, b>>, "bulkRx")
      PROVE  InLine(p2, Append(bulkRx, b), "bulkRx")
  BY <1>e, <1>p, InLineMore
<1>f. ASSUME NEW p2, NEW b \in Buffers \cup {Ev}, NEW y, Moved(p, p2, <<0, b>>, y)
      PROVE  /\ p[<<0, b>>] # "rx" => Queued(p2, rx, "rx")
             /\ p[<<0, b>>] # "bulkRx" => InLine(p2, bulkRx, "bulkRx")
             /\ p[<<0, b>>] # "cbq" => InLine(p2, cbq, "cbq")
  BY <1>f, Elsewhere
<1>g. ASSUME NEW p2, NEW b \in Buffers \cup {Ev}, NEW y, Moved(p, p2, <<0, b>>, y)
      PROVE  \A c \in home : c # b => p2[<<0, c>>] = "home"
  <2>1. \A c \in home : <<0, b>> # <<0, c>> => p2[<<0, c>>] = "home"
    BY <1>g, Elsewhere
  <2> QED
    BY <2>1, TokenKinds
<1>1. CASE BufferToHost
  <2> DEFINE m == Head(rx)
             b == m.buf
  <2>1. rx # <<>> /\ m.w = 0 /\ b # Ev /\ rx' = Tail(rx) /\ m \in MessageOf
    BY <1>1, <1>p DEF BufferToHost
  <2>2. Carries(m) /\ Token(m) = <<0, b>> /\ b \in Buffers \cup {Ev}
    BY <2>1 DEF Carries, Token, MessageOf
  <2>3. p[<<0, b>>] = "rx"
    BY <1>p, <2>1, <2>2, QueuedRest
  <2>4. ASSUME NEW p2, NEW y, Moved(p, p2, <<0, b>>, y) PROVE Queued(p2, rx', "rx")
    <3>1. Moved(p, p2, Token(m), y)
      BY <2>2, <2>4
    <3>2. Queued(p2, Tail(rx), "rx")
      BY <1>p, <2>1, <2>2, <3>1, QueuedRest
    <3> QED
      BY <2>1, <3>2
  <2>5. /\ UNCHANGED home
        /\ \/ Queue(b) /\ UNCHANGED bulkRx
           \/ bulkRx' = Append(bulkRx, b) /\ UNCHANGED <<ctx, cbq>>
           \/ UNCHANGED <<bulkRx, ctx, cbq>>
    BY <1>1 DEF BufferToHost
  <2> HIDE DEF m, b
  <2>6. b \notin home
    BY <1>p, <2>3
  <2>7. CASE Queue(b) /\ UNCHANGED bulkRx
    <3>1. PICK p2 \in [Tokens -> Places] : Moved(p, p2, <<0, b>>, "cbq")
      BY <2>2, Move, TokenKinds
    <3>2. InLine(p2, cbq', "cbq") /\ InLine(p2, bulkRx', "bulkRx")
      BY <1>d, <1>f, <2>2, <2>3, <2>7, <3>1 DEF Queue
    <3>3. \A c \in home' : p2[<<0, c>>] = "home"
      BY <1>g, <2>2, <2>5, <2>6, <3>1
    <3>4. ctx' \subseteq ctx /\ b \notin ctx'
      BY <2>7 DEF Queue
    <3> QED
      BY <1>b, <2>2, <2>3, <2>4, <3>1, <3>2, <3>3, <3>4
  <2>8. CASE bulkRx' = Append(bulkRx, b) /\ UNCHANGED <<ctx, cbq>>
    <3>1. PICK p2 \in [Tokens -> Places] : Moved(p, p2, <<0, b>>, "bulkRx")
      BY <2>2, Move, TokenKinds
    <3>2. InLine(p2, cbq', "cbq") /\ InLine(p2, bulkRx', "bulkRx")
      BY <1>e, <1>f, <2>2, <2>3, <2>8, <3>1
    <3>3. \A c \in home' : p2[<<0, c>>] = "home"
      BY <1>g, <2>2, <2>5, <2>6, <3>1
    <3> QED
      BY <1>b, <2>2, <2>3, <2>4, <2>8, <3>1, <3>2, <3>3
  <2>9. CASE UNCHANGED <<bulkRx, ctx, cbq>>
    <3>1. PICK p2 \in [Tokens -> Places] : Moved(p, p2, <<0, b>>, "none")
      BY <2>2, Move, TokenKinds
    <3>2. InLine(p2, cbq', "cbq") /\ InLine(p2, bulkRx', "bulkRx")
      BY <1>f, <2>2, <2>3, <2>9, <3>1
    <3>3. \A c \in home' : p2[<<0, c>>] = "home"
      BY <1>g, <2>2, <2>5, <2>6, <3>1
    <3> QED
      BY <1>b, <2>2, <2>3, <2>4, <2>9, <3>1, <3>2, <3>3
  <2> QED
    BY <2>5, <2>7, <2>8, <2>9
<1>2. CASE mmal_vc_handle_event_msg
  <2>1. rx # <<>> /\ rx' = Tail(rx)
    BY <1>2 DEF mmal_vc_handle_event_msg
  <2>2. Queued(p, rx', "rx")
    BY <1>p, <2>1, QueuedRest
  <2>3. CASE UNCHANGED <<ctx, home, cbq, bulkRx>>
    BY <1>c, <2>2, <2>3
  <2>4. CASE Ev \in home /\ Queue(Ev) /\ home' = home \ {Ev} /\ UNCHANGED bulkRx
    <3>0. p[<<0, Ev>>] = "home"
      BY <1>p, <2>4
    <3>1. PICK p2 \in [Tokens -> Places] : Moved(p, p2, <<0, Ev>>, "cbq")
      BY Move, TokenKinds
    <3>2. InLine(p2, cbq', "cbq") /\ InLine(p2, bulkRx', "bulkRx")
      BY <1>d, <1>f, <2>4, <3>0, <3>1 DEF Queue
    <3>3. \A c \in home' : p2[<<0, c>>] = "home"
      BY <1>g, <2>4, <3>1
    <3>4. ctx' \subseteq ctx /\ Ev \notin ctx'
      BY <2>4 DEF Queue
    <3>5. Queued(p2, rx', "rx")
      BY <2>2, <3>0, <3>1, QueuedKept
    <3> QED
      BY <1>b, <3>0, <3>1, <3>2, <3>3, <3>4, <3>5
  <2>5. CASE Ev \in home /\ bulkRx' = Append(bulkRx, Ev) /\ home' = home \ {Ev} /\ UNCHANGED <<ctx, cbq>>
    <3>0. p[<<0, Ev>>] = "home"
      BY <1>p, <2>5
    <3>1. PICK p2 \in [Tokens -> Places] : Moved(p, p2, <<0, Ev>>, "bulkRx")
      BY Move, TokenKinds
    <3>2. InLine(p2, cbq', "cbq") /\ InLine(p2, bulkRx', "bulkRx")
      BY <1>e, <1>f, <2>5, <3>0, <3>1
    <3>3. \A c \in home' : p2[<<0, c>>] = "home"
      BY <1>g, <2>5, <3>1
    <3>5. Queued(p2, rx', "rx")
      BY <2>2, <3>0, <3>1, QueuedKept
    <3> QED
      BY <1>b, <2>5, <3>0, <3>1, <3>2, <3>3, <3>5
  <2> QED
    BY <1>2, <2>3, <2>4, <2>5 DEF mmal_vc_handle_event_msg
<1>3. CASE BulkReceived
  <2> DEFINE b == Head(bulkRx)
  <2>1. bulkRx # <<>> /\ bulkRx' = Tail(bulkRx) /\ Queue(b) /\ UNCHANGED <<home, rx>>
    BY <1>3 DEF BulkReceived
  <2>2. b \in Buffers \cup {Ev} /\ p[<<0, b>>] = "bulkRx"
    BY <1>p, <2>1, InLineRest
  <2>3. ASSUME NEW p2, NEW y, Moved(p, p2, <<0, b>>, y) PROVE InLine(p2, bulkRx', "bulkRx")
    BY <1>p, <2>1, <2>3, InLineRest
  <2> HIDE DEF b
  <2>4. PICK p2 \in [Tokens -> Places] : Moved(p, p2, <<0, b>>, "cbq")
    BY <2>2, Move, TokenKinds
  <2>5. InLine(p2, cbq', "cbq") /\ Queued(p2, rx', "rx")
    BY <1>d, <1>f, <2>1, <2>2, <2>4 DEF Queue
  <2>6. \A c \in home' : p2[<<0, c>>] = "home"
    <3>1. b \notin home
      BY <1>p, <2>2
    <3> QED
      BY <1>g, <2>1, <2>2, <2>4, <3>1
  <2>7. ctx' \subseteq ctx /\ b \notin ctx'
    BY <2>1 DEF Queue
  <2> QED
    BY <1>b, <2>2, <2>3, <2>4, <2>5, <2>6, <2>7
<1>4. CASE mmal_vc_do_callback \/ Drain
  <2> DEFINE b == Head(cbq)
  <2>1. CASE UNCHANGED <<home, cbq>>
    <3>1. UNCHANGED <<bulkRx, ctx, rx>>
      BY <1>4 DEF mmal_vc_do_callback, Drain, KeepPort, vcVars, portVars
    <3> QED
      BY <1>c, <1>p, <2>1, <3>1
  <2>2. CASE cbq # <<>> /\ home' = home \cup {b} /\ cbq' = Tail(cbq)
    <3>1. UNCHANGED <<bulkRx, ctx, rx>>
      BY <1>4 DEF mmal_vc_do_callback, Drain, KeepPort, vcVars, portVars
    <3>2. b \in Buffers \cup {Ev} /\ p[<<0, b>>] = "cbq"
      BY <1>p, <2>2, InLineRest
    <3>3. ASSUME NEW p2, NEW y, Moved(p, p2, <<0, b>>, y) PROVE InLine(p2, cbq', "cbq")
      BY <1>p, <2>2, <3>3, InLineRest
    <3> HIDE DEF b
    <3>4. PICK p2 \in [Tokens -> Places] : Moved(p, p2, <<0, b>>, "home")
      BY <3>2, Move, TokenKinds
    <3>5. InLine(p2, bulkRx', "bulkRx") /\ Queued(p2, rx', "rx")
      BY <1>f, <3>1, <3>2, <3>4
    <3>6. \A c \in home' : p2[<<0, c>>] = "home"
      <4>1. \A c \in home : c # b => p2[<<0, c>>] = "home"
        BY <1>g, <3>2, <3>4
      <4>2. p2[<<0, b>>] = "home"
        BY <3>4 DEF Moved
      <4> QED
        BY <2>2, <4>1, <4>2
    <3>7. ctx' \subseteq ctx /\ b \notin ctx'
      BY <1>p, <3>1, <3>2
    <3> QED
      BY <1>b, <3>2, <3>3, <3>4, <3>5, <3>6, <3>7
  <2> QED
    BY <1>4, <2>1, <2>2 DEF mmal_vc_do_callback, Drain
<1> QED
  BY <1>1, <1>2, <1>3, <1>4

\* A reply is with its waiter.
LEMMA PlaceWake ==
    ASSUME PlaceInv, QueueTypes, PlainInv, WaiterTypes, WakeWaiter
    PROVE  PlaceInv'
<1> PICK p \in [Tokens -> Places] : BuffersPlaced(p) /\ WaitersPlaced(p)
  BY DEF PlaceInv
<1> USE DEF Places
<1> DEFINE m == Head(rx)
           v == m.w
<1>1. /\ rx # <<>> /\ rx \in Seq(MessageOf) /\ m \in MessageOf /\ v # 0 /\ rx' = Tail(rx)
      /\ sem' = [sem EXCEPT ![v] = @ + 1] /\ Queued(p, rx, "rx")
      /\ UNCHANGED <<ask, ctx, home, cbq, bulkRx, msgs, arr, held, snd>>
  BY DEF WakeWaiter, KeepClient, QueueTypes, BuffersPlaced
<1>2. Carries(m)
  BY <1>1 DEF Carries
<1>3. Token(m) \in Tokens /\ p[Token(m)] = "rx"
  BY <1>1, <1>2, QueuedRest
<1>4. ASSUME NEW p2, NEW y, Moved(p, p2, Token(m), y) PROVE Queued(p2, rx', "rx")
  BY <1>1, <1>2, <1>4, QueuedRest
<1>5. v \in Waiters /\ Token(m) = <<v, Ev>>
  BY <1>1, <1>3 DEF Token, Tokens
<1> HIDE DEF m, v
<1>6. PICK p2 \in [Tokens -> Places] : Moved(p, p2, <<v, Ev>>, "dest")
  BY <1>3, <1>5, Move
<1>7. p2[<<v, Ev>>] = "dest" /\ \A w \in Waiters \ {v} : p2[<<w, Ev>>] = p[<<w, Ev>>]
  BY <1>5, <1>6, TokenKinds DEF Moved
<1>8. sem'[v] = sem[v] + 1 /\ \A w \in Waiters \ {v} : sem'[w] = sem[w]
  BY <1>1, <1>5 DEF WaiterTypes
<1>9. WaitersPlaced(p2)'
  <2>1. sem[v] = 0 /\ \E t \in Asker : Out(t) /\ ask[t].w = v
    BY <1>3, <1>5 DEF WaitersPlaced
  <2>2. sem'[v] = 1
    BY <1>8, <2>1
  <2>3. ASSUME NEW w \in Waiters
        PROVE  /\ sem'[w] = IF p2[<<w, Ev>>] = "dest" THEN 1 ELSE 0
               /\ p2[<<w, Ev>>] # "none" => \E t \in Asker : Out(t) /\ ask[t].w = w
    BY <1>7, <1>8, <2>1, <2>2 DEF WaitersPlaced
  <2> QED
    BY <1>1, <2>3 DEF WaitersPlaced, Out
<1>10. \A b \in Buffers \cup {Ev} : <<v, Ev>> # <<0, b>>
  BY <1>5, TokenKinds
<1>11. /\ \A b \in home : <<v, Ev>> # <<0, b>> => p2[<<0, b>>] = "home"
       /\ \A b \in held : <<v, Ev>> # <<0, b>> => p2[<<0, b>>] = "held"
       /\ snd.pc \in {"context", "version", "bulklock", "queue"} /\ <<v, Ev>> # <<0, snd.buf>> =>
             p2[<<0, snd.buf>>] = "snd"
       /\ \A b \in ctx : <<v, Ev>> # <<0, b>> => p2[<<0, b>>] \notin {"home", "cbq"}
  BY <1>6, Elsewhere
<1>12. /\ \A b \in home : p2[<<0, b>>] = "home"
       /\ \A b \in held : p2[<<0, b>>] = "held"
       /\ \A b \in ctx : p2[<<0, b>>] \notin {"home", "cbq"}
  BY <1>10, <1>11 DEF QueueTypes, PlainInv, Holders
<1>13. snd.pc \in {"context", "version", "bulklock", "queue"} => p2[<<0, snd.buf>>] = "snd"
  BY <1>10, <1>11 DEF PlainInv, Threads
<1>14. /\ Queued(p2, msgs, "msgs") /\ Queued(p2, arr, "arr") /\ Queued(p2, rx', "rx")
       /\ InLine(p2, bulkRx, "bulkRx") /\ InLine(p2, cbq, "cbq")
  BY <1>3, <1>4, <1>5, <1>6, Elsewhere
<1>15. BuffersPlaced(p2)'
  BY <1>1, <1>12, <1>13, <1>14 DEF BuffersPlaced
<1> QED
  BY <1>9, <1>15 DEF PlaceInv

\* A request that the server has stays as it is until its thread has the reply.
LEMMA OutKept ==
    ASSUME WaiterTypes, WaitInv, Next, NEW s \in Asker, Out(s)
    PROVE  \/ Out(s)' /\ ask'[s].w = ask[s].w /\ ask'[s].msg = ask[s].msg
           \/ WaitReply(s) /\ ask[s].pc = "wait"
<1>1. CASE ask' = ask
  BY <1>1 DEF Out
<1>2. ASSUME NEW t \in Asker, mmal_vc_sendwait_message(t)
      PROVE  \/ Out(s)' /\ ask'[s].w = ask[s].w /\ ask'[s].msg = ask[s].msg
             \/ WaitReply(s) /\ ask[s].pc = "wait"
  BY <1>2, AskMoves DEF mmal_vc_sendwait_message, Moves, Out
<1>3. ASSUME NEW t \in Asker, NEW msg \in RequestNames, Ask(t, msg)
      PROVE  Out(s)' /\ ask'[s].w = ask[s].w /\ ask'[s].msg = ask[s].msg
  BY <1>3, AskMoves DEF Moves, Out
<1>4. ASSUME NEW t \in Asker, Answered(t)
      PROVE  Out(s)' /\ ask'[s].w = ask[s].w /\ ask'[s].msg = ask[s].msg
  BY <1>4, AskMoves DEF Moves, Out
<1> QED
  BY <1>1, <1>2, <1>3, <1>4, AskEffects

\* A request is sent, and its reply taken.
LEMMA PlaceAsk ==
    ASSUME PlaceInv, QueueTypes, PlainInv, WaiterTypes, WaitInv, AskInv, Next,
           NEW t \in Asker, QueueMessage(t) \/ WaitReply(t)
    PROVE  PlaceInv'
<1> PICK p \in [Tokens -> Places] : BuffersPlaced(p) /\ WaitersPlaced(p)
  BY DEF PlaceInv
<1> USE DEF Places
<1> DEFINE v == ask[t].w
<1>1. UNCHANGED <<snd, home, cbq, ctx, held, arr, rx, bulkRx>>
  BY DEF QueueMessage, WaitReply, AskUnchanged, bufVars, vcVars, portVars
<1>2. v \in Waiters /\ HasWaiter(t)
  BY DEF QueueMessage, WaitReply, HasWaiter, WaitInv
<1>3. \A s \in Asker : Out(s) /\ ask[s].w = v => s = t
  <2>1. \A s \in Asker : Out(s) => HasWaiter(s)
    BY DEF Out, HasWaiter
  <2> QED
    BY <1>2, <2>1 DEF WaitInv
<1> HIDE DEF v
<1>4. \A b \in Buffers \cup {Ev} : <<v, Ev>> # <<0, b>>
  BY <1>2, TokenKinds
<1>b. ASSUME NEW p2 \in [Tokens -> Places], NEW y, Moved(p, p2, <<v, Ev>>, y),
             p[<<v, Ev>>] \in {"none", "dest"}, Queued(p2, msgs', "msgs")
      PROVE  BuffersPlaced(p2)'
  <2>1. /\ \A b \in home : <<v, Ev>> # <<0, b>> => p2[<<0, b>>] = "home"
        /\ \A b \in held : <<v, Ev>> # <<0, b>> => p2[<<0, b>>] = "held"
        /\ snd.pc \in {"context", "version", "bulklock", "queue"} /\ <<v, Ev>> # <<0, snd.buf>> =>
             p2[<<0, snd.buf>>] = "snd"
        /\ \A b \in ctx : <<v, Ev>> # <<0, b>> => p2[<<0, b>>] \notin {"home", "cbq"}
    BY <1>b, Elsewhere
  <2>2. /\ \A b \in home : p2[<<0, b>>] = "home"
        /\ \A b \in held : p2[<<0, b>>] = "held"
        /\ \A b \in ctx : p2[<<0, b>>] \notin {"home", "cbq"}
    BY <1>4, <2>1 DEF QueueTypes, PlainInv, Holders
  <2>3. snd.pc \in {"context", "version", "bulklock", "queue"} => p2[<<0, snd.buf>>] = "snd"
    BY <1>4, <2>1 DEF PlainInv, Threads
  <2>4. /\ Queued(p2, arr, "arr") /\ Queued(p2, rx, "rx")
        /\ InLine(p2, bulkRx, "bulkRx") /\ InLine(p2, cbq, "cbq")
    BY <1>b, Elsewhere
  <2> QED
    BY <1>1, <1>b, <2>2, <2>3, <2>4 DEF BuffersPlaced
<1>c. ASSUME NEW p2, NEW y, Moved(p, p2, <<v, Ev>>, y)
      PROVE  p2[<<v, Ev>>] = y /\ \A w \in Waiters \ {v} : p2[<<w, Ev>>] = p[<<w, Ev>>]
  BY <1>2, <1>c, TokenKinds DEF Moved
<1>5. CASE UNCHANGED <<msgs, sem>> /\ ~Out(t)
  <2>1. \A s \in Asker : Out(s) => Out(s)' /\ ask'[s].w = ask[s].w
    BY <1>5, AskMoves DEF Moves, Out
  <2>2. WaitersPlaced(p)'
    BY <1>5, <2>1, WaitersKept
  <2>3. BuffersPlaced(p)'
    BY <1>1, <1>5 DEF BuffersPlaced
  <2> QED
    BY <2>2, <2>3 DEF PlaceInv
<1>6. CASE QueueMessage(t) /\ msgs' # msgs
  <2> DEFINE m == Message(t, ask[t].msg, Ev, ask[t].msg = "sync")
  <2>1. /\ ask[t].pc = "queue" /\ msgs' = Append(msgs, m) /\ UNCHANGED sem
        /\ At(t, IF ask[t].msg = "sync" THEN "dummy" ELSE "wait")
    BY <1>6 DEF QueueMessage, waitVars
  <2>2. Token(m) = <<v, Ev>>
    BY DEF Token, Message, v
  <2> HIDE DEF m
  <2>3. p[<<v, Ev>>] = "none"
    <3>1. ~\E s \in Asker : Out(s) /\ ask[s].w = v
      BY <1>3, <2>1 DEF Out
    <3> QED
      BY <1>2, <3>1 DEF WaitersPlaced
  <2>4. PICK p2 \in [Tokens -> Places] : Moved(p, p2, <<v, Ev>>, "msgs")
    BY <1>2, TokenKinds, Move
  <2>5. Queued(p2, msgs', "msgs")
    <3>1. Queued(p, msgs, "msgs") /\ msgs \in Seq(MessageOf)
      BY DEF BuffersPlaced, QueueTypes
    <3>2. Queued(p2, Append(msgs, m), "msgs")
      BY <1>2, <2>2, <2>3, <2>4, <3>1, QueuedMore, TokenKinds
    <3> QED
      BY <2>1, <3>2
  <2>6. Out(t)' /\ ask'[t].w = v
    <3>1. ask' = [ask EXCEPT ![t].pc = IF ask[t].msg = "sync" THEN "dummy" ELSE "wait"]
      BY <2>1 DEF At
    <3>2. ask'[t].pc \in {"dummy", "wait"} /\ ask'[t].w = v
      BY <3>1 DEF WaiterTypes, AskOf, v
    <3> QED
      BY <3>2 DEF Out
  <2>7. \A s \in Asker : Out(s) => Out(s)' /\ ask'[s].w = ask[s].w
    BY <1>6, <2>1, AskMoves DEF Moves, Out
  <2>8. WaitersPlaced(p2)'
    <3>1. ASSUME NEW w \in Waiters, w = v
          PROVE  /\ sem[w] = IF p2[<<w, Ev>>] = "dest" THEN 1 ELSE 0
                 /\ p2[<<w, Ev>>] # "none" => \E s \in Asker : Out(s)' /\ ask'[s].w = w
      BY <1>c, <2>3, <2>4, <2>6, <3>1 DEF WaitersPlaced
    <3>2. ASSUME NEW w \in Waiters, w # v
          PROVE  /\ sem[w] = IF p2[<<w, Ev>>] = "dest" THEN 1 ELSE 0
                 /\ p2[<<w, Ev>>] # "none" => \E s \in Asker : Out(s)' /\ ask'[s].w = w
      <4>1. p2[<<w, Ev>>] = p[<<w, Ev>>]
        BY <1>c, <2>4, <3>2
      <4> QED
        BY <2>7, <4>1 DEF WaitersPlaced
    <3> QED
      BY <2>1, <3>1, <3>2 DEF WaitersPlaced
  <2> QED
    BY <1>b, <2>3, <2>4, <2>5, <2>8 DEF PlaceInv
<1>7. CASE WaitReply(t) /\ ask[t].pc = "wait"
  <2>1. sem[v] > 0 /\ sem' = [sem EXCEPT ![v] = @ - 1] /\ UNCHANGED msgs /\ ~Out(t)'
    BY <1>7, AskMoves DEF WaitReply, vcVars, v, Moves, Out
  <2>2. p[<<v, Ev>>] = "dest" /\ sem[v] = 1
    BY <1>2, <2>1 DEF WaitersPlaced
  <2>3. PICK p2 \in [Tokens -> Places] : Moved(p, p2, <<v, Ev>>, "none")
    BY <1>2, TokenKinds, Move
  <2>4. Queued(p2, msgs', "msgs")
    BY <2>1, <2>2, <2>3, Elsewhere
  <2>5. sem'[v] = 0 /\ \A w \in Waiters \ {v} : sem'[w] = sem[w]
    BY <1>2, <2>1, <2>2 DEF WaiterTypes
  <2>6. \A s \in Asker : Out(s) /\ s # t => Out(s)' /\ ask'[s].w = ask[s].w
    BY <1>7, AskMoves DEF Moves, Out
  <2>7. WaitersPlaced(p2)'
    <3>1. ASSUME NEW w \in Waiters, w = v
          PROVE  /\ sem'[w] = IF p2[<<w, Ev>>] = "dest" THEN 1 ELSE 0
                 /\ p2[<<w, Ev>>] # "none" => \E s \in Asker : Out(s)' /\ ask'[s].w = w
      BY <1>c, <2>3, <2>5, <3>1
    <3>2. ASSUME NEW w \in Waiters, w # v
          PROVE  /\ sem'[w] = IF p2[<<w, Ev>>] = "dest" THEN 1 ELSE 0
                 /\ p2[<<w, Ev>>] # "none" => \E s \in Asker : Out(s)' /\ ask'[s].w = w
      <4>1. p2[<<w, Ev>>] = p[<<w, Ev>>] /\ sem'[w] = sem[w]
        BY <1>c, <2>3, <2>5, <3>2
      <4>2. p[<<w, Ev>>] # "none" => \E s \in Asker : Out(s) /\ ask[s].w = w
        BY DEF WaitersPlaced
      <4>3. p[<<w, Ev>>] # "none" => \E s \in Asker : Out(s)' /\ ask'[s].w = w
        BY <2>6, <3>2, <4>2 DEF v
      <4> QED
        BY <4>1, <4>3 DEF WaitersPlaced
    <3> QED
      BY <3>1, <3>2 DEF WaitersPlaced
  <2> QED
    BY <1>b, <2>2, <2>3, <2>4, <2>7 DEF PlaceInv
<1>8. QueueMessage(t) => UNCHANGED sem /\ ~Out(t)
  BY DEF QueueMessage, waitVars, Out
<1>9. WaitReply(t) /\ ask[t].pc # "wait" => UNCHANGED <<msgs, sem>> /\ ~Out(t)
  BY DEF WaitReply, vcVars, Out
<1> QED
  BY <1>5, <1>6, <1>7, <1>8, <1>9

\* A buffer is in one place, and so is what a waiter waits for.
LEMMA PlaceInvStep ==
    ASSUME PlaceInv, QueueTypes, PlainInv, WaiterTypes, WaitInv, AskInv, TodoInv, ClientInv,
           MessageInv, Next
    PROVE  PlaceInv'
<1>1. CASE \E t \in Asker : QueueMessage(t) \/ WaitReply(t)
  BY <1>1, PlaceAsk
<1>2. CASE WakeWaiter
  BY <1>2, PlaceWake
<1>3. CASE BufferToHost \/ mmal_vc_handle_event_msg \/ BulkReceived \/ mmal_vc_do_callback \/ Drain
  BY <1>3, PlaceHost
<1>4. CASE Send
  BY <1>4, PlaceSend
<1>5. CASE Server
  BY <1>5, PlaceServer
<1>6. CASE /\ UNCHANGED <<snd, home, cbq, ctx, msgs, held, arr, rx, bulkRx>>
           /\ ~\E t \in Asker : WaitReply(t)
           /\ ~WakeWaiter
  <2> PICK p \in [Tokens -> Places] : BuffersPlaced(p) /\ WaitersPlaced(p)
    BY DEF PlaceInv
  <2>1. BuffersPlaced(p)'
    BY <1>6 DEF BuffersPlaced
  <2>2. \A s \in Asker : Out(s) => Out(s)' /\ ask'[s].w = ask[s].w
    BY <1>6, OutKept
  <2>3. CASE UNCHANGED sem
    <3>1. WaitersPlaced(p)'
      BY <2>2, <2>3, WaitersKept
    <3> QED
      BY <2>1, <3>1 DEF PlaceInv
  <2>4. ASSUME NEW t \in {"C", "Q"}, mmal_vc_init(t), refcount = 0
        PROVE  PlaceInv'
    <3>1. \A s \in Asker : ~Out(s)
      BY <2>4, NobodyAsks DEF Out
    <3>2. \A w \in Waiters : p[<<w, Ev>>] = "none" /\ sem[w] = 0
      BY <3>1 DEF WaitersPlaced
    <3>3. \A w \in Waiters : sem'[w] = 0
      BY <2>4, <3>2 DEF mmal_vc_init
    <3>4. WaitersPlaced(p)'
      BY <3>2, <3>3 DEF WaitersPlaced
    <3> QED
      BY <2>1, <3>4 DEF PlaceInv
  <2> QED
    BY <1>6, <2>3, <2>4, SemEffects
<1>7. ASSUME NEW t \in Asker, QueueDummy(t)
      PROVE  UNCHANGED <<snd, home, cbq, ctx, msgs, held, arr, rx, bulkRx>>
  BY <1>7 DEF QueueDummy, AskUnchanged, bufVars, portVars
<1>8. mmal_vc_vchiq_callback => WakeWaiter \/ BufferToHost \/ mmal_vc_handle_event_msg \/ BulkReceived
  BY DEF mmal_vc_vchiq_callback
<1>9. UNCHANGED <<snd, home, cbq, ctx, msgs, bulks, held, arr, rx, bulkRx>>
      => UNCHANGED <<snd, home, cbq, ctx, msgs, held, arr, rx, bulkRx>>
  OBVIOUS
<1> QED
  BY <1>1, <1>2, <1>3, <1>4, <1>5, <1>6, <1>7, <1>8, <1>9, BufferEffects

\* A queue whose elements are all in a set is one of that set.
LEMMA QueueIn ==
    ASSUME NEW S, NEW T, NEW q \in Seq(S)
    PROVE  (\A k \in DOMAIN q : q[k] \in T) <=> q \in Seq(T)
OBVIOUS

\* The steps that change each queue of messages.
LEMMA MessageEffects ==
    ASSUME Next
    PROVE  /\ \/ msgs' = msgs
              \/ ServerTakes
              \/ \E t \in Asker : QueueMessage(t)
              \/ mmal_vc_send_message
           /\ arr' = arr \/ ServerTakes \/ DataArrives
           /\ \/ rx' = rx \/ ServerTakes \/ DataArrives \/ ServerReturns \/ ServerEvent
              \/ rx # <<>> /\ rx' = Tail(rx)
<1>1. CASE Send
  BY <1>1 DEF Send, KeepSend, mmal_vc_port_send, AllocContext, SendVersion, LockBulk, QueueBulk,
              mmal_vc_send_message
<1>2. CASE Server
  BY <1>2 DEF Server, ServerReturns, ServerEvent, DataArrives
<1>3. CASE mmal_vc_vchiq_callback \/ mmal_vc_do_callback
  BY <1>3 DEF mmal_vc_vchiq_callback, mmal_vc_do_callback, WakeWaiter, BufferToHost,
              mmal_vc_handle_event_msg, BulkReceived, KeepClient, vcVars
<1>4. CASE Drain
  BY <1>4 DEF Drain, KeepPort, vcVars
<1>5. CASE \E t \in Asker : QueueMessage(t) \/ QueueDummy(t)
  BY <1>5 DEF QueueMessage, QueueDummy
<1> QED
  BY <1>1, <1>2, <1>3, <1>4, <1>5, BufferEffects

\* What is on its way stays what was asked: its thread waits for it.
Under(m) ==
    \/ \E k \in DOMAIN msgs : m = msgs[k]
    \/ \E k \in DOMAIN arr : m = arr[k]
    \/ \E k \in DOMAIN rx : m = rx[k]

\* A message that is on its way stays that of a request under way: the request cannot end before.
LEMMA RightKept ==
    ASSUME PlaceInv, WaiterTypes, WaitInv, Counts, Next,
           NEW m \in MessageOf, RightRequest(m), Under(m)
    PROVE  RightRequest(m)'
<1>1. ~m.ok => nfail' > 0
  BY CountsStep DEF RightRequest, Counts
<1>2. ASSUME m.w # 0, WaitReply(m.from), ask[m.from].pc = "wait"
      PROVE  FALSE
  <2> PICK p \in [Tokens -> Places] : BuffersPlaced(p) /\ WaitersPlaced(p)
    BY DEF PlaceInv
  <2>1. Carries(m)
    BY <1>2 DEF Carries
  <2>2. Token(m) \in Tokens /\ p[Token(m)] \in {"msgs", "arr", "rx"}
    BY <2>1 DEF Under, BuffersPlaced, Queued
  <2>3. m.w \in Waiters /\ Token(m) = <<m.w, Ev>>
    BY <1>2, <2>2 DEF Tokens, Token
  <2>4. sem[m.w] > 0
    BY <1>2 DEF WaitReply, RightRequest
  <2> QED
    BY <2>2, <2>3, <2>4 DEF WaitersPlaced
<1>3. CASE m.w # 0
  <2>1. m.from \in Asker /\ Out(m.from)
    BY <1>3 DEF MessageOf, RightRequest
  <2>2. Out(m.from)' /\ ask'[m.from].w = ask[m.from].w /\ ask'[m.from].msg = ask[m.from].msg
    BY <1>2, <1>3, <2>1, OutKept
  <2> QED
    BY <1>1, <2>2 DEF RightRequest
<1> QED
  BY <1>1, <1>3 DEF RightRequest

\* Messages of the client, messages that wait for data, and those of the server.
OfClient(m) == RightRequest(m) /\ m.ok /\ (m.w = 0 <=> m.id = "buffer") /\ (m.w = 0 <=> m.buf # Ev)
OfArrived(m) == /\ RightRequest(m) /\ m.ok /\ m.bulk
                /\ m.id = IF m.w = 0 THEN "buffer" ELSE "sync"
                /\ m.w = 0 <=> m.buf # Ev
OfServer(m) == RightRequest(m) /\ (m.w = 0 <=> m.id \notin RequestNames)

\* Messages on the way to the server are right after each step.
LEMMA ClientMessages ==
    ASSUME MessageInv, PlaceInv, QueueTypes, PlainInv, WaiterTypes, WaitInv, AskInv, Next
    PROVE  (\A k \in DOMAIN msgs : OfClient(msgs[k]))'
<1> DEFINE T == {m \in MessageOf : OfClient(m)'}
<1>a. MmalVcAssumption /\ msgs \in Seq(MessageOf)
  BY MmalVcAssumption DEF QueueTypes
<1>1. msgs \in Seq(T)
  <2>1. ASSUME NEW k \in DOMAIN msgs PROVE msgs[k] \in T
    <3> PICK m : m = msgs[k]
      OBVIOUS
    <3>1. m \in MessageOf /\ OfClient(m) /\ Under(m)
      BY <1>a DEF MessageInv, OfClient, Under
    <3>2. RightRequest(m)'
      BY <3>1, RightKept DEF OfClient, PlainInv
    <3>3. m \in T
      BY <3>1, <3>2 DEF OfClient
    <3> QED
      BY <3>3
  <2> HIDE DEF T
  <2> QED
    BY <1>a, <2>1, QueueIn
<1>2. ASSUME NEW t \in Asker, QueueMessage(t), msgs' # msgs
      PROVE  \E m \in T : msgs' = Append(msgs, m)
  <2> PICK m : m = Message(t, ask[t].msg, Ev, ask[t].msg = "sync")
    OBVIOUS
  <2>1. ask[t].pc = "queue" /\ msgs' = Append(msgs, m)
        /\ At(t, IF ask[t].msg = "sync" THEN "dummy" ELSE "wait")
    BY <1>2 DEF QueueMessage
  <2>2. ask[t].msg \in RequestNames
    BY <2>1 DEF AskInv, WaiterTypes, AskOf
  <2>3. m \in MessageOf
    BY <2>2, MessageType DEF MessageNames
  <2>4. ask[t].w \in Waiters /\ ask[t].w # 0
    BY <2>1, <1>a DEF WaitInv, HasWaiter, Waiters
  <2>5. Out(t)' /\ ask'[t].w = ask[t].w /\ ask'[t].msg = ask[t].msg
    <3>1. ask' = [ask EXCEPT ![t].pc = IF ask[t].msg = "sync" THEN "dummy" ELSE "wait"]
      BY <2>1 DEF At
    <3> QED
      BY <3>1 DEF WaiterTypes, AskOf, Out
  <2>6. RightRequest(m)'
    BY <2>4, <2>5 DEF RightRequest, Message
  <2>7. OfClient(m)'
    BY <2>2, <2>4, <2>6 DEF OfClient, Message, RequestNames
  <2> QED
    BY <2>1, <2>3, <2>7
<1>3. ASSUME mmal_vc_send_message, msgs' # msgs
      PROVE  \E m \in T : msgs' = Append(msgs, m)
  <2> PICK m : m = Message("S", "buffer", snd.buf, snd.bulk)
    OBVIOUS
  <2>1. snd.pc = "queue" /\ msgs' = Append(msgs, m)
    BY <1>3 DEF mmal_vc_send_message
  <2>2. snd.buf \in Buffers /\ snd.bulk \in BOOLEAN
    BY <2>1 DEF PlainInv, Threads
  <2>3. m \in MessageOf
    BY <2>2, MessageType DEF MessageNames, Asker
  <2>4. ask["S"].w = 0
    BY <2>1 DEF AskInv, Asker
  <2>5. m.w = 0 /\ m.id = "buffer" /\ m.buf = snd.buf /\ m.ok
    BY <2>4 DEF Message
  <2>6. RightRequest(m)'
    BY <2>5 DEF RightRequest
  <2>7. OfClient(m)'
    BY <1>a, <2>2, <2>5, <2>6 DEF OfClient, MmalVcAssumption
  <2> QED
    BY <2>1, <2>3, <2>7
<1> HIDE DEF T
<1>4. msgs' \in Seq(T)
  <2>1. ServerTakes => msgs # <<>> /\ msgs' = Tail(msgs)
    BY DEF ServerTakes
  <2> QED
    BY <1>1, <1>2, <1>3, <2>1, MessageEffects, QueueOf
<1>5. ASSUME NEW k \in DOMAIN msgs' PROVE OfClient(msgs[k])'
  <2>1. PICK m \in T : m = msgs'[k]
    BY <1>4
  <2>2. OfClient(m)'
    BY DEF T
  <2> QED
    BY <2>1, <2>2 DEF OfClient, RightRequest, Out
<1> QED
  BY <1>5

\* Messages that wait for their data are right after each step.
LEMMA ArrivedMessages ==
    ASSUME MessageInv, PlaceInv, QueueTypes, PlainInv, WaiterTypes, WaitInv, AskInv, Next
    PROVE  (\A k \in DOMAIN arr : OfArrived(arr[k]))'
<1> DEFINE T == {m \in MessageOf : OfArrived(m)'}
<1>a. arr \in Seq(MessageOf) /\ msgs \in Seq(MessageOf)
  BY DEF QueueTypes
<1>1. arr \in Seq(T)
  <2>1. ASSUME NEW k \in DOMAIN arr PROVE arr[k] \in T
    <3> PICK m : m = arr[k]
      OBVIOUS
    <3>1. m \in MessageOf /\ OfArrived(m) /\ Under(m)
      BY <1>a DEF MessageInv, OfArrived, Under
    <3>2. RightRequest(m)'
      BY <3>1, RightKept DEF OfArrived, PlainInv
    <3>3. m \in T
      BY <3>1, <3>2 DEF OfArrived
    <3> QED
      BY <3>3
  <2> HIDE DEF T
  <2> QED
    BY <1>a, <2>1, QueueIn
<1>2. ASSUME ServerTakes, arr' # arr PROVE \E m \in T : arr' = Append(arr, m)
  <2> PICK m : m = Head(msgs)
    OBVIOUS
  <2>1. msgs # <<>> /\ m.bulk /\ arr' = Append(arr, m) /\ m = msgs[1] /\ 1 \in DOMAIN msgs
    BY <1>2, <1>a DEF ServerTakes
  <2>2. m \in MessageOf /\ OfClient(m) /\ Under(m)
    BY <1>a, <2>1 DEF MessageInv, OfClient, Under
  <2>3. RightRequest(m)'
    BY <2>2, RightKept DEF OfClient, PlainInv
  <2>4. m.id = IF m.w = 0 THEN "buffer" ELSE "sync"
    BY <2>1, <2>2 DEF OfClient, RightRequest
  <2>5. OfArrived(m)'
    BY <2>1, <2>2, <2>3, <2>4 DEF OfArrived, OfClient
  <2> QED
    BY <2>1, <2>2, <2>5
<1>3. DataArrives => arr # <<>> /\ arr' = Tail(arr)
  BY DEF DataArrives
<1> HIDE DEF T
<1>4. arr' \in Seq(T)
  BY <1>1, <1>2, <1>3, MessageEffects, QueueOf
<1>5. ASSUME NEW k \in DOMAIN arr' PROVE OfArrived(arr[k])'
  <2>1. PICK m \in T : m = arr'[k]
    BY <1>4
  <2>2. OfArrived(m)'
    BY DEF T
  <2> QED
    BY <2>1, <2>2 DEF OfArrived, RightRequest, Out
<1> QED
  BY <1>5

\* Replies and buffers from the server are right after each step.
LEMMA ServerMessages ==
    ASSUME MessageInv, PlaceInv, QueueTypes, PlainInv, WaiterTypes, WaitInv, AskInv, Next
    PROVE  (\A k \in DOMAIN rx : OfServer(rx[k]))'
<1> DEFINE T == {m \in MessageOf : OfServer(m)'}
<1>a. arr \in Seq(MessageOf) /\ msgs \in Seq(MessageOf) /\ rx \in Seq(MessageOf)
  BY DEF QueueTypes
<1>1. rx \in Seq(T)
  <2>1. ASSUME NEW k \in DOMAIN rx PROVE rx[k] \in T
    <3> PICK m : m = rx[k]
      OBVIOUS
    <3>1. m \in MessageOf /\ OfServer(m) /\ Under(m)
      BY <1>a DEF MessageInv, OfServer, Under
    <3>2. RightRequest(m)'
      BY <3>1, RightKept DEF OfServer, PlainInv
    <3>3. m \in T
      BY <3>1, <3>2 DEF OfServer
    <3> QED
      BY <3>3
  <2> HIDE DEF T
  <2> QED
    BY <1>a, <2>1, QueueIn
<1>2. ASSUME NEW m \in MessageOf, RightRequest(m), Under(m), m.w # 0, Reply(m)
      PROVE  \E x \in T : rx' = Append(rx, x)
  <2>1. RightRequest(m)'
    BY <1>2, RightKept DEF PlainInv
  <2>2. m.id \in RequestNames
    <3>1. m.from \in Asker /\ ask[m.from].msg = m.id /\ ask[m.from].pc # "none"
      BY <1>2 DEF RightRequest, Out, MessageOf
    <3> QED
      BY <3>1 DEF AskInv, WaiterTypes, AskOf
  <2>3. m \in T
    BY <1>2, <2>1, <2>2 DEF OfServer
  <2> PICK f : f = [m EXCEPT !.ok = FALSE]
    OBVIOUS
  <2>4. f \in MessageOf /\ f.id = m.id /\ f.w = m.w /\ f.from = m.from /\ f.bulk = m.bulk
    BY DEF MessageOf
  <2>5. Fails => f \in T
    <3>1. Fails => nfail' > 0
      BY DEF Fails, PlainInv, Counts
    <3>2. Fails => RightRequest(f)'
      BY <1>2, <2>1, <2>4, <3>1 DEF RightRequest
    <3> QED
      BY <1>2, <2>2, <2>4, <3>2 DEF OfServer
  <2> QED
    BY <1>2, <2>3, <2>5 DEF Reply
<1>3. ASSUME ServerTakes, rx' # rx PROVE \E x \in T : rx' = Append(rx, x)
  <2> PICK m : m = Head(msgs)
    OBVIOUS
  <2>1. msgs # <<>> /\ Reply(m) /\ m.id # "buffer" /\ m = msgs[1] /\ 1 \in DOMAIN msgs
    BY <1>3, <1>a DEF ServerTakes
  <2>2. m \in MessageOf /\ OfClient(m) /\ Under(m)
    BY <1>a, <2>1 DEF MessageInv, OfClient, Under
  <2> QED
    BY <1>2, <2>1, <2>2 DEF OfClient
<1>4. ASSUME DataArrives, rx' # rx PROVE \E x \in T : rx' = Append(rx, x)
  <2> PICK m : m = Head(arr)
    OBVIOUS
  <2>1. arr # <<>> /\ Reply(m) /\ m.id = "sync" /\ m = arr[1] /\ 1 \in DOMAIN arr
    BY <1>4, <1>a DEF DataArrives
  <2>2. m \in MessageOf /\ OfArrived(m) /\ Under(m)
    BY <1>a, <2>1 DEF MessageInv, OfArrived, Under
  <2> QED
    BY <1>2, <2>1, <2>2 DEF OfArrived
<1>5. ASSUME NEW b \in Buffers \cup {Ev}, NEW how \in {"plain", "bulk", "short"},
             rx' = Append(rx, [Message("S", how, b, FALSE) EXCEPT !.w = 0])
      PROVE  \E x \in T : rx' = Append(rx, x)
  <2> PICK m : m = [Message("S", how, b, FALSE) EXCEPT !.w = 0]
    OBVIOUS
  <2>1. m \in MessageOf
    BY MessageType DEF MessageNames, Asker
  <2>2. m.w = 0 /\ m.id = how /\ m.ok
    BY DEF Message
  <2>3. OfServer(m)'
    BY <2>2 DEF OfServer, RightRequest, RequestNames
  <2> QED
    BY <1>5, <2>1, <2>3
<1>6. ServerReturns \/ ServerEvent => \E x \in T : rx' = Append(rx, x)
  <2>1. held \subseteq Buffers
    BY DEF QueueTypes
  <2> HIDE DEF T
  <2> QED
    BY <1>5, <2>1 DEF ServerReturns, ServerEvent
<1> HIDE DEF T
<1>7. rx' \in Seq(T)
  BY <1>1, <1>3, <1>4, <1>6, MessageEffects, QueueOf
<1>8. ASSUME NEW k \in DOMAIN rx' PROVE OfServer(rx[k])'
  <2>1. PICK m \in T : m = rx'[k]
    BY <1>7
  <2>2. OfServer(m)'
    BY DEF T
  <2> QED
    BY <2>1, <2>2 DEF OfServer, RightRequest, Out
<1> QED
  BY <1>8

\* What is on its way is what was asked, and buffers.
LEMMA MessageInvStep ==
    ASSUME MessageInv, PlaceInv, QueueTypes, PlainInv, WaiterTypes, WaitInv, AskInv, TodoInv,
           ClientInv, Next
    PROVE  MessageInv'
<1>a. nfail > 0 => nfail' > 0
  BY CountsStep DEF PlainInv, Counts
<1>b. Fails => nfail' > 0
  BY DEF Fails, PlainInv, Counts
<1> DEFINE Delivered(w) == /\ dest[w].from \in Asker /\ Out(dest[w].from) /\ ask[dest[w].from].w = w
                           /\ ask[dest[w].from].msg = dest[w].id /\ (~dest[w].ok => nfail > 0)
<1>1. ASSUME NEW w \in Waiters, sem'[w] > 0
      PROVE  Delivered(w)'
  <2>1. ASSUME sem[w] > 0, dest'[w] = dest[w], ~(WaitReply(dest[w].from) /\ ask[dest[w].from].pc = "wait")
        PROVE  Delivered(w)'
    <3>1. Delivered(w)
      BY <2>1 DEF MessageInv
    <3>2. /\ Out(dest[w].from)' /\ ask'[dest[w].from].w = ask[dest[w].from].w
          /\ ask'[dest[w].from].msg = ask[dest[w].from].msg
      BY <2>1, <3>1, OutKept
    <3>3. Out(dest[w].from)'
      BY <2>1, <3>2 DEF Out
    <3> QED
      BY <1>a, <2>1, <3>1, <3>2, <3>3
  <2>2. CASE UNCHANGED <<sem, dest>> /\ ~\E t \in Asker : WaitReply(t)
    <3>1. dest[w].from \in Asker
      BY <1>1, <2>2 DEF MessageInv
    <3> QED
      BY <1>1, <2>1, <2>2, <3>1
  <2>3. ASSUME NEW t \in Asker, WaitReply(t) PROVE Delivered(w)'
    <3>1. CASE ask[t].pc = "wait"
      <4>1. sem' = [sem EXCEPT ![ask[t].w] = @ - 1] /\ dest' = [dest EXCEPT ![ask[t].w] = NoReply]
            /\ ask[t].w \in Waiters /\ sem[ask[t].w] > 0
        BY <2>3, <3>1 DEF WaitReply, WaitInv, HasWaiter
      <4>2. w # ask[t].w
        <5>1. sem[ask[t].w] = 1
          <6> PICK p \in [Tokens -> Places] : WaitersPlaced(p)
            BY DEF PlaceInv
          <6>1. \A x \in Waiters : sem[x] = 1 \/ sem[x] = 0
            BY DEF WaitersPlaced
          <6>2. sem[ask[t].w] = 1 \/ sem[ask[t].w] = 0
            BY <4>1, <6>1
          <6> QED
            BY <4>1, <6>2
        <5>2. sem'[ask[t].w] = 0
          BY <4>1, <5>1 DEF WaiterTypes
        <5> QED
          BY <1>1, <5>2
      <4>3. sem[w] > 0 /\ dest'[w] = dest[w]
        BY <1>1, <4>1, <4>2 DEF WaiterTypes
      <4>4. dest[w].from \in Asker /\ ask[dest[w].from].w = w
        BY <4>3 DEF MessageInv
      <4>5. \A s \in Asker \ {t} : ask'[s] = ask[s]
        BY <2>3, AskMoves DEF Moves
      <4>6. dest[w].from # t
        BY <4>2, <4>4
      <4>7. ~(WaitReply(dest[w].from) /\ ask[dest[w].from].pc = "wait")
        <5>1. ask'[dest[w].from].pc = ask[dest[w].from].pc
          BY <4>4, <4>5, <4>6
        <5> QED
          BY <4>4, <5>1, AskMoves DEF Moves
      <4> QED
        BY <2>1, <4>3, <4>7
    <3>2. CASE ask[t].pc = "failed"
      <4>1. UNCHANGED <<sem, dest>> /\ ask'[t].pc = "give"
        BY <2>3, <3>2, AskMoves DEF WaitReply, Moves
      <4>2. \A s \in Asker \ {t} : ask'[s] = ask[s]
        BY <2>3, AskMoves DEF Moves
      <4>3. dest[w].from \in Asker /\ Out(dest[w].from)
        BY <1>1, <4>1 DEF MessageInv
      <4>4. dest[w].from # t
        BY <3>2, <4>3 DEF Out
      <4>5. ~(WaitReply(dest[w].from) /\ ask[dest[w].from].pc = "wait")
        <5>1. ask'[dest[w].from].pc = ask[dest[w].from].pc
          BY <4>2, <4>3, <4>4
        <5> QED
          BY <4>3, <5>1, AskMoves DEF Moves
      <4> QED
        BY <1>1, <2>1, <4>1, <4>5
    <3> QED
      BY <2>3, <3>1, <3>2 DEF WaitReply
  <2>4. CASE WakeWaiter
    <3> PICK m : m = Head(rx)
      OBVIOUS
    <3>1. /\ rx # <<>> /\ m.w # 0 /\ m = rx[1] /\ 1 \in DOMAIN rx /\ m \in MessageOf
          /\ dest' = [dest EXCEPT ![m.w] = [id |-> m.id, from |-> m.from, ok |-> m.ok]]
          /\ sem' = [sem EXCEPT ![m.w] = @ + 1] /\ UNCHANGED ask
      BY <2>4 DEF WakeWaiter, KeepClient, QueueTypes
    <3>2. RightRequest(m)
      BY <3>1 DEF MessageInv
    <3>3. CASE w = m.w
      <4>1. dest'[w] = [id |-> m.id, from |-> m.from, ok |-> m.ok]
        BY <3>1, <3>3 DEF WaiterTypes
      <4>2. m.from \in Asker /\ Out(m.from) /\ ask[m.from].w = m.w /\ ask[m.from].msg = m.id
            /\ (~m.ok => nfail > 0)
        BY <3>1, <3>2 DEF RightRequest, MessageOf
      <4>3. dest'[w].from = m.from /\ dest'[w].id = m.id /\ dest'[w].ok = m.ok
        BY <4>1
      <4>4. Out(dest[w].from)'
        BY <3>1, <4>2, <4>3 DEF Out
      <4> QED
        BY <1>a, <3>1, <3>3, <4>2, <4>3, <4>4
    <3>4. CASE w # m.w
      <4>1. sem[w] > 0 /\ dest'[w] = dest[w]
        BY <1>1, <3>1, <3>4 DEF WaiterTypes
      <4>2. dest[w].from \in Asker
        BY <4>1 DEF MessageInv
      <4>3. ~(WaitReply(dest[w].from) /\ ask[dest[w].from].pc = "wait")
        <5>1. ask'[dest[w].from].pc = ask[dest[w].from].pc
          BY <3>1
        <5> QED
          BY <4>2, <5>1, AskMoves DEF Moves
      <4> QED
        BY <2>1, <4>1, <4>3
    <3> QED
      BY <3>3, <3>4
  <2>5. ASSUME dest' = dest, NEW t \in {"C", "Q"}, mmal_vc_init(t), refcount = 0
        PROVE  FALSE
    <3>1. \A s \in Asker : ~Out(s)
      BY <2>5, NobodyAsks DEF Out
    <3>2. sem[w] = 0
      BY <3>1 DEF PlaceInv, WaitersPlaced
    <3>3. sem'[w] = 0
      BY <2>5, <3>2 DEF mmal_vc_init
    <3> QED
      BY <1>1, <3>3
  <2> HIDE DEF Delivered
  <2> QED
    BY <2>2, <2>3, <2>4, <2>5, SemEffects
<1>2. ASSUME NEW t \in Asker, ask'[t].pc \in {"failed", "give", "post", "done"}, ~ask'[t].reply.ok
      PROVE  nfail' > 0
  <2>0. ask[t].pc \in {"failed", "give", "post", "done"} /\ ask'[t].reply = ask[t].reply => nfail' > 0
    BY <1>2, <1>a DEF MessageInv
  <2>1. CASE ask' = ask
    BY <1>2, <2>0, <2>1
  <2>2. ASSUME NEW s \in Asker, mmal_vc_sendwait_message(s) PROVE nfail' > 0
    <3>1. CASE s # t
      <4>1. ask'[t] = ask[t]
        BY <2>2, <3>1, AskMoves DEF mmal_vc_sendwait_message, Moves
      <4> QED
        BY <1>2, <2>0, <4>1
    <3>2. CASE s = t
      <4>1. CASE get_waiter(t) \/ QueueDummy(t)
        BY <1>2, <4>1, AskMoves DEF Moves
      <4>2. CASE QueueMessage(t)
        <5>1. ask'[t].pc = "failed"
          BY <1>2, <4>2, AskMoves DEF Moves
        <5>2. At(t, "failed") => Fails \/ ask'[t].pc # "failed"
          BY <4>2, AskMoves DEF QueueMessage, At, WaiterTypes, AskOf
        <5>3. Fails \/ At(t, IF ask[t].msg = "sync" THEN "dummy" ELSE "wait")
          BY <4>2 DEF QueueMessage
        <5>4. At(t, IF ask[t].msg = "sync" THEN "dummy" ELSE "wait") => ask'[t].pc # "failed"
          BY DEF At, WaiterTypes, AskOf
        <5> QED
          BY <1>b, <5>1, <5>3, <5>4
      <4>3. CASE WaitReply(t)
        <5>1. CASE ask[t].pc = "wait"
          <6>1. ask'[t].reply = dest[ask[t].w] /\ sem[ask[t].w] > 0
            BY <4>3, <5>1, AskMoves DEF Moves, WaitReply
          <6>2. ~dest[ask[t].w].ok => nfail > 0
            BY <5>1, <6>1, OwnDest
          <6> QED
            BY <1>2, <1>a, <6>1, <6>2
        <5>2. CASE ask[t].pc = "failed"
          BY <2>0, <4>3, <5>2, AskMoves DEF Moves
        <5> QED
          BY <4>3, <5>1, <5>2 DEF WaitReply
      <4>4. CASE release_waiter(t)
        BY <2>0, <4>4, AskMoves DEF Moves
      <4> QED
        BY <2>2, <3>2, <4>1, <4>2, <4>3, <4>4 DEF mmal_vc_sendwait_message
    <3> QED
      BY <3>1, <3>2
  <2>3. ASSUME NEW s \in Asker, NEW msg \in RequestNames, Ask(s, msg) PROVE nfail' > 0
    <3>1. s = t => ask'[t].pc = "pick"
      BY <2>3, AskMoves DEF Moves
    <3>2. s # t => ask'[t] = ask[t]
      BY <2>3, AskMoves DEF Moves
    <3> QED
      BY <1>2, <2>0, <3>1, <3>2
  <2>4. ASSUME NEW s \in Asker, Answered(s) PROVE nfail' > 0
    <3>1. s = t => ask'[t].pc = "none"
      BY <2>4, AskMoves DEF Moves
    <3>2. s # t => ask'[t] = ask[t]
      BY <2>4, AskMoves DEF Moves
    <3> QED
      BY <1>2, <2>0, <3>1, <3>2
  <2> QED
    BY <2>1, <2>2, <2>3, <2>4, AskEffects
<1>3. (\A k \in DOMAIN msgs : OfClient(msgs[k]))'
  BY ClientMessages
<1>4. (\A k \in DOMAIN arr : OfArrived(arr[k]))'
  BY ArrivedMessages
<1>5. (\A k \in DOMAIN rx : OfServer(rx[k]))'
  BY ServerMessages
<1> QED
  BY <1>1, <1>2, <1>3, <1>4, <1>5 DEF MessageInv, OfClient, OfArrived, OfServer

-----------------------------------------------------------------------------
(* What is asked, and what is answered.                                     *)

\* The invariant holds at the start,
LEMMA InitReplies == ASSUME Init PROVE RepliesInv
<1> USE MmalVcAssumption DEF Init, NoAsk, NoReply, NotSending, Nobody
<1>1. PlainInv
  BY DEF PlainInv, Counts, Holders, Threads, Asker
<1>2. WaiterTypes
  <2>1. NoAsk \in AskOf
    BY DEF AskOf, ReplyOf
  <2> QED
    BY <2>1 DEF WaiterTypes, ReplyOf
<1>3. QueueTypes
  BY DEF QueueTypes
<1>4. TodoInv
  BY DEF TodoInv, LifeSteps
<1>5. AskInv
  BY DEF AskInv, Asker
<1>6. ClientInv
  BY DEF ClientInv, RefCount, UseCount, One, Opened, Uses, UsesAsk, Asker
<1>7. WaitInv
  BY DEF WaitInv, One, HasToken, HasWaiter, Asker, Waiters
<1>8. PlaceInv
  <2> DEFINE p == [a \in Tokens |-> IF a[1] = 0 THEN "home" ELSE "none"]
  <2>1. p \in [Tokens -> Places]
    BY DEF Places
  <2>2. \A b \in Buffers \cup {Ev} : p[<<0, b>>] = "home"
    BY TokenKinds
  <2>3. \A w \in Waiters : p[<<w, Ev>>] = "none"
    BY TokenKinds DEF Waiters
  <2> HIDE DEF p
  <2>4. BuffersPlaced(p)
    BY <2>2 DEF BuffersPlaced, Queued, InLine
  <2>5. WaitersPlaced(p)
    BY <2>3 DEF WaitersPlaced
  <2> QED
    BY <2>1, <2>4, <2>5 DEF PlaceInv
<1>9. MessageInv
  BY DEF MessageInv, Asker
<1> QED
  BY <1>1, <1>2, <1>3, <1>4, <1>5, <1>6, <1>7, <1>8, <1>9 DEF RepliesInv

\* and after every step.
LEMMA RepliesStep == ASSUME RepliesInv, [Next]_vars PROVE RepliesInv'
<1>1. CASE UNCHANGED vars
  <2> USE <1>1 DEF vars, fixed, clientVars, waitVars, portVars, bufVars, vcVars
  <2>1. PlainInv'
    BY DEF RepliesInv, PlainInv, Counts, Holders, Threads
  <2>2. WaiterTypes' /\ QueueTypes'
    BY DEF RepliesInv, WaiterTypes, QueueTypes
  <2>3. TodoInv' /\ AskInv'
    BY DEF RepliesInv, TodoInv, AskInv, Is
  <2>4. ClientInv' /\ WaitInv'
    BY DEF RepliesInv, ClientInv, RefCount, UseCount, Opened, Uses, UsesAsk, Is, WaitInv,
           HasToken, HasWaiter, One
  <2>5. PlaceInv'
    <3> PICK p \in [Tokens -> Places] : BuffersPlaced(p) /\ WaitersPlaced(p)
      BY DEF RepliesInv, PlaceInv
    <3>1. BuffersPlaced(p)' /\ WaitersPlaced(p)'
      BY DEF BuffersPlaced, WaitersPlaced, Out
    <3> QED
      BY <3>1 DEF PlaceInv
  <2>6. MessageInv'
    BY DEF RepliesInv, MessageInv, RightRequest, Out
  <2> QED
    BY <2>1, <2>2, <2>3, <2>4, <2>5, <2>6 DEF RepliesInv
<1>2. CASE Next
  <2> USE <1>2 DEF RepliesInv
  <2>1. PlainInv'
    BY CountsStep, HoldersStep, ThreadsStep DEF PlainInv, QueueTypes
  <2>2. WaiterTypes'
    BY WaiterTypesStep
  <2>3. QueueTypes'
    BY QueueTypesStep DEF PlainInv
  <2>4. TodoInv'
    BY TodoInvStep DEF PlainInv
  <2>5. AskInv'
    BY AskInvStep
  <2>6. ClientInv'
    BY ClientInvStep DEF PlainInv
  <2>7. WaitInv'
    BY WaitInvStep
  <2>8. PlaceInv'
    BY PlaceInvStep
  <2>9. MessageInv'
    BY MessageInvStep
  <2> QED
    BY <2>1, <2>2, <2>3, <2>4, <2>5, <2>6, <2>7, <2>8, <2>9
<1> QED
  BY <1>1, <1>2

\* A waiter is free when the semaphore let a thread pass.
LEMMA FreeWaiter == ASSUME RepliesInv PROVE WaiterFound
<1> SUFFICES ASSUME NEW t \in Asker, ask[t].pc = "pick" PROVE \E w \in Waiters : ~inuse[w]
  BY DEF WaiterFound
<1>1. HasToken(t) /\ ~HasWaiter(t)
  BY DEF HasToken, HasWaiter
<1>2. \A s \in Asker : HasWaiter(s) => HasToken(s)
  BY DEF HasToken, HasWaiter
<1>3. \A w \in Waiters : inuse[w] => \E s \in Asker \ {t} : HasWaiter(s) /\ ask[s].w = w
  BY <1>1 DEF RepliesInv, WaitInv
<1> DEFINE a == One(HasToken("C"))
           b == One(HasToken("Q"))
           c == One(HasToken("S"))
<1>4. a \in 0..1 /\ b \in 0..1 /\ c \in 0..1 /\ MAX_WAITERS \in Nat /\ a + b + c <= MAX_WAITERS
  <2>1. poolSem \in Int /\ poolSem >= 0 /\ poolSem + a + b + c = MAX_WAITERS
    BY DEF RepliesInv, WaitInv, PlainInv, Counts
  <2>2. a \in 0..1 /\ b \in 0..1 /\ c \in 0..1
    BY DEF One
  <2> HIDE DEF a, b, c
  <2> QED
    BY <2>1, <2>2, MmalVcAssumption
<1>5. /\ HasToken("C") <=> a = 1
      /\ HasToken("Q") <=> b = 1
      /\ HasToken("S") <=> c = 1
  BY DEF One
<1> HIDE DEF a, b, c
<1>6. \A w \in 1..MAX_WAITERS : w \in Waiters
  BY DEF Waiters
<1>7. ASSUME NEW s \in Asker, NEW r \in Asker, s # r, Asker \ {t} = {s, r} PROVE \E w \in Waiters : ~inuse[w]
  <2>1. ASSUME HasWaiter(s), HasWaiter(r) PROVE 3 <= MAX_WAITERS
    BY <1>1, <1>2, <1>4, <1>5, <1>7, <2>1 DEF Asker
  <2>2. ASSUME HasWaiter(s) \/ HasWaiter(r) PROVE 2 <= MAX_WAITERS
    BY <1>1, <1>2, <1>4, <1>5, <1>7, <2>2 DEF Asker
  <2>3. 1 <= MAX_WAITERS
    BY MmalVcAssumption
  <2>4. CASE HasWaiter(s) /\ HasWaiter(r)
    <3>1. \E w \in 1..3 : w # ask[s].w /\ w # ask[r].w
      OBVIOUS
    <3> QED
      BY <1>3, <1>4, <1>6, <1>7, <2>1, <2>4, <3>1
  <2>5. ASSUME NEW u \in {s, r}, HasWaiter(u), \A x \in {s, r} \ {u} : ~HasWaiter(x)
        PROVE  \E w \in Waiters : ~inuse[w]
    <3>1. \E w \in 1..2 : w # ask[u].w
      OBVIOUS
    <3> QED
      BY <1>3, <1>4, <1>6, <1>7, <2>2, <2>5, <3>1
  <2>6. CASE ~HasWaiter(s) /\ ~HasWaiter(r)
    BY <1>3, <1>4, <1>6, <1>7, <2>3, <2>6
  <2> QED
    BY <1>7, <2>4, <2>5, <2>6
<1> QED
  BY <1>7 DEF Asker

\* What exists and what asks has the client open and the service in use.
LEMMA InUse == ASSUME RepliesInv PROVE ServiceUsed
<1> SUFFICES ASSUME NEW t \in {"C", "Q"}, up[t] \/ ask[t].pc \in {"queue", "dummy", "wait"}
             PROVE  inited /\ (used \/ drift)
  BY DEF ServiceUsed
<1>1. Opened(t)
  <2>1. CASE ask[t].pc \in {"queue", "dummy", "wait"}
    <3>1. Is(t, ask[t].msg) /\ ask[t].msg \in RequestNames
      BY <2>1 DEF RepliesInv, AskInv, WaiterTypes, AskOf, Asker
    <3> QED
      BY <3>1 DEF Opened, Is, RequestNames
  <2> QED
    BY <2>1 DEF Opened
<1>2. inited
  <2>1. RefCount > 0
    BY <1>1 DEF RefCount, One
  <2> QED
    BY <2>1 DEF RepliesInv, ClientInv
<1>3. Uses(t) \/ UsesAsk(t)
  <2>1. CASE ask[t].pc \in {"queue", "dummy", "wait"}
    BY <2>1 DEF UsesAsk
  <2>2. CASE up[t] /\ t = "C"
    <3>1. todo["C"] \in Seq(PortSteps)
      BY <2>2 DEF RepliesInv, TodoInv, PortShaped
    <3>2. todo["C"] # <<>> => Head(todo["C"]) \in PortSteps
      BY <3>1
    <3>3. ~Is("C", "use") /\ ~Is("C", "deinit")
      BY <3>2 DEF Is, PortSteps
    <3> QED
      BY <1>1, <2>2, <3>3 DEF Uses
  <2>3. CASE up[t] /\ t = "Q"
    <3>1. todo["Q"] \in {<<>>, <<"param">>, <<"sync">>}
      BY <2>3 DEF RepliesInv, TodoInv
    <3>2. ~Is("Q", "use") /\ ~Is("Q", "deinit")
      BY <3>1 DEF Is
    <3> QED
      BY <1>1, <2>3, <3>2 DEF Uses
  <2> QED
    BY <2>1, <2>2, <2>3
<1>4. UseCount > 0
  BY <1>3 DEF UseCount, One
<1>5. UseCount \in Nat /\ usecount \in Int
  BY SumTypes DEF RepliesInv, PlainInv, Counts
<1> QED
  BY <1>2, <1>4, <1>5 DEF RepliesInv, ClientInv

\* Types, and nothing is in two queues.
LEMMA Typed == ASSUME RepliesInv PROVE TypeOK
<1> PICK p \in [Tokens -> Places] : BuffersPlaced(p) /\ WaitersPlaced(p)
  BY DEF RepliesInv, PlaceInv
<1>1. refcount \in 0..2 /\ usecount \in Int
  BY SumTypes DEF RepliesInv, ClientInv, PlainInv, Counts
<1>2. poolSem \in 0..MAX_WAITERS
  <2> DEFINE n == One(HasToken("C")) + One(HasToken("Q")) + One(HasToken("S"))
  <2>1. n \in Nat
    BY DEF One
  <2>2. poolSem \in Int /\ poolSem >= 0 /\ poolSem + n = MAX_WAITERS
    BY DEF RepliesInv, WaitInv, PlainInv, Counts, One
  <2> HIDE DEF n
  <2> QED
    BY <2>1, <2>2, MmalVcAssumption
<1>3. \A w \in Waiters : sem[w] \in 0..1
  <2>1. \A w \in Waiters : sem[w] = 1 \/ sem[w] = 0
    BY DEF WaitersPlaced
  <2> QED
    BY <2>1
<1>4. ToSet(cbq) \cap home = {} /\ held \cap home = {}
  BY DEF BuffersPlaced, InLine, ToSet
<1>5. bulkLock \in Asker \cup {Nobody} /\ act \in {"C", Nobody} /\ slock \in {"C", "S", Nobody}
  BY DEF RepliesInv, PlainInv, Holders
<1>6. home \subseteq Buffers \cup {Ev} /\ ctx \subseteq Buffers
  BY DEF RepliesInv, PlainInv, Holders, QueueTypes
<1>7. /\ pool \in {"none", "live", "stale"} /\ compat \in {"unknown", "yes", "no"}
      /\ broken \in {"no", "pool", "message"}
  BY DEF RepliesInv, PlainInv, Holders
<1> QED
  BY <1>1, <1>2, <1>3, <1>4, <1>5, <1>6, <1>7 DEF TypeOK

\* A thread that asks finds a waiter, has the service in use, and gets the reply to its own
\* request (mmal_vc_sendwait_message(), get_waiter(), mmal_vc_use_internal()).
THEOREM RepliesRightHolds == Spec => []RepliesRight
<1>1. RepliesInv => RepliesRight
  <2>1. RepliesInv => OwnReply
    BY DEF RepliesInv, AskInv, OwnReply
  <2> QED
    BY <2>1, FreeWaiter, InUse, Typed DEF RepliesRight
<1> QED
  BY <1>1, InitReplies, RepliesStep, PTL DEF Spec

-----------------------------------------------------------------------------
(* Queues without messages of a kind, or without them behind others.        *)

\* A queue has none of a set when something is added, and when something is taken.
LEMMA NoneMore ==
    ASSUME NEW S, NEW q \in Seq(S), NEW m \in S, NEW B
    PROVE  NoneOf(Append(q, m), B) <=> NoneOf(q, B) /\ m \notin B
<1> DEFINE r == Append(q, m)
           n == Len(q)
<1>1. n \in Nat /\ DOMAIN q = 1..n /\ DOMAIN r = 1..(n + 1) /\ r[n + 1] = m
  OBVIOUS
<1>2. \A k \in 1..n : r[k] = q[k]
  OBVIOUS
<1> HIDE DEF r, n
<1>3. NoneOf(r, B) => NoneOf(q, B) /\ m \notin B
  <2>1. n + 1 \in 1..(n + 1) /\ \A k \in 1..n : k \in 1..(n + 1)
    BY <1>1
  <2> QED
    BY <1>1, <1>2, <2>1 DEF NoneOf
<1>4. ASSUME NoneOf(q, B), m \notin B, NEW k \in 1..(n + 1) PROVE r[k] \notin B
  <2>1. k = n + 1 \/ k \in 1..n
    BY <1>1
  <2> QED
    BY <1>1, <1>2, <1>4, <2>1 DEF NoneOf
<1> QED
  BY <1>1, <1>3, <1>4 DEF NoneOf, r

\* A queue has none of a set if neither its first nor its rest has.
LEMMA NoneRest ==
    ASSUME NEW S, NEW q \in Seq(S), NEW B, q # <<>>
    PROVE  NoneOf(q, B) <=> Head(q) \notin B /\ NoneOf(Tail(q), B)
<1> DEFINE r == Tail(q)
           n == Len(q)
           m == Head(q)
<1>1. n \in Nat \ {0} /\ DOMAIN q = 1..n /\ DOMAIN r = 1..(n - 1) /\ m = q[1]
  OBVIOUS
<1>2. \A k \in 1..(n - 1) : r[k] = q[k + 1]
  OBVIOUS
<1> HIDE DEF r, n, m
<1>3. NoneOf(q, B) => m \notin B /\ NoneOf(r, B)
  <2>1. 1 \in 1..n /\ \A k \in 1..(n - 1) : k + 1 \in 1..n
    BY <1>1
  <2> QED
    BY <1>1, <1>2, <2>1 DEF NoneOf
<1>4. ASSUME NoneOf(r, B), m \notin B, NEW k \in 1..n PROVE q[k] \notin B
  <2>1. CASE k = 1
    BY <1>1, <1>4, <2>1
  <2>2. CASE k # 1
    <3>1. k - 1 \in 1..(n - 1) /\ k = (k - 1) + 1
      BY <1>1, <2>2
    <3>2. r[k - 1] = q[k]
      BY <1>2, <3>1
    <3> QED
      BY <1>1, <1>4, <3>1, <3>2 DEF NoneOf
  <2> QED
    BY <2>1, <2>2
<1> QED
  BY <1>1, <1>3, <1>4 DEF NoneOf, r, m

\* Nothing of B is behind something of A.
LEMMA AfterMore ==
    ASSUME NEW S, NEW q \in Seq(S), NEW m \in S, NEW A, NEW B, NoneAfter(q, A, B),
           m \notin B \/ NoneOf(q, A)
    PROVE  NoneAfter(Append(q, m), A, B)
<1> DEFINE r == Append(q, m)
           n == Len(q)
<1>1. n \in Nat /\ DOMAIN q = 1..n /\ DOMAIN r = 1..(n + 1) /\ r[n + 1] = m
  OBVIOUS
<1>2. \A k \in 1..n : r[k] = q[k]
  OBVIOUS
<1> HIDE DEF r, n
<1>3. ASSUME NEW j \in 1..(n + 1), NEW k \in 1..(n + 1), r[k] \in A, r[j] \in B
      PROVE  j <= k
  <2>1. CASE k = n + 1
    BY <1>1, <2>1
  <2>2. CASE k \in 1..n /\ j = n + 1
    BY <1>1, <1>2, <1>3, <2>2 DEF NoneOf
  <2>3. CASE k \in 1..n /\ j \in 1..n
    BY <1>1, <1>2, <1>3, <2>3 DEF NoneAfter
  <2>4. (k = n + 1 \/ k \in 1..n) /\ (j = n + 1 \/ j \in 1..n)
    BY <1>1
  <2> QED
    BY <2>1, <2>2, <2>3, <2>4
<1> QED
  BY <1>1, <1>3 DEF NoneAfter, r

\* That stays when the first is taken: if it was of A, nothing of B is left.
LEMMA AfterRest ==
    ASSUME NEW S, NEW q \in Seq(S), NEW A, NEW B, NoneAfter(q, A, B), q # <<>>
    PROVE  NoneAfter(Tail(q), A, B) /\ (Head(q) \in A => NoneOf(Tail(q), B))
<1> DEFINE r == Tail(q)
           n == Len(q)
           m == Head(q)
<1>1. n \in Nat \ {0} /\ DOMAIN q = 1..n /\ DOMAIN r = 1..(n - 1) /\ m = q[1]
  OBVIOUS
<1>2. \A k \in 1..(n - 1) : r[k] = q[k + 1] /\ k + 1 \in 1..n
  OBVIOUS
<1> HIDE DEF r, n, m
<1>3. ASSUME NEW j \in 1..(n - 1), NEW k \in 1..(n - 1), r[k] \in A, r[j] \in B
      PROVE  j <= k
  <2>1. j + 1 <= k + 1
    BY <1>1, <1>2, <1>3 DEF NoneAfter
  <2> QED
    BY <1>1, <2>1
<1>4. ASSUME m \in A, NEW j \in 1..(n - 1), r[j] \in B PROVE FALSE
  <2>1. 1 \in 1..n
    BY <1>1
  <2>2. j + 1 <= 1
    BY <1>1, <1>2, <1>4, <2>1 DEF NoneAfter
  <2> QED
    BY <1>1, <2>2
<1> QED
  BY <1>1, <1>3, <1>4 DEF NoneAfter, NoneOf, r, m

\* A queue without the first or without the others.
LEMMA AfterNone ==
    ASSUME NEW q, NEW A, NEW B, NoneOf(q, A) \/ NoneOf(q, B) PROVE NoneAfter(q, A, B)
BY DEF NoneAfter, NoneOf

-----------------------------------------------------------------------------
(* Locks.                                                                   *)

\* The order of the steps of a call on the port.
LEMMA NextStep ==
    ASSUME NEW s, PortShaped(s), s # <<>>
    PROVE  /\ Tail(s) # <<>> /\ Head(Tail(s)) \in FlushSteps =>
                 Head(s) \in {"sendlock", "flush", "sync", "version"}
           /\ Head(s) = "sendlock" => Tail(s) # <<>> /\ Head(Tail(s)) = "flush?"
           /\ Head(s) \in {"on", "unflush", "failed", "flush?", "back", "connect"} => Tail(s) = <<>>
           /\ Head(s) = "disable" => Tail(s) # <<>> /\ Head(Tail(s)) = "drop"
           /\ Tail(s) # <<>> /\ Head(Tail(s)) = "drop" => Head(s) = "disable"
<1> DEFINE r == Tail(s)
           n == Len(s)
<1>1. /\ s \in Seq(PortSteps) /\ n \in Nat \ {0} /\ DOMAIN s = 1..n /\ Head(s) = s[1]
  BY DEF PortShaped
<1>2. r # <<>> <=> n > 1
  <2>1. r \in Seq(PortSteps) /\ Len(r) = n - 1
    BY <1>1
  <2>2. r = <<>> <=> Len(r) = 0
    BY <2>1
  <2> QED
    BY <1>1, <2>1, <2>2
<1>3. r # <<>> => Head(r) = s[2]
  BY <1>1
<1>4. n = Len(s)
  OBVIOUS
<1> HIDE DEF n, r
<1>5. ASSUME n > 1
      PROVE  /\ s[2] \in FlushSteps => s[1] \in {"sendlock", "flush", "sync", "version"}
             /\ s[2] = "drop" => s[1] = "disable"
  <2>1. 2 \in DOMAIN s
    BY <1>1, <1>5
  <2>2. s[2] \notin {"off", "failed"} /\ s[2] \notin {"flush", "sync", "version"}
    <3>1. s[2] \in {"off", "failed"} => 2 = 1
      BY <2>1 DEF PortShaped
    <3>2. s[2] \in {"flush", "sync", "version"} => 2 = 1
      BY <2>1 DEF PortShaped
    <3> QED
      BY <3>1, <3>2
  <2>3. s[2] = "flush?" => s[1] = "sendlock"
    <3>1. s[2] = "flush?" => s[2 - 1] = "sendlock"
      BY <2>1 DEF PortShaped
    <3> QED
      BY <3>1
  <2>4. s[2] = "drop" => s[1] = "disable"
    <3>1. s[2] = "drop" => s[2 - 1] = "disable"
      BY <2>1 DEF PortShaped
    <3> QED
      BY <3>1
  <2>5. s[2] = "unflush" => s[1] \in {"flush", "sync", "version"}
    BY <2>1 DEF PortShaped
  <2> QED
    BY <2>2, <2>3, <2>4, <2>5 DEF FlushSteps
<1>6. 1 \in DOMAIN s
  BY <1>1
<1>7. s[1] = "sendlock" => n = 2 /\ s[2] = "flush?"
  <2>1. s[1] = "sendlock" => 1 + 1 = n /\ s[1 + 1] = "flush?"
    BY <1>4, <1>6 DEF PortShaped
  <2>2. s[1 + 1] = s[2]
    OBVIOUS
  <2>3. 1 + 1 = n <=> n = 2
    BY <1>1
  <2> QED
    BY <2>1, <2>2, <2>3
<1>8. s[1] \in {"on", "unflush", "failed", "flush?", "back", "connect"} => n = 1
  BY <1>4, <1>6 DEF PortShaped
<1>9. s[1] = "disable" => n > 1 /\ s[2] = "drop"
  <2>1. s[1] = "disable" => 1 < n /\ s[1 + 1] = "drop"
    BY <1>4, <1>6 DEF PortShaped
  <2>2. s[1 + 1] = s[2]
    OBVIOUS
  <2>3. 1 < n <=> n > 1
    BY <1>1
  <2> QED
    BY <2>1, <2>2, <2>3
<1> QED
  BY <1>1, <1>2, <1>3, <1>5, <1>7, <1>8, <1>9 DEF r

\* The steps that change the send lock, and those that change what S sends.
LEMMA LockEffects ==
    ASSUME Next
    PROVE  (Send \/ snd' = snd) /\ (Send \/ PortStep \/ slock' = slock)
<1> USE DEF bufVars, portVars
<1>1. ASSUME NEW t \in Asker, mmal_vc_sendwait_message(t) PROVE UNCHANGED <<snd, slock>>
  BY <1>1 DEF mmal_vc_sendwait_message, get_waiter, WaitReply, release_waiter, QueueMessage,
              QueueDummy, AskUnchanged
<1>2. ASSUME NEW t \in {"C", "Q"}, Component(t) PROVE UNCHANGED <<snd, slock>>
  BY <1>2 DEF Component, mmal_vc_component_create, mmal_vc_component_destroy, mmal_vc_use,
       mmal_vc_release, mmal_vc_deinit, AllocComponent, Begin, Request, Created, mmal_vc_init,
       Ignored, mmal_vc_port_info_get, PortUnchanged
<1>3. CASE OtherRequest
  BY <1>3 DEF OtherRequest, Begin, PortUnchanged
<1>4. ASSUME Port PROVE snd' = snd /\ (PortStep \/ slock' = slock)
  BY <1>4 DEF Port, mmal_vc_port_enable, mmal_vc_port_disable, mmal_port_flush,
       mmal_vc_port_connect, mmal_vc_port_flush, StartPort, CreatePool, PortStep, DropPool, Drain,
       KeepPort, PortRequest, EnableAnswered, DisableAnswered, VersionKnown, Flushed, Connected
<1>5. CASE Server
  BY <1>5 DEF Server, ServerTakes, DataArrives, ServerReturns, ServerEvent, KeepServer
<1>6. CASE mmal_vc_vchiq_callback \/ mmal_vc_do_callback
  BY <1>6 DEF mmal_vc_vchiq_callback, mmal_vc_do_callback, WakeWaiter, BufferToHost,
              mmal_vc_handle_event_msg, BulkReceived, KeepClient
<1> QED
  BY <1>1, <1>2, <1>3, <1>4, <1>5, <1>6 DEF Next

\* The steps that change bulk_lock: others begin and end requests, and sendings.
LEMMA BulkLockEffects ==
    ASSUME Threads, Next
    PROVE  \/ snd' = snd /\ \E t \in Asker : mmal_vc_sendwait_message(t)
           \/ /\ snd' = snd
              /\ \E t \in Asker : \E msg \in RequestNames : Ask(t, msg) /\ (t = "S" => msg = "version")
           \/ LockBulk \/ mmal_vc_send_message \/ QueueBulk
           \/ /\ bulkLock' = bulkLock /\ (ask' = ask \/ \E t \in Asker : Answered(t))
              /\ snd' = snd \/ (snd'.pc \notin {"queue", "bulk"} /\ Send)
<1> USE DEF bufVars, waitVars, Asker, RequestNames
<1>1. ASSUME NEW t \in Asker, mmal_vc_sendwait_message(t) PROVE snd' = snd
  BY <1>1 DEF mmal_vc_sendwait_message, get_waiter, WaitReply, release_waiter, QueueMessage,
              QueueDummy, AskUnchanged
<1>2. ASSUME NEW t \in {"C", "Q"}, Component(t)
      PROVE  /\ snd' = snd
             /\ \/ bulkLock' = bulkLock /\ (ask' = ask \/ Answered(t))
                \/ \E msg \in RequestNames : Ask(t, msg)
  BY <1>2 DEF Component, mmal_vc_component_create, mmal_vc_component_destroy, mmal_vc_use,
       mmal_vc_release, mmal_vc_deinit, AllocComponent, Begin, Request, Created, mmal_vc_init,
       Ignored, mmal_vc_port_info_get, PortUnchanged
<1>3. ASSUME OtherRequest PROVE snd' = snd /\ bulkLock' = bulkLock /\ ask' = ask
  BY <1>3 DEF OtherRequest, Begin, PortUnchanged
<1>4. ASSUME Port
      PROVE  /\ snd' = snd
             /\ \/ bulkLock' = bulkLock /\ (ask' = ask \/ Answered("C"))
                \/ \E msg \in RequestNames : Ask("C", msg)
  BY <1>4 DEF Port, mmal_vc_port_enable, mmal_vc_port_disable, mmal_port_flush,
       mmal_vc_port_connect, mmal_vc_port_flush, StartPort, CreatePool, PortStep, DropPool, Drain,
       KeepPort, PortRequest, EnableAnswered, DisableAnswered, VersionKnown, Flushed, Connected
<1>5. ASSUME Send, ~LockBulk, ~mmal_vc_send_message, ~QueueBulk
      PROVE  \/ snd' = snd /\ Ask("S", "version")
             \/ /\ bulkLock' = bulkLock /\ (ask' = ask \/ Answered("S"))
                /\ snd' = snd \/ snd'.pc \notin {"queue", "bulk"}
  <2>1. CASE \E b \in home \ {Ev}, bulk \in BOOLEAN : mmal_vc_port_send(b, bulk)
    BY <2>1 DEF mmal_vc_port_send
  <2>2. CASE AllocContext
    <3>1. bulkLock' = bulkLock /\ ask' = ask
      BY <2>2 DEF AllocContext
    <3>2. \/ snd' = snd \/ snd' = NotSending \/ snd' = [snd EXCEPT !.pc = "bulklock"]
          \/ snd' = [snd EXCEPT !.pc = "version"]
      BY <2>2 DEF AllocContext, Unsent
    <3>3. snd' = snd \/ snd'.pc \notin {"queue", "bulk"}
      BY <3>2 DEF NotSending, Threads
    <3> QED
      BY <3>1, <3>3
  <2>3. CASE SendVersion
    BY <2>3 DEF SendVersion, Threads
  <2> QED
    BY <1>5, <2>1, <2>2, <2>3 DEF Send
<1>6. ASSUME Server PROVE snd' = snd /\ bulkLock' = bulkLock /\ ask' = ask
  BY <1>6 DEF Server, ServerTakes, DataArrives, ServerReturns, ServerEvent, KeepServer
<1>7. ASSUME mmal_vc_vchiq_callback \/ mmal_vc_do_callback
      PROVE  snd' = snd /\ bulkLock' = bulkLock /\ ask' = ask
  BY <1>7 DEF mmal_vc_vchiq_callback, mmal_vc_do_callback, WakeWaiter, BufferToHost,
              mmal_vc_handle_event_msg, BulkReceived, KeepClient
<1> QED
  BY <1>1, <1>2, <1>3, <1>4, <1>5, <1>6, <1>7 DEF Next

\* What Component does to the call of C: Q's does nothing, and its own is none on the port.
LEMMA ComponentQ ==
    ASSUME TodoInv, Threads, Component("Q")
    PROVE  todo'["C"] = todo["C"] /\ up'["C"] = up["C"]
<1>a. up \in [{"C", "Q"} -> BOOLEAN] /\ todo \in [{"C", "Q"} -> Seq(StepNames)]
  BY DEF Threads, TodoInv
<1> QED
  BY <1>a DEF Component, mmal_vc_component_create, mmal_vc_component_destroy, mmal_vc_use,
     mmal_vc_release, mmal_vc_deinit, AllocComponent, Begin, Request, Created, mmal_vc_init,
     Ignored, mmal_vc_port_info_get, Continue, Step

\* C's own does nothing to the call on the port, or ends one that creates or destroys.
LEMMA ComponentC ==
    ASSUME TodoInv, Threads, Component("C")
    PROVE  \/ UNCHANGED <<todo, up>>
           \/ /\ todo["C"] \in LifeSteps /\ todo'["C"] \in LifeSteps
              /\ up'["C"] => todo["C"] # <<>> /\ ~up["C"] /\ todo'["C"] = <<>>
<1>a. up \in [{"C", "Q"} -> BOOLEAN] /\ todo \in [{"C", "Q"} -> Seq(StepNames)]
  BY DEF Threads, TodoInv
<1>1. CASE up["C"]
  <2>1. todo["C"] # <<>> => Head(todo["C"]) \in PortSteps
    BY <1>1, AtLife
  <2>2. mmal_vc_component_destroy("C") \/ (Request("C") /\ UNCHANGED <<todo, up>>)
    BY <1>1, <2>1 DEF Component, mmal_vc_component_create, mmal_vc_use, mmal_vc_release,
       mmal_vc_deinit, AllocComponent, Request, Created, mmal_vc_init, Ignored,
       mmal_vc_port_info_get, Is, PortSteps
  <2>3. mmal_vc_component_destroy("C") => todo["C"] = <<>> /\ todo'["C"] = Destroy /\ ~up'["C"]
    BY <1>a DEF mmal_vc_component_destroy, Begin, Continue
  <2> QED
    BY <2>2, <2>3 DEF LifeSteps
<1>2. CASE ~up["C"]
  <2>1. todo["C"] \in LifeSteps /\ (~up'["C"] => todo'["C"] \in LifeSteps)
    BY <1>2, LifeInv DEF TodoInv
  <2>2. up' = up \/ mmal_vc_port_info_get("C")
    BY <1>2 DEF Component, mmal_vc_component_create, mmal_vc_component_destroy,
       mmal_vc_use, mmal_vc_release, mmal_vc_deinit, AllocComponent, Request, Created,
       mmal_vc_init, Ignored
  <2>3. ASSUME mmal_vc_port_info_get("C"), up' # up PROVE todo["C"] # <<>> /\ todo'["C"] = <<>>
    <3>1. Is("C", "info") /\ Step("C")
      BY <2>3 DEF mmal_vc_port_info_get
    <3>2. Tail(todo["C"]) = <<>>
      BY <2>1, <3>1, LifeStep, LifeOrder DEF Is
    <3> QED
      BY <1>a, <3>1, <3>2 DEF Step, Continue, Is
  <2> QED
    BY <1>2, <2>1, <2>2, <2>3 DEF LifeSteps
<1> QED
  BY <1>1, <1>2

\* The call of C at the port goes on between the send lock's taking and giving back.
LEMMA FlushingStep ==
    ASSUME TodoInv, Threads, Next, ~PortStep
    PROVE  Flushing' <=> Flushing
<1>a. up \in [{"C", "Q"} -> BOOLEAN] /\ todo \in [{"C", "Q"} -> Seq(StepNames)]
  BY DEF Threads, TodoInv
<1>1. CASE UNCHANGED <<todo, up>>
  BY <1>1 DEF Flushing
<1>2. CASE OtherRequest
  BY <1>2 DEF OtherRequest, Begin, Continue, Flushing
<1>3. CASE Component("Q")
  BY <1>3, ComponentQ DEF Flushing
<1>4. CASE Component("C")
  <2>1. todo["C"] \in LifeSteps /\ todo["C"] # <<>> => Head(todo["C"]) \notin FlushSteps
    BY LifeStep DEF FlushSteps, PortSteps
  <2> QED
    BY <1>4, <2>1, ComponentC DEF Flushing
<1>5. CASE Port
  <2>a. up' = up
    BY <1>5, PortTodo
  <2>b. ASSUME NEW x \in PortSteps, Is("C", x) PROVE up["C"] /\ PortShaped(todo["C"]) /\ todo["C"] # <<>>
    BY <2>b, AtLife DEF Is, TodoInv
  <2>1. ASSUME NEW s, todo["C"] = <<>>, Continue("C", s), s # <<>> => Head(s) \notin FlushSteps
        PROVE  Flushing' <=> Flushing
    BY <1>a, <2>1 DEF Continue, Flushing
  <2>2. ASSUME NEW x \in PortSteps \ FlushSteps, Is("C", x), NEW s, Continue("C", s),
               s # <<>> => Head(s) \notin FlushSteps
        PROVE  Flushing' <=> Flushing
    BY <1>a, <2>2 DEF Continue, Flushing, Is
  <2>3. ASSUME NEW x \in PortSteps \ (FlushSteps \cup {"sendlock"}), Is("C", x), Step("C")
        PROVE  Flushing' <=> Flushing
    <3>1. PortShaped(todo["C"]) /\ todo["C"] # <<>> /\ Head(todo["C"]) = x
      BY <2>3, <2>b DEF Is
    <3>2. Tail(todo["C"]) # <<>> => Head(Tail(todo["C"])) \notin FlushSteps
      BY <3>1, NextStep DEF FlushSteps
    <3> QED
      BY <2>2, <2>3, <3>2 DEF Step
  <2> USE DEF PortSteps, FlushSteps
  <2>4. CASE mmal_vc_port_enable
    BY <2>1, <2>4 DEF mmal_vc_port_enable, StartPort, PortIdle
  <2>5. CASE mmal_vc_port_disable
    <3>1. todo["C"] = <<>>
      BY <2>5 DEF mmal_vc_port_disable, StartPort, PortIdle
    <3>2. PICK s : /\ Continue("C", s)
                   /\ s = <<"off", "actlock", "disable", "drop", "drain">> \o
                          (IF connected THEN <<"after">> ELSE <<>>) \o <<"unlock", "back">>
      BY <2>5 DEF mmal_vc_port_disable, StartPort
    <3>3. Head(s) = "off"
      <4>1. CASE connected
        BY <3>2, <4>1
      <4>2. CASE ~connected
        BY <3>2, <4>2
      <4> QED
        BY <4>1, <4>2
    <3> QED
      BY <2>1, <3>1, <3>2, <3>3
  <2>6. CASE mmal_port_flush \/ mmal_vc_port_connect
    BY <2>1, <2>6 DEF mmal_port_flush, mmal_vc_port_connect, StartPort, PortIdle
  <2>7. CASE PortRequest
    BY <2>a, <2>7 DEF PortRequest, Flushing
  <2>8. CASE CreatePool
    BY <2>2, <2>3, <2>8 DEF CreatePool
  <2>9. CASE EnableAnswered
    BY <2>2, <2>3, <2>9 DEF EnableAnswered
  <2>10. CASE DropPool \/ Connected
    BY <2>3, <2>10 DEF DropPool, Connected
  <2>11. CASE Drain
    BY <2>3, <2>a, <2>11 DEF Drain, Flushing
  <2>12. ASSUME NEW s, Continue("C", s), s # <<>>, Head(s) \in FlushSteps,
                NEW x \in FlushSteps, Is("C", x)
         PROVE  Flushing' <=> Flushing
    BY <1>a, <2>a, <2>b, <2>12 DEF Continue, Flushing, Is
  <2>13. CASE mmal_vc_port_flush \/ VersionKnown \/ Flushed
    BY <2>12, <2>13 DEF mmal_vc_port_flush, VersionKnown, Flushed
  <2>14. CASE DisableAnswered
    <3>1. Is("C", "disable") /\ PortShaped(todo["C"]) /\ todo["C"] # <<>>
      BY <2>b, <2>14 DEF DisableAnswered
    <3> DEFINE r == Tail(todo["C"])
               q == [i \in DOMAIN r |-> IF todo["C"][i + 1] = "back" THEN "on" ELSE todo["C"][i + 1]]
    <3>2. r # <<>> /\ Head(r) = "drop" /\ r \in Seq(PortSteps)
      BY <3>1, NextStep, ShapeRest DEF Is, PortShaped
    <3>3. todo["C"][1 + 1] = "drop" /\ 1 \in DOMAIN r
      BY <3>1, <3>2 DEF PortShaped
    <3>4. q # <<>> /\ Head(q) = "drop"
      BY <3>2, <3>3
    <3>5. Continue("C", r) \/ Continue("C", q)
      BY <2>14 DEF DisableAnswered
    <3> HIDE DEF r, q
    <3> QED
      BY <2>2, <3>1, <3>2, <3>4, <3>5
  <2> QED
    BY <1>5, <2>4, <2>5, <2>6, <2>7, <2>8, <2>9, <2>10, <2>11, <2>13, <2>14 DEF Port
<1> QED
  BY <1>1, <1>2, <1>3, <1>4, <1>5, CallEffects

\* The send lock is S's while it sends, and C's while it flushes.
LEMMA SendLockStep ==
    ASSUME LockInv, TodoInv, Threads, Next
    PROVE  SendLocked'
<1> USE DEF SendLocked
<1>1. CASE Send
  <2>1. Flushing' <=> Flushing
    BY <1>1 DEF Send, KeepSend, mmal_vc_port_send, AllocContext, SendVersion, LockBulk,
       mmal_vc_send_message, QueueBulk, Flushing
  <2> USE <2>1 DEF LockInv, Unsent, NotSending, Nobody, Threads
  <2>2. CASE \E b \in home \ {Ev}, bulk \in BOOLEAN : mmal_vc_port_send(b, bulk)
    BY <2>2 DEF mmal_vc_port_send
  <2>3. CASE AllocContext
    BY <2>3 DEF AllocContext
  <2>4. CASE SendVersion \/ LockBulk
    BY <2>4 DEF SendVersion, LockBulk, KeepSend
  <2>5. CASE mmal_vc_send_message
    BY <2>5 DEF mmal_vc_send_message
  <2>6. CASE QueueBulk
    BY <2>6 DEF QueueBulk
  <2> QED
    BY <1>1, <2>2, <2>3, <2>4, <2>5, <2>6 DEF Send
<1>2. CASE PortStep
  <2>a. todo \in [{"C", "Q"} -> Seq(StepNames)] /\ todo'["C"] = Tail(todo["C"]) /\ up' = up /\ snd' = snd
    BY <1>2 DEF PortStep, KeepPort, bufVars, TodoInv, Step, Continue
  <2>b. ASSUME NEW x \in PortSteps, Is("C", x) PROVE up["C"] /\ PortShaped(todo["C"]) /\ todo["C"] # <<>>
    BY <2>b, AtLife DEF Is, TodoInv
  <2>1. CASE \E x \in {"on", "off", "actlock", "unlock", "back"} : Is("C", x) /\ slock' = slock
    <3> PICK x \in {"on", "off", "actlock", "unlock", "back"} : Is("C", x) /\ slock' = slock
      BY <2>1
    <3>1. up["C"] /\ PortShaped(todo["C"]) /\ todo["C"] # <<>> /\ Head(todo["C"]) = x
      BY <2>b DEF PortSteps, Is
    <3>2. ~Flushing /\ ~Flushing'
      BY <2>a, <3>1, NextStep DEF Flushing, FlushSteps
    <3> QED
      BY <2>a, <3>2 DEF LockInv
  <2>2. CASE Is("C", "sendlock") /\ slock = Nobody /\ slock' = "C"
    <3>1. up["C"] /\ PortShaped(todo["C"]) /\ todo["C"] # <<>> /\ Head(todo["C"]) = "sendlock"
      BY <2>2, <2>b DEF PortSteps, Is
    <3>2. Flushing'
      BY <2>a, <3>1, NextStep DEF Flushing, FlushSteps
    <3> QED
      BY <2>2, <2>a, <3>2 DEF LockInv, Nobody
  <2>3. CASE (Is("C", "unflush") \/ Is("C", "failed")) /\ slock' = Nobody
    <3>1. /\ up["C"] /\ PortShaped(todo["C"]) /\ todo["C"] # <<>>
          /\ Head(todo["C"]) \in {"unflush", "failed"}
      BY <2>3, <2>b DEF PortSteps, Is
    <3>2. Flushing /\ ~Flushing'
      BY <2>a, <3>1, NextStep DEF Flushing, FlushSteps
    <3> QED
      BY <2>3, <2>a, <3>2 DEF LockInv, Nobody
  <2> QED
    BY <1>2, <2>1, <2>2, <2>3 DEF PortStep
<1>3. CASE ~Send /\ ~PortStep
  BY <1>3, LockEffects, FlushingStep DEF LockInv
<1> QED
  BY <1>1, <1>2, <1>3

\* bulk_lock is that of the thread between a message and its data.
LEMMA BulkLockStep ==
    ASSUME BulkLocked, AskInv, WaiterTypes, WaitInv, Threads, Next
    PROVE  BulkLocked'
<1>a. ask["S"].pc # "none" => snd.pc = "version" /\ ask["S"].msg = "version"
  BY DEF AskInv
<1> USE DEF BulkLocked
<1>1. ASSUME NEW t \in Asker, mmal_vc_sendwait_message(t), snd' = snd
      PROVE  BulkLocked'
  <2>1. CASE get_waiter(t)
    <3>1. ask[t].pc = "pick" /\ \E w \in Waiters : Moves(t, "queue", ask[t].msg, w, ask[t].reply)
      BY <2>1, AskMoves
    <3>2. bulkLock' = bulkLock
      BY <2>1 DEF get_waiter
    <3> QED
      BY <1>1, <3>1, <3>2 DEF Moves
  <2>2. CASE QueueMessage(t)
    <3>1. ask[t].pc = "queue"
          /\ \E pc \in {"dummy", "wait", "failed"} : Moves(t, pc, ask[t].msg, ask[t].w, ask[t].reply)
      BY <2>2, AskMoves
    <3>2. \/ bulkLock' = bulkLock /\ (ask'[t].pc = "dummy" => ask[t].msg = "sync")
          \/ /\ bulkLock' = IF bulkLock = t THEN Nobody ELSE bulkLock
             /\ ask'[t].pc = "failed"
      BY <2>2 DEF QueueMessage, At, WaiterTypes, AskOf
    <3>3. bulkLock = t /\ snd.bulk => snd.pc \notin {"queue", "bulk"}
      BY <1>a, <3>1
    <3> QED
      BY <1>1, <3>1, <3>2, <3>3 DEF Moves
  <2>3. CASE QueueDummy(t)
    <3>1. ask[t].pc = "dummy" /\ Moves(t, "wait", ask[t].msg, ask[t].w, ask[t].reply)
      BY <2>3, AskMoves
    <3>2. bulkLock = t /\ snd'.pc = snd.pc /\ snd'.bulk = snd.bulk
      BY <1>1, <3>1
    <3>3. snd.bulk => snd.pc \notin {"queue", "bulk"}
      BY <1>a, <3>1, <3>2
    <3> QED
      BY <1>1, <3>1, <3>2, <3>3 DEF Moves
  <2>4. CASE WaitReply(t) \/ release_waiter(t)
    <3>1. \E pc \in {"give", "post", "done"} : \E r \in ReplyOf \cup {dest[ask[t].w]} :
             Moves(t, pc, ask[t].msg, ask[t].w, r)
      BY <2>4, AskMoves DEF WaiterTypes, AskOf
    <3>2. bulkLock' = bulkLock
      BY <2>4 DEF WaitReply, release_waiter
    <3> QED
      BY <1>1, <3>1, <3>2 DEF Moves
  <2> QED
    BY <1>1, <2>1, <2>2, <2>3, <2>4 DEF mmal_vc_sendwait_message
<1>2. ASSUME NEW t \in Asker, NEW msg \in RequestNames, Ask(t, msg), snd' = snd,
             t = "S" => msg = "version"
      PROVE  BulkLocked'
  <2>1. Moves(t, "pick", msg, 0, NoReply)
    BY <1>2, AskMoves
  <2>2. \/ msg = "sync" /\ bulkLock = Nobody /\ bulkLock' = t
        \/ msg # "sync" /\ bulkLock' = bulkLock
    BY <1>2 DEF Ask
  <2> QED
    BY <1>2, <2>1, <2>2 DEF Moves, Nobody, Asker
<1>3. CASE LockBulk \/ mmal_vc_send_message \/ QueueBulk
  <2>1. ask' = ask
    BY <1>3 DEF LockBulk, mmal_vc_send_message, QueueBulk
  <2>2. CASE LockBulk
    BY <2>1, <2>2 DEF LockBulk, Threads, Nobody, Asker
  <2>3. CASE mmal_vc_send_message
    <3>1. snd.pc = "queue"
      BY <2>3 DEF mmal_vc_send_message
    <3>2. CASE snd.bulk
      <4>1. \A t \in Asker : ~(ask[t].pc \in {"pick", "queue", "dummy"} /\ ask[t].msg = "sync")
        BY <1>a, <3>1, <3>2
      <4>2. \/ snd' = [snd EXCEPT !.pc = "bulk"] /\ bulkLock' = bulkLock
            \/ snd' = NotSending
        BY <2>3, <3>2 DEF mmal_vc_send_message, Unsent
      <4>3. \/ snd'.pc = "bulk" /\ snd'.bulk /\ bulkLock' = bulkLock
            \/ snd'.pc = "none"
        BY <3>2, <4>2 DEF Threads, NotSending
      <4> QED
        BY <2>1, <3>1, <3>2, <4>1, <4>3
    <3>3. CASE ~snd.bulk
      BY <2>1, <2>3, <3>1, <3>3 DEF mmal_vc_send_message, Threads, Unsent, NotSending
    <3> QED
      BY <3>2, <3>3
  <2>4. CASE QueueBulk
    <3>1. snd.pc = "bulk" /\ snd' = NotSending
      BY <2>4 DEF QueueBulk, Unsent
    <3>2. \A t \in Asker : ~(ask[t].pc \in {"pick", "queue", "dummy"} /\ ask[t].msg = "sync")
      BY <1>a, <3>1
    <3> QED
      BY <2>1, <3>1, <3>2 DEF NotSending
  <2> QED
    BY <1>3, <2>2, <2>3, <2>4
<1>4. ASSUME bulkLock' = bulkLock, ask' = ask \/ \E t \in Asker : Answered(t),
             snd' = snd \/ (snd'.pc \notin {"queue", "bulk"} /\ Send)
      PROVE  BulkLocked'
  <2>1. \A t \in Asker : ask'[t] = ask[t] \/ ask'[t].pc = "none"
    <3>1. ASSUME NEW s \in Asker, Answered(s), NEW t \in Asker PROVE ask'[t] = ask[t] \/ ask'[t].pc = "none"
      BY <3>1, AskMoves DEF Moves
    <3> QED
      BY <1>4, <3>1
  <2> QED
    BY <1>4, <2>1
<1> QED
  BY <1>1, <1>2, <1>3, <1>4, BulkLockEffects

\* Locks are held from where they are taken to where they are given back.
LEMMA LockInvStep ==
    ASSUME LockInv, AskInv, TodoInv, WaiterTypes, WaitInv, Threads, Next
    PROVE  LockInv'
BY SendLockStep, BulkLockStep DEF LockInv

-----------------------------------------------------------------------------
(* What the server has.                                                     *)

\* The steps that change what the client has sent and the server has not given back.
LEMMA ServerEffects ==
    ASSUME Next
    PROVE  \/ ServerTakes \/ DataArrives
           \/ UNCHANGED <<arr, held, rx, bulkRx>> /\ \E t \in Asker : QueueMessage(t)
           \/ UNCHANGED <<ask, arr, held, rx, bulkRx>> /\ mmal_vc_send_message
           \/ /\ UNCHANGED <<msgs, arr>> /\ (held' = held \/ ServerReturns)
<1>1. CASE Send
  BY <1>1 DEF Send, KeepSend, mmal_vc_port_send, AllocContext, SendVersion, LockBulk, QueueBulk,
              mmal_vc_send_message
<1>2. CASE Server
  BY <1>2 DEF Server, ServerReturns, ServerEvent
<1>3. CASE mmal_vc_vchiq_callback \/ mmal_vc_do_callback
  BY <1>3 DEF mmal_vc_vchiq_callback, mmal_vc_do_callback, WakeWaiter, BufferToHost,
              mmal_vc_handle_event_msg, BulkReceived, KeepClient, vcVars
<1>4. CASE Drain
  BY <1>4 DEF Drain, KeepPort, vcVars
<1>5. CASE \E t \in Asker : QueueMessage(t) \/ QueueDummy(t)
  BY <1>5 DEF QueueMessage, QueueDummy
<1> QED
  BY <1>1, <1>2, <1>3, <1>4, <1>5, BufferEffects

\* A request that is put into the queue is no buffer; what S sends is one.
LEMMA NewMessages ==
    ASSUME WaiterTypes, AskInv, WaitInv, Threads
    PROVE  /\ \A t \in Asker : QueueMessage(t) =>
                 msgs' = msgs \/ \E m \in MessageOf \ Buf : msgs' = Append(msgs, m)
           /\ mmal_vc_send_message =>
                 \/ msgs' = msgs
                 \/ \E m \in Buf : msgs' = Append(msgs, m) /\ m.bulk = snd.bulk /\ m.w = 0
                                   /\ m.buf = snd.buf
<1>1. ASSUME NEW t \in Asker, QueueMessage(t), msgs' # msgs
      PROVE  \E m \in MessageOf \ Buf : msgs' = Append(msgs, m)
  <2> PICK m : m = Message(t, ask[t].msg, Ev, ask[t].msg = "sync")
    OBVIOUS
  <2>1. ask[t].pc = "queue" /\ msgs' = Append(msgs, m)
    BY <1>1 DEF QueueMessage
  <2>2. ask[t].msg \in RequestNames
    BY <2>1 DEF AskInv, WaiterTypes, AskOf
  <2>3. m \in MessageOf
    BY <2>2, MessageType DEF MessageNames
  <2>4. m.id # "buffer"
    BY <2>2 DEF Message, RequestNames
  <2> QED
    BY <2>1, <2>3, <2>4 DEF Buf
<1>2. ASSUME mmal_vc_send_message, msgs' # msgs
      PROVE  \E m \in Buf : msgs' = Append(msgs, m) /\ m.bulk = snd.bulk /\ m.w = 0 /\ m.buf = snd.buf
  <2> PICK m : m = Message("S", "buffer", snd.buf, snd.bulk)
    OBVIOUS
  <2>1. snd.pc = "queue" /\ msgs' = Append(msgs, m)
    BY <1>2 DEF mmal_vc_send_message
  <2>2. snd.buf \in Buffers /\ snd.bulk \in BOOLEAN
    BY <2>1 DEF Threads
  <2>3. m \in MessageOf
    BY <2>2, MessageType DEF MessageNames, Asker
  <2>4. ask["S"].w = 0
    BY <2>1 DEF AskInv, Asker
  <2> QED
    BY <2>1, <2>3, <2>4 DEF Message, Buf
<1> QED
  BY <1>1, <1>2

\* A port that is being disabled is down.
LEMMA AtDisable ==
    ASSUME TodoInv, Threads, NEW x \in {"disable", "drop"}, Is("C", x)
    PROVE  Down
<1>1. up["C"] /\ todo["C"] # <<>> /\ Head(todo["C"]) = x /\ PortShaped(todo["C"])
  BY AtLife DEF Is, TodoInv, PortSteps
<1>2. todo["C"] \in Seq(PortSteps)
  BY <1>1 DEF PortShaped
<1>3. \E k \in DOMAIN todo["C"] : todo["C"][k] = "drop"
  <2>1. CASE x = "drop"
    BY <1>1, <1>2, <2>1
  <2>2. CASE x = "disable"
    <3>1. Tail(todo["C"]) # <<>> /\ Head(Tail(todo["C"])) = "drop"
      BY <1>1, <2>2, NextStep
    <3>2. 2 \in DOMAIN todo["C"] /\ todo["C"][2] = "drop"
      BY <1>1, <1>2, <3>1
    <3> QED
      BY <3>2
  <2> QED
    BY <2>1, <2>2
<1> QED
  BY <1>1, <1>3 DEF Down, Is

\* While C flushes or disables its port, S sends nothing.
LEMMA SendingIdle ==
    ASSUME LockInv, DisableInv, AskInv, TodoInv, Threads, snd.pc # "none"
    PROVE  /\ \A x \in {"flush", "sync", "unflush", "disable", "drop"} : ~Is("C", x)
           /\ ask["C"].msg \notin {"flush", "sync", "disable"}
<1>1. ASSUME NEW x \in {"flush", "sync", "unflush", "disable", "drop"}, Is("C", x) PROVE FALSE
  <2>1. up["C"] /\ todo["C"] # <<>> /\ Head(todo["C"]) = x /\ PortShaped(todo["C"])
    BY <1>1, AtLife DEF Is, TodoInv, PortSteps
  <2>2. CASE x \in {"flush", "sync", "unflush"}
    BY <2>1, <2>2 DEF LockInv, SendLocked, Flushing, FlushSteps
  <2>3. CASE x \in {"disable", "drop"}
    BY <1>1, <2>3, AtDisable DEF DisableInv
  <2> QED
    BY <2>2, <2>3
<1>2. ask["C"].pc # "none" => Is("C", ask["C"].msg)
  BY DEF AskInv
<1>3. ask["C"].pc = "none" => ask["C"].msg = "none"
  BY DEF AskInv, Asker
<1> QED
  BY <1>1, <1>2, <1>3

\* What the server does not have any more it does not get while S sends nothing.
LEMMA EmptyKept ==
    ASSUME ServerEmpty, QueueTypes, WaiterTypes, AskInv, WaitInv, Threads, MessageInv, snd.pc = "none", Next
    PROVE  ServerEmpty'
<1> USE DEF ServerEmpty
<1>a. msgs \in Seq(MessageOf) /\ arr \in Seq(MessageOf)
  BY DEF QueueTypes
<1>1. CASE ServerTakes
  <2> PICK m : m = Head(msgs)
    OBVIOUS
  <2>1. msgs # <<>> /\ msgs' = Tail(msgs) /\ m \in MessageOf
    BY <1>1, <1>a DEF ServerTakes
  <2>2. m \notin Buf /\ NoneOf(msgs', Buf)
    BY <1>a, <2>1, NoneRest
  <2>3. \/ arr' = Append(arr, m) /\ held' = held
        \/ m.id = "buffer"
        \/ arr' = arr /\ held' = held
    BY <1>1 DEF ServerTakes
  <2>4. m.id # "buffer"
    BY <2>1, <2>2 DEF Buf
  <2>5. NoneOf(Append(arr, m), Buf)
    BY <1>a, <2>1, <2>2, NoneMore
  <2> QED
    BY <2>2, <2>3, <2>4, <2>5
<1>2. CASE DataArrives
  <2> PICK m : m = Head(arr)
    OBVIOUS
  <2>1. arr # <<>> /\ arr' = Tail(arr) /\ m \in MessageOf /\ msgs' = msgs
    BY <1>2, <1>a DEF DataArrives
  <2>2. m \notin Buf /\ NoneOf(arr', Buf)
    BY <1>a, <2>1, NoneRest
  <2>3. m.id # "buffer"
    BY <2>1, <2>2 DEF Buf
  <2>4. held' = held
    BY <1>2, <2>3 DEF DataArrives
  <2> QED
    BY <2>1, <2>2, <2>4
<1>3. CASE UNCHANGED <<arr, held>> /\ \E t \in Asker : QueueMessage(t)
  <2>1. msgs' = msgs \/ \E m \in MessageOf \ Buf : msgs' = Append(msgs, m)
    BY <1>3, NewMessages
  <2>2. ASSUME NEW m \in MessageOf \ Buf, msgs' = Append(msgs, m) PROVE NoneOf(msgs', Buf)
    BY <1>a, <2>2, NoneMore
  <2>3. NoneOf(msgs', Buf)
    BY <2>1, <2>2
  <2> QED
    BY <1>3, <2>3
<1>4. ~mmal_vc_send_message
  BY DEF mmal_vc_send_message
<1>5. CASE UNCHANGED <<msgs, arr>> /\ (held' = held \/ ServerReturns)
  BY <1>5 DEF ServerReturns
<1> QED
  BY <1>1, <1>2, <1>3, <1>4, <1>5, ServerEffects

-----------------------------------------------------------------------------
(* What a call on the port goes on with.                                    *)

\* A call goes on when its thread asks nothing (any more).
LEMMA TurnIdle ==
    ASSUME AskInv, TodoInv, Threads, WaiterTypes, WaitInv, Next, NEW t \in {"C", "Q"}, todo'[t] # todo[t]
    PROVE  ask'[t].pc = "none"
<1>1. CASE ask[t].pc # "none"
  BY <1>1, AskingStays, AskMoves DEF Moves, Asker
<1>2. CASE ask[t].pc = "none"
  <2>1. ASSUME NEW u \in Asker, mmal_vc_sendwait_message(u) PROVE FALSE
    BY <2>1 DEF mmal_vc_sendwait_message, get_waiter, QueueMessage, QueueDummy, WaitReply,
       release_waiter, AskUnchanged
  <2>2. ASSUME NEW u \in Asker, Answered(u) PROVE ask'[t] = ask[t]
    <3>1. u # t
      BY <1>2, <2>2 DEF Answered
    <3> QED
      BY <2>2, <3>1, AskMoves DEF Moves, Asker
  <2> QED
    BY <1>2, <2>1, <2>2, AskEffects
<1> QED
  BY <1>1, <1>2

\* The steps of the port that go on with the rest of the call, and the others.
LEMMA PortTurns ==
    ASSUME TodoInv, Threads, Port
    PROVE  \/ todo'["C"] = todo["C"] \/ todo'["C"] = <<>>
           \/ /\ todo["C"] = <<>> /\ todo'["C"] # <<>>
              /\ Head(todo'["C"]) \in {"require", "pool", "off", "actlock", "connect"}
              /\ Head(todo'["C"]) = "off" \/ \A k \in DOMAIN todo'["C"] : todo'["C"][k] # "drop"
           \/ /\ todo'["C"] = Tail(todo["C"])
              /\ \E x \in PortSteps \ {"flush", "sync", "version", "disable", "flush?"} : Is("C", x)
           \/ mmal_vc_port_flush \/ VersionKnown \/ Flushed \/ DisableAnswered
<1>a. todo \in [{"C", "Q"} -> Seq(StepNames)]
  BY DEF TodoInv
<1>1. ASSUME NEW s, Continue("C", s) PROVE todo'["C"] = s
  BY <1>a, <1>1 DEF Continue
<1> USE DEF Step, PortSteps
<1>2. CASE mmal_vc_port_enable
  <2> DEFINE r == <<"require", "enable", "after", "on">>
             q == <<"pool", "enable", "on">>
  <2>1. /\ r # <<>> /\ Head(r) = "require" /\ \A k \in DOMAIN r : r[k] # "drop"
        /\ q # <<>> /\ Head(q) = "pool" /\ \A k \in DOMAIN q : q[k] # "drop"
    OBVIOUS
  <2>2. todo["C"] = <<>> /\ (Continue("C", r) \/ Continue("C", q))
    BY <1>2 DEF mmal_vc_port_enable, StartPort, PortIdle
  <2> HIDE DEF r, q
  <2> QED
    BY <1>1, <2>1, <2>2
<1>3. CASE mmal_vc_port_disable
  <2> DEFINE r == <<"off", "actlock", "disable", "drop", "drain">> \o <<"after">> \o <<"unlock", "back">>
             q == <<"off", "actlock", "disable", "drop", "drain">> \o <<>> \o <<"unlock", "back">>
  <2>1. r # <<>> /\ Head(r) = "off" /\ q # <<>> /\ Head(q) = "off"
    OBVIOUS
  <2>2. todo["C"] = <<>> /\ (Continue("C", r) \/ Continue("C", q))
    BY <1>3 DEF mmal_vc_port_disable, StartPort, PortIdle
  <2> HIDE DEF r, q
  <2> QED
    BY <1>1, <2>1, <2>2
<1>4. CASE mmal_port_flush \/ mmal_vc_port_connect
  <2> DEFINE r == <<"actlock", "sendlock", "flush?">>
             q == <<"connect">>
  <2>1. /\ r # <<>> /\ Head(r) = "actlock" /\ \A k \in DOMAIN r : r[k] # "drop"
        /\ q # <<>> /\ Head(q) = "connect" /\ \A k \in DOMAIN q : q[k] # "drop"
    OBVIOUS
  <2>2. todo["C"] = <<>> /\ (Continue("C", r) \/ Continue("C", q))
    BY <1>4 DEF mmal_port_flush, mmal_vc_port_connect, StartPort, PortIdle
  <2> HIDE DEF r, q
  <2> QED
    BY <1>1, <2>1, <2>2
<1>5. CASE PortRequest
  BY <1>5 DEF PortRequest
<1>6. CASE CreatePool
  BY <1>1, <1>6 DEF CreatePool
<1>7. CASE EnableAnswered
  BY <1>1, <1>7 DEF EnableAnswered
<1>8. CASE PortStep
  <2>1. \E x \in {"on", "off", "actlock", "sendlock", "unlock", "unflush", "failed", "back"} : Is("C", x)
    BY <1>8 DEF PortStep
  <2> QED
    BY <1>1, <1>8, <2>1 DEF PortStep
<1>9. CASE DropPool \/ Connected
  BY <1>1, <1>9 DEF DropPool, Connected
<1>10. CASE Drain
  BY <1>1, <1>10 DEF Drain
<1> QED
  BY <1>2, <1>3, <1>4, <1>5, <1>6, <1>7, <1>8, <1>9, <1>10 DEF Port

\* What the answer to a disable leaves begins with the dropping of the pool.
LEMMA DropNext ==
    ASSUME TodoInv, Threads, DisableAnswered
    PROVE  todo'["C"] # <<>> /\ Head(todo'["C"]) = "drop"
<1>1. Is("C", "disable") /\ PortShaped(todo["C"]) /\ todo["C"] # <<>>
  BY AtLife DEF DisableAnswered, Is, TodoInv, PortSteps
<1> DEFINE r == Tail(todo["C"])
           q == [i \in DOMAIN r |-> IF todo["C"][i + 1] = "back" THEN "on" ELSE todo["C"][i + 1]]
<1>2. r # <<>> /\ Head(r) = "drop" /\ r \in Seq(PortSteps)
  BY <1>1, NextStep, ShapeRest DEF Is, PortShaped
<1>3. todo["C"][1 + 1] = "drop" /\ 1 \in DOMAIN r
  BY <1>1, <1>2 DEF PortShaped
<1>4. q # <<>> /\ Head(q) = "drop"
  BY <1>2, <1>3
<1>5. Continue("C", IF Good("C") THEN r ELSE q)
  BY DEF DisableAnswered
<1> HIDE DEF r, q
<1>6. todo'["C"] = IF Good("C") THEN r ELSE q
  BY <1>5 DEF Continue, TodoInv
<1> QED
  BY <1>2, <1>4, <1>6

\* What leads C's call to each of its steps.
LEMMA Enters ==
    ASSUME TodoInv, Threads, Next
    PROVE  /\ (Is("C", "flush") \/ Is("C", "sync"))' =>
                 todo'["C"] = todo["C"] \/ mmal_vc_port_flush \/ VersionKnown
           /\ Is("C", "unflush")' => todo'["C"] = todo["C"] \/ Flushed
           /\ Is("C", "drop")' => todo'["C"] = todo["C"] \/ DisableAnswered
<1>a. todo \in [{"C", "Q"} -> Seq(StepNames)]
  BY DEF TodoInv
<1>b. ASSUME NEW s, Continue("C", s) PROVE todo'["C"] = s
  BY <1>a, <1>b DEF Continue
<1> DEFINE r == todo'["C"]
           Entry == {"flush", "sync", "unflush", "drop"}
<1> SUFFICES ASSUME r # todo["C"], r # <<>>, Head(r) \in Entry
             PROVE  /\ Head(r) \in {"flush", "sync"} => mmal_vc_port_flush \/ VersionKnown
                    /\ Head(r) = "unflush" => Flushed
                    /\ Head(r) = "drop" => DisableAnswered
  BY DEF Is
<1>1. CASE Component("C") \/ Component("Q") \/ OtherRequest
  <2>1. Component("C") => FALSE
    <3>1. r \in LifeSteps /\ r # <<>> => Head(r) \notin Entry
      BY LifeStep DEF PortSteps
    <3> QED
      BY <3>1, ComponentC
  <2>2. OtherRequest => r = todo["C"]
    BY <1>a DEF OtherRequest, Begin, Continue
  <2> QED
    BY <1>1, <2>1, <2>2, ComponentQ
<1>2. CASE Port
  <2>1. ASSUME NEW x \in PortSteps \ {"flush", "sync", "version", "disable", "flush?"}, Is("C", x),
               r = Tail(todo["C"])
        PROVE  FALSE
    <3>1. PortShaped(todo["C"]) /\ todo["C"] # <<>> /\ Head(todo["C"]) = x
      BY <2>1, AtLife DEF Is, TodoInv
    <3>2. Head(r) \in FlushSteps => x = "sendlock"
      BY <2>1, <3>1, NextStep
    <3>3. x = "sendlock" => Head(r) = "flush?"
      BY <2>1, <3>1, NextStep
    <3>4. Head(r) # "drop"
      BY <2>1, <3>1, NextStep
    <3> QED
      BY <3>2, <3>3, <3>4 DEF FlushSteps
  <2>2. mmal_vc_port_flush => Head(r) # "unflush" /\ Head(r) # "drop"
    BY <1>b DEF mmal_vc_port_flush
  <2>3. VersionKnown => Head(r) # "unflush" /\ Head(r) # "drop"
    BY <1>b DEF VersionKnown
  <2>4. Flushed => Head(r) \in {"unflush", "failed"}
    BY <1>b DEF Flushed
  <2>5. DisableAnswered => Head(r) = "drop"
    BY DropNext
  <2> HIDE DEF r
  <2>6. \/ mmal_vc_port_flush \/ VersionKnown \/ Flushed \/ DisableAnswered
    BY <1>2, <2>1, PortTurns DEF r
  <2> QED
    BY <2>2, <2>3, <2>4, <2>5, <2>6
<1> QED
  BY <1>1, <1>2, CallEffects

-----------------------------------------------------------------------------
(* Nothing is sent behind a flush or a disable of C.                        *)

\* What was promised for a flush was promised before: data is not forgotten, and so are
\* failures and old servers.
LEMMA PromiseKept ==
    ASSUME Counts, Next
    PROVE  /\ UNCHANGED <<zeroCopy, newServer>> /\ (sent' = sent \/ (LockBulk /\ sent' = (sent \/ snd.bulk)))
           /\ compat' = compat \/ VersionKnown
           /\ nfail' = 0 => nfail = 0
           /\ nfail > 0 => nfail' > 0
           /\ sent => sent'
<1> USE DEF fixed, portVars
<1>1. ASSUME NEW t \in Asker, mmal_vc_sendwait_message(t) PROVE UNCHANGED <<fixed, sent, compat>>
  BY <1>1 DEF mmal_vc_sendwait_message, get_waiter, WaitReply, release_waiter, QueueMessage,
              QueueDummy, AskUnchanged
<1>2. ASSUME NEW t \in {"C", "Q"}, Component(t) PROVE UNCHANGED <<fixed, sent, compat>>
  BY <1>2 DEF Component, mmal_vc_component_create, mmal_vc_component_destroy, mmal_vc_use,
       mmal_vc_release, mmal_vc_deinit, AllocComponent, Begin, Request, Created, mmal_vc_init,
       Ignored, mmal_vc_port_info_get, PortUnchanged
<1>3. OtherRequest => UNCHANGED <<fixed, sent, compat>>
  BY DEF OtherRequest, Begin, PortUnchanged
<1>4. Port => UNCHANGED <<fixed, sent>> /\ (compat' = compat \/ VersionKnown)
  BY DEF Port, mmal_vc_port_enable, mmal_vc_port_disable, mmal_port_flush,
       mmal_vc_port_connect, mmal_vc_port_flush, StartPort, CreatePool, PortStep, DropPool, Drain,
       KeepPort, PortRequest, EnableAnswered, DisableAnswered, VersionKnown, Flushed, Connected
<1>5. Send => UNCHANGED <<fixed, compat>> /\ (sent' = sent \/ (LockBulk /\ sent' = (sent \/ snd.bulk)))
  BY DEF Send, KeepSend, mmal_vc_port_send, AllocContext, SendVersion, LockBulk,
       mmal_vc_send_message, QueueBulk
<1>6. Server => UNCHANGED <<fixed, sent, compat>>
  BY DEF Server, ServerTakes, DataArrives, ServerReturns, ServerEvent, KeepServer
<1>7. mmal_vc_vchiq_callback \/ mmal_vc_do_callback => UNCHANGED <<fixed, sent, compat>>
  BY DEF mmal_vc_vchiq_callback, mmal_vc_do_callback, WakeWaiter, BufferToHost,
              mmal_vc_handle_event_msg, BulkReceived, KeepClient
<1>8. (nfail' = 0 => nfail = 0) /\ (nfail > 0 => nfail' > 0)
  BY CountsStep DEF Counts
<1>9. UNCHANGED <<zeroCopy, newServer>> /\ (sent' = sent \/ (LockBulk /\ sent' = (sent \/ snd.bulk)))
      /\ (compat' = compat \/ VersionKnown)
  BY <1>1, <1>2, <1>3, <1>4, <1>5, <1>6, <1>7 DEF Next
<1>10. ASSUME sent PROVE sent'
  <2>1. CASE sent' = sent
    BY <1>10, <2>1, Zenon
  <2>2. CASE sent' = (sent \/ snd.bulk)
    BY <1>10, <2>2, Zenon
  <2> QED
    BY <1>9, <2>1, <2>2, Zenon
<1> QED
  BY <1>8, <1>9, <1>10, Zenon

\* While C asks nothing of the server there is nothing of C on its way.
LEMMA NothingOfC ==
    ASSUME QueueTypes', WaiterTypes', MessageInv', AskInv', (~Out("C"))'
    PROVE  /\ NoneOf(msgs, OfC)' /\ NoneOf(arr, OfC)' /\ NoneOf(rx, OfC)' /\ NoneOf(rx, OkC)'
           /\ (\A w \in Waiters : ~(sem[w] > 0 /\ dest[w].from = "C"))'
<1>1. ASSUME NEW m \in MessageOf, RightRequest(m)' PROVE m \notin OfC
  BY <1>1 DEF OfC, RightRequest
<1>2. (\A k \in DOMAIN msgs : msgs[k] \in MessageOf /\ RightRequest(msgs[k]))'
  BY DEF QueueTypes, MessageInv
<1>3. (\A k \in DOMAIN arr : arr[k] \in MessageOf /\ RightRequest(arr[k]))'
  BY DEF QueueTypes, MessageInv
<1>4. (\A k \in DOMAIN rx : rx[k] \in MessageOf /\ RightRequest(rx[k]))'
  BY DEF QueueTypes, MessageInv
<1>5. NoneOf(msgs, OfC)'
  BY <1>1, <1>2 DEF NoneOf
<1>6. NoneOf(arr, OfC)'
  BY <1>1, <1>3 DEF NoneOf
<1>7. NoneOf(rx, OfC)'
  BY <1>1, <1>4 DEF NoneOf
<1>8. NoneOf(rx, OkC)'
  BY <1>7 DEF NoneOf, OkC
<1>9. (\A w \in Waiters : ~(sem[w] > 0 /\ dest[w].from = "C"))'
  BY DEF MessageInv
<1> QED
  BY <1>5, <1>6, <1>7, <1>8, <1>9

\* A thread asks for something else only when nothing is on its way.
LEMMA AskedStays ==
    ASSUME WaiterTypes, WaitInv, Next
    PROVE  \A t \in Asker : ask'[t].msg # ask[t].msg => ask'[t].pc \in {"none", "pick"}
<1>1. ASSUME NEW s \in Asker, mmal_vc_sendwait_message(s), NEW t \in Asker PROVE ask'[t].msg = ask[t].msg
  <2>1. \E pc, w, r : Moves(s, pc, ask[s].msg, w, r)
    BY <1>1, AskMoves DEF mmal_vc_sendwait_message
  <2> QED
    BY <2>1 DEF Moves
<1>2. ASSUME NEW s \in Asker, NEW msg \in RequestNames, Ask(s, msg), NEW t \in Asker
      PROVE  ask'[t] = ask[t] \/ ask'[t].pc = "pick"
  BY <1>2, AskMoves DEF Moves
<1>3. ASSUME NEW s \in Asker, Answered(s), NEW t \in Asker
      PROVE  ask'[t] = ask[t] \/ ask'[t].pc = "none"
  BY <1>3, AskMoves DEF Moves
<1> QED
  BY <1>1, <1>2, <1>3, AskEffects

\* Without data in transfers no message announces any.
LEMMA NoDataStep ==
    ASSUME BehindInv, QueueTypes, WaiterTypes, AskInv, WaitInv, PlainInv, Next
    PROVE  (zeroCopy \/ ~sent => /\ NoneOf(arr, Buf) /\ (snd.pc \in {"queue", "bulk"} => ~snd.bulk)
                                 /\ NoneOf(msgs, BulkBuf))'
<1>a. Counts /\ Threads /\ msgs \in Seq(MessageOf) /\ arr \in Seq(MessageOf)
  BY DEF PlainInv, QueueTypes
<1>b. zeroCopy => ~snd.bulk
  BY DEF BehindInv
<1> SUFFICES ASSUME zeroCopy' \/ ~sent'
             PROVE  /\ NoneOf(arr', Buf) /\ (snd'.pc \in {"queue", "bulk"} => ~snd'.bulk)
                    /\ NoneOf(msgs', BulkBuf)
  BY DEF NoneOf
<1>1. zeroCopy \/ ~sent
  BY <1>a, PromiseKept, Zenon
<1>2. NoneOf(arr, Buf) /\ (snd.pc \in {"queue", "bulk"} => ~snd.bulk) /\ NoneOf(msgs, BulkBuf)
  BY <1>1 DEF BehindInv
<1>3. snd'.pc \in {"queue", "bulk"} => ~snd'.bulk
  <2>1. CASE LockBulk
    <3>1. ~snd.bulk
      BY <1>a, <1>b, <2>1, PromiseKept DEF LockBulk
    <3> QED
      BY <1>a, <2>1, <3>1 DEF LockBulk, Threads
  <2>2. CASE mmal_vc_send_message \/ QueueBulk
    BY <1>a, <1>2, <2>2 DEF mmal_vc_send_message, QueueBulk, Unsent, NotSending, Threads
  <2> QED
    BY <1>a, <1>2, <2>1, <2>2, BulkLockEffects
<1>4. NoneOf(arr', Buf) /\ NoneOf(msgs', BulkBuf)
  <2>1. CASE ServerTakes
    <3> PICK m : m = Head(msgs)
      OBVIOUS
    <3>1. msgs # <<>> /\ msgs' = Tail(msgs) /\ m \in MessageOf
      BY <1>a, <2>1 DEF ServerTakes
    <3>2. m \notin BulkBuf /\ NoneOf(msgs', BulkBuf)
      BY <1>a, <1>2, <3>1, NoneRest
    <3>3. arr' = arr \/ (arr' = Append(arr, m) /\ m.bulk)
      BY <2>1 DEF ServerTakes
    <3>4. m.bulk => m \notin Buf
      BY <3>1, <3>2 DEF BulkBuf
    <3>5. m \notin Buf => NoneOf(Append(arr, m), Buf)
      BY <1>a, <1>2, <3>1, NoneMore
    <3> QED
      BY <1>2, <3>2, <3>3, <3>4, <3>5
  <2>2. CASE DataArrives
    BY <1>a, <1>2, <2>2, NoneRest DEF DataArrives
  <2>3. CASE UNCHANGED <<arr, held, rx, bulkRx>> /\ \E t \in Asker : QueueMessage(t)
    <3>1. ASSUME NEW m \in MessageOf \ Buf, msgs' = Append(msgs, m) PROVE NoneOf(msgs', BulkBuf)
      <4>1. m \notin BulkBuf
        BY <3>1 DEF BulkBuf
      <4> QED
        BY <1>a, <1>2, <3>1, <4>1, NoneMore
    <3> QED
      BY <1>a, <1>2, <2>3, <3>1, NewMessages
  <2>4. CASE UNCHANGED <<ask, arr, held, rx, bulkRx>> /\ mmal_vc_send_message
    <3>1. ASSUME NEW m \in Buf, msgs' = Append(msgs, m), m.bulk = snd.bulk PROVE NoneOf(msgs', BulkBuf)
      <4>1. m \notin BulkBuf /\ m \in MessageOf
        BY <1>2, <2>4, <3>1 DEF BulkBuf, Buf, mmal_vc_send_message
      <4> QED
        BY <1>a, <1>2, <3>1, <4>1, NoneMore
    <3> QED
      BY <1>a, <1>2, <2>4, <3>1, NewMessages
  <2> QED
    BY <1>2, <2>1, <2>2, <2>3, <2>4, ServerEffects
<1> QED
  BY <1>3, <1>4

\* A port with zero copy sends no data, and only an old server or a failure makes a port incompatible.
LEMMA OldServerStep ==
    ASSUME BehindInv, WaiterTypes, AskInv, MessageInv, PlainInv, Next
    PROVE  (zeroCopy => ~snd.bulk)' /\ (compat = "no" => ~newServer \/ nfail > 0)'
<1>a. Counts /\ Threads
  BY DEF PlainInv
<1>1. ASSUME zeroCopy' PROVE ~snd'.bulk
  <2>1. zeroCopy /\ ~snd.bulk
    BY <1>a, <1>1, PromiseKept DEF BehindInv
  <2>2. CASE Send
    <3>1. CASE \E b \in home \ {Ev}, bulk \in BOOLEAN : mmal_vc_port_send(b, bulk)
      BY <2>1, <3>1 DEF mmal_vc_port_send
    <3>2. CASE AllocContext
      BY <1>a, <2>1, <3>2 DEF AllocContext, Threads, Unsent, NotSending
    <3>3. CASE SendVersion \/ LockBulk
      BY <1>a, <2>1, <3>3 DEF SendVersion, LockBulk, Threads
    <3>4. CASE mmal_vc_send_message \/ QueueBulk
      BY <1>a, <2>1, <3>4 DEF mmal_vc_send_message, QueueBulk, Threads, Unsent, NotSending
    <3> QED
      BY <2>2, <3>1, <3>2, <3>3, <3>4 DEF Send
  <2> QED
    BY <2>1, <2>2, LockEffects
<1>2. ASSUME compat' = "no" PROVE ~newServer' \/ nfail' > 0
  <2>1. CASE compat' = compat
    BY <1>a, <1>2, <2>1, PromiseKept DEF BehindInv
  <2>2. CASE VersionKnown
    <3>1. ~newServer \/ (~ask["C"].reply.ok /\ ask["C"].pc = "done")
      BY <1>2, <2>2 DEF VersionKnown, Good, Answered
    <3>2. ~newServer \/ nfail > 0
      BY <3>1 DEF MessageInv, Asker
    <3> QED
      BY <1>a, <3>2, PromiseKept
  <2> QED
    BY <1>a, <2>1, <2>2, PromiseKept
<1> QED
  BY <1>1, <1>2

\* No buffer is behind a flush or a disable, in the queue of messages,
LEMMA BehindMessages ==
    ASSUME BehindInv, LockInv, DisableInv, RepliesInv, RepliesInv', Next
    PROVE  (ask["C"].msg \in {"flush", "sync", "disable"} => NoneAfter(msgs, OfC, Buf))'
<1>a. /\ Counts /\ Threads /\ QueueTypes /\ WaiterTypes /\ AskInv /\ WaitInv /\ MessageInv /\ TodoInv
      /\ msgs \in Seq(MessageOf) /\ arr \in Seq(MessageOf)
  BY DEF RepliesInv, PlainInv, QueueTypes
<1> SUFFICES ASSUME ask'["C"].msg \in {"flush", "sync", "disable"} PROVE NoneAfter(msgs', OfC, Buf)
  BY DEF NoneAfter
<1>1. CASE ask'["C"].msg # ask["C"].msg
  <2>1. ask'["C"].pc \in {"none", "pick"}
    BY <1>a, <1>1, AskedStays DEF Asker
  <2>2. QueueTypes' /\ WaiterTypes' /\ MessageInv' /\ AskInv' /\ (~Out("C"))'
    BY <2>1 DEF RepliesInv, Out
  <2>3. NoneOf(msgs', OfC)
    BY <2>2, NothingOfC DEF NoneOf
  <2> QED
    BY <2>3, AfterNone
<1>2. CASE ask'["C"].msg = ask["C"].msg
  <2>1. NoneAfter(msgs, OfC, Buf) /\ snd.pc = "none"
    BY <1>a, <1>2, SendingIdle DEF BehindInv
  <2>2. CASE ServerTakes
    BY <1>a, <2>1, <2>2, AfterRest DEF ServerTakes
  <2>3. CASE \E t \in Asker : QueueMessage(t)
    <3>1. ASSUME NEW m \in MessageOf \ Buf, msgs' = Append(msgs, m) PROVE NoneAfter(msgs', OfC, Buf)
      BY <1>a, <2>1, <3>1, AfterMore
    <3> QED
      BY <1>a, <2>1, <2>3, <3>1, NewMessages
  <2>4. ~mmal_vc_send_message
    BY <2>1 DEF mmal_vc_send_message
  <2> QED
    BY <2>1, <2>2, <2>3, <2>4, MessageEffects
<1> QED
  BY <1>1, <1>2

\* behind a flush among the messages that wait for data, and on the way there.
LEMMA BehindArrived ==
    ASSUME BehindInv, LockInv, DisableInv, RepliesInv, RepliesInv', Next
    PROVE  NoneAfter(arr, OfC, Buf)' /\ (NoneOf(arr, OfC) \/ NoneOf(msgs, Buf))'
<1>a. /\ Counts /\ Threads /\ QueueTypes /\ WaiterTypes /\ AskInv /\ WaitInv /\ MessageInv /\ TodoInv
      /\ msgs \in Seq(MessageOf) /\ arr \in Seq(MessageOf)
  BY DEF RepliesInv, PlainInv, QueueTypes
<1>b. NoneAfter(arr, OfC, Buf) /\ (NoneOf(arr, OfC) \/ NoneOf(msgs, Buf))
  BY DEF BehindInv
<1> SUFFICES NoneAfter(arr', OfC, Buf) /\ (NoneOf(arr', OfC) \/ NoneOf(msgs', Buf))
  BY DEF NoneAfter, NoneOf
<1>1. CASE ServerTakes
  <2> PICK m : m = Head(msgs)
    OBVIOUS
  <2>1. msgs # <<>> /\ msgs' = Tail(msgs) /\ m \in MessageOf /\ m = msgs[1] /\ 1 \in DOMAIN msgs
    BY <1>a, <1>1 DEF ServerTakes
  <2>2. arr' = arr \/ (arr' = Append(arr, m) /\ m.bulk)
    BY <1>1 DEF ServerTakes
  <2>3. NoneOf(msgs, Buf) => NoneOf(msgs', Buf) /\ m \notin Buf
    BY <1>a, <2>1, NoneRest
  <2>4. CASE arr' = arr
    BY <1>b, <2>3, <2>4
  <2>5. ASSUME arr' = Append(arr, m), m.bulk
        PROVE  NoneAfter(arr', OfC, Buf) /\ (NoneOf(arr', OfC) \/ NoneOf(msgs', Buf))
    <3>1. NoneAfter(arr', OfC, Buf)
      BY <1>a, <1>b, <2>1, <2>3, <2>5, AfterMore
    <3>2. ASSUME m \in OfC PROVE NoneOf(msgs', Buf)
      <4>1. RightRequest(m) /\ m.w # 0 /\ m.from = "C"
        BY <2>1, <3>2 DEF MessageInv, OfC, RepliesInv
      <4>2. ask["C"].msg = "sync"
        BY <2>5, <4>1 DEF RightRequest
      <4>3. NoneAfter(msgs, OfC, Buf)
        BY <4>2 DEF BehindInv
      <4> QED
        BY <1>a, <2>1, <3>2, <4>3, AfterRest
    <3>3. m \notin OfC /\ NoneOf(arr, OfC) => NoneOf(arr', OfC)
      BY <1>a, <2>1, <2>5, NoneMore
    <3> QED
      BY <1>b, <2>3, <3>1, <3>2, <3>3
  <2> QED
    BY <2>2, <2>4, <2>5
<1>2. CASE DataArrives
  <2>1. arr # <<>> /\ arr' = Tail(arr) /\ msgs' = msgs
    BY <1>2 DEF DataArrives
  <2>2. NoneOf(arr, OfC) => NoneOf(arr', OfC)
    BY <1>a, <2>1, NoneRest
  <2> QED
    BY <1>a, <1>b, <2>1, <2>2, AfterRest
<1>3. CASE UNCHANGED <<arr, held, rx, bulkRx>> /\ \E t \in Asker : QueueMessage(t)
  <2>1. ASSUME NEW m \in MessageOf \ Buf, msgs' = Append(msgs, m), NoneOf(msgs, Buf) PROVE NoneOf(msgs', Buf)
    BY <1>a, <2>1, NoneMore
  <2>2. NoneOf(msgs, Buf) => NoneOf(msgs', Buf)
    BY <1>a, <1>3, <2>1, NewMessages
  <2> QED
    BY <1>b, <1>3, <2>2
<1>4. CASE UNCHANGED <<ask, arr, held, rx, bulkRx>> /\ mmal_vc_send_message
  <2>1. ask["C"].msg \notin {"flush", "sync", "disable"}
    BY <1>a, <1>4, SendingIdle DEF mmal_vc_send_message
  <2>2. ASSUME NEW k \in DOMAIN arr PROVE arr[k] \notin OfC
    <3>1. RightRequest(arr[k]) /\ arr[k].bulk
      BY <2>2 DEF MessageInv, RepliesInv
    <3> QED
      BY <2>1, <3>1 DEF RightRequest, OfC
  <2> QED
    BY <1>b, <1>4, <2>2 DEF NoneOf
<1> QED
  BY <1>b, <1>1, <1>2, <1>3, <1>4, ServerEffects

\* Nothing is sent behind a flush or a disable.
LEMMA BehindInvStep ==
    ASSUME BehindInv, LockInv, DisableInv, RepliesInv, RepliesInv', Next
    PROVE  BehindInv'
BY NoDataStep, OldServerStep, BehindMessages, BehindArrived DEF BehindInv, RepliesInv

-----------------------------------------------------------------------------
(* What the server has consented to.                                        *)

\* A consent arrives when the callback thread wakes the waiter of C for it.
LEMMA AcceptedStep ==
    ASSUME RepliesInv, Next, Accepted'
    PROVE  Accepted \/ (WakeWaiter /\ rx # <<>> /\ rx' = Tail(rx) /\ Head(rx) \in OkC)
<1>a. /\ WaiterTypes /\ WaitInv /\ MessageInv /\ AskInv /\ Threads
      /\ rx \in Seq(MessageOf) /\ ask \in [Asker -> AskOf]
      /\ sem \in [Waiters -> Int] /\ dest \in [Waiters -> ReplyOf]
  BY DEF RepliesInv, PlainInv, QueueTypes, WaiterTypes
<1>1. ASSUME ask'["C"].reply.ok, ~ask["C"].reply.ok PROVE Accepted
  <2>1. ASSUME NEW t \in Asker, mmal_vc_sendwait_message(t) PROVE Accepted
    <3>1. ASSUME NEW pc, NEW w, Moves(t, pc, ask[t].msg, w, ask[t].reply) PROVE FALSE
      BY <1>1, <3>1 DEF Moves, Asker
    <3>2. WaitReply(t) /\ ask[t].pc = "wait" /\ Moves(t, "give", ask[t].msg, ask[t].w, dest[ask[t].w])
      BY <1>a, <2>1, <3>1, AskMoves DEF mmal_vc_sendwait_message
    <3>3. t = "C" /\ dest[ask[t].w].ok
      BY <1>1, <3>2 DEF Moves, Asker
    <3>4. sem[ask[t].w] > 0
      BY <3>2 DEF WaitReply
    <3> QED
      BY <1>a, <3>2, <3>3, <3>4, OwnDest DEF Accepted
  <2>2. ASSUME NEW t \in Asker, NEW msg \in RequestNames, Ask(t, msg) PROVE FALSE
    BY <1>1, <1>a, <2>2, AskMoves DEF Moves, Asker, NoReply
  <2>3. ASSUME NEW t \in Asker, Answered(t) PROVE FALSE
    BY <1>1, <1>a, <2>3, AskMoves DEF Moves, Asker, NoReply
  <2> QED
    BY <1>1, <2>1, <2>2, <2>3, AskEffects
<1>2. ASSUME NEW w \in Waiters, sem'[w] > 0, dest'[w].from = "C", dest'[w].ok
      PROVE  Accepted \/ (WakeWaiter /\ rx # <<>> /\ rx' = Tail(rx) /\ Head(rx) \in OkC)
  <2>1. CASE UNCHANGED <<sem, dest>>
    BY <1>2, <2>1 DEF Accepted
  <2>2. ASSUME NEW t \in Asker, WaitReply(t) PROVE Accepted
    <3>1. CASE UNCHANGED <<sem, dest>>
      BY <1>2, <3>1 DEF Accepted
    <3>2. CASE dest' = [dest EXCEPT ![ask[t].w] = NoReply] /\ sem' = [sem EXCEPT ![ask[t].w] = @ - 1]
      <4>1. w # ask[t].w
        BY <1>2, <1>a, <3>2 DEF NoReply
      <4> QED
        BY <1>2, <1>a, <3>2, <4>1 DEF Accepted
    <3> QED
      BY <2>2, <3>1, <3>2 DEF WaitReply
  <2>3. CASE WakeWaiter
    <3> PICK m : m = Head(rx)
      OBVIOUS
    <3>1. rx # <<>> /\ m \in MessageOf /\ m.w # 0 /\ rx' = Tail(rx)
      BY <1>a, <2>3 DEF WakeWaiter
    <3>2. m.w \in Waiters
      BY <3>1, MmalVcAssumption DEF MessageOf, Waiters
    <3>3. /\ dest' = [dest EXCEPT ![m.w] = [id |-> m.id, from |-> m.from, ok |-> m.ok]]
          /\ sem' = [sem EXCEPT ![m.w] = @ + 1]
      BY <2>3 DEF WakeWaiter
    <3>4. CASE w = m.w
      <4>1. m.from = "C" /\ m.ok
        BY <1>2, <1>a, <3>3, <3>4
      <4> QED
        BY <2>3, <3>1, <4>1 DEF OkC, OfC
    <3>5. CASE w # m.w
      BY <1>2, <1>a, <3>3, <3>5 DEF Accepted
    <3> QED
      BY <3>4, <3>5
  <2>4. ASSUME NEW t \in {"C", "Q"}, mmal_vc_init(t), refcount = 0, dest' = dest PROVE Accepted
    <3>1. sem' = sem \/ sem'[w] = 0
      BY <2>4 DEF mmal_vc_init
    <3> QED
      BY <1>2, <2>4, <3>1 DEF Accepted
  <2> QED
    BY <2>1, <2>2, <2>3, <2>4, SemEffects
<1> QED
  BY <1>1, <1>2 DEF Accepted

\* A consent for C is given when the server has done what it was asked.
LEMMA ConsentStep ==
    ASSUME RepliesInv, Next, ~NoneOf(rx, OkC)', NoneOf(rx, OkC)
    PROVE  \E m \in OfC :
              /\ Cleared(m) /\ m.id = ask["C"].msg /\ rx' = Append(rx, m)
              /\ \/ ServerTakes /\ msgs # <<>> /\ m = Head(msgs) /\ m.id # "sync"
                 \/ DataArrives /\ arr # <<>> /\ m = Head(arr) /\ m.id = "sync"
<1>a. /\ WaiterTypes /\ MessageInv /\ rx \in Seq(MessageOf) /\ msgs \in Seq(MessageOf) /\ arr \in Seq(MessageOf)
  BY DEF RepliesInv, QueueTypes
<1>b. ~NoneOf(rx', OkC)
  BY DEF NoneOf
<1>1. ASSUME NEW m \in MessageOf, Reply(m), m.id # "buffer", RightRequest(m), m.w # 0
      PROVE  m \in OfC /\ Cleared(m) /\ m.id = ask["C"].msg /\ rx' = Append(rx, m)
  <2> PICK n : n = [m EXCEPT !.ok = FALSE]
    OBVIOUS
  <2>1. n \in MessageOf /\ n \notin OkC
    BY DEF MessageOf, OkC
  <2>2. NoneOf(Append(rx, n), OkC)
    BY <1>a, <2>1, NoneMore
  <2>3. Cleared(m) /\ rx' = Append(rx, m)
    BY <1>1, <2>2 DEF Reply
  <2>4. m \in OkC
    BY <1>a, <1>b, <2>3, NoneMore
  <2> QED
    BY <1>1, <2>3, <2>4 DEF OkC, OfC, RightRequest
<1>2. CASE ServerTakes
  <2> PICK m : m = Head(msgs)
    OBVIOUS
  <2>1. msgs # <<>> /\ m \in MessageOf /\ m = msgs[1] /\ 1 \in DOMAIN msgs
    BY <1>a, <1>2 DEF ServerTakes
  <2>2. ~m.bulk /\ m.id # "buffer" /\ Reply(m)
    BY <1>2, <1>b DEF ServerTakes
  <2>3. RightRequest(m) /\ m.w # 0
    BY <1>a, <2>1, <2>2 DEF MessageInv
  <2>4. m.id # "sync"
    BY <2>2, <2>3 DEF RightRequest
  <2> QED
    BY <1>1, <1>2, <2>1, <2>2, <2>3, <2>4
<1>3. CASE DataArrives
  <2> PICK m : m = Head(arr)
    OBVIOUS
  <2>1. arr # <<>> /\ m \in MessageOf /\ m = arr[1] /\ 1 \in DOMAIN arr
    BY <1>a, <1>3 DEF DataArrives
  <2>2. m.id = "sync" /\ Reply(m)
    BY <1>3, <1>b DEF DataArrives
  <2>3. RightRequest(m) /\ m.w # 0
    BY <1>a, <2>1, <2>2 DEF MessageInv
  <2> QED
    BY <1>1, <1>3, <2>1, <2>2, <2>3
<1>4. CASE ServerReturns \/ ServerEvent
  <2>1. ASSUME NEW how \in {"plain", "bulk", "short"}, NEW b \in Buffers \cup {Ev},
               rx' = Append(rx, [Message("S", how, b, FALSE) EXCEPT !.w = 0])
        PROVE  FALSE
    <3> PICK m : m = [Message("S", how, b, FALSE) EXCEPT !.w = 0]
      OBVIOUS
    <3>1. m \in MessageOf
      BY <1>a, MessageType DEF MessageNames, Asker
    <3>2. m \notin OkC
      BY DEF OkC, OfC, Message
    <3>3. NoneOf(Append(rx, m), OkC)
      BY <1>a, <3>1, <3>2, NoneMore
    <3> QED
      BY <1>b, <2>1, <3>3
  <2>2. held \subseteq Buffers
    BY DEF RepliesInv, QueueTypes
  <2> QED
    BY <1>4, <2>1, <2>2 DEF ServerReturns, ServerEvent
<1>5. CASE rx # <<>> /\ rx' = Tail(rx)
  BY <1>a, <1>b, <1>5, NoneRest
<1> QED
  BY <1>b, <1>2, <1>3, <1>4, <1>5, MessageEffects

\* What a flush promises has been promised before.
LEMMA PromisedBefore == ASSUME Counts, Next, Promised' PROVE Promised
<1>1. CASE zeroCopy'
  BY <1>1, PromiseKept, Zenon DEF Promised
<1>2. CASE ~sent'
  BY <1>2, PromiseKept, Zenon DEF Promised
<1>3. CASE newServer' /\ nfail' = 0
  BY <1>3, PromiseKept, Zenon DEF Promised
<1> QED
  BY <1>1, <1>2, <1>3 DEF Promised

\* The server that consents to a flush has nothing left: what follows data was sent behind it.
LEMMA FlushConsent ==
    ASSUME RepliesInv, BehindInv, FlushInv, Next, Promised, NEW m \in OfC, Cleared(m),
           Is("C", "flush") \/ Is("C", "sync"), m.id = ask["C"].msg, ask["C"].pc # "none",
           \/ ServerTakes /\ msgs # <<>> /\ m = Head(msgs) /\ m.id # "sync"
           \/ DataArrives /\ arr # <<>> /\ m = Head(arr) /\ m.id = "sync"
    PROVE  ServerEmpty'
<1>a. AskInv /\ msgs \in Seq(MessageOf) /\ arr \in Seq(MessageOf) /\ m.from = "C" /\ m \in MessageOf
  BY DEF RepliesInv, QueueTypes, OfC
<1>b. Is("C", m.id) /\ m.id \in {"flush", "sync"}
  BY <1>a DEF AskInv, Is
<1>c. held = {}
  BY <1>a, <1>b DEF Cleared
<1> SUFFICES held' = {} /\ NoneOf(arr', Buf) /\ NoneOf(msgs', Buf)
  BY DEF ServerEmpty, NoneOf
<1>1. CASE ServerTakes /\ msgs # <<>> /\ m = Head(msgs) /\ m.id # "sync"
  <2>1. Is("C", "flush") /\ (zeroCopy \/ ~sent)
    BY <1>b, <1>1 DEF FlushInv
  <2>2. NoneOf(arr, Buf)
    BY <2>1 DEF BehindInv
  <2>3. NoneAfter(msgs, OfC, Buf)
    BY <1>b DEF BehindInv
  <2>4. NoneOf(Tail(msgs), Buf)
    BY <1>a, <1>1, <2>3, AfterRest
  <2>5. ~m.bulk
    <3>1. RightRequest(m) /\ m.w # 0
      BY <1>a, <1>1 DEF RepliesInv, MessageInv, OfC
    <3> QED
      BY <1>1, <3>1 DEF RightRequest
  <2>6. msgs' = Tail(msgs) /\ held' = held /\ arr' = arr
    BY <1>b, <1>1, <2>5 DEF ServerTakes
  <2> QED
    BY <1>c, <2>2, <2>4, <2>6
<1>2. CASE DataArrives /\ arr # <<>> /\ m = Head(arr) /\ m.id = "sync"
  <2>1. NoneAfter(arr, OfC, Buf) /\ (NoneOf(arr, OfC) \/ NoneOf(msgs, Buf))
    BY DEF BehindInv
  <2>2. ~NoneOf(arr, OfC)
    BY <1>a, <1>2, NoneRest
  <2>3. NoneOf(Tail(arr), Buf)
    BY <1>a, <1>2, <2>1, AfterRest
  <2>4. arr' = Tail(arr) /\ held' = held /\ msgs' = msgs
    BY <1>2 DEF DataArrives
  <2> QED
    BY <1>c, <2>1, <2>2, <2>3, <2>4
<1> QED
  BY <1>1, <1>2

\* A flush that is complete stays so until the port sends again.
LEMMA FlushInvStep ==
    ASSUME FlushInv, BehindInv, LockInv, DisableInv, RepliesInv, RepliesInv', Next
    PROVE  FlushInv'
<1>a. /\ Counts /\ Threads /\ QueueTypes /\ WaiterTypes /\ AskInv /\ WaitInv /\ MessageInv /\ TodoInv
      /\ rx \in Seq(MessageOf)
  BY DEF RepliesInv, PlainInv, QueueTypes
<1> SUFFICES ASSUME Promised' PROVE
       /\ Is("C", "flush")' => zeroCopy' \/ ~sent'
       /\ (Is("C", "flush") \/ Is("C", "sync"))' => (NoneOf(rx, OkC) /\ ~Accepted)' \/ ServerEmpty'
       /\ Is("C", "unflush")' => ServerEmpty'
  BY DEF FlushInv
<1>b. Promised
  BY <1>a, PromisedBefore
<1>c. ASSUME NEW x \in {"flush", "sync", "unflush"}, Is("C", x) PROVE snd.pc = "none"
  BY <1>a, <1>c, SendingIdle
<1>d. ASSUME NEW x \in {"flush", "sync", "unflush"}, Is("C", x), ServerEmpty PROVE ServerEmpty'
  BY <1>a, <1>c, <1>d, EmptyKept
<1>e. ASSUME NEW x \in {"flush", "sync", "unflush"}, Is("C", x)', todo'["C"] = todo["C"] PROVE Is("C", x)
  BY <1>e DEF Is
<1>1. ASSUME Is("C", "flush")' PROVE zeroCopy' \/ ~sent'
  <2>1. zeroCopy \/ ~sent => zeroCopy' \/ ~sent' \/ LockBulk
    BY <1>a, PromiseKept, Zenon
  <2>2. CASE todo'["C"] = todo["C"]
    <3>1. Is("C", "flush") /\ snd.pc = "none"
      BY <1>1, <1>c, <1>e, <2>2
    <3>2. ~LockBulk /\ (zeroCopy \/ ~sent)
      BY <1>b, <3>1 DEF LockBulk, FlushInv
    <3> QED
      BY <2>1, <3>2
  <2>3. ASSUME mmal_vc_port_flush \/ VersionKnown PROVE zeroCopy \/ ~sent
    <3>1. ASSUME NEW x, NEW y, Continue("C", <<x, y>>) PROVE x = "flush"
      <4>1. todo'["C"] = <<x, y>>
        BY <1>a, <3>1 DEF Continue, TodoInv
      <4> QED
        BY <1>1, <4>1 DEF Is
    <3>2. CASE mmal_vc_port_flush
      <4>1. zeroCopy \/ ~sent \/ compat = "no"
        BY <3>1, <3>2 DEF mmal_vc_port_flush
      <4> QED
        BY <1>a, <1>b, <4>1 DEF BehindInv, Promised, Counts
    <3>3. CASE VersionKnown
      <4>1. ~(Good("C") /\ newServer) /\ ask["C"].pc = "done"
        BY <3>1, <3>3 DEF VersionKnown, Answered
      <4>2. ~newServer \/ nfail > 0
        BY <1>a, <4>1 DEF Good, MessageInv, Asker
      <4> QED
        BY <1>a, <1>b, <4>2 DEF Promised, Counts
    <3> QED
      BY <2>3, <3>2, <3>3
  <2>4. mmal_vc_port_flush \/ VersionKnown => ~LockBulk
    BY <1>a DEF mmal_vc_port_flush, VersionKnown, bufVars, LockBulk, Threads
  <2> QED
    BY <1>1, <1>a, <2>1, <2>2, <2>3, <2>4, Enters
<1>2. ASSUME (Is("C", "flush") \/ Is("C", "sync"))', ~ServerEmpty'
      PROVE  (NoneOf(rx, OkC) /\ ~Accepted)'
  <2>1. CASE todo'["C"] # todo["C"]
    <3>1. ask'["C"].pc = "none"
      BY <1>a, <2>1, TurnIdle
    <3>2. QueueTypes' /\ WaiterTypes' /\ MessageInv' /\ AskInv' /\ (~Out("C"))'
      BY <3>1 DEF RepliesInv, Out
    <3>3. ask'["C"].reply = NoReply
      BY <3>1, <3>2 DEF AskInv, Asker
    <3> QED
      BY <3>2, <3>3, NothingOfC DEF Accepted, NoReply
  <2>2. CASE todo'["C"] = todo["C"]
    <3>1. Is("C", "flush") \/ Is("C", "sync")
      BY <1>2, <1>e, <2>2
    <3>2. ~ServerEmpty /\ NoneOf(rx, OkC) /\ ~Accepted
      BY <1>2, <1>b, <1>d, <3>1 DEF FlushInv
    <3>3. NoneOf(rx, OkC)'
      <4> SUFFICES ASSUME ~NoneOf(rx, OkC)' PROVE FALSE
        OBVIOUS
      <4> PICK m \in OfC : /\ Cleared(m) /\ m.id = ask["C"].msg /\ rx' = Append(rx, m)
                           /\ \/ ServerTakes /\ msgs # <<>> /\ m = Head(msgs) /\ m.id # "sync"
                              \/ DataArrives /\ arr # <<>> /\ m = Head(arr) /\ m.id = "sync"
        BY <3>2, ConsentStep
      <4>1. ask["C"].pc # "none"
        <5>1. RightRequest(m) /\ m.w # 0 /\ m.from = "C"
          BY <1>a DEF MessageInv, OfC, QueueTypes
        <5> QED
          BY <5>1 DEF RightRequest, Out
      <4> QED
        BY <1>2, <1>b, <3>1, <4>1, FlushConsent
    <3>4. ~Accepted'
      <4>1. rx # <<>> => Head(rx) \notin OkC
        BY <1>a, <3>2, NoneRest
      <4> QED
        BY <3>2, <4>1, AcceptedStep
    <3> QED
      BY <3>3, <3>4
  <2> QED
    BY <2>1, <2>2
<1>3. ASSUME Is("C", "unflush")' PROVE ServerEmpty'
  <2>1. CASE todo'["C"] = todo["C"]
    <3>1. Is("C", "unflush") /\ ServerEmpty
      BY <1>3, <1>b, <1>e, <2>1 DEF FlushInv
    <3> QED
      BY <1>d, <3>1
  <2>2. CASE Flushed
    <3>1. Is("C", "flush") \/ Is("C", "sync")
      BY <2>2 DEF Flushed
    <3>2. Good("C")
      <4> SUFFICES ASSUME ~Good("C") PROVE FALSE
        OBVIOUS
      <4>1. todo'["C"] = <<"failed">>
        BY <1>a, <2>2 DEF Flushed, Continue, TodoInv
      <4> QED
        BY <1>3, <4>1 DEF Is
    <3>3. ServerEmpty
      BY <1>b, <3>1, <3>2 DEF FlushInv, Accepted, Good
    <3> QED
      BY <1>d, <3>1, <3>3
  <2> QED
    BY <1>3, <1>a, <2>1, <2>2, Enters
<1> QED
  BY <1>1, <1>2, <1>3

-----------------------------------------------------------------------------
(* The contexts of the buffers.                                             *)

\* A buffer that the server does not have after its step it did not have before.
LEMMA GoneServer ==
    ASSUME RepliesInv, NEW b \in Buffers, Server, Gone(b)'
    PROVE  Gone(b)
<1>a. /\ WaiterTypes /\ MessageInv /\ rx \in Seq(MessageOf) /\ msgs \in Seq(MessageOf) /\ arr \in Seq(MessageOf)
      /\ held \subseteq Buffers
  BY DEF RepliesInv, QueueTypes
<1>b. NoneOf(msgs', Of(b)) /\ NoneOf(arr', Of(b)) /\ b \notin held' /\ NoneOf(rx', Of(b)) /\ NoneOf(bulkRx', {b})
  BY DEF Gone, NoneOf
<1>c. ASSUME NEW q \in Seq(MessageOf), NEW m \in MessageOf, NoneOf(Append(q, m), Of(b))
      PROVE  NoneOf(q, Of(b)) /\ m \notin Of(b)
  BY <1>c, NoneMore
<1>d. ASSUME NEW m \in MessageOf, Reply(m) PROVE NoneOf(rx, Of(b))
  <2> PICK n : n = [m EXCEPT !.ok = FALSE]
    OBVIOUS
  <2>1. n \in MessageOf
    BY DEF MessageOf
  <2>2. rx' = Append(rx, m) \/ rx' = Append(rx, n)
    BY <1>d DEF Reply
  <2>3. CASE rx' = Append(rx, m)
    <3>1. NoneOf(Append(rx, m), Of(b))
      BY <1>b, <2>3
    <3> QED
      BY <1>a, <1>c, <1>d, <3>1
  <2>4. CASE rx' = Append(rx, n)
    <3>1. NoneOf(Append(rx, n), Of(b))
      BY <1>b, <2>4
    <3> QED
      BY <1>a, <1>c, <2>1, <3>1
  <2> QED
    BY <2>2, <2>3, <2>4
<1>1. CASE ServerTakes
  <2> PICK m : m = Head(msgs)
    OBVIOUS
  <2>1. msgs # <<>> /\ msgs' = Tail(msgs) /\ m \in MessageOf /\ m = msgs[1] /\ 1 \in DOMAIN msgs /\ bulkRx' = bulkRx
    BY <1>a, <1>1 DEF ServerTakes
  <2>2. \/ m.bulk /\ arr' = Append(arr, m) /\ UNCHANGED <<held, rx>>
        \/ m.id = "buffer" /\ held' = held \cup {m.buf} /\ UNCHANGED <<arr, rx>>
        \/ m.id # "buffer" /\ Reply(m) /\ UNCHANGED <<held, arr>>
    BY <1>1 DEF ServerTakes
  <2>3. m.w = 0 <=> m.id = "buffer"
    BY <1>a, <2>1 DEF MessageInv
  <2>4. m \notin Of(b)
    <3> SUFFICES ASSUME m \in Of(b) PROVE FALSE
      OBVIOUS
    <3>1. m.w = 0 /\ m.buf = b
      BY DEF Of, Back
    <3>2. arr' # Append(arr, m)
      BY <1>a, <1>b, <1>c, <2>1
    <3> QED
      BY <1>b, <2>2, <2>3, <3>1, <3>2
  <2>5. NoneOf(msgs, Of(b))
    BY <1>a, <1>b, <2>1, <2>4, NoneRest
  <2>6. NoneOf(arr, Of(b))
    <3>1. CASE arr' = arr
      BY <1>b, <3>1
    <3>2. CASE arr' = Append(arr, m)
      <4>1. NoneOf(Append(arr, m), Of(b))
        BY <1>b, <3>2
      <4> QED
        BY <1>a, <1>c, <2>1, <4>1
    <3> QED
      BY <2>2, <3>1, <3>2
  <2>7. NoneOf(rx, Of(b))
    <3>1. CASE rx' = rx
      BY <1>b, <3>1
    <3>2. CASE Reply(m)
      BY <1>d, <2>1, <3>2
    <3> QED
      BY <2>2, <3>1, <3>2
  <2>8. b \notin held
    BY <1>b, <2>2
  <2> QED
    BY <1>b, <2>1, <2>5, <2>6, <2>7, <2>8 DEF Gone
<1>2. CASE DataArrives
  <2> PICK m : m = Head(arr)
    OBVIOUS
  <2>1. /\ arr # <<>> /\ arr' = Tail(arr) /\ m \in MessageOf /\ m = arr[1] /\ 1 \in DOMAIN arr
        /\ bulkRx' = bulkRx /\ msgs' = msgs
    BY <1>a, <1>2 DEF DataArrives
  <2>2. \/ m.id = "buffer" /\ held' = held \cup {m.buf} /\ UNCHANGED rx
        \/ m.id = "sync" /\ Reply(m) /\ UNCHANGED held
    BY <1>2 DEF DataArrives
  <2>3. m.id = IF m.w = 0 THEN "buffer" ELSE "sync"
    BY <1>a, <2>1 DEF MessageInv
  <2>4. m \notin Of(b)
    BY <1>b, <2>2, <2>3 DEF Of, Back
  <2>5. NoneOf(arr, Of(b))
    BY <1>a, <1>b, <2>1, <2>4, NoneRest
  <2>6. NoneOf(rx, Of(b)) /\ b \notin held
    BY <1>b, <1>d, <2>1, <2>2
  <2> QED
    BY <1>b, <2>1, <2>5, <2>6 DEF Gone
<1>3. CASE ServerReturns \/ ServerEvent
  <2>1. ASSUME NEW how \in {"plain", "bulk", "short"}, NEW c \in Buffers \cup {Ev},
               rx' = Append(rx, [Message("S", how, c, FALSE) EXCEPT !.w = 0])
        PROVE  NoneOf(rx, Of(b)) /\ c # b
    <3> PICK m : m = [Message("S", how, c, FALSE) EXCEPT !.w = 0]
      OBVIOUS
    <3>1. m \in MessageOf
      BY <1>a, MessageType DEF MessageNames, Asker
    <3>2. m.w = 0 /\ m.buf = c
      BY DEF Message
    <3>3. NoneOf(rx, Of(b)) /\ m \notin Of(b)
      BY <1>a, <1>b, <1>c, <2>1, <3>1
    <3> QED
      BY <3>1, <3>2, <3>3 DEF Of, Back
  <2>2. UNCHANGED <<msgs, arr, bulkRx>>
    BY <1>3 DEF ServerReturns, ServerEvent
  <2>3. NoneOf(rx, Of(b)) /\ b \notin held
    <3>1. CASE ServerReturns
      <4> PICK c \in held, how \in {"plain", "bulk", "short"} :
             held' = held \ {c} /\ rx' = Append(rx, [Message("S", how, c, FALSE) EXCEPT !.w = 0])
        BY <3>1 DEF ServerReturns
      <4> QED
        BY <1>a, <1>b, <2>1
    <3>2. CASE ServerEvent
      BY <1>b, <2>1, <3>2 DEF ServerEvent
    <3> QED
      BY <1>3, <3>1, <3>2
  <2> QED
    BY <1>b, <2>2, <2>3 DEF Gone
<1> QED
  BY <1>1, <1>2, <1>3 DEF Server

\* A context that is in use after a callback of VCHIQ is that of a buffer which is still on its way.
LEMMA GoneHost ==
    ASSUME RepliesInv, NEW b \in Buffers, mmal_vc_vchiq_callback, Sane', b \in ctx', Gone(b)'
    PROVE  Gone(b) /\ b \in ctx
<1>a. rx \in Seq(MessageOf) /\ bulkRx \in Seq(Buffers \cup {Ev}) /\ b # Ev
  BY MmalVcAssumption DEF RepliesInv, QueueTypes
<1>b. NoneOf(msgs', Of(b)) /\ NoneOf(arr', Of(b)) /\ b \notin held' /\ NoneOf(rx', Of(b)) /\ NoneOf(bulkRx', {b})
  BY DEF Gone, NoneOf
<1>c. UNCHANGED <<msgs, arr, held>>
  BY DEF mmal_vc_vchiq_callback, WakeWaiter, BufferToHost, mmal_vc_handle_event_msg, BulkReceived, KeepClient
<1>1. ASSUME rx # <<>>, rx' = Tail(rx), Head(rx) \notin Of(b) PROVE NoneOf(rx, Of(b))
  BY <1>a, <1>b, <1>1, NoneRest
<1>2. ASSUME NEW c \in Buffers \cup {Ev}, bulkRx' = Append(bulkRx, c) PROVE NoneOf(bulkRx, {b}) /\ c # b
  BY <1>a, <1>b, <1>2, NoneMore
<1>3. CASE WakeWaiter
  <2>1. rx # <<>> /\ rx' = Tail(rx) /\ Head(rx).w # 0 /\ UNCHANGED <<ctx, bulkRx>>
    BY <1>3 DEF WakeWaiter
  <2>2. Head(rx) \notin Of(b)
    BY <2>1 DEF Of, Back
  <2> QED
    BY <1>b, <1>c, <1>1, <2>1, <2>2 DEF Gone
<1>4. CASE BufferToHost
  <2> PICK m : m = Head(rx)
    OBVIOUS
  <2>0. rx # <<>> /\ rx' = Tail(rx) /\ m \in MessageOf
    BY <1>a, <1>4 DEF BufferToHost
  <2>1. rx # <<>> /\ rx' = Tail(rx) /\ m \in MessageOf /\ m.buf \in Buffers \cup {Ev}
    BY <2>0 DEF MessageOf
  <2>2. \/ ctx' = ctx \ {m.buf} /\ bulkRx' = bulkRx
        \/ bulkRx' = Append(bulkRx, m.buf) /\ ctx' = ctx
    BY <1>4 DEF BufferToHost, Queue, Sane
  <2>3. m.buf # b /\ NoneOf(bulkRx, {b}) /\ b \in ctx
    BY <1>b, <1>2, <2>1, <2>2
  <2>4. m \notin Of(b)
    BY <2>3 DEF Of
  <2> QED
    BY <1>b, <1>c, <1>1, <2>1, <2>3, <2>4 DEF Gone
<1>5. CASE mmal_vc_handle_event_msg
  <2>1. rx # <<>> /\ rx' = Tail(rx) /\ Head(rx).buf = Ev
    BY <1>5 DEF mmal_vc_handle_event_msg
  <2>2. Head(rx) \notin Of(b)
    BY <1>a, <2>1 DEF Of
  <2>3. (ctx' = ctx \/ ctx' = ctx \ {Ev}) /\ (bulkRx' = bulkRx \/ bulkRx' = Append(bulkRx, Ev))
    BY <1>5 DEF mmal_vc_handle_event_msg, Queue
  <2> QED
    BY <1>b, <1>c, <1>1, <1>2, <2>1, <2>2, <2>3 DEF Gone
<1>6. CASE BulkReceived
  <2>1. bulkRx # <<>> /\ bulkRx' = Tail(bulkRx) /\ ctx' = ctx \ {Head(bulkRx)} /\ rx' = rx
    BY <1>6 DEF BulkReceived, Queue
  <2>2. NoneOf(bulkRx, {b})
    BY <1>a, <1>b, <2>1, NoneRest
  <2> QED
    BY <1>b, <1>c, <2>1, <2>2 DEF Gone
<1> QED
  BY <1>3, <1>4, <1>5, <1>6 DEF mmal_vc_vchiq_callback

\* The buffer that S sends has its context until it is with the server.
LEMMA ContextSend ==
    ASSUME RepliesInv, ContextInv, Sane, NEW b \in Buffers, Send, Sane', b \in ctx', Gone(b)'
    PROVE  snd'.pc \in {"version", "bulklock", "queue"} /\ snd'.buf = b
<1>a. /\ WaiterTypes /\ WaitInv /\ AskInv /\ Threads /\ msgs \in Seq(MessageOf)
  BY DEF RepliesInv, PlainInv, QueueTypes
<1>b. NoneOf(msgs', Of(b)) /\ NoneOf(arr', Of(b)) /\ b \notin held' /\ NoneOf(rx', Of(b)) /\ NoneOf(bulkRx', {b})
  BY DEF Gone, NoneOf
<1>c. UNCHANGED <<arr, held, rx, bulkRx>>
  BY DEF Send, mmal_vc_port_send, AllocContext, SendVersion, LockBulk, mmal_vc_send_message, QueueBulk, KeepSend
<1>d. ASSUME msgs' = msgs, b \in ctx PROVE snd.pc \in {"version", "bulklock", "queue"} /\ snd.buf = b
  BY <1>b, <1>c, <1>d DEF ContextInv, Gone
<1>1. CASE \E c \in home \ {Ev}, bulk \in BOOLEAN : mmal_vc_port_send(c, bulk)
  BY <1>d, <1>1 DEF mmal_vc_port_send
<1>2. CASE AllocContext
  <2>1. msgs' = msgs /\ snd.pc = "context"
    BY <1>2 DEF AllocContext
  <2>2. b \notin ctx
    BY <1>d, <2>1
  <2>3. ctx' = ctx \cup {snd.buf} /\ snd' = [snd EXCEPT !.pc = IF zerolen THEN "bulklock" ELSE "version"]
    BY <1>2, <2>2 DEF AllocContext, Sane
  <2> QED
    BY <1>a, <2>2, <2>3 DEF Threads
<1>3. CASE SendVersion
  BY <1>a, <1>d, <1>3 DEF SendVersion, Threads
<1>4. CASE LockBulk
  BY <1>a, <1>d, <1>4 DEF LockBulk, Threads
<1>5. CASE mmal_vc_send_message
  <2>1. CASE msgs' = msgs
    <3>1. b \in ctx => snd.buf = b
      BY <1>d, <2>1
    <3>2. ctx' = ctx \ {snd.buf}
      <4>1. msgs' # Append(msgs, Message("S", "buffer", snd.buf, snd.bulk))
        <5> PICK m : m = Message("S", "buffer", snd.buf, snd.bulk)
          OBVIOUS
        <5>1. Len(Append(msgs, m)) = Len(msgs) + 1 /\ Len(msgs) \in Nat
          BY <1>a
        <5> QED
          BY <2>1, <5>1
      <4> QED
        BY <1>5, <4>1 DEF mmal_vc_send_message
    <3> QED
      BY <3>1, <3>2
  <2>2. ASSUME NEW m \in Buf, msgs' = Append(msgs, m), m.w = 0, m.buf = snd.buf PROVE FALSE
    <3>1. m \in MessageOf
      BY DEF Buf
    <3>2. NoneOf(msgs, Of(b)) /\ m \notin Of(b)
      BY <1>a, <1>b, <2>2, <3>1, NoneMore
    <3>3. snd.buf # b
      BY <2>2, <3>1, <3>2 DEF Of, Back
    <3>4. b \in ctx
      BY <1>5 DEF mmal_vc_send_message
    <3> QED
      BY <1>b, <1>c, <3>2, <3>3, <3>4 DEF ContextInv, Gone
  <2> QED
    BY <1>a, <1>5, <2>1, <2>2, NewMessages
<1>6. CASE QueueBulk
  BY <1>d, <1>6 DEF QueueBulk
<1> QED
  BY <1>1, <1>2, <1>3, <1>4, <1>5, <1>6 DEF Send

\* A context is that of a buffer on its way.
LEMMA ContextInvStep ==
    ASSUME RepliesInv, RepliesInv', ContextInv, Next
    PROVE  ContextInv'
<1> SUFFICES ASSUME Sane', NEW b \in ctx', Gone(b)'
             PROVE  snd'.pc \in {"version", "bulklock", "queue"} /\ snd'.buf = b
  BY DEF ContextInv
<1>a. b \in Buffers /\ Sane /\ msgs \in Seq(MessageOf)
  BY DEF RepliesInv, PlainInv, Holders, Next, QueueTypes
<1>b. WaiterTypes /\ WaitInv /\ AskInv /\ Threads
  BY DEF RepliesInv, PlainInv
<1>1. ASSUME snd' = snd, b \in ctx, Gone(b) PROVE snd'.pc \in {"version", "bulklock", "queue"} /\ snd'.buf = b
  BY <1>a, <1>1 DEF ContextInv
<1>2. ASSUME UNCHANGED <<ctx, msgs, held, arr, rx, bulkRx>> PROVE b \in ctx /\ Gone(b)
  BY <1>2 DEF Gone
<1>3. CASE UNCHANGED <<snd, home, cbq, ctx, msgs, bulks, held, arr, rx, bulkRx>>
  BY <1>1, <1>2, <1>3
<1>4. ASSUME NEW t \in Asker, QueueMessage(t)
      PROVE snd'.pc \in {"version", "bulklock", "queue"} /\ snd'.buf = b
  <2>1. UNCHANGED <<snd, ctx, held, arr, rx, bulkRx>>
    BY <1>4 DEF QueueMessage, AskUnchanged, bufVars, portVars
  <2>2. ASSUME NEW m \in MessageOf \ Buf, msgs' = Append(msgs, m) PROVE NoneOf(msgs, Of(b))
    <3>1. NoneOf(Append(msgs, m), Of(b))
      BY <2>2 DEF Gone
    <3> QED
      BY <1>a, <3>1, NoneMore
  <2>3. NoneOf(msgs, Of(b))
    <3>1. NoneOf(msgs', Of(b))
      BY DEF Gone
    <3> QED
      BY <1>b, <1>4, <2>2, <3>1, NewMessages
  <2>4. Gone(b) /\ b \in ctx
    BY <2>1, <2>3 DEF Gone
  <2> QED
    BY <1>1, <2>1, <2>4
<1>5. ASSUME NEW t \in Asker, QueueDummy(t)
      PROVE snd'.pc \in {"version", "bulklock", "queue"} /\ snd'.buf = b
  BY <1>1, <1>2, <1>5 DEF QueueDummy, AskUnchanged, bufVars, portVars
<1>6. CASE Drain
  BY <1>1, <1>2, <1>6 DEF Drain, portVars, KeepPort, vcVars
<1>7. CASE Send
  BY <1>a, <1>7, ContextSend
<1>8. CASE Server
  <2>1. UNCHANGED <<snd, ctx>>
    BY <1>8 DEF Server, ServerTakes, DataArrives, ServerReturns, ServerEvent, KeepServer, bufVars, portVars
  <2> QED
    BY <1>1, <1>a, <1>8, <2>1, GoneServer
<1>9. CASE mmal_vc_vchiq_callback
  <2>1. snd' = snd
    BY <1>9 DEF mmal_vc_vchiq_callback, WakeWaiter, BufferToHost, mmal_vc_handle_event_msg, BulkReceived, KeepClient
  <2> QED
    BY <1>1, <1>a, <1>9, <2>1, GoneHost
<1>10. CASE mmal_vc_do_callback
  BY <1>1, <1>2, <1>10 DEF mmal_vc_do_callback, portVars, vcVars
<1> QED
  BY <1>3, <1>4, <1>5, <1>6, <1>7, <1>8, <1>9, <1>10, BufferEffects

-----------------------------------------------------------------------------
(* A disable has all buffers back.                                          *)

\* A port goes down when C turns it off.
LEMMA DownEnters ==
    ASSUME TodoInv, Threads, Next, Down'
    PROVE  Down \/ (PortStep /\ Is("C", "off"))
<1>a. todo \in [{"C", "Q"} -> Seq(StepNames)]
  BY DEF TodoInv
<1>b. ASSUME NEW s, Continue("C", s) PROVE todo'["C"] = s
  BY <1>a, <1>b DEF Continue
<1> PICK k \in DOMAIN todo'["C"] : todo'["C"][k] = "drop"
  BY DEF Down
<1>c. up'["C"] /\ ~Is("C", "off")'
  BY DEF Down
<1>1. CASE todo'["C"] = todo["C"] /\ up'["C"] = up["C"]
  BY <1>1, <1>c DEF Down, Is
<1>2. CASE Component("C")
  <2>1. todo'["C"] # <<>>
    OBVIOUS
  <2> QED
    BY <1>1, <1>2, <1>c, <2>1, ComponentC
<1>3. CASE OtherRequest
  BY <1>a, <1>1, <1>3 DEF OtherRequest, Begin, Continue
<1>4. CASE Port
  <2>a. up' = up
    BY <1>4, PortTodo
  <2>1. CASE todo'["C"] = <<>>
    BY <2>1
  <2>2. ASSUME todo'["C"] # <<>>, Head(todo'["C"]) = "off" \/ \A j \in DOMAIN todo'["C"] : todo'["C"][j] # "drop"
        PROVE  FALSE
    BY <1>c, <2>2 DEF Is
  <2>3. ASSUME todo'["C"] = Tail(todo["C"]), NEW x \in PortSteps, Is("C", x)
        PROVE  Down \/ (PortStep /\ Is("C", "off"))
    <3>1. todo["C"] # <<>> /\ Head(todo["C"]) = x /\ todo["C"] \in Seq(StepNames)
      BY <1>a, <2>3 DEF Is
    <3>2. \E j \in DOMAIN todo["C"] : todo["C"][j] = "drop"
      <4> DEFINE s == todo["C"]
                 r == Tail(s)
                 n == Len(s)
      <4>1. n \in Nat \ {0} /\ DOMAIN s = 1..n /\ DOMAIN r = 1..(n - 1)
        BY <3>1
      <4>2. \A j \in 1..(n - 1) : r[j] = s[j + 1] /\ j + 1 \in 1..n
        BY <3>1
      <4>3. r = todo'["C"]
        BY <2>3
      <4> HIDE DEF s, r, n
      <4> QED
        BY <4>1, <4>2, <4>3 DEF s
    <3>3. CASE Is("C", "off")
      BY <1>4, <3>3, <2>3 DEF Port, mmal_vc_port_enable, mmal_vc_port_disable, mmal_port_flush,
         mmal_vc_port_connect, mmal_vc_port_flush, StartPort, PortIdle, CreatePool, DropPool, Drain,
         PortRequest, EnableAnswered, DisableAnswered, VersionKnown, Flushed, Connected, Is
    <3>4. CASE ~Is("C", "off")
      <4>1. up["C"]
        BY <1>c, <2>a
      <4> QED
        BY <3>2, <3>4, <4>1 DEF Down
    <3> QED
      BY <3>3, <3>4
  <2>4. ASSUME NEW x \in {"flush", "sync", "version"}, Continue("C", <<x, "unflush">>) PROVE FALSE
    <3>1. todo'["C"] = <<x, "unflush">>
      BY <1>b, <2>4
    <3>2. \A j \in DOMAIN <<x, "unflush">> : <<x, "unflush">>[j] # "drop"
      OBVIOUS
    <3> QED
      BY <3>1, <3>2
  <2>5. ASSUME NEW x \in {"unflush", "failed"}, Continue("C", <<x>>) PROVE FALSE
    <3>1. todo'["C"] = <<x>>
      BY <1>b, <2>5
    <3>2. \A j \in DOMAIN <<x>> : <<x>>[j] # "drop"
      OBVIOUS
    <3> QED
      BY <3>1, <3>2
  <2>6. ~mmal_vc_port_flush /\ ~VersionKnown /\ ~Flushed
    BY <2>4, <2>5 DEF mmal_vc_port_flush, VersionKnown, Flushed
  <2>7. CASE DisableAnswered
    BY <2>7, AtDisable DEF DisableAnswered
  <2> QED
    BY <1>1, <1>4, <2>a, <2>1, <2>2, <2>3, <2>6, <2>7, PortTurns
<1> QED
  BY <1>1, <1>2, <1>3, <1>4, ComponentQ, CallEffects

\* A port that is down is not enabled, and nothing is sent.
LEMMA DownStep ==
    ASSUME DisableInv, LockInv, TodoInv, Threads, Next, Down'
    PROVE  ~en' /\ snd'.pc = "none"
<1>a. todo \in [{"C", "Q"} -> Seq(StepNames)] /\ (Down => ~en /\ snd.pc = "none")
  BY DEF TodoInv, DisableInv
<1>1. CASE PortStep /\ Is("C", "off")
  <2>1. ~en' /\ slock = Nobody /\ snd' = snd
    BY <1>1 DEF PortStep, Is, bufVars
  <2> QED
    BY <2>1 DEF LockInv, SendLocked, Nobody, Threads
<1>2. CASE Down
  <2>1. ~Send
    BY <1>a, <1>2 DEF Send, mmal_vc_port_send, AllocContext, SendVersion, LockBulk,
       mmal_vc_send_message, QueueBulk
  <2>2. ASSUME PortStep, en' # en PROVE FALSE
    <3>1. Is("C", "on") \/ Is("C", "off")
      BY <2>2 DEF PortStep
    <3>2. Is("C", "on")
      BY <1>2, <3>1 DEF Down
    <3>3. PortShaped(todo["C"]) /\ todo["C"] # <<>> /\ Head(todo["C"]) = "on"
      BY <3>2, <1>2 DEF Is, TodoInv, Down
    <3>4. todo'["C"] = <<>>
      BY <1>a, <2>2, <3>3, NextStep DEF PortStep, Step, Continue
    <3> QED
      BY <3>4 DEF Down
  <2>3. en' = en \/ PortStep
    <3> USE DEF portVars
    <3>1. ASSUME NEW t \in Asker, mmal_vc_sendwait_message(t) PROVE en' = en
      BY <3>1 DEF mmal_vc_sendwait_message, get_waiter, WaitReply, release_waiter, QueueMessage,
                  QueueDummy, AskUnchanged
    <3>2. ASSUME NEW t \in {"C", "Q"}, Component(t) PROVE en' = en
      BY <3>2 DEF Component, mmal_vc_component_create, mmal_vc_component_destroy, mmal_vc_use,
           mmal_vc_release, mmal_vc_deinit, AllocComponent, Begin, Request, Created, mmal_vc_init,
           Ignored, mmal_vc_port_info_get, PortUnchanged
    <3>3. CASE OtherRequest
      BY <3>3 DEF OtherRequest, Begin, PortUnchanged
    <3>4. CASE Port
      BY <3>4 DEF Port, mmal_vc_port_enable, mmal_vc_port_disable, mmal_port_flush,
           mmal_vc_port_connect, mmal_vc_port_flush, StartPort, CreatePool, DropPool, Drain,
           KeepPort, PortRequest, EnableAnswered, DisableAnswered, VersionKnown, Flushed, Connected
    <3>5. CASE Server
      BY <3>5 DEF Server, ServerTakes, DataArrives, ServerReturns, ServerEvent, KeepServer
    <3>6. CASE mmal_vc_vchiq_callback \/ mmal_vc_do_callback
      BY <3>6 DEF mmal_vc_vchiq_callback, mmal_vc_do_callback, WakeWaiter, BufferToHost,
                  mmal_vc_handle_event_msg, BulkReceived, KeepClient
    <3> QED
      BY <2>1, <3>1, <3>2, <3>3, <3>4, <3>5, <3>6 DEF Next
  <2> QED
    BY <1>a, <1>2, <2>1, <2>2, <2>3, LockEffects
<1> QED
  BY <1>1, <1>2, DownEnters

\* What the server answers is no buffer.
LEMMA Replies ==
    ASSUME RepliesInv, ServerTakes \/ DataArrives
    PROVE  rx' = rx \/ \E n \in MessageOf : rx' = Append(rx, n) /\ n.w # 0 /\ n.id # "bulk"
<1>a. /\ MessageInv /\ msgs \in Seq(MessageOf) /\ arr \in Seq(MessageOf)
  BY DEF RepliesInv, QueueTypes
<1>1. ASSUME NEW m \in MessageOf, Reply(m), m.w # 0, m.id # "bulk"
      PROVE  \E n \in MessageOf : rx' = Append(rx, n) /\ n.w # 0 /\ n.id # "bulk"
  <2> PICK n : n = [m EXCEPT !.ok = FALSE]
    OBVIOUS
  <2>1. n \in MessageOf /\ n.w = m.w /\ n.id = m.id
    BY DEF MessageOf
  <2>2. rx' = Append(rx, m) \/ rx' = Append(rx, n)
    BY <1>1 DEF Reply
  <2> QED
    BY <1>1, <2>1, <2>2
<1>2. ASSUME NEW m \in MessageOf, RightRequest(m), m.w # 0, RepliesInv PROVE m.id # "bulk"
  <2>1. ask[m.from] \in AskOf /\ ask[m.from].msg = m.id
    BY <1>2 DEF RepliesInv, WaiterTypes, RightRequest, MessageOf
  <2> QED
    BY <2>1 DEF AskOf, RequestNames
<1>3. CASE ServerTakes
  <2> PICK m : m = Head(msgs)
    OBVIOUS
  <2>1. msgs # <<>> /\ m \in MessageOf /\ m = msgs[1] /\ 1 \in DOMAIN msgs
    BY <1>a, <1>3 DEF ServerTakes
  <2>2. rx' = rx \/ (m.id # "buffer" /\ Reply(m))
    BY <1>3 DEF ServerTakes
  <2>3. m.id # "buffer" => RightRequest(m) /\ m.w # 0
    BY <1>a, <2>1 DEF MessageInv
  <2> QED
    BY <1>1, <1>2, <2>1, <2>2, <2>3
<1>4. CASE DataArrives
  <2> PICK m : m = Head(arr)
    OBVIOUS
  <2>1. arr # <<>> /\ m \in MessageOf /\ m = arr[1] /\ 1 \in DOMAIN arr
    BY <1>a, <1>4 DEF DataArrives
  <2>2. rx' = rx \/ (m.id = "sync" /\ Reply(m))
    BY <1>4 DEF DataArrives
  <2>3. m.id = "sync" => RightRequest(m) /\ m.w # 0
    BY <1>a, <2>1 DEF MessageInv
  <2> QED
    BY <1>1, <1>2, <2>1, <2>2, <2>3
<1> QED
  BY <1>3, <1>4

\* What the server has given back it does not get again before the port is on.
LEMMA ReturnedKept ==
    ASSUME Returned, RepliesInv, snd.pc = "none", ~en, Next
    PROVE  Returned'
<1> DEFINE Data == {m \in MessageOf : m.id = "bulk"}
<1>a. rx \in Seq(MessageOf) /\ NoneOf(rx, Data) /\ bulkRx = <<>> /\ held = {}
  BY DEF Returned, ServerEmpty, RepliesInv, QueueTypes
<1> HIDE DEF Data
<1>1. ServerEmpty'
  BY EmptyKept DEF Returned, RepliesInv, PlainInv
<1>b. ~ServerEvent /\ ~ServerReturns
  BY <1>a DEF ServerEvent, ServerReturns
<1>2. NoneOf(rx', Data)
  <2>1. CASE ServerTakes \/ DataArrives
    <3>1. ASSUME NEW n \in MessageOf, rx' = Append(rx, n), n.id # "bulk" PROVE NoneOf(rx', Data)
      <4>1. n \notin Data
        BY <3>1 DEF Data
      <4> QED
        BY <1>a, <3>1, <4>1, NoneMore
    <3> QED
      BY <1>a, <2>1, <3>1, Replies
  <2>2. CASE rx # <<>> /\ rx' = Tail(rx)
    BY <1>a, <2>2, NoneRest
  <2> QED
    BY <1>a, <1>b, <2>1, <2>2, MessageEffects
<1>3. bulkRx' = <<>>
  <2>1. CASE Server
    BY <1>a, <2>1 DEF Server, ServerTakes, DataArrives, ServerReturns, ServerEvent
  <2>2. CASE WakeWaiter \/ BulkReceived
    BY <1>a, <2>2 DEF WakeWaiter, BulkReceived
  <2>3. CASE BufferToHost \/ mmal_vc_handle_event_msg
    <3>1. rx # <<>>
      BY <2>3 DEF BufferToHost, mmal_vc_handle_event_msg
    <3>2. Head(rx).id # "bulk"
      <4>1. Head(rx) \notin Data /\ Head(rx) \in MessageOf
        BY <1>a, <3>1, NoneRest
      <4> QED
        BY <4>1 DEF Data
    <3> QED
      BY <1>a, <2>3, <3>2 DEF BufferToHost, mmal_vc_handle_event_msg
  <2>4. CASE Drain \/ mmal_vc_do_callback
    BY <1>a, <2>4 DEF Drain, mmal_vc_do_callback, KeepPort, vcVars
  <2>5. CASE Send
    BY <1>a, <2>5 DEF Send, mmal_vc_port_send, AllocContext, SendVersion, LockBulk,
       mmal_vc_send_message, QueueBulk, KeepSend
  <2>6. CASE \E t \in Asker : QueueMessage(t) \/ QueueDummy(t)
    BY <1>a, <2>6 DEF QueueMessage, QueueDummy
  <2> QED
    BY <1>a, <2>1, <2>2, <2>3, <2>4, <2>5, <2>6, BufferEffects DEF mmal_vc_vchiq_callback
<1> QED
  BY <1>1, <1>2, <1>3 DEF Returned, NoneOf, Data

\* The server consents to a disable when it has given back everything.
LEMMA DisableConsent ==
    ASSUME RepliesInv, BehindInv, Next, NEW m \in OfC, Cleared(m), Is("C", "disable"),
           m.id = ask["C"].msg, ask["C"].pc # "none", rx' = Append(rx, m),
           \/ ServerTakes /\ msgs # <<>> /\ m = Head(msgs) /\ m.id # "sync"
           \/ DataArrives /\ arr # <<>> /\ m = Head(arr) /\ m.id = "sync"
    PROVE  Returned'
<1>a. /\ AskInv /\ msgs \in Seq(MessageOf) /\ arr \in Seq(MessageOf) /\ rx \in Seq(MessageOf)
      /\ m.from = "C" /\ m \in MessageOf
  BY DEF RepliesInv, QueueTypes, OfC
<1>b. m.id = "disable"
  BY <1>a DEF AskInv, Is
<1>1. ServerTakes /\ msgs # <<>> /\ m = Head(msgs)
  BY <1>b
<1>2. held = {} /\ arr = <<>> /\ bulkRx = <<>> /\ \A i \in DOMAIN rx : rx[i].id # "bulk"
  BY <1>b DEF Cleared
<1>3. ~m.bulk
  <2>1. RightRequest(m) /\ m.w # 0
    BY <1>a, <1>1 DEF RepliesInv, MessageInv, OfC
  <2> QED
    BY <1>b, <2>1 DEF RightRequest
<1>4. msgs' = Tail(msgs) /\ held' = {} /\ arr' = <<>> /\ bulkRx' = <<>>
  BY <1>1, <1>2, <1>3, <1>b DEF ServerTakes
<1>5. NoneOf(msgs', Buf)
  <2>1. NoneAfter(msgs, OfC, Buf)
    BY <1>b DEF BehindInv
  <2> QED
    BY <1>a, <1>1, <1>4, <2>1, AfterRest
<1>6. NoneOf(rx', {n \in MessageOf : n.id = "bulk"})
  <2> DEFINE Data == {n \in MessageOf : n.id = "bulk"}
  <2>1. NoneOf(rx, Data) /\ m \notin Data
    BY <1>2, <1>b DEF NoneOf
  <2> HIDE DEF Data
  <2>2. NoneOf(rx', Data)
    BY <1>a, <2>1, NoneMore
  <2> QED
    BY <2>2 DEF Data
<1>7. NoneOf(arr', Buf)
  BY <1>4 DEF NoneOf
<1> QED
  BY <1>4, <1>5, <1>6, <1>7 DEF Returned, ServerEmpty, NoneOf

\* Everything is given back before the answer to a disable.
LEMMA DisableOrder ==
    ASSUME DisableInv, BehindInv, LockInv, RepliesInv, RepliesInv', Next, Is("C", "disable")'
    PROVE  NoneAfter(rx, OkC, Back)' /\ (NoneOf(rx, OkC)' \/ Returned')
<1>a. /\ Threads /\ QueueTypes /\ WaiterTypes /\ AskInv /\ WaitInv /\ MessageInv /\ TodoInv
      /\ rx \in Seq(MessageOf)
  BY DEF RepliesInv, PlainInv, QueueTypes
<1>1. CASE todo'["C"] # todo["C"]
  <2>1. ask'["C"].pc = "none"
    BY <1>a, <1>1, TurnIdle
  <2>2. QueueTypes' /\ WaiterTypes' /\ MessageInv' /\ AskInv' /\ (~Out("C"))'
    BY <2>1 DEF RepliesInv, Out
  <2>3. NoneOf(rx, OkC)'
    BY <2>2, NothingOfC
  <2> QED
    BY <2>3 DEF NoneOf, NoneAfter
<1>2. CASE todo'["C"] = todo["C"]
  <2>1. Is("C", "disable") /\ snd.pc = "none" /\ ~en
    BY <1>a, <1>2, AtDisable DEF Is, DisableInv
  <2>2. NoneAfter(rx, OkC, Back) /\ (NoneOf(rx, OkC) \/ Returned)
    BY <2>1 DEF DisableInv
  <2>3. Returned => Returned'
    BY <2>1, ReturnedKept
  <2>4. NoneOf(rx, OkC) => NoneOf(rx, OkC)' \/ Returned'
    <3> SUFFICES ASSUME NoneOf(rx, OkC), ~NoneOf(rx, OkC)' PROVE Returned'
      OBVIOUS
    <3> PICK m \in OfC : /\ Cleared(m) /\ m.id = ask["C"].msg /\ rx' = Append(rx, m)
                         /\ \/ ServerTakes /\ msgs # <<>> /\ m = Head(msgs) /\ m.id # "sync"
                            \/ DataArrives /\ arr # <<>> /\ m = Head(arr) /\ m.id = "sync"
      BY ConsentStep
    <3>1. ask["C"].pc # "none"
      <4>1. RightRequest(m) /\ m.w # 0 /\ m.from = "C"
        BY <1>a DEF MessageInv, OfC, QueueTypes
      <4> QED
        BY <4>1 DEF RightRequest, Out
    <3> QED
      BY <2>1, <3>1, DisableConsent
  <2>5. NoneAfter(rx', OkC, Back)
    <3>1. CASE ServerTakes \/ DataArrives
      <4>1. ASSUME NEW n \in MessageOf, rx' = Append(rx, n), n.w # 0 PROVE NoneAfter(rx', OkC, Back)
        <5>1. n \notin Back
          BY <4>1 DEF Back
        <5> QED
          BY <1>a, <2>2, <4>1, <5>1, AfterMore
      <4> QED
        BY <2>2, <3>1, <4>1, Replies
    <3>2. CASE ServerReturns
      <4> PICK b \in held, how \in {"plain", "bulk", "short"} :
             rx' = Append(rx, [Message("S", how, b, FALSE) EXCEPT !.w = 0])
        BY <3>2 DEF ServerReturns
      <4> PICK n : n = [Message("S", how, b, FALSE) EXCEPT !.w = 0]
        OBVIOUS
      <4>1. b \in Buffers
        BY <1>a DEF QueueTypes
      <4>2. n \in MessageOf
        BY <1>a, <4>1, MessageType DEF MessageNames, Asker
      <4>3. NoneOf(rx, OkC)
        BY <2>2 DEF Returned, ServerEmpty
      <4> QED
        BY <1>a, <2>2, <4>2, <4>3, AfterMore
    <3>3. ~ServerEvent
      BY <2>1 DEF ServerEvent
    <3>4. CASE rx # <<>> /\ rx' = Tail(rx)
      BY <1>a, <2>2, <3>4, AfterRest
    <3> QED
      BY <2>2, <3>1, <3>2, <3>3, <3>4, MessageEffects
  <2>6. NoneAfter(rx, OkC, Back)'
    BY <2>5 DEF NoneAfter
  <2> QED
    BY <2>2, <2>3, <2>4, <2>6
<1> QED
  BY <1>1, <1>2

\* While nothing is sent no buffer gets a context.
LEMMA ContextsLess ==
    ASSUME snd.pc = "none", Next
    PROVE  ctx' \subseteq ctx
<1>1. CASE Send
  BY <1>1 DEF Send, mmal_vc_port_send, AllocContext, SendVersion, LockBulk, mmal_vc_send_message, QueueBulk
<1>2. CASE Server \/ mmal_vc_do_callback
  BY <1>2 DEF Server, ServerTakes, DataArrives, ServerReturns, ServerEvent, KeepServer, portVars, mmal_vc_do_callback
<1>3. CASE mmal_vc_vchiq_callback
  BY <1>3 DEF mmal_vc_vchiq_callback, WakeWaiter, BufferToHost, mmal_vc_handle_event_msg, BulkReceived, Queue
<1>4. CASE Drain
  BY <1>4 DEF Drain, portVars
<1>5. CASE \E t \in Asker : QueueMessage(t) \/ QueueDummy(t)
  BY <1>5 DEF QueueMessage, QueueDummy, AskUnchanged, portVars
<1> QED
  BY <1>1, <1>2, <1>3, <1>4, <1>5, BufferEffects

\* When C's waiter gets the consent to a disable no buffer has a context any more.
LEMMA ContextsBack ==
    ASSUME DisableInv, ContextInv, RepliesInv, Sane, Is("C", "disable"), rx # <<>>, Head(rx) \in OkC
    PROVE  ctx = {}
<1>a. /\ Threads /\ TodoInv /\ MessageInv
      /\ rx \in Seq(MessageOf) /\ msgs \in Seq(MessageOf) /\ arr \in Seq(MessageOf)
  BY DEF RepliesInv, PlainInv, QueueTypes
<1>1. snd.pc = "none"
  BY <1>a, AtDisable DEF DisableInv
<1>2. Returned
  BY <1>a, NoneRest DEF DisableInv
<1>3. NoneOf(Tail(rx), Back)
  BY <1>a, AfterRest DEF DisableInv
<1>4. ASSUME NEW b \in ctx PROVE FALSE
  <2>1. ~Gone(b)
    BY <1>1, <1>4 DEF ContextInv
  <2>2. NoneOf(msgs, Of(b))
    BY <1>a, <1>2 DEF Returned, ServerEmpty, NoneOf, Of, Back, Buf, MessageInv
  <2>3. NoneOf(arr, Of(b))
    BY <1>a, <1>2 DEF Returned, ServerEmpty, NoneOf, Of, Back, Buf, MessageInv
  <2>4. NoneOf(rx, Of(b))
    <3>1. Head(rx) \notin Of(b)
      BY DEF OkC, OfC, Of, Back
    <3>2. NoneOf(Tail(rx), Of(b))
      BY <1>3 DEF NoneOf, Of
    <3> QED
      BY <1>a, <3>1, <3>2, NoneRest
  <2>5. b \notin held /\ NoneOf(bulkRx, {b})
    BY <1>2 DEF Returned, ServerEmpty, NoneOf
  <2> QED
    BY <2>1, <2>2, <2>3, <2>4, <2>5 DEF Gone
<1> QED
  BY <1>4

\* The consent to a disable, and the deletion of the pool, find no context in use.
LEMMA NoContextStep ==
    ASSUME DisableInv, ContextInv, BehindInv, LockInv, RepliesInv, RepliesInv', Next
    PROVE  /\ Is("C", "disable")' /\ Accepted' => ctx' = {}
           /\ Is("C", "drop")' /\ nfail' = 0 => ctx' = {}
<1>a. Counts /\ Threads /\ WaiterTypes /\ AskInv /\ WaitInv /\ MessageInv /\ TodoInv /\ Sane
  BY DEF RepliesInv, PlainInv, Next
<1>b. ASSUME NEW x \in {"disable", "drop"}, Is("C", x), ctx = {} PROVE ctx' = {}
  BY <1>a, <1>b, AtDisable, ContextsLess DEF DisableInv
<1>1. ASSUME Is("C", "disable")', Accepted' PROVE ctx' = {}
  <2>1. CASE todo'["C"] # todo["C"]
    <3>1. ask'["C"].pc = "none"
      BY <1>a, <2>1, TurnIdle
    <3>2. QueueTypes' /\ WaiterTypes' /\ MessageInv' /\ AskInv' /\ (~Out("C"))'
      BY <3>1 DEF RepliesInv, Out
    <3>3. ask'["C"].reply = NoReply
      BY <3>1, <3>2 DEF AskInv, Asker
    <3> QED
      BY <1>1, <3>2, <3>3, NothingOfC DEF Accepted, NoReply
  <2>2. CASE todo'["C"] = todo["C"]
    <3>1. Is("C", "disable")
      BY <1>1, <2>2 DEF Is
    <3>2. Accepted => ctx = {}
      BY <3>1 DEF DisableInv
    <3>3. rx # <<>> /\ Head(rx) \in OkC => ctx = {}
      BY <1>a, <3>1, ContextsBack
    <3> QED
      BY <1>1, <1>b, <3>1, <3>2, <3>3, AcceptedStep
  <2> QED
    BY <2>1, <2>2
<1>2. ASSUME Is("C", "drop")', nfail' = 0 PROVE ctx' = {}
  <2>1. nfail = 0
    BY <1>a, <1>2, PromiseKept
  <2>2. CASE todo'["C"] = todo["C"]
    <3>1. Is("C", "drop")
      BY <1>2, <2>2 DEF Is
    <3> QED
      BY <1>b, <2>1, <3>1 DEF DisableInv
  <2>3. CASE DisableAnswered
    <3>1. Is("C", "disable") /\ ask["C"].pc = "done"
      BY <2>3 DEF DisableAnswered, Answered
    <3>2. ask["C"].reply.ok
      BY <1>a, <2>1, <3>1 DEF MessageInv, Asker
    <3> QED
      BY <1>b, <3>1, <3>2 DEF DisableInv, Accepted
  <2> QED
    BY <1>2, <1>a, <2>2, <2>3, Enters
<1> QED
  BY <1>1, <1>2

\* The pool is deleted twice, or used when deleted, only after a failure.
LEMMA PoolStep ==
    ASSUME DisableInv, RepliesInv, Next
    PROVE  (pool = "stale" => nfail > 0)' /\ (broken = "pool" => nfail > 0)'
<1>a. Counts /\ MessageInv /\ (pool = "stale" => nfail > 0) /\ (broken = "pool" => nfail > 0)
  BY DEF RepliesInv, PlainInv, DisableInv
<1>b. nfail > 0 => nfail' > 0
  BY <1>a, PromiseKept
<1> SUFFICES ASSUME nfail = 0, pool # "stale", broken # "pool" PROVE pool' # "stale" /\ broken' # "pool"
  BY <1>a, <1>b DEF Counts
<1> USE DEF portVars
<1>1. ASSUME NEW t \in Asker, mmal_vc_sendwait_message(t) PROVE UNCHANGED <<pool, broken>>
  BY <1>1 DEF mmal_vc_sendwait_message, get_waiter, WaitReply, release_waiter, QueueMessage,
              QueueDummy, AskUnchanged
<1>2. ASSUME NEW t \in {"C", "Q"}, Component(t) PROVE UNCHANGED <<pool, broken>>
  BY <1>2 DEF Component, mmal_vc_component_create, mmal_vc_component_destroy, mmal_vc_use,
       mmal_vc_release, mmal_vc_deinit, AllocComponent, Begin, Request, Created, mmal_vc_init,
       Ignored, mmal_vc_port_info_get, PortUnchanged
<1>3. CASE OtherRequest
  BY <1>3 DEF OtherRequest, Begin, PortUnchanged
<1>4. CASE EnableAnswered
  <2>1. Good("C")
    BY <1>a, <1>4 DEF EnableAnswered, Answered, Good, MessageInv, Asker
  <2> QED
    BY <1>4, <2>1 DEF EnableAnswered
<1>5. CASE DropPool
  <2>1. ctx = {}
    BY <1>5 DEF DropPool, DisableInv
  <2> QED
    BY <1>5, <2>1 DEF DropPool
<1>6. CASE Port /\ ~EnableAnswered /\ ~DropPool
  BY <1>6 DEF Port, mmal_vc_port_enable, mmal_vc_port_disable, mmal_port_flush,
       mmal_vc_port_connect, mmal_vc_port_flush, StartPort, CreatePool, PortStep, Drain,
       KeepPort, PortRequest, DisableAnswered, VersionKnown, Flushed, Connected
<1>7. CASE Send
  BY <1>7 DEF Send, KeepSend, mmal_vc_port_send, AllocContext, SendVersion, LockBulk,
       mmal_vc_send_message, QueueBulk
<1>8. CASE Server \/ mmal_vc_do_callback
  BY <1>8 DEF Server, ServerTakes, DataArrives, ServerReturns, ServerEvent, KeepServer, mmal_vc_do_callback
<1>9. CASE mmal_vc_vchiq_callback
  BY <1>9 DEF mmal_vc_vchiq_callback, WakeWaiter, BufferToHost,
              mmal_vc_handle_event_msg, BulkReceived, KeepClient
<1> QED
  BY <1>1, <1>2, <1>3, <1>4, <1>5, <1>6, <1>7, <1>8, <1>9 DEF Next

\* A disable has all buffers back.
LEMMA DisableInvStep ==
    ASSUME DisableInv, ContextInv, BehindInv, LockInv, RepliesInv, RepliesInv', Next
    PROVE  DisableInv'
<1>a. Threads /\ TodoInv
  BY DEF RepliesInv, PlainInv
<1>1. (Down => ~en /\ snd.pc = "none")'
  BY <1>a, DownStep
<1>2. (Is("C", "disable") => NoneAfter(rx, OkC, Back) /\ (NoneOf(rx, OkC) \/ Returned))'
  BY DisableOrder
<1> QED
  BY <1>1, <1>2, NoContextStep, PoolStep DEF DisableInv

-----------------------------------------------------------------------------
(* Messages and their data.                                                 *)

\* How many of the first k messages announce data.
Bulks(q, k) == {j \in 1..k : q[j].bulk}
Rank(q, k)  == Cardinality(Bulks(q, k))

\* That is a number, and it grows by one with each message that does.
LEMMA RankNext ==
    ASSUME NEW q, NEW k \in Nat
    PROVE  /\ IsFiniteSet(Bulks(q, k)) /\ Rank(q, k) \in Nat /\ Rank(q, 0) = 0
           /\ Rank(q, k + 1) = Rank(q, k) + One(q[k + 1].bulk)
<1>1. \A n \in Nat : IsFiniteSet(Bulks(q, n))
  <2> SUFFICES ASSUME NEW n \in Nat PROVE IsFiniteSet(Bulks(q, n))
    OBVIOUS
  <2>1. IsFiniteSet(1..n)
    BY FS_Interval
  <2>2. Bulks(q, n) \in SUBSET (1..n)
    BY DEF Bulks
  <2> QED
    BY <2>1, <2>2, FS_Subset
<1>2. Rank(q, k) \in Nat
  BY <1>1, FS_CardinalityType DEF Rank
<1>3. Rank(q, 0) = 0
  <2>1. Bulks(q, 0) = {}
    BY DEF Bulks
  <2> QED
    BY <2>1, FS_EmptySet DEF Rank
<1>4. CASE q[k + 1].bulk
  <2>1. Bulks(q, k + 1) = Bulks(q, k) \cup {k + 1}
    BY <1>4 DEF Bulks
  <2>2. k + 1 \notin Bulks(q, k)
    BY DEF Bulks
  <2>3. Cardinality(Bulks(q, k) \cup {k + 1}) = Cardinality(Bulks(q, k)) + 1
    BY <1>1, <2>2, FS_AddElement
  <2> QED
    BY <1>1, <1>2, <1>3, <1>4, <2>1, <2>3 DEF Rank, One
<1>5. CASE ~q[k + 1].bulk
  <2>1. Bulks(q, k + 1) = Bulks(q, k)
    BY <1>5 DEF Bulks
  <2> QED
    BY <1>1, <1>2, <1>3, <1>5, <2>1 DEF Rank, One
<1> QED
  BY <1>4, <1>5

\* It depends on these messages only.
LEMMA RankSame ==
    ASSUME NEW q, NEW r, NEW k \in Nat, \A j \in 1..k : r[j] = q[j]
    PROVE  Rank(r, k) = Rank(q, k)
<1>1. Bulks(r, k) = Bulks(q, k)
  BY DEF Bulks
<1> QED
  BY <1>1 DEF Rank

\* Without the first message the others have their ranks, less that of the first.
LEMMA RankRest ==
    ASSUME NEW S, NEW q \in Seq(S), q # <<>>, NEW k \in 0..(Len(q) - 1)
    PROVE  Rank(q, k + 1) = Rank(Tail(q), k) + One(Head(q).bulk)
<1> DEFINE n == Len(q)
           r == Tail(q)
           m == Head(q)
<1>1. n \in Nat \ {0} /\ m = q[1] /\ k \in 0..(n - 1)
  OBVIOUS
<1>2. \A j \in 1..(n - 1) : r[j] = q[j + 1]
  OBVIOUS
<1> HIDE DEF n, r, m
<1> DEFINE T == Bulks(r, k)
           U == {j \in 2..(k + 1) : q[j].bulk}
           f == [j \in T |-> j + 1]
<1>k. k \in Nat /\ \A j \in 1..k : j \in 1..(n - 1)
  BY <1>1
<1>3. \A j \in 1..k : r[j] = q[j + 1]
  BY <1>2, <1>k
<1>4. IsFiniteSet(T) /\ Rank(r, k) \in Nat
  BY <1>k, RankNext
<1>5. \A j \in T : j + 1 \in U
  <2> SUFFICES ASSUME NEW j \in T PROVE j + 1 \in U
    OBVIOUS
  <2>1. j \in 1..k /\ r[j].bulk
    BY DEF Bulks
  <2>2. q[j + 1].bulk
    BY <1>3, <2>1
  <2> QED
    BY <1>k, <2>1, <2>2
<1>6. \A i \in U : i - 1 \in T /\ (i - 1) + 1 = i
  <2> SUFFICES ASSUME NEW i \in U PROVE i - 1 \in T /\ (i - 1) + 1 = i
    OBVIOUS
  <2>1. i - 1 \in 1..k /\ (i - 1) + 1 = i
    BY <1>k
  <2>2. r[i - 1].bulk
    BY <1>3, <2>1
  <2> QED
    BY <2>1, <2>2 DEF Bulks
<1>7. \A i, j \in T : i + 1 = j + 1 => i = j
  BY <1>k DEF Bulks
<1> HIDE DEF T, U
<1>8. f \in Bijection(T, U)
  <2>1. f \in [T -> U]
    BY <1>5
  <2>2. f \in Surjection(T, U)
    BY <1>6, <2>1 DEF Surjection
  <2>3. f \in Injection(T, U)
    BY <1>7, <2>1 DEF Injection, IsInjective
  <2> QED
    BY <2>2, <2>3 DEF Bijection
<1>9. IsFiniteSet(U) /\ Cardinality(U) = Cardinality(T)
  BY <1>4, <1>8, FS_Bijection DEF ExistsBijection
<1>10. Cardinality(U) = Rank(r, k)
  BY <1>9 DEF T, Rank
<1>11. CASE m.bulk
  <2>1. Bulks(q, k + 1) = U \cup {1}
    BY <1>1, <1>k, <1>11 DEF Bulks, U
  <2>2. 1 \notin U
    BY <1>k DEF U
  <2>3. Cardinality(U \cup {1}) = Cardinality(U) + 1
    BY <1>9, <2>2, FS_AddElement
  <2> QED
    BY <1>4, <1>10, <1>11, <2>1, <2>3 DEF Rank, One, r, m
<1>12. CASE ~m.bulk
  <2>1. Bulks(q, k + 1) = U
    BY <1>1, <1>k, <1>12 DEF Bulks, U
  <2> QED
    BY <1>4, <1>10, <1>12, <2>1 DEF Rank, One, r, m
<1> QED
  BY <1>11, <1>12

\* More messages do not announce less, and one that announces data counts.
LEMMA RankUp ==
    ASSUME NEW q, NEW n \in Nat, NEW k \in 1..n
    PROVE  Rank(q, k) <= Rank(q, n) /\ (q[k].bulk => Rank(q, k) >= 1)
<1>k. k \in Nat /\ k - 1 \in Nat /\ (k - 1) + 1 = k
  OBVIOUS
<1>1. Rank(q, k) <= Rank(q, n)
  <2>1. IsFiniteSet(Bulks(q, n)) /\ Bulks(q, k) \in SUBSET Bulks(q, n)
    BY RankNext DEF Bulks
  <2> QED
    BY <2>1, FS_Subset DEF Rank
<1>2. ASSUME q[k].bulk PROVE Rank(q, k) >= 1
  <2> DEFINE i == k - 1
  <2>1. Rank(q, i) \in Nat /\ Rank(q, i + 1) = Rank(q, i) + One(q[i + 1].bulk)
    BY <1>k, RankNext
  <2>2. Rank(q, k) = Rank(q, i) + 1
    BY <1>2, <1>k, <2>1 DEF One
  <2> QED
    BY <2>1, <2>2
<1> QED
  BY <1>1, <1>2

\* BulkInv, of any queues.
Matched(a, q, l) ==
    /\ Len(a) + Rank(q, Len(q)) = Len(l)
    /\ \A k \in DOMAIN a : l[k] = Tag(a[k])
    /\ \A k \in DOMAIN q : q[k].bulk => l[Len(a) + Rank(q, k)] = Tag(q[k])

\* It stays so when a message is sent, and its data is put in line if it announces any,
LEMMA MatchedMore ==
    ASSUME NEW a \in Seq(MessageOf), NEW q \in Seq(MessageOf), NEW S, NEW l \in Seq(S),
           NEW m \in MessageOf, Tag(m) \in S, Matched(a, q, l)
    PROVE  Matched(a, Append(q, m), IF m.bulk THEN Append(l, Tag(m)) ELSE l)
<1> DEFINE r == Append(q, m)
           g == IF m.bulk THEN Append(l, Tag(m)) ELSE l
           n == Len(q)
           x == Len(a)
           y == Len(l)
           c == Rank(q, n)
<1>1. /\ n \in Nat /\ x \in Nat /\ y \in Nat /\ DOMAIN q = 1..n /\ DOMAIN r = 1..(n + 1) /\ Len(r) = n + 1
      /\ DOMAIN a = 1..x /\ r[n + 1] = m
  OBVIOUS
<1>2. \A k \in 1..n : r[k] = q[k]
  OBVIOUS
<1>3. Len(g) = y + One(m.bulk) /\ \A k \in 1..y : g[k] = l[k]
  <2>1. CASE m.bulk
    BY <2>1 DEF One
  <2>2. CASE ~m.bulk
    BY <2>2 DEF One
  <2> QED
    BY <2>1, <2>2
<1>4. m.bulk => g[y + 1] = Tag(m)
  OBVIOUS
<1>5. /\ x + c = y /\ \A k \in 1..x : l[k] = Tag(a[k])
      /\ \A k \in 1..n : q[k].bulk => l[x + Rank(q, k)] = Tag(q[k])
  BY <1>1 DEF Matched
<1> HIDE DEF r, g, n, x, y
<1>6. c \in Nat /\ \A k \in 1..n : Rank(r, k) = Rank(q, k) /\ Rank(q, k) \in Nat
  <2>1. ASSUME NEW k \in 1..n PROVE Rank(r, k) = Rank(q, k) /\ Rank(q, k) \in Nat
    <3>1. k \in Nat /\ \A j \in 1..k : j \in 1..n
      BY <1>1
    <3> QED
      BY <1>2, <3>1, RankSame, RankNext
  <2> QED
    BY <1>1, <2>1, RankNext
<1>7. Rank(r, n) = c
  <2>1. \A j \in 1..n : r[j] = q[j]
    BY <1>2
  <2> QED
    BY <1>1, <2>1, RankSame
<1>8. Rank(r, n + 1) = c + One(m.bulk)
  BY <1>1, <1>7, RankNext
<1>9. One(m.bulk) \in 0..1 /\ (m.bulk => One(m.bulk) = 1)
  BY DEF One
<1> DEFINE e == One(m.bulk)
<1> HIDE DEF c, e
<1>10. x + Rank(r, n + 1) = Len(g)
  BY <1>1, <1>3, <1>5, <1>6, <1>8, <1>9 DEF e
<1>11. ASSUME NEW k \in 1..x PROVE g[k] = Tag(a[k])
  <2>1. k \in 1..y
    BY <1>1, <1>5, <1>6
  <2> QED
    BY <1>3, <1>5, <2>1
<1>12. ASSUME NEW k \in 1..(n + 1), r[k].bulk PROVE g[x + Rank(r, k)] = Tag(r[k])
  <2>1. CASE k = n + 1
    <3>1. m.bulk /\ e = 1
      BY <1>1, <1>9, <1>12, <2>1 DEF e
    <3>2. Rank(r, k) = c + 1
      BY <1>8, <2>1, <3>1 DEF e
    <3>3. x + (c + 1) = y + 1
      BY <1>1, <1>5, <1>6
    <3> QED
      BY <1>1, <1>4, <2>1, <3>1, <3>2, <3>3
  <2>2. CASE k \in 1..n
    <3> DEFINE i == Rank(q, k)
    <3>1. q[k].bulk /\ r[k] = q[k] /\ Rank(r, k) = i /\ i \in Nat
      BY <1>2, <1>6, <1>12, <2>2
    <3>2. i <= c /\ i >= 1
      BY <1>1, <2>2, <3>1, RankUp DEF c
    <3>3. l[x + i] = Tag(q[k])
      BY <1>5, <2>2, <3>1
    <3> HIDE DEF i
    <3>4. x + i \in 1..y
      BY <1>1, <1>5, <1>6, <3>1, <3>2
    <3> QED
      BY <1>3, <3>1, <3>3, <3>4
  <2>3. k = n + 1 \/ k \in 1..n
    BY <1>1
  <2> QED
    BY <2>1, <2>2, <2>3
<1>13. Matched(a, r, g)
  <2>1. Len(a) = x
    BY DEF x
  <2> QED
    BY <1>1, <1>10, <1>11, <1>12, <2>1 DEF Matched
<1> QED
  BY <1>13 DEF r, g

\* when the server takes the first message,
LEMMA MatchedTake ==
    ASSUME NEW a \in Seq(MessageOf), NEW q \in Seq(MessageOf), NEW l, q # <<>>, Matched(a, q, l)
    PROVE  Matched(IF Head(q).bulk THEN Append(a, Head(q)) ELSE a, Tail(q), l)
<1> DEFINE m == Head(q)
           r == Tail(q)
           b == IF m.bulk THEN Append(a, m) ELSE a
           n == Len(q)
           x == Len(a)
           e == One(m.bulk)
<1>1. /\ n \in Nat \ {0} /\ x \in Nat /\ DOMAIN q = 1..n /\ DOMAIN r = 1..(n - 1) /\ Len(r) = n - 1
      /\ DOMAIN a = 1..x /\ m = q[1] /\ m \in MessageOf
  OBVIOUS
<1>2. \A k \in 1..(n - 1) : r[k] = q[k + 1]
  OBVIOUS
<1>3. Len(b) = x + e /\ DOMAIN b = 1..(x + e) /\ (\A k \in 1..x : b[k] = a[k])
  <2>1. CASE m.bulk
    BY <2>1 DEF One
  <2>2. CASE ~m.bulk
    BY <2>2 DEF One
  <2> QED
    BY <2>1, <2>2
<1>4. m.bulk => b[x + 1] = m
  OBVIOUS
<1>5. /\ x + Rank(q, n) = Len(l) /\ \A k \in 1..x : l[k] = Tag(a[k])
      /\ \A k \in 1..n : q[k].bulk => l[x + Rank(q, k)] = Tag(q[k])
  BY <1>1 DEF Matched
<1>6. \A k \in 0..(n - 1) : Rank(q, k + 1) = Rank(r, k) + e /\ Rank(r, k) \in Nat
  <2> SUFFICES ASSUME NEW k \in 0..(n - 1) PROVE Rank(q, k + 1) = Rank(r, k) + e /\ Rank(r, k) \in Nat
    OBVIOUS
  <2>1. k \in Nat
    OBVIOUS
  <2> QED
    BY <2>1, RankRest, RankNext
<1>7. e \in 0..1 /\ (m.bulk => e = 1) /\ (e # 0 => m.bulk)
  BY DEF One
<1> HIDE DEF r, b, n, x, e, m
<1>8. (x + e) + Rank(r, n - 1) = Len(l)
  <2> DEFINE c == Rank(r, n - 1)
             i == n - 1
  <2>1. i \in 0..(n - 1) /\ i + 1 = n
    BY <1>1
  <2>2. Rank(q, i + 1) = Rank(r, i) + e /\ Rank(r, i) \in Nat
    BY <1>6, <2>1
  <2>3. Rank(q, n) = c + e /\ c \in Nat
    BY <2>1, <2>2
  <2> HIDE DEF c
  <2> QED
    BY <1>1, <1>5, <1>7, <2>3 DEF c
<1>9. ASSUME NEW k \in 1..(x + e) PROVE l[k] = Tag(b[k])
  <2>1. CASE k \in 1..x
    BY <1>3, <1>5, <2>1
  <2>2. CASE k \notin 1..x
    <3>1. k = x + 1 /\ e = 1 /\ m.bulk
      BY <1>1, <1>7, <2>2
    <3>2. 0 \in 0..(n - 1) /\ 1 \in 1..n /\ 0 + 1 = 1
      BY <1>1
    <3>3. Rank(q, 1) = Rank(r, 0) + e /\ Rank(r, 0) = 0
      BY <1>6, <3>2, RankNext
    <3>4. Rank(q, 1) = 1
      BY <3>1, <3>3
    <3>5. l[x + Rank(q, 1)] = Tag(m)
      BY <1>1, <1>5, <3>1, <3>2
    <3> QED
      BY <1>4, <3>1, <3>4, <3>5
  <2> QED
    BY <2>1, <2>2
<1>10. ASSUME NEW k \in 1..(n - 1), r[k].bulk PROVE l[(x + e) + Rank(r, k)] = Tag(r[k])
  <2> DEFINE c == Rank(r, k)
             i == k + 1
  <2>1. i \in 1..n /\ k \in 0..(n - 1)
    BY <1>1
  <2>2. r[k] = q[i] /\ Rank(q, i) = c + e /\ c \in Nat
    BY <1>2, <1>6, <2>1
  <2>3. l[x + Rank(q, i)] = Tag(q[i])
    BY <1>5, <1>10, <2>1, <2>2
  <2> HIDE DEF c, i
  <2>4. x + (c + e) = (x + e) + c
    BY <1>1, <1>7, <2>2
  <2> QED
    BY <2>2, <2>3, <2>4 DEF c
<1>11. Matched(b, r, l)
  BY <1>1, <1>3, <1>8, <1>9, <1>10 DEF Matched
<1> QED
  BY <1>11 DEF b, r, m

\* and when the data of the first one arrives.
LEMMA MatchedRest ==
    ASSUME NEW a \in Seq(MessageOf), NEW q \in Seq(MessageOf), NEW S, NEW l \in Seq(S),
           a # <<>>, Matched(a, q, l)
    PROVE  Matched(Tail(a), q, Tail(l))
<1> DEFINE b == Tail(a)
           g == Tail(l)
           n == Len(q)
           x == Len(a)
           y == Len(l)
           c == Rank(q, n)
<1>1. /\ n \in Nat /\ x \in Nat \ {0} /\ y \in Nat /\ DOMAIN q = 1..n /\ Len(b) = x - 1
      /\ DOMAIN b = 1..(x - 1)
  OBVIOUS
<1>2. /\ x + c = y /\ \A k \in 1..x : l[k] = Tag(a[k])
      /\ \A k \in 1..n : q[k].bulk => l[x + Rank(q, k)] = Tag(q[k])
  BY DEF Matched
<1>3. \A k \in 1..(x - 1) : b[k] = a[k + 1]
  OBVIOUS
<1>4. c \in Nat
  BY <1>1, RankNext
<1>5. y > 0
  <2> HIDE DEF x, y, c
  <2> QED
    BY <1>1, <1>2, <1>4
<1>6. Len(g) = y - 1 /\ \A k \in 1..(y - 1) : g[k] = l[k + 1]
  BY <1>5
<1> HIDE DEF b, g, n, x, y, c
<1>7. (x - 1) + c = Len(g)
  BY <1>1, <1>2, <1>4, <1>6
<1>8. ASSUME NEW k \in 1..(x - 1) PROVE g[k] = Tag(b[k])
  <2>1. k \in 1..(y - 1) /\ k + 1 \in 1..x
    BY <1>1, <1>2, <1>4
  <2> QED
    BY <1>2, <1>3, <1>6, <2>1
<1>9. ASSUME NEW k \in 1..n, q[k].bulk PROVE g[(x - 1) + Rank(q, k)] = Tag(q[k])
  <2> DEFINE i == Rank(q, k)
  <2>1. i \in Nat /\ i <= c /\ i >= 1
    <3>1. k \in Nat
      BY <1>1
    <3> QED
      BY <1>1, <1>9, <3>1, RankUp, RankNext DEF c
  <2>2. l[x + i] = Tag(q[k])
    BY <1>2, <1>9
  <2> HIDE DEF i
  <2>3. (x - 1) + i \in 1..(y - 1) /\ ((x - 1) + i) + 1 = x + i
    BY <1>1, <1>2, <1>4, <2>1
  <2>4. g[(x - 1) + i] = l[x + i]
    BY <1>6, <2>3
  <2> QED
    BY <2>2, <2>4 DEF i
<1>10. Matched(b, q, g)
  <2>1. Rank(q, Len(q)) = c
    BY DEF c, n
  <2> QED
    BY <1>1, <1>7, <1>8, <1>9, <2>1 DEF Matched
<1> QED
  BY <1>10 DEF b, g

-----------------------------------------------------------------------------
(* The transfers, with the one that a thread has still to queue.            *)

\* Nobody begins or ends to owe a transfer.
Steady == /\ snd'.pc = "bulk" <=> snd.pc = "bulk"
          /\ snd.pc = "bulk" => snd'.buf = snd.buf
          /\ \A t \in {"C", "Q"} : ask'[t].pc = "dummy" <=> ask[t].pc = "dummy"

\* The steps that change what is announced and what is transferred.
LEMMA TransferEffects ==
    ASSUME Next
    PROVE  \/ UNCHANGED <<msgs, arr, bulks>> \/ ServerTakes \/ DataArrives
           \/ (\E t \in Asker : QueueMessage(t) \/ QueueDummy(t))
           \/ mmal_vc_send_message \/ QueueBulk
<1>1. CASE Drain \/ mmal_vc_do_callback
  BY <1>1 DEF Drain, mmal_vc_do_callback, KeepPort, vcVars
<1>2. CASE mmal_vc_vchiq_callback
  BY <1>2 DEF mmal_vc_vchiq_callback, WakeWaiter, BufferToHost, mmal_vc_handle_event_msg,
              BulkReceived, KeepClient
<1>3. CASE Server
  BY <1>3 DEF Server, ServerReturns, ServerEvent
<1>4. CASE Send
  BY <1>4 DEF Send, mmal_vc_port_send, AllocContext, SendVersion, LockBulk, KeepSend
<1> QED
  BY <1>1, <1>2, <1>3, <1>4, BufferEffects

\* One that does begin or end to owe is one of these.
LEMMA SteadyStep ==
    ASSUME Threads, WaiterTypes, WaitInv, Next
    PROVE  \/ Steady \/ (\E t \in Asker : QueueMessage(t) \/ QueueDummy(t))
           \/ mmal_vc_send_message \/ QueueBulk
<1>a. {"C", "Q"} \subseteq Asker
  BY DEF Asker
<1>1. ASSUME snd' = snd, NEW t \in Asker, mmal_vc_sendwait_message(t),
             ~QueueMessage(t), ~QueueDummy(t)
      PROVE  Steady
  <2>1. \E pc \in {"queue", "give", "post", "done"} : \E m, w, r : Moves(t, pc, m, w, r)
    BY <1>1, AskMoves DEF mmal_vc_sendwait_message
  <2>2. ask[t].pc \in {"pick", "wait", "failed", "give", "post"}
    BY <1>1, AskMoves DEF mmal_vc_sendwait_message
  <2>3. ask'[t].pc # "dummy" /\ ask[t].pc # "dummy" /\ \A s \in Asker \ {t} : ask'[s] = ask[s]
    BY <2>1, <2>2 DEF Moves
  <2> QED
    BY <1>a, <1>1, <2>3 DEF Steady
<1>2. ASSUME snd' = snd, NEW t \in Asker, NEW msg \in RequestNames, Ask(t, msg)
      PROVE  Steady
  <2>1. ask[t].pc = "none" /\ Moves(t, "pick", msg, 0, NoReply)
    BY <1>2, AskMoves
  <2>2. ask'[t].pc # "dummy" /\ ask[t].pc # "dummy" /\ \A s \in Asker \ {t} : ask'[s] = ask[s]
    BY <2>1 DEF Moves
  <2> QED
    BY <1>a, <1>2, <2>2 DEF Steady
<1>3. ASSUME LockBulk PROVE Steady
  <2>1. ask' = ask /\ snd'.pc = "queue" /\ snd.pc = "bulklock"
    BY <1>3 DEF LockBulk, Threads
  <2> QED
    BY <2>1 DEF Steady
<1>4. ASSUME NEW t \in Asker, Answered(t)
      PROVE  \A s \in {"C", "Q"} : ask'[s].pc = "dummy" <=> ask[s].pc = "dummy"
  <2>1. ask[t].pc = "done" /\ Moves(t, "none", "none", 0, NoReply)
    BY <1>4, AskMoves
  <2>2. ask'[t].pc # "dummy" /\ ask[t].pc # "dummy" /\ \A s \in Asker \ {t} : ask'[s] = ask[s]
    BY <2>1 DEF Moves
  <2> QED
    BY <1>a, <2>2
<1>5. ASSUME ask' = ask \/ (\E t \in Asker : Answered(t)),
             snd' = snd \/ (snd'.pc \notin {"queue", "bulk"} /\ Send)
      PROVE  Steady \/ QueueBulk
  <2>1. \A s \in {"C", "Q"} : ask'[s].pc = "dummy" <=> ask[s].pc = "dummy"
    BY <1>4, <1>5
  <2>2. CASE snd' = snd
    BY <2>1, <2>2 DEF Steady
  <2>3. CASE snd'.pc \notin {"queue", "bulk"} /\ Send
    <3>1. snd.pc = "bulk" => QueueBulk
      BY <2>3 DEF Send, mmal_vc_port_send, AllocContext, SendVersion, LockBulk,
                  mmal_vc_send_message
    <3> QED
      BY <2>1, <2>3, <3>1 DEF Steady
  <2> QED
    BY <1>5, <2>2, <2>3
<1> QED
  BY <1>1, <1>2, <1>3, <1>5, BulkLockEffects

\* At most one thread owes a transfer, since it holds bulk_lock.
LEMMA OneOwes ==
    ASSUME AskInv, BulkLocked
    PROVE  /\ \A t \in Asker : ask[t].pc \in {"pick", "queue", "dummy"} /\ ask[t].msg = "sync" =>
                 /\ t \in {"C", "Q"} /\ snd.pc # "bulk"
                 /\ \A s \in {"C", "Q"} \ {t} : ask[s].pc # "dummy"
           /\ \A t \in Asker : ask[t].pc = "dummy" => ask[t].msg = "sync"
           /\ snd.bulk /\ snd.pc \in {"queue", "bulk"} =>
                 \A s \in {"C", "Q"} : ask[s].pc # "dummy"
           /\ snd.pc = "bulk" => snd.bulk
<1>1. ASSUME NEW t \in Asker, ask[t].pc \in {"pick", "queue", "dummy"}, ask[t].msg = "sync"
      PROVE  /\ t \in {"C", "Q"} /\ snd.pc # "bulk"
             /\ \A s \in {"C", "Q"} \ {t} : ask[s].pc # "dummy"
  <2>1. t \in {"C", "Q"}
    BY <1>1 DEF AskInv, Asker
  <2>2. bulkLock = t
    BY <1>1 DEF BulkLocked
  <2> QED
    BY <2>1, <2>2 DEF BulkLocked, Asker
<1> QED
  BY <1>1 DEF BulkLocked, Asker

\* What is in line, seen from what is owed.
LEMMA LineOwed ==
    ASSUME AskInv, BulkLocked
    PROVE  /\ snd.pc = "bulk" => Line = Append(bulks, snd.buf)
           /\ \A t \in {"C", "Q"} : ask[t].pc = "dummy" => Line = Append(bulks, t)
           /\ snd.pc # "bulk" /\ (\A t \in {"C", "Q"} : ask[t].pc # "dummy") => Line = bulks
<1>1. ASSUME NEW t \in {"C", "Q"}, ask[t].pc = "dummy" PROVE Line = Append(bulks, t)
  <2>1. snd.pc # "bulk" /\ \A s \in {"C", "Q"} \ {t} : ask[s].pc # "dummy"
    BY <1>1, OneOwes DEF Asker
  <2> QED
    BY <1>1, <2>1 DEF Line
<1> QED
  BY <1>1 DEF Line

\* A request's message.
LEMMA LineAsked ==
    ASSUME AskInv, BulkLocked, Threads, WaiterTypes, WaitInv, NEW t \in Asker, QueueMessage(t)
    PROVE  \/ msgs' = msgs /\ Line' = Line
           \/ \E m \in MessageOf : /\ msgs' = Append(msgs, m)
                                   /\ Line' = IF m.bulk THEN Append(Line, Tag(m)) ELSE Line
<1>a. {"C", "Q"} \subseteq Asker
  BY DEF Asker
<1>1. UNCHANGED <<bulks, snd>>
  BY DEF QueueMessage, AskUnchanged, bufVars
<1>2. ask[t].pc = "queue" /\ ask[t] \in AskOf /\ ask[t].msg # "none"
  BY DEF QueueMessage, AskInv, WaiterTypes
<1>3. ASSUME NEW pc, At(t, pc)
      PROVE  ask'[t].pc = pc /\ \A s \in Asker \ {t} : ask'[s] = ask[s]
  BY <1>3 DEF At, WaiterTypes, AskOf
<1>4. CASE msgs' = msgs /\ At(t, "failed")
  <2>1. \A s \in {"C", "Q"} : ask'[s].pc = "dummy" <=> ask[s].pc = "dummy"
    BY <1>a, <1>2, <1>3, <1>4
  <2> QED
    BY <1>1, <1>4, <2>1 DEF Line
<1>5. ASSUME msgs' = Append(msgs, Message(t, ask[t].msg, Ev, ask[t].msg = "sync")),
             At(t, IF ask[t].msg = "sync" THEN "dummy" ELSE "wait")
      PROVE  \E m \in MessageOf : /\ msgs' = Append(msgs, m)
                                  /\ Line' = IF m.bulk THEN Append(Line, Tag(m)) ELSE Line
  <2> DEFINE b == ask[t].msg = "sync"
             m == Message(t, ask[t].msg, Ev, b)
  <2>1. m \in MessageOf
    <3>1. ask[t].msg \in MessageNames /\ b \in BOOLEAN
      BY <1>2 DEF AskOf, MessageNames
    <3> QED
      BY <3>1, MessageType
  <2>2. CASE b
    <3>1. t \in {"C", "Q"} /\ snd.pc # "bulk" /\ \A s \in {"C", "Q"} \ {t} : ask[s].pc # "dummy"
      BY <1>2, <2>2, OneOwes
    <3>2. Line = bulks
      BY <1>2, <3>1, LineOwed
    <3>3. ask'[t].pc = "dummy" /\ \A s \in {"C", "Q"} \ {t} : ask'[s].pc # "dummy"
      BY <1>a, <1>3, <1>5, <2>2, <3>1
    <3>4. Line' = Append(bulks, t)
      BY <1>1, <3>1, <3>3 DEF Line
    <3>5. m.bulk /\ Tag(m) = t
      BY <2>2 DEF Message, Tag
    <3> QED
      BY <1>5, <2>1, <3>2, <3>4, <3>5
  <2>3. CASE ~b
    <3>1. \A s \in {"C", "Q"} : ask'[s].pc = "dummy" <=> ask[s].pc = "dummy"
      BY <1>a, <1>2, <1>3, <1>5, <2>3
    <3>2. Line' = Line
      BY <1>1, <3>1 DEF Line
    <3>3. ~m.bulk
      BY <2>3 DEF Message
    <3> QED
      BY <1>5, <2>1, <3>2, <3>3
  <2> QED
    BY <2>2, <2>3
<1> QED
  BY <1>4, <1>5 DEF QueueMessage

\* A dummy transfer, and the data of a buffer.
LEMMA LineQueued ==
    ASSUME AskInv, BulkLocked, Threads, WaiterTypes, WaitInv,
           QueueBulk \/ (\E t \in Asker : QueueDummy(t))
    PROVE  msgs' = msgs /\ arr' = arr /\ Line' = Line
<1>a. {"C", "Q"} \subseteq Asker
  BY DEF Asker
<1>1. ASSUME NEW t \in Asker, QueueDummy(t) PROVE msgs' = msgs /\ arr' = arr /\ Line' = Line
  <2>1. ask[t].pc = "dummy" /\ Moves(t, "wait", ask[t].msg, ask[t].w, ask[t].reply)
    BY <1>1, AskMoves
  <2>2. t \in {"C", "Q"} /\ snd.pc # "bulk" /\ \A s \in {"C", "Q"} \ {t} : ask[s].pc # "dummy"
    BY <2>1, OneOwes
  <2>3. Line = Append(bulks, t)
    BY <2>1, <2>2, LineOwed
  <2>4. bulks' = Append(bulks, t) /\ UNCHANGED <<snd, msgs, arr>>
    BY <1>1 DEF QueueDummy, AskUnchanged, bufVars
  <2>5. \A s \in {"C", "Q"} : ask'[s].pc # "dummy"
    BY <1>a, <2>1, <2>2 DEF Moves
  <2> QED
    BY <2>2, <2>3, <2>4, <2>5 DEF Line
<1>2. ASSUME QueueBulk PROVE msgs' = msgs /\ arr' = arr /\ Line' = Line
  <2>1. snd.pc = "bulk" /\ snd'.pc = "none" /\ bulks' = Append(bulks, snd.buf)
        /\ UNCHANGED <<ask, msgs, arr>>
    BY <1>2 DEF QueueBulk, Unsent, NotSending, KeepSend
  <2>2. \A s \in {"C", "Q"} : ask[s].pc # "dummy"
    BY <2>1, OneOwes
  <2>3. Line = Append(bulks, snd.buf)
    BY <2>1, LineOwed
  <2> QED
    BY <2>1, <2>2, <2>3 DEF Line
<1> QED
  BY <1>1, <1>2

\* A buffer's message.
LEMMA LineSent ==
    ASSUME AskInv, BulkLocked, Threads, WaiterTypes, mmal_vc_send_message
    PROVE  \/ msgs' = msgs /\ Line' = Line
           \/ \E m \in MessageOf : /\ msgs' = Append(msgs, m)
                                   /\ Line' = IF m.bulk THEN Append(Line, Tag(m)) ELSE Line
<1>1. snd.pc = "queue" /\ UNCHANGED <<ask, bulks>> /\ snd.bulk \in BOOLEAN
      /\ snd.buf \in Buffers \cup {Ev}
  BY DEF mmal_vc_send_message, KeepSend, Threads
<1>2. CASE msgs' = msgs /\ Unsent
  BY <1>1, <1>2 DEF Unsent, NotSending, Line
<1>3. ASSUME msgs' = Append(msgs, Message("S", "buffer", snd.buf, snd.bulk)),
             IF snd.bulk THEN snd' = [snd EXCEPT !.pc = "bulk"] ELSE Unsent
      PROVE  \E m \in MessageOf : /\ msgs' = Append(msgs, m)
                                  /\ Line' = IF m.bulk THEN Append(Line, Tag(m)) ELSE Line
  <2> DEFINE m == Message("S", "buffer", snd.buf, snd.bulk)
  <2>1. m \in MessageOf
    BY <1>1, MessageType DEF MessageNames, Asker
  <2>2. Tag(m) = snd.buf /\ m.bulk = snd.bulk
    BY DEF Message, Tag
  <2>3. CASE snd.bulk
    <3>1. \A s \in {"C", "Q"} : ask[s].pc # "dummy"
      BY <1>1, <2>3, OneOwes
    <3>2. Line = bulks
      BY <1>1, <3>1, LineOwed
    <3>3. snd'.pc = "bulk" /\ snd'.buf = snd.buf
      BY <1>3, <2>3 DEF Threads
    <3>4. Line' = Append(bulks, snd.buf)
      BY <1>1, <3>3 DEF Line
    <3> QED
      BY <1>3, <2>1, <2>2, <2>3, <3>2, <3>4
  <2>4. CASE ~snd.bulk
    <3>1. Line' = Line
      BY <1>1, <1>3, <2>4 DEF Unsent, NotSending, Line
    <3> QED
      BY <1>3, <2>1, <2>2, <2>4, <3>1
  <2> QED
    BY <1>1, <2>3, <2>4
<1> QED
  BY <1>2, <1>3 DEF mmal_vc_send_message

\* What a step does to messages and to what is in line.
LEMMA LineEffects ==
    ASSUME RepliesInv, LockInv, Next
    PROVE  \/ ServerTakes /\ Line' = Line
           \/ DataArrives /\ Line' = Tail(Line)
           \/ arr' = arr /\ msgs' = msgs /\ Line' = Line
           \/ /\ arr' = arr
              /\ \E m \in MessageOf : /\ msgs' = Append(msgs, m)
                                      /\ Line' = IF m.bulk THEN Append(Line, Tag(m)) ELSE Line
<1>a. /\ Threads /\ WaiterTypes /\ WaitInv /\ AskInv /\ BulkLocked
      /\ bulks \in Seq(Buffers \cup Asker)
  BY DEF RepliesInv, PlainInv, QueueTypes, LockInv
<1>1. CASE ServerTakes
  BY <1>1 DEF ServerTakes, KeepServer, bufVars, Line
<1>2. CASE DataArrives
  <2>1. bulks # <<>> /\ bulks' = Tail(bulks) /\ UNCHANGED <<ask, snd>>
    BY <1>2 DEF DataArrives, KeepServer, bufVars
  <2>2. ASSUME NEW x \in Buffers \cup Asker \cup {Ev} PROVE Tail(Append(bulks, x)) = Append(Tail(bulks), x)
    BY <1>a, <2>1
  <2>3. snd.buf \in Buffers \cup {Ev} /\ {"C", "Q"} \subseteq Asker
    BY <1>a DEF Threads, Asker
  <2>4. CASE snd.pc = "bulk"
    BY <1>2, <2>1, <2>2, <2>3, <2>4 DEF Line
  <2>5. CASE snd.pc # "bulk" /\ ask["C"].pc = "dummy"
    BY <1>2, <2>1, <2>2, <2>3, <2>5 DEF Line
  <2>6. CASE snd.pc # "bulk" /\ ask["C"].pc # "dummy"
    BY <1>2, <2>1, <2>2, <2>3, <2>6 DEF Line
  <2> QED
    BY <2>4, <2>5, <2>6
<1>3. ASSUME NEW t \in Asker, QueueMessage(t) PROVE arr' = arr
  BY <1>3 DEF QueueMessage
<1>4. mmal_vc_send_message => arr' = arr
  BY DEF mmal_vc_send_message, KeepSend
<1>5. CASE Steady /\ UNCHANGED <<msgs, arr, bulks>>
  BY <1>5 DEF Steady, Line
<1>6. CASE mmal_vc_send_message
  BY <1>a, <1>4, <1>6, LineSent
<1>7. ASSUME NEW t \in Asker, QueueMessage(t)
      PROVE  \/ arr' = arr /\ msgs' = msgs /\ Line' = Line
             \/ /\ arr' = arr
                /\ \E m \in MessageOf : /\ msgs' = Append(msgs, m)
                                        /\ Line' = IF m.bulk THEN Append(Line, Tag(m)) ELSE Line
  BY <1>a, <1>3, <1>7, LineAsked
<1>8. CASE QueueBulk \/ (\E t \in Asker : QueueDummy(t))
  BY <1>a, <1>8, LineQueued
<1> QED
  BY <1>a, <1>1, <1>2, <1>5, <1>6, <1>7, <1>8, SteadyStep, TransferEffects

\* Who queues a transfer.
Sender == Buffers \cup {Ev} \cup Asker

\* Those of a line do.
LEMMA LineType ==
    ASSUME QueueTypes, Threads
    PROVE  Line \in Seq(Sender) /\ \A m \in MessageOf : Tag(m) \in Sender
<1>1. bulks \in Seq(Sender) /\ snd.buf \in Sender /\ "C" \in Sender /\ "Q" \in Sender
  BY DEF QueueTypes, Threads, Sender, Asker
<1>2. Line \in Seq(Sender)
  BY <1>1 DEF Line
<1>3. \A m \in MessageOf : Tag(m) \in Sender
  BY DEF MessageOf, Tag, Sender
<1> QED
  BY <1>2, <1>3

\* The invariant is that the two queues and the line match.
LEMMA BulkMatched == BulkInv <=> Matched(arr, msgs, Line)
BY DEF BulkInv, Matched, Announced, Rank, Bulks

\* Transfers stay with the messages that announce them.
LEMMA BulkInvStep ==
    ASSUME BulkInv, LockInv, RepliesInv, RepliesInv', Next
    PROVE  BulkInv'
<1>a. /\ arr \in Seq(MessageOf) /\ msgs \in Seq(MessageOf) /\ Line \in Seq(Sender)
      /\ \A m \in MessageOf : Tag(m) \in Sender
  BY LineType DEF RepliesInv, PlainInv, QueueTypes
<1>b. Matched(arr, msgs, Line)
  BY BulkMatched
<1>c. Matched(arr', msgs', Line') => BulkInv'
  BY DEF BulkInv, Matched, Announced, Rank, Bulks
<1>1. CASE ServerTakes /\ Line' = Line
  <2>1. /\ msgs # <<>> /\ msgs' = Tail(msgs)
        /\ arr' = IF Head(msgs).bulk THEN Append(arr, Head(msgs)) ELSE arr
    <3>1. Head(msgs) \in MessageOf
      BY <1>a, <1>1 DEF ServerTakes
    <3> QED
      BY <1>1, <3>1 DEF ServerTakes, MessageOf
  <2> QED
    BY <1>a, <1>b, <1>c, <1>1, <2>1, MatchedTake
<1>2. CASE DataArrives /\ Line' = Tail(Line)
  <2>1. arr # <<>> /\ arr' = Tail(arr) /\ msgs' = msgs
    BY <1>2 DEF DataArrives
  <2> QED
    BY <1>a, <1>b, <1>c, <1>2, <2>1, MatchedRest
<1>3. CASE arr' = arr /\ msgs' = msgs /\ Line' = Line
  BY <1>b, <1>c, <1>3
<1>4. ASSUME arr' = arr, NEW m \in MessageOf, msgs' = Append(msgs, m),
             Line' = IF m.bulk THEN Append(Line, Tag(m)) ELSE Line
      PROVE  BulkInv'
  BY <1>a, <1>b, <1>c, <1>4, MatchedMore
<1> QED
  BY <1>1, <1>2, <1>3, <1>4, LineEffects

-----------------------------------------------------------------------------
(* The inductive invariant and what it implies.                             *)

\* It holds in the beginning.
LEMMA InitInd == ASSUME Init PROVE IndInv
<1> USE DEF Init, NoAsk, NoReply, NotSending, Nobody
<1>1. RepliesInv
  BY InitReplies
<1>2. LockInv
  BY DEF LockInv, SendLocked, BulkLocked, Flushing, Asker
<1>3. BehindInv
  BY DEF BehindInv, NoneOf, NoneAfter
<1>4. FlushInv
  BY DEF FlushInv, Is
<1>5. ContextInv
  BY DEF ContextInv
<1>6. DisableInv
  BY DEF DisableInv, Down, Is
<1>7. BulkInv
  <2>1. Rank(msgs, 0) = 0
    BY RankNext
  <2>2. Line = <<>> /\ arr = <<>> /\ msgs = <<>>
    BY DEF Line, Asker
  <2>3. Matched(arr, msgs, Line)
    BY <2>1, <2>2 DEF Matched
  <2> QED
    BY <2>3, BulkMatched
<1> QED
  BY <1>1, <1>2, <1>3, <1>4, <1>5, <1>6, <1>7 DEF IndInv

\* It stays.
LEMMA IndStep == ASSUME IndInv, [Next]_vars PROVE IndInv'
<1> USE DEF IndInv
<1>1. RepliesInv'
  BY RepliesStep
<1>2. CASE UNCHANGED vars
  <2> USE <1>2 DEF vars, fixed, clientVars, waitVars, portVars, bufVars, vcVars
  <2>1. LockInv'
    BY DEF LockInv, SendLocked, BulkLocked, Flushing
  <2>2. BehindInv'
    BY DEF BehindInv, NoneOf, NoneAfter
  <2>3. FlushInv'
    BY DEF FlushInv, Promised, Is, NoneOf, Accepted, ServerEmpty
  <2>4. ContextInv'
    BY DEF ContextInv, Sane, Gone, Of, NoneOf
  <2>5. DisableInv'
    BY DEF DisableInv, Down, Is, NoneOf, NoneAfter, Returned, ServerEmpty, Accepted
  <2>6. BulkInv'
    BY DEF BulkInv, Announced, Line
  <2> QED
    BY <1>1, <2>1, <2>2, <2>3, <2>4, <2>5, <2>6
<1>3. CASE Next
  <2>1. LockInv'
    BY <1>3, LockInvStep DEF RepliesInv, PlainInv
  <2>2. BehindInv'
    BY <1>1, <1>3, BehindInvStep
  <2>3. FlushInv'
    BY <1>1, <1>3, FlushInvStep
  <2>4. ContextInv'
    BY <1>1, <1>3, ContextInvStep
  <2>5. DisableInv'
    BY <1>1, <1>3, DisableInvStep
  <2>6. BulkInv'
    BY <1>1, <1>3, BulkInvStep
  <2> QED
    BY <1>1, <2>1, <2>2, <2>3, <2>4, <2>5, <2>6
<1> QED
  BY <1>2, <1>3

\* What is transferred is the beginning of the line.
LEMMA LineBegins ==
    ASSUME RepliesInv
    PROVE  Len(bulks) <= Len(Line) /\ \A k \in 1..Len(bulks) : Line[k] = bulks[k]
<1>1. bulks \in Seq(Sender)
  BY DEF RepliesInv, QueueTypes, Sender
<1>2. ASSUME NEW x \in Sender
      PROVE  Len(bulks) <= Len(Append(bulks, x)) /\ \A k \in 1..Len(bulks) : Append(bulks, x)[k] = bulks[k]
  BY <1>1
<1>3. snd.buf \in Sender /\ "C" \in Sender /\ "Q" \in Sender
  BY DEF RepliesInv, PlainInv, Threads, Sender, Asker
<1>4. Len(bulks) \in Nat
  BY <1>1
<1>5. Line \in {bulks, Append(bulks, snd.buf), Append(bulks, "C"), Append(bulks, "Q")}
  BY DEF Line
<1> QED
  BY <1>2, <1>3, <1>4, <1>5

\* Data is with its message.
LEMMA Matching == ASSUME IndInv PROVE BulksMatch
<1>a. /\ Len(bulks) <= Len(Line) /\ \A k \in 1..Len(bulks) : Line[k] = bulks[k]
      /\ Len(bulks) \in Nat
  BY LineBegins DEF IndInv, RepliesInv, QueueTypes
<1>b. arr \in Seq(MessageOf) /\ msgs \in Seq(MessageOf)
  BY DEF IndInv, RepliesInv, QueueTypes
<1>1. Len(bulks) <= Announced(Len(msgs))
  BY <1>a DEF IndInv, BulkInv
<1>2. ASSUME NEW k \in DOMAIN arr, k <= Len(bulks) PROVE bulks[k] = Tag(arr[k])
  <2>1. k \in 1..Len(bulks)
    BY <1>a, <1>b, <1>2
  <2> QED
    BY <1>a, <2>1 DEF IndInv, BulkInv
<1>3. ASSUME NEW k \in DOMAIN msgs, msgs[k].bulk, Announced(k) <= Len(bulks)
      PROVE  bulks[Announced(k)] = Tag(msgs[k])
  <2> DEFINE n == Announced(k)
             x == Len(arr)
             r == Rank(msgs, k)
  <2>1. n = x + r /\ x \in Nat
    BY <1>b DEF Announced, Rank, Bulks
  <2>2. Len(msgs) \in Nat /\ k \in 1..Len(msgs) /\ k \in Nat
    BY <1>b
  <2>3. r \in Nat /\ r >= 1
    BY <1>3, <2>2, RankUp, RankNext
  <2>4. Line[n] = Tag(msgs[k])
    BY <1>3 DEF IndInv, BulkInv
  <2>5. n <= Len(bulks)
    BY <1>3
  <2> HIDE DEF n, x, r
  <2>6. n \in 1..Len(bulks)
    BY <1>a, <2>1, <2>3, <2>5
  <2>7. bulks[n] = Tag(msgs[k])
    BY <1>a, <2>4, <2>6
  <2> QED
    BY <2>7 DEF n
<1> QED
  BY <1>1, <1>2, <1>3 DEF BulksMatch

\* A flush is complete.
LEMMA Flushes == ASSUME IndInv PROVE FlushComplete
<1>a. arr \in Seq(MessageOf) /\ msgs \in Seq(MessageOf)
  BY DEF IndInv, RepliesInv, QueueTypes
<1> SUFFICES ASSUME todo["C"] = <<"unflush">>, zeroCopy \/ ~sent \/ (newServer /\ nfail = 0)
             PROVE  held = {} /\ \A i \in DOMAIN (arr \o msgs) : (arr \o msgs)[i].id # "buffer"
  BY DEF FlushComplete
<1>1. Is("C", "unflush") /\ Promised
  BY DEF Is, Promised
<1>2. ServerEmpty
  BY <1>1 DEF IndInv, FlushInv
<1>3. /\ held = {} /\ \A k \in DOMAIN arr : arr[k].id # "buffer"
      /\ \A k \in DOMAIN msgs : msgs[k].id # "buffer"
  BY <1>a, <1>2 DEF ServerEmpty, NoneOf, Buf
<1>4. ASSUME NEW i \in DOMAIN (arr \o msgs) PROVE (arr \o msgs)[i].id # "buffer"
  <2> DEFINE x == Len(arr)
             n == Len(msgs)
  <2>1. x \in Nat /\ n \in Nat /\ DOMAIN arr = 1..x /\ DOMAIN msgs = 1..n /\ i \in 1..(x + n)
    BY <1>a
  <2>2. (arr \o msgs)[i] = IF i <= x THEN arr[i] ELSE msgs[i - x]
    BY <1>a
  <2> HIDE DEF x, n
  <2>3. i \in 1..x \/ (~(i <= x) /\ i - x \in 1..n)
    BY <2>1
  <2>4. i \in 1..x => i <= x
    BY <2>1
  <2> QED
    BY <1>3, <2>1, <2>2, <2>3, <2>4
<1> QED
  BY <1>3, <1>4

\* Data stays with its message when several threads send (mmal_vc_send_message() and
\* mmal_vc_sendwait_message() under bulk_lock), a flush that succeeds leaves no buffer with the
\* server (mmal_vc_port_flush()), and no context outlasts its pool (mmal_vc_port_disable()).
THEOREM BulksRightHolds == Spec => []BulksRight
<1>1. IndInv => BulksRight
  <2>1. IndInv => PoolSafe
    BY DEF IndInv, DisableInv, PoolSafe
  <2> QED
    BY <2>1, Matching, Flushes DEF BulksRight
<1> QED
  BY <1>1, InitInd, IndStep, PTL DEF Spec

=============================================================================
