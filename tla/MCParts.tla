------------------------------- MODULE MCParts -------------------------------
(* Three parts that share no state, and of which only safety is checked, for *)
(* TLC, one at a time: the GPIO library and the services (MCGpioUsers); the  *)
(* photos (Capturer), enough of them, and of seconds, for names to repeat    *)
(* and to differ; the wrapper of MMAL's components (MmalWrapper), with two   *)
(* threads, pools of one or two buffers, and an error or a call that fails.  *)
EXTENDS MCGpioUsers, Capturer

CONSTANTS Threads, A, Master, MaxTrouble, MaxSetup, MaxSema     \* see MmalWrapper

VARIABLES up, status, sema, num, q, en, comp, api, held, lost, stolen, resized,
          ntrouble, nsetup, broken,     \* see MmalWrapper (api: its call)
          part                          \* "services", "photos" or "wrapper"

MCGets == [t \in Threads |-> IF t = Master THEN {"in", "full"} ELSE {"out"}]
MCBufferNums == [in |-> {1}, out |-> {1, 2}]

W == INSTANCE MmalWrapper WITH Gets <- MCGets, BufferNums <- MCBufferNums, call <- api

ASSUME WrapperAssumption ==
    A \notin Threads /\ Master \in Threads /\ {MaxTrouble, MaxSetup, MaxSema} \subseteq Nat

wrapperVars == <<up, status, sema, num, q, en, comp, api, held, lost, stolen, resized,
                 ntrouble, nsetup, broken>>
partsVars == <<allVars, capturerVars, wrapperVars, part>>

\* The other parts have not begun.
PartsInit ==
    /\ part \in {"services", "photos", "wrapper"}
    /\ UsersInit /\ CaptureInit /\ W!Init
    /\ part # "services" => user = "any program"

PartsNext ==
    \/ part = "services" /\ UsersNext /\ UNCHANGED <<capturerVars, wrapperVars, part>>
    \/ part = "photos" /\ CaptureNext /\ UNCHANGED <<allVars, wrapperVars, part>>
    \/ part = "wrapper" /\ W!Next /\ UNCHANGED <<allVars, capturerVars, part>>
    \/ part = "wrapper" /\ UNCHANGED partsVars   \* its threads may all wait

PartsSpec == PartsInit /\ [][PartsNext]_partsVars

\* What the wrapper of a component promises (mmal_wrapper_buffer_get_empty(),
\* mmal_wrapper_buffer_get_full(), mmal_wrapper_port_enable(), mmal_wrapper_port_disable()): no
\* header is lost, and no wake-up but in the cases that WakeUpKept names.
WrapperRight == W!WrapperRight
=============================================================================
