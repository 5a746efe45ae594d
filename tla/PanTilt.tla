------------------------------- MODULE PanTilt ------------------------------
(***************************************************************************)
(* The plugin input_control: it turns the motors of a Logitech camera.     *)
(* The camera is only told how far to move, so input_cmd() keeps count of  *)
(* the position, and sends it home once to know it.  Commands come from    *)
(* several clients; controls_mutex makes them one after the other.         *)
(***************************************************************************)
EXTENDS Integers

CONSTANTS
    Commanders,  \* clients that send commands
    Degrees,     \* positions they ask for
    MinRes,      \* the step of the option -m, in 1/64 degree
    Home, MaxFail

VARIABLES
    nfail,
    mutex,       \* controls_mutex, or Home
    where, todo, \* for each client, where it is and the command
    valid,       \* pan_tilt_valid
    known,       \* pan and tilt
    motor        \* the camera's own position, in its own direction

panVars == <<mutex, where, todo, valid, known, motor>>

ONE_DEGREE == 64
Limit == [pan |-> 70 * ONE_DEGREE, tilt |-> 30 * ONE_DEGREE]
Axes  == DOMAIN Limit
Commands ==
    {[op |-> "reset", axis |-> "pan", value |-> 0]}
    \cup [op : {"set"}, axis : Axes, value : Degrees] \cup [op : {"plus", "minus"}, axis : Axes, value : {0}]
Idle == [op |-> "none", axis |-> "pan", value |-> 0]

Init ==
    /\ mutex = Home /\ where = [c \in Commanders |-> "idle"] /\ todo = [c \in Commanders |-> Idle]
    /\ valid = FALSE /\ known = [a \in Axes |-> 0] /\ motor = [a \in Axes |-> 10]

Fail == nfail < MaxFail /\ nfail' = nfail + 1

\* uvcPanTilt(): the camera tilts the other way round.
uvcPanTilt(axis, by) ==
    motor' = [motor EXCEPT ![axis] = IF axis = "tilt" THEN @ - by ELSE @ + by]

Begin(c) ==
    /\ where[c] = "idle" /\ mutex = Home /\ mutex' = c /\ where' = [where EXCEPT ![c] = "check"]
    /\ \E command \in Commands : todo' = [todo EXCEPT ![c] = command]
    /\ UNCHANGED <<nfail, valid, known, motor>>

\* The camera is sent home if the command says so, or if nobody has yet; if it cannot,
\* the command fails.
Reset(c) ==
    /\ where[c] = "check" /\ (todo[c].op = "reset" \/ ~valid)
    /\ \/ /\ motor' = [a \in Axes |-> 0] /\ known' = [a \in Axes |-> 0] /\ valid' = TRUE
          /\ where' = [where EXCEPT ![c] = IF todo[c].op = "reset" THEN "done" ELSE "move"]
          /\ UNCHANGED nfail
       \/ /\ Fail /\ where' = [where EXCEPT ![c] = "done"] /\ UNCHANGED <<motor, known, valid>>
    /\ UNCHANGED <<mutex, todo>>

NoReset(c) ==
    /\ where[c] = "check" /\ todo[c].op # "reset" /\ valid
    /\ where' = [where EXCEPT ![c] = "move"]
    /\ UNCHANGED <<mutex, todo, nfail, valid, known, motor>>

Within(axis, x) == IF x < -Limit[axis] THEN -Limit[axis] ELSE IF x > Limit[axis] THEN Limit[axis] ELSE x

\* Where a command moves to: a position within the limits, or a step unless it would
\* pass one.
Target(command) ==
    LET here == known[command.axis] IN
    CASE command.op = "set"   -> Within(command.axis, command.value * ONE_DEGREE)
      [] command.op = "plus"  -> IF here + MinRes <= Limit[command.axis] THEN here + MinRes ELSE here
      [] command.op = "minus" -> IF here - MinRes >= -Limit[command.axis] THEN here - MinRes ELSE here

\* The position is noted,
Note(c) ==
    /\ where[c] = "move"
    /\ LET axis == todo[c].axis
           to   == Target(todo[c])
       IN /\ known' = [known EXCEPT ![axis] = to]
          /\ todo' = [todo EXCEPT ![c].value = to - known[axis]]
          /\ where' = [where EXCEPT ![c] = IF to = known[axis] THEN "done" ELSE "turn"]
    /\ UNCHANGED <<mutex, nfail, valid, motor>>

\* and the camera told to move; whether it does is not looked at.
Turn(c) ==
    /\ where[c] = "turn" /\ where' = [where EXCEPT ![c] = "done"]
    /\ \/ uvcPanTilt(todo[c].axis, todo[c].value) /\ UNCHANGED nfail
       \/ Fail /\ UNCHANGED motor
    /\ UNCHANGED <<mutex, todo, valid, known>>

Finish(c) ==
    /\ where[c] = "done" /\ where' = [where EXCEPT ![c] = "idle"] /\ todo' = [todo EXCEPT ![c] = Idle]
    /\ mutex' = Home /\ UNCHANGED <<nfail, valid, known, motor>>

input_cmd(c) == Begin(c) \/ Reset(c) \/ NoReset(c) \/ Note(c) \/ Turn(c) \/ Finish(c)

Next == \E c \in Commanders : input_cmd(c)

-----------------------------------------------------------------------------

\* Type correctness of the position kept, the motors and the commands.
TypeOK ==
    /\ mutex \in Commanders \cup {Home} /\ valid \in BOOLEAN
    /\ where \in [Commanders -> {"idle", "check", "move", "turn", "done"}]

\* Once the camera has been sent home, and as long as it follows, the position that is
\* kept is the camera's between two commands, and within the limits (input_control's
\* input_cmd(), and the sign in uvcPanTilt()).
PositionKnown ==
    /\ \A a \in Axes : -Limit[a] <= known[a] /\ known[a] <= Limit[a]
    /\ (valid /\ nfail = 0 /\ \A c \in Commanders : where[c] \notin {"turn"}) =>
           motor["pan"] = known["pan"] /\ motor["tilt"] = -known["tilt"]

\* What makes it inductive: one command at a time, and how far the camera has still to
\* turn after the position has been noted.
CommandInv ==
    /\ todo \in [Commanders -> [op : {"none", "reset", "set", "plus", "minus"}, axis : Axes, value : Int]]
    /\ \A c \in Commanders :
          /\ where[c] # "idle" => mutex = c /\ todo[c].op # "none"
          /\ where[c] \in {"move", "turn"} => valid /\ todo[c].op \in {"set", "plus", "minus"}

Left(c, axis) == IF where[c] = "turn" /\ todo[c].axis = axis THEN todo[c].value ELSE 0

MotorInv ==
    /\ known \in [Axes -> Int] /\ motor \in [Axes -> Int]
    /\ \A a \in Axes : -Limit[a] <= known[a] /\ known[a] <= Limit[a]
    /\ (valid /\ nfail = 0 /\ \A c \in Commanders : where[c] # "turn") =>
           motor["pan"] = known["pan"] /\ motor["tilt"] = -known["tilt"]
    /\ \A c \in Commanders : (where[c] = "turn" /\ nfail = 0) =>
           /\ motor["pan"] + Left(c, "pan") = known["pan"]
           /\ motor["tilt"] - Left(c, "tilt") = -known["tilt"]

=============================================================================
