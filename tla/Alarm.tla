------------------------------- MODULE Alarm -------------------------------
(***************************************************************************)
(* What the alarm promises its user, with no thread in it.  While it is    *)
(* armed a round over the sensors may begin; a round tells the user of     *)
(* each sensor at most once, in the order of the sensors, and only of a    *)
(* value that is not the one last told; a high value is followed by a      *)
(* photograph before anything else is told.  Disarming stops the rounds to *)
(* come, not the one under way.  Polling implements this.                  *)
(***************************************************************************)
EXTENDS Integers

CONSTANT Sensors    \* a set of integers: the order of Alarm_gpios

VARIABLES
    armed,      \* is the alarm armed?
    told,       \* the value of each sensor that the user knows of
    round,      \* the sensors the round under way may still tell of
    owed        \* is a photograph owed for the last value told?

alarmVars == <<armed, told, round, owed>>

Init ==
    /\ armed \in BOOLEAN
    /\ told = [s \in Sensors |-> 0] /\ round = {} /\ owed = FALSE

\* alarm_on.cgi, alarm_off.cgi.
Arm    == armed' = TRUE  /\ UNCHANGED <<told, round, owed>>
Disarm == armed' = FALSE /\ UNCHANGED <<told, round, owed>>

BeginRound ==
    /\ armed /\ ~owed /\ round = {}
    /\ round' = Sensors
    /\ UNCHANGED <<armed, told, owed>>

After(s) == {r \in round : r > s}

\* The sensor has not changed, or cannot be read.
Pass(s) ==
    /\ s \in round /\ ~owed
    /\ round' = After(s)
    /\ UNCHANGED <<armed, told, owed>>

Tell(s) ==
    /\ s \in round /\ ~owed
    /\ told' = [told EXCEPT ![s] = 1 - told[s]]
    /\ owed' = (told'[s] # 0)
    /\ round' = After(s)
    /\ UNCHANGED armed

Photograph == owed /\ owed' = FALSE /\ UNCHANGED <<armed, told, round>>

Next ==
    \/ Arm \/ Disarm \/ BeginRound \/ Photograph
    \/ \E s \in Sensors : Pass(s) \/ Tell(s)

Spec == Init /\ [][Next]_alarmVars

=============================================================================
