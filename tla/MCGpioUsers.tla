---------------------------- MODULE MCGpioUsers -----------------------------
(* The GPIO library for TLC, in the hands of a program that makes any        *)
(* sequence of calls on two lines (calls on one must leave the other alone), *)
(* or in those of alarm4pi, whose main() starts and ends it with the other   *)
(* services (Services) on exactly the lines that configure_gpios() uses.     *)
EXTENDS GpioControl, Sequences

VARIABLES mpc, pin, conf, flag, curl_flag, refs, thread, todo, busy,   \* see Services
          user                                  \* "any program" or "alarm4pi"

S == INSTANCE Services

ASSUME LinesAssumption == \A i \in 1..S!NumPins : S!Conf_gpios[i].line \in Lines

serviceVars == <<mpc, pin, conf, flag, curl_flag, refs, thread, todo, busy>>
allVars == <<libraryVars, serviceVars, user>>

TestedLines == {"RELAY1", "CONTACT1"}

UsersInit ==
    /\ user \in {"any program", "alarm4pi"} /\ S!Init
    /\ user = "any program" => \A f \in DOMAIN conf : conf[f] = "rejected"

AnyCall ==
    \/ open_gpios \/ close_gpios
    \/ \E l \in TestedLines :
          \/ \E d \in Dirs \union {Invalid} : gpio_direction(l, d)
          \/ gpio_read(l)
          \/ \E v \in {LOW, HIGH} : gpio_write(l, v) \/ Pinctrl(l, v)

UsersNext ==
    \/ user = "any program" /\ AnyCall /\ UNCHANGED <<serviceVars, user>>
    \/ user = "alarm4pi" /\ S!Next /\ UNCHANGED user

UsersSpec == UsersInit /\ [][UsersNext]_allVars

\* A transfer is in progress only while libcurl is alive and for a client that was
\* started, and the polling thread runs only while the lines are held as
\* configure_gpios() set them up (init_polling(), deinit_polling()).
ServicesCovered == S!TypeOK /\ S!TransferCovered /\ S!ThreadHasLines

\* When main() returns libcurl is cleaned up and the lines are given back.
EndsClean == S!EndsClean

\* What every step keeps: in the hands of another program the services never begin.
UsersInv ==
    /\ user \in {"any program", "alarm4pi"}
    /\ user = "any program" => mpc = "begin"
    /\ S!IndInv

=============================================================================
