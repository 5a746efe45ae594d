---------------------------- MODULE GpioControl ----------------------------
(***************************************************************************)
(* The GPIO library of gpio_control.c: open_gpios(), close_gpios(),        *)
(* gpio_direction(), gpio_read() and gpio_write() in any sequence of calls *)
(* its header allows.  Calls are sequential: the daemon makes them first   *)
(* from main() and then from the polling thread.                           *)
(*                                                                         *)
(* libgpiod is external: a line is requested from the kernel with a        *)
(* direction, a request may fail (the line is busy, no memory), and so may *)
(* the read or the write of a line.  The scripts of the web interface set  *)
(* output levels with pinctrl, behind the library's back.                  *)
(***************************************************************************)
EXTENDS GpioLevels, Integers

CONSTANTS
    Lines           \* the lines of the chip

Dirs == {"in", "in_pulldown", "in_pullup", "out"}
Invalid == "invalid"    \* a direction that is none of the four

VARIABLES
    opened,         \* g_library_opened, with the chip and the array of contexts
    req,            \* the direction a line is requested with, "none" if it is not
    dir,            \* the direction field of each context
    out,            \* the level the line is driven to while it is an output
    call,           \* the last call
    ret,            \* whether it succeeded
    asked           \* history: lines made outputs by a call that succeeded

gpioVars == <<opened, req, dir, out>>
libraryVars == <<gpioVars, call, ret, asked>>

Calls == {"open", "close", "direction", "read", "write", "idle"}

\* Type correctness of what the kernel, the library and the callers know of each line.
LibraryTypeOK ==
    /\ opened \in BOOLEAN
    /\ req \in [Lines -> Dirs \union {"none"}]
    /\ dir \in [Lines -> Dirs]
    /\ out \in [Lines -> {LOW, HIGH}]
    /\ call \in Calls
    /\ ret \in {"ok", "error"}
    /\ asked \subseteq Lines

LibraryInit ==
    /\ opened = FALSE
    /\ req = [l \in Lines |-> "none"] /\ dir = [l \in Lines |-> "in"]
    /\ out = [l \in Lines |-> LOW]
    /\ call = "idle" /\ ret = "ok" /\ asked = {}

-----------------------------------------------------------------------------

\* A second call finds the library open and does nothing.  Otherwise the chip
\* is opened and the contexts are allocated, zeroed (0 is PIN_IN_DIR); after a
\* failure the chip is closed again.
open_gpios ==
    /\ call' = "open"
    /\ \/ opened /\ ret' = "ok" /\ UNCHANGED <<gpioVars, asked>>
       \/ /\ ~opened /\ ret' = "ok"
          /\ opened' = TRUE
          /\ req' = [l \in Lines |-> "none"] /\ dir' = [l \in Lines |-> "in"]
          /\ UNCHANGED <<out, asked>>
       \/ ~opened /\ ret' = "error" /\ UNCHANGED <<gpioVars, asked>>

\* Every request is released and the contexts are freed; a second call does
\* nothing.
close_gpios ==
    /\ call' = "close" /\ ret' = "ok"
    /\ \/ ~opened /\ UNCHANGED <<gpioVars, asked>>
       \/ /\ opened /\ opened' = FALSE
          /\ req' = [l \in Lines |-> "none"] /\ dir' = [l \in Lines |-> "in"]
          /\ asked' = {}
          /\ UNCHANGED out

\* build_line_request(): the kernel gives the line, and drives an output to the
\* initial value.
LineRequested(l, d, initial_value) ==
    /\ d # Invalid
    /\ req' = [req EXCEPT ![l] = d]
    /\ out' = [out EXCEPT ![l] = IF d = "out" THEN initial_value ELSE out[l]]

\* The level to go back to: it is read only if the line is requested now.
OldValue(l) == IF req[l] # "none" /\ dir[l] = "out" THEN out[l] ELSE LOW

\* Mutant of Restored: the line comes back with the new direction, which is recorded.
Restored_Anew(l, d) ==
    /\ req[l] = "none" /\ LineRequested(l, d, LOW)
    /\ dir' = [dir EXCEPT ![l] = d]
    /\ ret' = "error"
    /\ UNCHANGED asked

\* The line is released and requested again with the new direction.
Reconfigured(l, d) ==
    /\ LineRequested(l, d, LOW)
    /\ dir' = [dir EXCEPT ![l] = d]
    /\ asked' = IF d = "out" THEN asked \union {l} ELSE asked
    /\ ret' = "ok"

\* The new request failed, or the direction is invalid: the old one is tried,
\* with the direction the context holds even if the line was never requested.
Restored(l, d) ==
    /\ LineRequested(l, dir[l], OldValue(l))
    /\ ret' = "error"
    /\ UNCHANGED <<dir, asked>>

\* That failed too: the line is lost.
Lost(l, d) ==
    /\ req' = [req EXCEPT ![l] = "none"]
    /\ ret' = "error"
    /\ UNCHANGED <<dir, out, asked>>

\* The library is not open, or the level of an output could not be read.
Refused(l) ==
    /\ ret' = "error"
    /\ ~opened \/ (req[l] # "none" /\ dir[l] = "out")
    /\ UNCHANGED <<req, dir, out, asked>>

gpio_direction(l, d) ==
    /\ call' = "direction"
    /\ \/ opened /\ Reconfigured(l, d)
       \/ opened /\ Restored(l, d)
       \/ opened /\ Lost(l, d)
       \/ Refused(l)
    /\ UNCHANGED opened

\* EBADF, EINVAL before the line is read, or the kernel's error.
gpio_read(l) ==
    /\ call' = "read"
    /\ (ret' = "ok" /\ opened /\ req[l] # "none") \/ ret' = "error"
    /\ UNCHANGED <<gpioVars, asked>>

\* EBADF, EINVAL, EPERM before the line is written, or the kernel's error.
gpio_write(l, v) ==
    /\ call' = "write"
    /\ \/ /\ opened /\ req[l] # "none" /\ dir[l] = "out"
          /\ ret' = "ok" /\ out' = [out EXCEPT ![l] = v]
       \/ ret' = "error" /\ UNCHANGED out
    /\ UNCHANGED <<opened, req, dir, asked>>

\* pinctrl set <line> op dl|dh
Pinctrl(l, v) ==
    /\ out' = [out EXCEPT ![l] = v]
    /\ call' = "idle" /\ ret' = "ok"
    /\ UNCHANGED <<opened, req, dir, asked>>

LibraryNext ==
    \/ open_gpios \/ close_gpios
    \/ \E l \in Lines :
          \/ \E d \in Dirs \union {Invalid} : gpio_direction(l, d)
          \/ gpio_read(l)
          \/ \E v \in {LOW, HIGH} : gpio_write(l, v) \/ Pinctrl(l, v)

LibrarySpec == LibraryInit /\ [][LibraryNext]_libraryVars

-----------------------------------------------------------------------------

\* No line stays requested when the library is closed: whatever failed before,
\* close_gpios() gives every line back.
HeldOnlyWhileOpen == \A l \in Lines : req[l] # "none" => opened

\* The context of a requested line holds the direction the kernel has, after any
\* mixture of failed changes, restored and lost lines: the test of gpio_write()
\* for an output is the right one.
DirectionMatches == \A l \in Lines : req[l] # "none" => dir[l] = req[l]

\* A line is driven only if a call of gpio_direction() made it an output and
\* succeeded: a failed call never turns an input into an output.
DrivenOnlyIfAsked == \A l \in Lines : req[l] = "out" => l \in asked

\* A call of gpio_direction() that fails does not change the level of a line
\* that was an output and still is (a relay does not switch).
FailedCallKeepsLevel ==
    [][\A l \in Lines :
         /\ call' = "direction" /\ ret' = "error"
         /\ req[l] = "out" /\ req'[l] = "out"
         => out'[l] = out[l]]_libraryVars

\* The strengthening that makes the three invariants inductive: a lost line keeps
\* its direction, which a later failure may restore.
AskedInv == \A l \in Lines : dir[l] = "out" => l \in asked

LibraryInv ==
    LibraryTypeOK /\ HeldOnlyWhileOpen /\ DirectionMatches /\ DrivenOnlyIfAsked /\ AskedInv

=============================================================================
