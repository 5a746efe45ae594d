---------------------------- MODULE MCMmalClock -----------------------------
(* MmalClock for TLC: two callers, two slots, a unit of time of 10 ms and    *)
(* thresholds of a few of them, and one script of calls for each thing that  *)
(* can come in the way of a request.                                         *)
EXTENDS MmalClock, TLC
CONSTANTS c1, c2

Add(t) == <<"request_add", t>>
Do(k) == <<k, 0>>
Alone(s) == c1 :> <<>> @@ c2 :> s
With(s) == c1 :> <<Add(3)>> @@ c2 :> s

\* In this order: a flush; the end; another request; a turn of the speed; no slot left;
\* another reader of the time; the threshold; a pause; the other port's updates; the port
\* disabled; a reference; a jump back of the time.
MCScripts ==
    {With(<<Add(2), Do("request_flush")>>), With(<<Add(2), Do("destroy")>>), With(<<Add(2)>>),
     With(<<<<"scale_set", -1>>, Add(2)>>), With(<<Add(2), Add(2)>>),
     With(<<Do("time_get")>>), With(<<Do("threshold_set")>>),
     With(<<Do("stop"), Do("start")>>),
     With(<<<<"scale_buffer", 2>>>>), With(<<<<"time_buffer", 4>>>>),
     With(<<Do("empty_buffer"), Do("disable")>>),
     With(<<Do("empty_buffer"), Do("reference"), <<"scale_set", 2>>>>),
     Alone(<<Do("reference"), Add(3), <<"time_set", 4>>>>),
     Alone(<<Add(6), <<"offset_set", 4>>, <<"offset_set", 0>>, Add(5)>>)}
=============================================================================
