-------------------------- MODULE MmalClockProofs --------------------------
(***************************************************************************)
(* No request of a client is lost by the clock or served twice, and no     *)
(* slot and no buffer, for any number of callers, slots and buffers, any   *)
(* times and thresholds, and any calls (RequestsServed).                   *)
(*                                                                         *)
(* A call is a sequence of steps of which any number is left: what is left *)
(* keeps a shape (Shaped), which says where in it a request is inserted,   *)
(* a buffer is returned and the clock is freed.  A name of a request is    *)
(* that of one call, so a request that is about to be inserted is a new    *)
(* one (FreshInv).  Everything is counted: slots against the callers that  *)
(* are between taking one and inserting (SlotsInv), buffers against those  *)
(* that are about to return one (BuffersInv).  A clock is freed when its   *)
(* worker has ended and its list has been flushed (EndInv).                *)
(*                                                                         *)
(* And its thread sleeps no longer than the first request allows, which is *)
(* the first in time (TimerRight).  Every step of a call that changes the  *)
(* list or the time is followed by one that wakes the worker (Telling).    *)
(* So unless a wake-up is under way (Waking) a worker that sleeps over     *)
(* requests has set its timer from the time there is now, and as the time  *)
(* passes the timer and the request come nearer at the same speed          *)
(* (AlarmInv).  What a thread has sampled is of now (SampleInv); the list  *)
(* is in order even while the worker has taken its first request           *)
(* (OrderInv).                                                             *)
(***************************************************************************)
EXTENDS MmalClock, FiniteSetTheorems, WellFoundedInduction, TLAPS

\* A set of numbers that is not empty has its minimum in it.
LEMMA MinMember ==
    ASSUME NEW S \in SUBSET Nat, S # {}
    PROVE  Min(S) \in S /\ \A y \in S : Min(S) =< y
<1> DEFINE R == {ss \in Nat \X Nat : ss[1] < ss[2]}
<1>1. IsWellFoundedOn(R, Nat)
  BY NatLessThanWellFounded DEF OpToRel
<1> HIDE DEF R
<1>2. PICK x \in S : \A y \in S : ~ (<<y, x>> \in R)
  BY <1>1, WFMin
<1>3. ASSUME NEW y \in S PROVE x =< y
  <2>1. <<y, x>> \in Nat \X Nat /\ <<y, x>>[1] = y /\ <<y, x>>[2] = x
    OBVIOUS
  <2>2. CASE y < x
    BY <2>1, <2>2, <1>2 DEF R
  <2> QED
    BY <2>2
<1> QED
  BY <1>3 DEF Min

\* What inserting a request makes of the list: it is put somewhere, the rest stays.
InsertedAs(t, r, p) ==
    /\ p \in 1..(Len(requests) + 1)
    /\ t \in Seq(Request) /\ Len(t) = Len(requests) + 1
    /\ t[p] = r
    /\ \A k \in 1..(p - 1) : t[k] = requests[k]
    /\ \A k \in (p + 1)..(Len(requests) + 1) : t[k] = requests[k - 1]

\* mmal_clock_request_insert() puts the request in one place of the list, and keeps
\* the others in their order.
LEMMA InsertedSomewhere ==
    ASSUME requests \in Seq(Request), NEW r \in Request
    PROVE  \E p \in 1..(Len(requests) + 1) : InsertedAs(Inserted(r), r, p)
<1> DEFINE later == {k \in DOMAIN requests : Before(r, requests[k])}
<1>1. CASE Inserted(r) = Append(requests, r)
  <2>1. InsertedAs(Append(requests, r), r, Len(requests) + 1)
    BY DEF InsertedAs
  <2> QED
    BY <1>1, <2>1
<1>2. CASE later # {} /\ Inserted(r) = InsertAt(requests, Min(later), r)
  <2>1. later \in SUBSET Nat
    OBVIOUS
  <2>2. Min(later) \in 1..Len(requests)
    <3>1. Min(later) \in later
      BY <1>2, <2>1, MinMember
    <3> QED
      BY <3>1
  <2>3. ASSUME NEW i \in 1..Len(requests)
        PROVE  InsertedAs(InsertAt(requests, i, r), r, i)
    BY DEF InsertAt, InsertedAs
  <2>4. InsertedAs(InsertAt(requests, Min(later), r), r, Min(later))
    BY <2>2, <2>3
  <2> HIDE DEF later
  <2>5. Min(later) \in 1..(Len(requests) + 1)
    BY <2>2
  <2> QED
    BY <1>2, <2>4, <2>5
<1> QED
  BY <1>1, <1>2 DEF Inserted

-----------------------------------------------------------------------------
\* A step of a call leaves a call that is as regular.
LEMMA ShapedTail ==
    ASSUME NEW s, Shaped(s), s # <<>>
    PROVE  /\ Shaped(Tail(s))
           /\ Len(s) > 0 /\ Len(Tail(s)) = Len(s) - 1 /\ Head(s) = s[1]
           /\ \A x : Has(Tail(s), x) => Has(s, x)
           /\ \A x : Has(s, x) /\ Head(s) # x => Has(Tail(s), x)
<1>1. /\ s \in Seq(StepNames) /\ Len(s) \in Nat /\ Len(s) > 0 /\ Head(s) = s[1]
      /\ Tail(s) \in Seq(StepNames) /\ Len(Tail(s)) = Len(s) - 1
      /\ \A k \in 1..(Len(s) - 1) : Tail(s)[k] = s[k + 1]
      /\ DOMAIN s = 1..Len(s) /\ DOMAIN Tail(s) = 1..(Len(s) - 1)
  BY DEF Shaped
<1>2. \A x : Has(Tail(s), x) => Has(s, x)
  BY <1>1 DEF Has
<1>3. \A x : Has(s, x) /\ Head(s) # x => Has(Tail(s), x)
  <2> SUFFICES ASSUME NEW x, NEW k \in DOMAIN s, s[k] = x, Head(s) # x
               PROVE  Has(Tail(s), x)
    BY DEF Has
  <2>1. k - 1 \in DOMAIN Tail(s) /\ Tail(s)[k - 1] = x
    BY <1>1
  <2> QED
    BY <2>1 DEF Has
<1>4. ASSUME NEW j \in DOMAIN Tail(s)
      PROVE  /\ Tail(s)[j] = "check" => j < Len(Tail(s)) /\ Tail(s)[j + 1] = "insert"
             /\ Tail(s)[j] = "insert" /\ j > 1 => Tail(s)[j - 1] = "check"
             /\ Tail(s)[j] \in {"return", "post_tell"} => j = Len(Tail(s))
             /\ Tail(s)[j] = "enqueue" => Len(Tail(s)) = 1
             /\ \A k \in DOMAIN Tail(s) :
                   Tail(s)[j] = "insert" => (Tail(s)[k] = "insert" => j = k) /\ Tail(s)[k] # "return"
  <2>1. j + 1 \in DOMAIN s /\ j \in 1..(Len(s) - 1) /\ Tail(s)[j] = s[j + 1]
    BY <1>1
  <2>2. Tail(s)[j] = "check" => j < Len(Tail(s)) /\ Tail(s)[j + 1] = "insert"
    BY <1>1, <2>1 DEF Shaped
  <2>3. Tail(s)[j] = "insert" /\ j > 1 => Tail(s)[j - 1] = "check"
    BY <1>1, <2>1 DEF Shaped
  <2>4. Tail(s)[j] \in {"return", "post_tell"} => j = Len(Tail(s))
    BY <1>1, <2>1 DEF Shaped
  <2>5. Tail(s)[j] = "enqueue" => Len(Tail(s)) = 1
    BY <1>1, <2>1 DEF Shaped
  <2>6. ASSUME NEW k \in DOMAIN Tail(s), Tail(s)[j] = "insert"
        PROVE  (Tail(s)[k] = "insert" => j = k) /\ Tail(s)[k] # "return"
    <3>1. k + 1 \in DOMAIN s /\ Tail(s)[k] = s[k + 1] /\ s[j + 1] = "insert"
      BY <1>1, <2>1, <2>6
    <3>2. (s[k + 1] = "insert" => j + 1 = k + 1) /\ s[k + 1] # "return"
      BY <2>1, <3>1 DEF Shaped
    <3> QED
      BY <1>1, <3>1, <3>2
  <2> QED
    BY <2>2, <2>3, <2>4, <2>5, <2>6
<1>5. ASSUME Has(Tail(s), "free")
      PROVE  /\ Len(Tail(s)) <= 5
             /\ \A j \in DOMAIN Tail(s) : Tail(s)[j] = mmal_clock_destroy[5 - Len(Tail(s)) + j]
  <2>1. /\ Len(s) <= 5
        /\ \A j \in DOMAIN s : s[j] = mmal_clock_destroy[5 - Len(s) + j]
    BY <1>2, <1>5 DEF Shaped
  <2>2. ASSUME NEW j \in DOMAIN Tail(s)
        PROVE  Tail(s)[j] = mmal_clock_destroy[5 - Len(Tail(s)) + j]
    <3>1. /\ j + 1 \in DOMAIN s /\ Tail(s)[j] = s[j + 1]
          /\ 5 - Len(s) + (j + 1) = 5 - Len(Tail(s)) + j
      BY <1>1
    <3> QED
      BY <2>1, <3>1
  <2> QED
    BY <1>1, <2>1, <2>2
<1>6. Shaped(Tail(s))
  BY <1>1, <1>4, <1>5 DEF Shaped
<1> QED
  BY <1>1, <1>2, <1>3, <1>6

\* Where the steps that matter stand.
LEMMA ShapedHead ==
    ASSUME NEW s, Shaped(s), s # <<>>
    PROVE  /\ Head(s) = "insert" => ~Has(Tail(s), "insert")
           /\ Head(s) = "check" => Tail(s) # <<>> /\ Head(Tail(s)) = "insert"
           /\ Tail(s) # <<>> /\ Head(Tail(s)) = "insert" => Head(s) = "check"
           /\ Head(s) \in {"return", "enqueue", "post_tell"} => Tail(s) = <<>>
           /\ Head(s) \in {"check", "insert"} => Has(s, "insert")
           /\ Has(s, "insert") => ~Has(s, "return")
           /\ Has(s, "enqueue") => Head(s) = "enqueue"
           /\ Has(s, "free") => Len(s) <= 5 /\ Head(s) = mmal_clock_destroy[6 - Len(s)]
<1>1. /\ s \in Seq(StepNames) /\ Len(s) \in Nat /\ Len(s) > 0 /\ Head(s) = s[1]
      /\ Tail(s) \in Seq(StepNames) /\ Len(Tail(s)) = Len(s) - 1
      /\ \A k \in 1..(Len(s) - 1) : Tail(s)[k] = s[k + 1]
      /\ DOMAIN s = 1..Len(s) /\ DOMAIN Tail(s) = 1..(Len(s) - 1)
      /\ 1 \in DOMAIN s
  BY DEF Shaped
<1>10. Len(s) = 1 => Tail(s) = <<>>
  BY <1>1
<1>11. Tail(s) # <<>> => Len(s) > 1 /\ Head(Tail(s)) = s[2]
  <2> SUFFICES ASSUME Tail(s) # <<>> PROVE Len(s) > 1 /\ Head(Tail(s)) = s[2]
    OBVIOUS
  <2>1. Len(s) > 1
    BY <1>1, <1>10
  <2> QED
    BY <1>1, <2>1
<1>12. Len(s) > 1 => Tail(s) # <<>> /\ Head(Tail(s)) = s[2]
  <2>1. ASSUME Len(s) > 1 PROVE Tail(s) # <<>>
    <3>1. 1 \in DOMAIN Tail(s)
      BY <1>1, <2>1
    <3> QED
      BY <3>1
  <2> QED
    BY <1>11, <2>1
<1>2. Head(s) = "insert" => ~Has(Tail(s), "insert")
  <2> SUFFICES ASSUME s[1] = "insert", NEW k \in DOMAIN Tail(s), Tail(s)[k] = "insert"
               PROVE  FALSE
    BY <1>1 DEF Has
  <2>1. k + 1 \in DOMAIN s /\ s[k + 1] = "insert" /\ k + 1 # 1
    BY <1>1
  <2> QED
    BY <1>1, <2>1 DEF Shaped
<1>3. Head(s) = "check" => Tail(s) # <<>> /\ Head(Tail(s)) = "insert"
  BY <1>1, <1>12 DEF Shaped
<1>4. Tail(s) # <<>> /\ Head(Tail(s)) = "insert" => Head(s) = "check"
  <2> SUFFICES ASSUME Len(s) > 1, s[2] = "insert" PROVE s[1] = "check"
    BY <1>1, <1>11
  <2>1. 2 \in DOMAIN s /\ 2 > 1 /\ 2 - 1 = 1
    BY <1>1
  <2> QED
    BY <2>1 DEF Shaped
<1>5. Head(s) \in {"return", "enqueue", "post_tell"} => Tail(s) = <<>>
  <2>1. s[1] \in {"return", "post_tell"} => 1 = Len(s)
    BY <1>1 DEF Shaped
  <2>2. s[1] = "enqueue" => Len(s) = 1
    BY <1>1 DEF Shaped
  <2> QED
    BY <1>1, <1>10, <2>1, <2>2
<1>6. Head(s) \in {"check", "insert"} => Has(s, "insert")
  <2>1. s[1] = "check" => 1 < Len(s) /\ s[1 + 1] = "insert"
    BY <1>1 DEF Shaped
  <2> QED
    BY <1>1, <2>1 DEF Has
<1>7. Has(s, "insert") => ~Has(s, "return")
  BY DEF Shaped, Has
<1>8. Has(s, "enqueue") => Head(s) = "enqueue"
  <2> SUFFICES ASSUME NEW k \in DOMAIN s, s[k] = "enqueue" PROVE s[1] = "enqueue"
    BY <1>1 DEF Has
  <2>1. Len(s) = 1
    BY DEF Shaped
  <2> QED
    BY <1>1, <2>1
<1>9. Has(s, "free") => Len(s) <= 5 /\ Head(s) = mmal_clock_destroy[6 - Len(s)]
  <2> SUFFICES ASSUME Has(s, "free")
               PROVE  Len(s) <= 5 /\ s[1] = mmal_clock_destroy[6 - Len(s)]
    BY <1>1
  <2>1. Len(s) <= 5 /\ s[1] = mmal_clock_destroy[5 - Len(s) + 1]
    BY <1>1 DEF Shaped
  <2>2. 5 - Len(s) + 1 = 6 - Len(s)
    BY <1>1
  <2> QED
    BY <2>1, <2>2
<1> QED
  BY <1>2, <1>3, <1>4, <1>5, <1>6, <1>7, <1>8, <1>9

-----------------------------------------------------------------------------
(* The shape of the calls.                                                  *)

Kinds == {"request_add", "request_flush", "time_get", "time_set", "offset_set", "scale_set",
          "threshold_set", "start", "stop", "reference", "empty_buffer", "time_buffer",
          "scale_buffer", "disable", "destroy"}

\* The kinds of calls.
LEMMA ProgramKinds == DOMAIN Program = Kinds
BY DEF Program, Kinds

Received(k) == k \in {"time_buffer", "scale_buffer", "empty_buffer"}

\* A call that has neither of the steps that matter most.
LEMMA ShapedPlain ==
    ASSUME NEW s \in Seq(StepNames),
           \A j \in 1..Len(s) : s[j] \notin {"check", "insert", "free"},
           \A j \in 1..Len(s) : s[j] \in {"return", "post_tell"} => j = Len(s),
           \A j \in 1..Len(s) : s[j] = "enqueue" => Len(s) = 1
    PROVE  Shaped(s) /\ ~Has(s, "insert") /\ ~Has(s, "free")
BY DEF Shaped, Has

\* mmal_clock_request_add().
LEMMA ShapedAdd ==
    LET s == mmal_clock_request_add
    IN  /\ Shaped(s) /\ s # <<>> /\ Head(s) # "insert" /\ ~Returns(s) /\ ~Has(s, "free")
<1> DEFINE s == <<"sample", "apply", "check", "insert", "post">>
<1>1. s \in Seq(StepNames)
  BY DEF StepNames
<1>2. /\ Len(s) = 5 /\ DOMAIN s = 1..5 /\ s[1] = "sample" /\ s[2] = "apply" /\ s[3] = "check"
      /\ s[4] = "insert" /\ s[5] = "post" /\ s # <<>> /\ Head(s) = "sample"
  OBVIOUS
<1> HIDE DEF s
<1>3. \A k \in DOMAIN s : k = 1 \/ k = 2 \/ k = 3 \/ k = 4 \/ k = 5
  BY <1>2
<1>4. ~Has(s, "free") /\ ~Returns(s)
  BY <1>2, <1>3 DEF Has, Returns
<1>5. Shaped(s)
  BY <1>1, <1>2, <1>3, <1>4 DEF Shaped
<1>6. Head(s) # "insert"
  BY <1>2
<1> QED
  BY <1>2, <1>4, <1>5, <1>6 DEF s, mmal_clock_request_add

\* mmal_clock_destroy().
LEMMA ShapedDestroy ==
    LET s == mmal_clock_destroy
    IN  /\ Shaped(s) /\ s # <<>> /\ Head(s) # "insert" /\ ~Returns(s) /\ Len(s) = 5
<1> DEFINE s == <<"halt", "post", "join", "flush", "free">>
<1>1. s \in Seq(StepNames)
  BY DEF StepNames
<1>2. /\ Len(s) = 5 /\ DOMAIN s = 1..5 /\ s[1] = "halt" /\ s[2] = "post" /\ s[3] = "join"
      /\ s[4] = "flush" /\ s[5] = "free" /\ s # <<>> /\ Head(s) = "halt"
  OBVIOUS
<1>3. s = mmal_clock_destroy
  BY DEF mmal_clock_destroy
<1> HIDE DEF s
<1>4. \A k \in DOMAIN s : k = 1 \/ k = 2 \/ k = 3 \/ k = 4 \/ k = 5
  BY <1>2
<1>5. ~Returns(s)
  BY <1>2, <1>4 DEF Returns
<1>6. \A j \in DOMAIN s : 5 - Len(s) + j = j
  BY <1>2
<1>7. Shaped(s)
  BY <1>1, <1>2, <1>3, <1>4, <1>6 DEF Shaped
<1>8. Head(s) # "insert"
  BY <1>2
<1> QED
  BY <1>2, <1>3, <1>5, <1>7, <1>8

\* Every call of a program is regular; it ends with the return of a buffer just when
\* it is made for one.
LEMMA ShapedPrograms ==
    ASSUME NEW k \in DOMAIN Program
    PROVE  /\ Shaped(Program[k]) /\ Program[k] # <<>> /\ Head(Program[k]) # "insert"
           /\ Returns(Program[k]) <=> Received(k)
           /\ Has(Program[k], "free") => Len(Program[k]) = 5
<1>1. CASE k = "request_add"
  <2>1. Program[k] = mmal_clock_request_add /\ ~Received(k)
    BY <1>1 DEF Program, Received
  <2> QED
    BY <2>1, ShapedAdd
<1>2. CASE k = "destroy"
  <2>1. Program[k] = mmal_clock_destroy /\ ~Received(k)
    BY <1>2 DEF Program, Received
  <2> QED
    BY <2>1, ShapedDestroy
<1>3. CASE k = "request_flush"
  <2> DEFINE s == <<"flush">>
  <2>1. s \in Seq(StepNames)
    BY DEF StepNames
  <2>2. /\ Len(s) = 1 /\ DOMAIN s = 1..1 /\ Head(s) = "flush" /\ s # <<>>
        /\ s[1] = "flush"
    OBVIOUS
  <2>3. Program[k] = s /\ ~Received(k)
    BY <1>3 DEF Program, Received
  <2> HIDE DEF s
  <2>4. \A j \in DOMAIN s : j = 1
    BY <2>2
  <2>5. Shaped(s) /\ ~Has(s, "free")
    BY <2>1, <2>2, <2>4, ShapedPlain
  <2>6. ~Returns(s) /\ Head(s) # "insert"
    BY <2>2, <2>4 DEF Returns
  <2> QED
    BY <2>2, <2>3, <2>5, <2>6
<1>4. CASE k = "time_get"
  <2> DEFINE s == <<"sample", "apply">>
  <2>1. s \in Seq(StepNames)
    BY DEF StepNames
  <2>2. /\ Len(s) = 2 /\ DOMAIN s = 1..2 /\ Head(s) = "sample" /\ s # <<>>
        /\ s[1] = "sample" /\ s[2] = "apply"
    OBVIOUS
  <2>3. Program[k] = s /\ ~Received(k)
    BY <1>4 DEF Program, Received
  <2> HIDE DEF s
  <2>4. \A j \in DOMAIN s : j = 1 \/ j = 2
    BY <2>2
  <2>5. Shaped(s) /\ ~Has(s, "free")
    BY <2>1, <2>2, <2>4, ShapedPlain
  <2>6. ~Returns(s) /\ Head(s) # "insert"
    BY <2>2, <2>4 DEF Returns
  <2> QED
    BY <2>2, <2>3, <2>5, <2>6
<1>5. CASE k = "time_set"
  <2> DEFINE s == <<"sample", "apply", "time", "post_tell">>
  <2>1. s \in Seq(StepNames)
    BY DEF StepNames
  <2>2. /\ Len(s) = 4 /\ DOMAIN s = 1..4 /\ Head(s) = "sample" /\ s # <<>>
        /\ s[1] = "sample" /\ s[2] = "apply" /\ s[3] = "time" /\ s[4] = "post_tell"
    OBVIOUS
  <2>3. Program[k] = s /\ ~Received(k)
    BY <1>5 DEF Program, Received
  <2> HIDE DEF s
  <2>4. \A j \in DOMAIN s : j = 1 \/ j = 2 \/ j = 3 \/ j = 4
    BY <2>2
  <2>5. Shaped(s) /\ ~Has(s, "free")
    BY <2>1, <2>2, <2>4, ShapedPlain
  <2>6. ~Returns(s) /\ Head(s) # "insert"
    BY <2>2, <2>4 DEF Returns
  <2> QED
    BY <2>2, <2>3, <2>5, <2>6
<1>6. CASE k = "offset_set"
  <2> DEFINE s == <<"offset", "post_tell">>
  <2>1. s \in Seq(StepNames)
    BY DEF StepNames
  <2>2. /\ Len(s) = 2 /\ DOMAIN s = 1..2 /\ Head(s) = "offset" /\ s # <<>>
        /\ s[1] = "offset" /\ s[2] = "post_tell"
    OBVIOUS
  <2>3. Program[k] = s /\ ~Received(k)
    BY <1>6 DEF Program, Received
  <2> HIDE DEF s
  <2>4. \A j \in DOMAIN s : j = 1 \/ j = 2
    BY <2>2
  <2>5. Shaped(s) /\ ~Has(s, "free")
    BY <2>1, <2>2, <2>4, ShapedPlain
  <2>6. ~Returns(s) /\ Head(s) # "insert"
    BY <2>2, <2>4 DEF Returns
  <2> QED
    BY <2>2, <2>3, <2>5, <2>6
<1>7. CASE k = "scale_set"
  <2> DEFINE s == <<"sample", "apply", "scale", "post_tell">>
  <2>1. s \in Seq(StepNames)
    BY DEF StepNames
  <2>2. /\ Len(s) = 4 /\ DOMAIN s = 1..4 /\ Head(s) = "sample" /\ s # <<>>
        /\ s[1] = "sample" /\ s[2] = "apply" /\ s[3] = "scale" /\ s[4] = "post_tell"
    OBVIOUS
  <2>3. Program[k] = s /\ ~Received(k)
    BY <1>7 DEF Program, Received
  <2> HIDE DEF s
  <2>4. \A j \in DOMAIN s : j = 1 \/ j = 2 \/ j = 3 \/ j = 4
    BY <2>2
  <2>5. Shaped(s) /\ ~Has(s, "free")
    BY <2>1, <2>2, <2>4, ShapedPlain
  <2>6. ~Returns(s) /\ Head(s) # "insert"
    BY <2>2, <2>4 DEF Returns
  <2> QED
    BY <2>2, <2>3, <2>5, <2>6
<1>8. CASE k = "threshold_set"
  <2> DEFINE s == <<"threshold">>
  <2>1. s \in Seq(StepNames)
    BY DEF StepNames
  <2>2. /\ Len(s) = 1 /\ DOMAIN s = 1..1 /\ Head(s) = "threshold" /\ s # <<>>
        /\ s[1] = "threshold"
    OBVIOUS
  <2>3. Program[k] = s /\ ~Received(k)
    BY <1>8 DEF Program, Received
  <2> HIDE DEF s
  <2>4. \A j \in DOMAIN s : j = 1
    BY <2>2
  <2>5. Shaped(s) /\ ~Has(s, "free")
    BY <2>1, <2>2, <2>4, ShapedPlain
  <2>6. ~Returns(s) /\ Head(s) # "insert"
    BY <2>2, <2>4 DEF Returns
  <2> QED
    BY <2>2, <2>3, <2>5, <2>6
<1>9. CASE k = "start"
  <2> DEFINE s == <<"start", "post", "sample", "apply">>
  <2>1. s \in Seq(StepNames)
    BY DEF StepNames
  <2>2. /\ Len(s) = 4 /\ DOMAIN s = 1..4 /\ Head(s) = "start" /\ s # <<>>
        /\ s[1] = "start" /\ s[2] = "post" /\ s[3] = "sample" /\ s[4] = "apply"
    OBVIOUS
  <2>3. Program[k] = s /\ ~Received(k)
    BY <1>9 DEF Program, Received
  <2> HIDE DEF s
  <2>4. \A j \in DOMAIN s : j = 1 \/ j = 2 \/ j = 3 \/ j = 4
    BY <2>2
  <2>5. Shaped(s) /\ ~Has(s, "free")
    BY <2>1, <2>2, <2>4, ShapedPlain
  <2>6. ~Returns(s) /\ Head(s) # "insert"
    BY <2>2, <2>4 DEF Returns
  <2> QED
    BY <2>2, <2>3, <2>5, <2>6
<1>10. CASE k = "stop"
  <2> DEFINE s == <<"stop", "sample", "apply">>
  <2>1. s \in Seq(StepNames)
    BY DEF StepNames
  <2>2. /\ Len(s) = 3 /\ DOMAIN s = 1..3 /\ Head(s) = "stop" /\ s # <<>>
        /\ s[1] = "stop" /\ s[2] = "sample" /\ s[3] = "apply"
    OBVIOUS
  <2>3. Program[k] = s /\ ~Received(k)
    BY <1>10 DEF Program, Received
  <2> HIDE DEF s
  <2>4. \A j \in DOMAIN s : j = 1 \/ j = 2 \/ j = 3
    BY <2>2
  <2>5. Shaped(s) /\ ~Has(s, "free")
    BY <2>1, <2>2, <2>4, ShapedPlain
  <2>6. ~Returns(s) /\ Head(s) # "insert"
    BY <2>2, <2>4 DEF Returns
  <2> QED
    BY <2>2, <2>3, <2>5, <2>6
<1>11. CASE k = "reference"
  <2> DEFINE s == <<"refer", "sample", "apply">>
  <2>1. s \in Seq(StepNames)
    BY DEF StepNames
  <2>2. /\ Len(s) = 3 /\ DOMAIN s = 1..3 /\ Head(s) = "refer" /\ s # <<>>
        /\ s[1] = "refer" /\ s[2] = "sample" /\ s[3] = "apply"
    OBVIOUS
  <2>3. Program[k] = s /\ ~Received(k)
    BY <1>11 DEF Program, Received
  <2> HIDE DEF s
  <2>4. \A j \in DOMAIN s : j = 1 \/ j = 2 \/ j = 3
    BY <2>2
  <2>5. Shaped(s) /\ ~Has(s, "free")
    BY <2>1, <2>2, <2>4, ShapedPlain
  <2>6. ~Returns(s) /\ Head(s) # "insert"
    BY <2>2, <2>4 DEF Returns
  <2> QED
    BY <2>2, <2>3, <2>5, <2>6
<1>12. CASE k = "empty_buffer"
  <2> DEFINE s == <<"enqueue">>
  <2>1. s \in Seq(StepNames)
    BY DEF StepNames
  <2>2. /\ Len(s) = 1 /\ DOMAIN s = 1..1 /\ Head(s) = "enqueue" /\ s # <<>>
        /\ s[1] = "enqueue"
    OBVIOUS
  <2>3. Program[k] = s /\ Received(k)
    BY <1>12 DEF Program, Received
  <2> HIDE DEF s
  <2>4. \A j \in DOMAIN s : j = 1
    BY <2>2
  <2>5. Shaped(s) /\ ~Has(s, "free")
    BY <2>1, <2>2, <2>4, ShapedPlain
  <2>6. Returns(s) /\ Head(s) # "insert"
    BY <2>2, <2>4 DEF Returns
  <2> QED
    BY <2>2, <2>3, <2>5, <2>6
<1>13. CASE k = "time_buffer"
  <2> DEFINE s == <<"sample", "apply", "time", "post", "return">>
  <2>1. s \in Seq(StepNames)
    BY DEF StepNames
  <2>2. /\ Len(s) = 5 /\ DOMAIN s = 1..5 /\ Head(s) = "sample" /\ s # <<>>
        /\ s[1] = "sample" /\ s[2] = "apply" /\ s[3] = "time" /\ s[4] = "post" /\ s[5] = "return"
    OBVIOUS
  <2>3. Program[k] = s /\ Received(k)
    BY <1>13 DEF Program, Received
  <2> HIDE DEF s
  <2>4. \A j \in DOMAIN s : j = 1 \/ j = 2 \/ j = 3 \/ j = 4 \/ j = 5
    BY <2>2
  <2>5. Shaped(s) /\ ~Has(s, "free")
    BY <2>1, <2>2, <2>4, ShapedPlain
  <2>6. Returns(s) /\ Head(s) # "insert"
    BY <2>2, <2>4 DEF Returns
  <2> QED
    BY <2>2, <2>3, <2>5, <2>6
<1>14. CASE k = "scale_buffer"
  <2> DEFINE s == <<"sample", "apply", "scale", "post", "return">>
  <2>1. s \in Seq(StepNames)
    BY DEF StepNames
  <2>2. /\ Len(s) = 5 /\ DOMAIN s = 1..5 /\ Head(s) = "sample" /\ s # <<>>
        /\ s[1] = "sample" /\ s[2] = "apply" /\ s[3] = "scale" /\ s[4] = "post" /\ s[5] = "return"
    OBVIOUS
  <2>3. Program[k] = s /\ Received(k)
    BY <1>14 DEF Program, Received
  <2> HIDE DEF s
  <2>4. \A j \in DOMAIN s : j = 1 \/ j = 2 \/ j = 3 \/ j = 4 \/ j = 5
    BY <2>2
  <2>5. Shaped(s) /\ ~Has(s, "free")
    BY <2>1, <2>2, <2>4, ShapedPlain
  <2>6. Returns(s) /\ Head(s) # "insert"
    BY <2>2, <2>4 DEF Returns
  <2> QED
    BY <2>2, <2>3, <2>5, <2>6
<1>15. CASE k = "disable"
  <2> DEFINE s == <<"stop", "unqueue">>
  <2>1. s \in Seq(StepNames)
    BY DEF StepNames
  <2>2. /\ Len(s) = 2 /\ DOMAIN s = 1..2 /\ Head(s) = "stop" /\ s # <<>>
        /\ s[1] = "stop" /\ s[2] = "unqueue"
    OBVIOUS
  <2>3. Program[k] = s /\ ~Received(k)
    BY <1>15 DEF Program, Received
  <2> HIDE DEF s
  <2>4. \A j \in DOMAIN s : j = 1 \/ j = 2
    BY <2>2
  <2>5. Shaped(s) /\ ~Has(s, "free")
    BY <2>1, <2>2, <2>4, ShapedPlain
  <2>6. ~Returns(s) /\ Head(s) # "insert"
    BY <2>2, <2>4 DEF Returns
  <2> QED
    BY <2>2, <2>3, <2>5, <2>6
<1> QED
  BY <1>1, <1>2, <1>3, <1>4, <1>5, <1>6, <1>7, <1>8, <1>9, <1>10, <1>11, <1>12, <1>13, <1>14,
     <1>15, ProgramKinds DEF Kinds

\* What PostTell and a small difference of the time leave of a call.
LEMMA ShapedRests ==
    /\ Shaped(<<>>) /\ ~Has(<<>>, "insert") /\ ~Returns(<<>>) /\ ~Has(<<>>, "free")
    /\ Shaped(<<"return">>) /\ ~Has(<<"return">>, "insert") /\ Returns(<<"return">>)
    /\ ~Has(<<"return">>, "free") /\ Head(<<"return">>) # "insert"
    /\ LET s == <<"sample", "apply", "forward">>
       IN  /\ Shaped(s) /\ ~Has(s, "insert") /\ ~Returns(s) /\ ~Has(s, "free")
           /\ Head(s) # "insert"
<1>1. Shaped(<<>>) /\ ~Has(<<>>, "insert") /\ ~Returns(<<>>) /\ ~Has(<<>>, "free")
  <2> DEFINE s == <<>>
  <2>1. s \in Seq(StepNames) /\ Len(s) = 0 /\ DOMAIN s = 1..0
    OBVIOUS
  <2> HIDE DEF s
  <2>2. \A j \in DOMAIN s : FALSE
    BY <2>1
  <2>3. Shaped(s) /\ ~Has(s, "insert") /\ ~Has(s, "free")
    BY <2>1, <2>2, ShapedPlain
  <2>4. ~Returns(s)
    BY <2>2 DEF Returns
  <2> QED
    BY <2>3, <2>4 DEF s
<1>2. /\ Shaped(<<"return">>) /\ ~Has(<<"return">>, "insert") /\ Returns(<<"return">>)
      /\ ~Has(<<"return">>, "free") /\ Head(<<"return">>) # "insert"
  <2> DEFINE s == <<"return">>
  <2>1. s \in Seq(StepNames)
    BY DEF StepNames
  <2>2. Len(s) = 1 /\ DOMAIN s = 1..1 /\ s[1] = "return" /\ Head(s) = "return"
    OBVIOUS
  <2> HIDE DEF s
  <2>3. \A j \in DOMAIN s : j = 1
    BY <2>2
  <2>4. Shaped(s) /\ ~Has(s, "insert") /\ ~Has(s, "free")
    BY <2>1, <2>2, <2>3, ShapedPlain
  <2>5. Returns(s) /\ Head(s) # "insert"
    BY <2>2 DEF Returns
  <2> QED
    BY <2>4, <2>5 DEF s
<1>3. LET s == <<"sample", "apply", "forward">>
      IN  /\ Shaped(s) /\ ~Has(s, "insert") /\ ~Returns(s) /\ ~Has(s, "free")
          /\ Head(s) # "insert"
  <2> DEFINE s == <<"sample", "apply", "forward">>
  <2>1. s \in Seq(StepNames)
    BY DEF StepNames
  <2>2. /\ Len(s) = 3 /\ DOMAIN s = 1..3 /\ Head(s) = "sample"
        /\ s[1] = "sample" /\ s[2] = "apply" /\ s[3] = "forward"
    OBVIOUS
  <2> HIDE DEF s
  <2>3. \A j \in DOMAIN s : j = 1 \/ j = 2 \/ j = 3
    BY <2>2
  <2>4. Shaped(s) /\ ~Has(s, "insert") /\ ~Has(s, "free")
    BY <2>1, <2>2, <2>3, ShapedPlain
  <2>5. ~Returns(s) /\ Head(s) # "insert"
    BY <2>2, <2>3 DEF Returns
  <2> QED
    BY <2>4, <2>5 DEF s
<1> QED
  BY <1>1, <1>2, <1>3

-----------------------------------------------------------------------------
(* A caller's step.                                                         *)

\* The rest of one call changes; all calls stay regular.
LEMMA StepsTo ==
    ASSUME CallsInv, NEW c \in Callers, NEW t, Shaped(t),
           steps' = [steps EXCEPT ![c] = t], UNCHANGED <<call, calls>>
    PROVE  CallsInv' /\ steps'[c] = t /\ \A d \in Callers \ {c} : steps'[d] = steps[d]
<1>1. t \in Seq(StepNames)
  BY DEF Shaped
<1>2. steps' \in [Callers -> Seq(StepNames)] /\ steps'[c] = t
  BY <1>1 DEF CallsInv
<1>3. \A d \in Callers \ {c} : steps'[d] = steps[d]
  BY DEF CallsInv
<1>4. \A d \in Callers : Shaped(steps'[d])
  BY <1>2, <1>3 DEF CallsInv
<1> QED
  BY <1>2, <1>3, <1>4 DEF CallsInv

Inserts(s) == s # <<>> /\ Head(s) = "insert"

\* Who is about to insert a request or to return a buffer after the step of one
\* caller.
LEMMA SameSets ==
    ASSUME NEW c \in Callers, NEW t, steps'[c] = t,
           \A d \in Callers \ {c} : steps'[d] = steps[d]
    PROVE  /\ (Inserts(t) <=> Inserts(steps[c])) => Inserting' = Inserting
           /\ (Returns(t) <=> Returns(steps[c])) => Returning' = Returning
           /\ Inserts(t) /\ ~Inserts(steps[c]) =>
                 Inserting' = Inserting \cup {c} /\ c \notin Inserting
           /\ ~Inserts(t) /\ Inserts(steps[c]) =>
                 Inserting' = Inserting \ {c} /\ c \in Inserting
           /\ Returns(t) /\ ~Returns(steps[c]) =>
                 Returning' = Returning \cup {c} /\ c \notin Returning
           /\ ~Returns(t) /\ Returns(steps[c]) =>
                 Returning' = Returning \ {c} /\ c \in Returning
<1>1. /\ Inserting = {d \in Callers : Inserts(steps[d])}
      /\ Inserting' = {d \in Callers : Inserts(steps'[d])}
      /\ Returning = {d \in Callers : Returns(steps[d])}
      /\ Returning' = {d \in Callers : Returns(steps'[d])}
  BY DEF Inserting, Returning, Inserts
<1>2. \A d \in Callers : d = c \/ steps'[d] = steps[d]
  OBVIOUS
<1> QED
  BY <1>1, <1>2

\* A step that asks for no new request leaves the requests under way new.
LEMMA FreshStep ==
    ASSUME FreshInv, NEW c \in Callers, NEW t, steps'[c] = t,
           \A d \in Callers \ {c} : steps'[d] = steps[d],
           Has(t, "insert") => Has(steps[c], "insert"), UNCHANGED <<call, calls, accepted>>
    PROVE  FreshInv'
<1>1. ASSUME NEW d \in Callers, Has(steps'[d], "insert") PROVE Has(steps[d], "insert")
  BY <1>1
<1> QED
  BY <1>1 DEF FreshInv

\* A step that neither takes a slot, nor inserts a request, nor gives a buffer back.
LEMMA PlainStep ==
    ASSUME CallsInv, FreshInv, NEW c \in Callers, steps[c] # <<>>,
           Head(steps[c]) \notin {"check", "insert", "return", "enqueue"},
           GoOn(c), UNCHANGED accepted
    PROVE  CallsInv' /\ FreshInv' /\ Inserting' = Inserting /\ Returning' = Returning
<1> DEFINE s == steps[c]
<1>1. Shaped(s) /\ s # <<>> /\ Head(s) \notin {"check", "insert", "return", "enqueue"}
  BY DEF CallsInv
<1>2. steps' = [steps EXCEPT ![c] = Tail(s)] /\ UNCHANGED <<call, calls>>
  BY DEF GoOn
<1> HIDE DEF s
<1>3. Shaped(Tail(s)) /\ Tail(s) \in Seq(StepNames)
  BY <1>1, ShapedTail DEF Shaped
<1>4. CallsInv' /\ steps'[c] = Tail(s) /\ \A d \in Callers \ {c} : steps'[d] = steps[d]
  BY <1>2, <1>3, StepsTo
<1>5. Has(Tail(s), "insert") => Has(s, "insert")
  BY <1>1, ShapedTail
<1>6. ~Inserts(Tail(s)) /\ ~Inserts(s)
  BY <1>1, ShapedHead DEF Inserts
<1>7. Returns(Tail(s)) <=> Returns(s)
  <2>1. \A u : Returns(u) <=> Has(u, "return") \/ Has(u, "enqueue")
    BY DEF Returns, Has
  <2> QED
    BY <1>1, <2>1, ShapedTail
<1>8. FreshInv'
  BY <1>4, <1>5, <1>2, FreshStep DEF s
<1>9. Inserting' = Inserting /\ Returning' = Returning
  BY <1>4, <1>6, <1>7, SameSets DEF s
<1> QED
  BY <1>4, <1>8, <1>9

-----------------------------------------------------------------------------
(* The end of the clock.                                                    *)

\* The steps of mmal_clock_destroy() are known from how many are left.
LEMMA DestroyHead ==
    ASSUME NEW s, Shaped(s), s # <<>>, Has(s, "free")
    PROVE  /\ Len(s) \in 1..5
           /\ Len(s) = 5 => Head(s) = "halt"
           /\ Len(s) = 4 => Head(s) = "post"
           /\ Len(s) = 3 => Head(s) = "join"
           /\ Len(s) = 2 => Head(s) = "flush"
           /\ Len(s) = 1 => Head(s) = "free"
<1> DEFINE n == Len(s)
<1>1. n \in Nat /\ n > 0 /\ n <= 5 /\ Head(s) = mmal_clock_destroy[6 - n]
  <2>1. n \in Nat /\ n > 0
    BY DEF Shaped
  <2> QED
    BY <2>1, ShapedHead
<1> HIDE DEF n
<1>2. n \in 1..5
  <2>1. n \in Nat /\ n > 0 /\ n <= 5
    BY <1>1
  <2> QED
    BY <2>1
<1>3. /\ mmal_clock_destroy[1] = "halt" /\ mmal_clock_destroy[2] = "post"
      /\ mmal_clock_destroy[3] = "join" /\ mmal_clock_destroy[4] = "flush"
      /\ mmal_clock_destroy[5] = "free"
  BY DEF mmal_clock_destroy
<1>4. /\ n = 5 => 6 - n = 1
      /\ n = 4 => 6 - n = 2
      /\ n = 3 => 6 - n = 3
      /\ n = 2 => 6 - n = 4
      /\ n = 1 => 6 - n = 5
  BY <1>2
<1> QED
  BY <1>1, <1>2, <1>3, <1>4 DEF n

\* A step of a caller does what mmal_clock_destroy() relies on.
LEMMA EndStep ==
    ASSUME CallsInv, EndInv, state = "ok", NEW c \in Callers, steps[c] # <<>>, NEW t,
           steps'[c] = t, \A d \in Callers \ {c} : steps'[d] = steps[d],
           Has(t, "free") => t = Tail(steps[c]),
           stopping => stopping', wpc' = wpc,
           stopping /\ requests = <<>> => requests' = <<>>,
           Head(steps[c]) = "halt" => stopping',
           Head(steps[c]) = "join" => wpc = "ended",
           Head(steps[c]) = "flush" => requests' = <<>>,
           state' = "ok" \/ (Head(steps[c]) = "free" /\ state' = "freed")
    PROVE  EndInv'
<1> DEFINE s == steps[c]
<1>1. Shaped(s) /\ s # <<>>
  BY DEF CallsInv
<1>2. \A d \in Callers : Shaped(steps[d]) /\ Len(steps[d]) \in Nat
  BY DEF CallsInv, Shaped
<1>3. Has(s, "free") =>
          /\ Len(s) <= 4 => stopping
          /\ Len(s) <= 2 => wpc = "ended"
          /\ Len(s) <= 1 => requests = <<>>
  BY DEF EndInv
<1>4. ASSUME NEW d \in Callers \ {c}, Has(steps'[d], "free")
      PROVE  /\ Len(steps'[d]) <= 4 => stopping'
             /\ Len(steps'[d]) <= 2 => wpc' = "ended"
             /\ Len(steps'[d]) <= 1 => requests' = <<>>
  <2>1. steps'[d] = steps[d] /\ Len(steps[d]) \in Nat /\ Has(steps[d], "free")
    BY <1>2, <1>4
  <2>2. /\ Len(steps[d]) <= 4 => stopping
        /\ Len(steps[d]) <= 2 => wpc = "ended"
        /\ Len(steps[d]) <= 1 => requests = <<>>
    BY <2>1 DEF EndInv
  <2> QED
    BY <2>1, <2>2
<1>5. ASSUME Has(t, "free")
      PROVE  /\ Len(t) <= 4 => stopping'
             /\ Len(t) <= 2 => wpc' = "ended"
             /\ Len(t) <= 1 => requests' = <<>>
  <2>1. t = Tail(s) /\ Len(t) = Len(s) - 1 /\ Has(s, "free")
    BY <1>1, <1>5, ShapedTail
  <2>2. /\ Len(s) \in 1..5
        /\ Len(s) = 5 => Head(s) = "halt"
        /\ Len(s) = 3 => Head(s) = "join"
        /\ Len(s) = 2 => Head(s) = "flush"
    BY <1>1, <2>1, DestroyHead
  <2> HIDE DEF s
  <2>6. /\ Len(t) <= 4 => Len(s) <= 4 \/ Len(s) = 5
        /\ Len(t) <= 2 => Len(s) <= 2 \/ Len(s) = 3
        /\ Len(t) <= 1 => Len(s) <= 1 \/ Len(s) = 2
        /\ Len(t) <= 1 => Len(s) <= 4
    <3> DEFINE n == Len(s)
               m == Len(t)
    <3>1. n \in 1..5 /\ m = n - 1
      BY <2>1, <2>2
    <3> HIDE DEF n, m
    <3>2. /\ m <= 4 => n <= 4 \/ n = 5
          /\ m <= 2 => n <= 2 \/ n = 3
          /\ m <= 1 => n <= 1 \/ n = 2
          /\ m <= 1 => n <= 4
      BY <3>1
    <3> QED
      BY <3>2 DEF n, m
  <2>7. Head(s) = "halt" => stopping'
    BY DEF s
  <2>8. Head(s) = "join" => wpc = "ended"
    BY DEF s
  <2>9. Head(s) = "flush" => requests' = <<>>
    BY DEF s
  <2>3. Len(t) <= 4 => stopping'
    BY <1>3, <2>1, <2>2, <2>6, <2>7
  <2>4. Len(t) <= 2 => wpc' = "ended"
    BY <1>3, <2>1, <2>2, <2>6, <2>8
  <2>5. Len(t) <= 1 => requests' = <<>>
    BY <1>3, <2>1, <2>2, <2>6, <2>9
  <2> QED
    BY <2>3, <2>4, <2>5
<1>6. state' # "ok" => stopping' /\ wpc' = "ended" /\ requests' = <<>>
  <2> SUFFICES ASSUME Head(s) = "free" PROVE stopping' /\ wpc' = "ended" /\ requests' = <<>>
    OBVIOUS
  <2>1. Has(s, "free")
    <3>1. 1 \in DOMAIN s /\ s[1] = "free"
      BY <1>1 DEF Shaped
    <3> QED
      BY <3>1 DEF Has
  <2>2. Len(s) = 1
    BY <1>1, <2>1, DestroyHead
  <2> QED
    BY <1>3, <2>1, <2>2
<1>7. state' \in {"ok", "freed", "crashed"}
  OBVIOUS
<1>8. ASSUME NEW d \in Callers, Has(steps'[d], "free")
      PROVE  /\ Len(steps'[d]) <= 4 => stopping'
             /\ Len(steps'[d]) <= 2 => wpc' = "ended"
             /\ Len(steps'[d]) <= 1 => requests' = <<>>
  BY <1>4, <1>5, <1>8
<1> QED
  BY <1>6, <1>7, <1>8 DEF EndInv

\* While the worker runs, nobody has joined it.
LEMMA EndWorker ==
    ASSUME CallsInv, EndInv, state = "ok", wpc # "ended", UNCHANGED <<steps, stopping, state>>
    PROVE  EndInv'
<1>1. \A d \in Callers : Len(steps[d]) \in Nat
  BY DEF CallsInv
<1>2. ASSUME NEW d \in Callers, Has(steps[d], "free") PROVE Len(steps[d]) > 2
  BY <1>1, <1>2 DEF EndInv
<1>3. ASSUME NEW d \in Callers, Has(steps'[d], "free")
      PROVE  /\ Len(steps'[d]) <= 4 => stopping'
             /\ Len(steps'[d]) <= 2 => wpc' = "ended"
             /\ Len(steps'[d]) <= 1 => requests' = <<>>
  <2>1. steps'[d] = steps[d] /\ Len(steps[d]) > 2 /\ Len(steps[d]) \in Nat
    BY <1>1, <1>2, <1>3
  <2>2. Len(steps[d]) <= 4 => stopping
    BY <1>3 DEF EndInv
  <2> QED
    BY <2>1, <2>2
<1> QED
  BY <1>3 DEF EndInv

-----------------------------------------------------------------------------
(* The slots and the buffers.                                               *)

\* The callers about to insert or to return can be counted.
LEMMA Counts ==
    /\ IsFiniteSet(Inserting) /\ Cardinality(Inserting) \in Nat
    /\ IsFiniteSet(Returning) /\ Cardinality(Returning) \in Nat
<1>1. IsFiniteSet(Callers)
  BY ClockAssumption
<1>2. Inserting \subseteq Callers /\ Returning \subseteq Callers
  BY DEF Inserting, Returning
<1> QED
  BY <1>1, <1>2, FS_Subset, FS_CardinalityType

\* Slots that are neither taken nor given back.
LEMMA SlotsSame ==
    ASSUME SlotsInv, Inserting' = Inserting, stopping => stopping',
           UNCHANGED <<free, next>>, Len(requests') = Len(requests)
    PROVE  SlotsInv'
BY DEF SlotsInv

\* A flush gives back the slots of the list.
LEMMA SlotsFlushed ==
    ASSUME SlotsInv, KeptInv, Inserting' = Inserting, stopping => stopping', UNCHANGED next, Flushed
    PROVE  SlotsInv'
<1>1. Len(requests) \in Nat /\ free' = free + Len(requests) /\ Len(requests') = 0
  BY DEF KeptInv, Flushed
<1>2. Cardinality(Inserting) \in Nat
  BY Counts
<1> QED
  BY <1>1, <1>2, ClockAssumption DEF SlotsInv

-----------------------------------------------------------------------------
(* The requests.                                                            *)

\* A request has a name.
LEMMA EmptyId == \A i \in Ids : i # <<>>
<1>1. ASSUME NEW C, NEW i \in C \X (1..4) PROVE i # <<>>
  OBVIOUS
<1> QED
  BY <1>1 DEF Ids

\* An empty hand holds none of the requests.
LEMMA NoRequestId == NoRequest.id = <<>> /\ \A i \in Ids : NoRequest.id # i
<1>1. NoRequest.id = <<>>
  BY DEF NoRequest
<1> QED
  BY <1>1, EmptyId

\* A flush calls every request of the list once.
LEMMA KeptFlushed ==
    ASSUME KeptInv, Flushed, UNCHANGED <<next, accepted>>
    PROVE  KeptInv'
<1> DEFINE ids == {requests[k].id : k \in DOMAIN requests}
<1>1. \A i : i \in ids <=> Waiting(i)
  BY DEF Waiting
<1>2. /\ called' = [i \in DOMAIN called |-> called[i] + IF i \in ids THEN 1 ELSE 0]
      /\ requests' = <<>>
  BY DEF Flushed
<1> HIDE DEF ids
<1>3. \A i : ~Waiting(i)'
  BY <1>2 DEF Waiting
<1>4. called' \in [Ids -> Int]
  BY <1>2 DEF KeptInv
<1>5. requests' \in Seq(Request) /\ \A j \in DOMAIN requests' : FALSE
  BY <1>2
<1>6. ASSUME NEW i \in Ids
      PROVE  /\ next'.id = i => i \in accepted' /\ called'[i] = 0
             /\ called'[i] = IF i \in accepted' /\ next'.id # i THEN 1 ELSE 0
  <2>1. called'[i] = called[i] + IF Waiting(i) THEN 1 ELSE 0
    BY <1>1, <1>2 DEF KeptInv
  <2>2. /\ Waiting(i) => i \in accepted /\ next.id # i /\ called[i] = 0
        /\ next.id = i => i \in accepted /\ called[i] = 0
        /\ called[i] = IF i \in accepted /\ ~Waiting(i) /\ next.id # i THEN 1 ELSE 0
    BY DEF KeptInv
  <2> QED
    BY <2>1, <2>2
<1> QED
  BY <1>3, <1>4, <1>5, <1>6 DEF KeptInv

\* A request that is inserted waits in one place, and nothing is lost.
LEMMA KeptInserted ==
    ASSUME KeptInv, HandInv, FreshInv, NEW r \in Request, r.id \notin accepted,
           requests' = Inserted(r), accepted' = accepted \cup {r.id}, UNCHANGED <<called, next>>
    PROVE  KeptInv' /\ Len(requests') = Len(requests) + 1
<1>1. requests \in Seq(Request) /\ Len(requests) \in Nat /\ DOMAIN requests = 1..Len(requests)
  BY DEF KeptInv
<1>2. PICK p \in 1..(Len(requests) + 1) : InsertedAs(requests', r, p)
  BY <1>1, InsertedSomewhere
<1>3. /\ requests' \in Seq(Request) /\ Len(requests') = Len(requests) + 1
      /\ DOMAIN requests' = 1..(Len(requests) + 1)
      /\ requests'[p] = r
      /\ \A k \in 1..(p - 1) : requests'[k] = requests[k]
      /\ \A k \in (p + 1)..(Len(requests) + 1) : requests'[k] = requests[k - 1]
  BY <1>1, <1>2 DEF InsertedAs
<1> DEFINE from(k) == IF k < p THEN k ELSE k - 1
<1>4. ASSUME NEW k \in DOMAIN requests', k # p
      PROVE  from(k) \in DOMAIN requests /\ requests'[k] = requests[from(k)]
  BY <1>1, <1>3, <1>4
<1>5. ASSUME NEW k \in DOMAIN requests
      PROVE  \E m \in DOMAIN requests' : requests'[m] = requests[k]
  <2>1. CASE k < p
    BY <1>1, <1>3, <2>1
  <2>2. CASE k >= p
    <3>1. k + 1 \in (p + 1)..(Len(requests) + 1) /\ k + 1 - 1 = k /\ k + 1 \in DOMAIN requests'
      BY <1>1, <1>3, <2>2
    <3>2. requests'[k + 1] = requests[k]
      BY <1>3, <3>1
    <3> QED
      BY <3>1, <3>2
  <2> QED
    BY <1>1, <2>1, <2>2
<1>6. \A i : Waiting(i)' <=> Waiting(i) \/ i = r.id
  <2>1. ASSUME NEW i, Waiting(i)' PROVE Waiting(i) \/ i = r.id
    <3>1. PICK k \in DOMAIN requests' : requests'[k].id = i
      BY <2>1 DEF Waiting
    <3>2. CASE k = p
      BY <1>3, <3>1, <3>2
    <3>3. CASE k # p
      BY <1>4, <3>1, <3>3 DEF Waiting
    <3> QED
      BY <3>2, <3>3
  <2>2. ASSUME NEW i, Waiting(i) PROVE Waiting(i)'
    BY <1>5, <2>2 DEF Waiting
  <2>3. Waiting(r.id)'
    BY <1>3 DEF Waiting
  <2> QED
    BY <2>1, <2>2, <2>3
<1>7. r.id \in Ids /\ ~Waiting(r.id) /\ next.id # r.id /\ called[r.id] = 0
  BY DEF KeptInv, Request
<1>8. ASSUME NEW j \in DOMAIN requests', NEW k \in DOMAIN requests',
             requests'[j].id = requests'[k].id
      PROVE  j = k
  <2>1. ASSUME NEW m \in DOMAIN requests', m # p PROVE requests'[m].id # r.id
    BY <1>4, <1>7, <2>1 DEF Waiting
  <2>2. CASE j = p \/ k = p
    BY <1>3, <1>8, <2>1, <2>2
  <2>3. CASE j # p /\ k # p
    <3>1. requests[from(j)].id = requests[from(k)].id
      BY <1>4, <1>8, <2>3
    <3>2. from(j) = from(k)
      BY <1>4, <2>3, <3>1 DEF KeptInv
    <3> QED
      BY <1>3, <2>3, <3>2
  <2> QED
    BY <2>2, <2>3
<1>9. ASSUME NEW i \in Ids
      PROVE  /\ Waiting(i)' => i \in accepted' /\ next'.id # i /\ called'[i] = 0
             /\ next'.id = i => i \in accepted' /\ called'[i] = 0
             /\ called'[i] = IF i \in accepted' /\ ~Waiting(i)' /\ next'.id # i THEN 1 ELSE 0
  <2>1. /\ Waiting(i) => i \in accepted /\ next.id # i /\ called[i] = 0
        /\ next.id = i => i \in accepted /\ called[i] = 0
        /\ called[i] = IF i \in accepted /\ ~Waiting(i) /\ next.id # i THEN 1 ELSE 0
    BY DEF KeptInv
  <2>2. called' = called /\ next' = next
    OBVIOUS
  <2>3. Waiting(i)' <=> Waiting(i) \/ i = r.id
    BY <1>6
  <2>4. i \in accepted' <=> i \in accepted \/ i = r.id
    OBVIOUS
  <2> QED
    BY <1>7, <2>1, <2>2, <2>3, <2>4
<1>10. called' \in [Ids -> Int]
  BY DEF KeptInv
<1> QED
  BY <1>3, <1>8, <1>9, <1>10 DEF KeptInv

\* Requests that nobody moves.
LEMMA KeptSame ==
    ASSUME KeptInv, UNCHANGED <<requests, called, next, accepted>>
    PROVE  KeptInv'
BY DEF KeptInv, Waiting

-----------------------------------------------------------------------------
(* The time.                                                                *)

\* The distance of a request over the speed is a time.
LEMMA DivNat == ASSUME NEW d \in Nat, NEW n \in Nat, n # 0 PROVE d \div n \in Nat
OBVIOUS

\* Sampling the time keeps its type.
LEMMA TimeSampled ==
    ASSUME TimeInv, NEW t \in Threads, Sample(t),
           UNCHANGED <<now, setVars, discVars, event, timer, lock, stopping>>
    PROVE  TimeInv'
<1>1. [now |-> now, rtc |-> rtc, media |-> media, wall |-> wall, time |-> 0] \in Sampled
  BY DEF TimeInv, Sampled
<1>2. local' \in [Threads -> Sampled]
  BY <1>1 DEF TimeInv, Sample
<1> QED
  BY <1>2 DEF TimeInv, Sample, timeVars, setVars, discVars

\* Applying what was sampled keeps it, whichever value the increment is added to.
LEMMA TimeApplied ==
    ASSUME TimeInv, NEW t \in Threads, Apply(t),
           UNCHANGED <<now, setVars, discVars, event, timer, lock, stopping>>
    PROVE  TimeInv'
<1> DEFINE l == local[t]
<1>1. /\ l \in Sampled /\ l.now \in 0..MaxTime /\ l.rtc \in 0..MaxTime
      /\ l.media \in Int /\ l.wall \in Int
  BY DEF TimeInv, Sampled
<1>2. Elapsed(l) \in Int
  BY <1>1 DEF Elapsed
<1>3. PICK base \in {local[t], [media |-> media, wall |-> wall]} :
         /\ wall'  = base.wall + Elapsed(l)
         /\ media' = IF active THEN base.media + Elapsed(l) * scale ELSE media
         /\ rtc'   = l.now
         /\ local' = [local EXCEPT ![t] =
                         [NoLocal EXCEPT !.time = IF Wanted(t) THEN Media(media') ELSE 0]]
  BY DEF Apply
<1>4. base.media \in Int /\ base.wall \in Int
  BY <1>1 DEF TimeInv
<1>5. scale \in Int /\ offset \in Int /\ media \in Int
  BY DEF TimeInv
<1>6. Elapsed(l) * scale \in Int /\ scale * offset \in Int
  BY <1>2, <1>5
<1>7. media' \in Int /\ wall' \in Int
  BY <1>2, <1>3, <1>4, <1>5, <1>6
<1>8. Media(media') \in Int
  BY <1>6, <1>7 DEF Media
<1>9. [NoLocal EXCEPT !.time = IF Wanted(t) THEN Media(media') ELSE 0] \in Sampled
  <2>1. \A x \in Int : [NoLocal EXCEPT !.time = x] \in Sampled
    BY ClockAssumption DEF NoLocal, Sampled
  <2> QED
    BY <1>8, <2>1
<1>10. local' \in [Threads -> Sampled]
  BY <1>3, <1>9 DEF TimeInv
<1>11. rtc' \in 0..MaxTime
  BY <1>1, <1>3
<1> QED
  BY <1>7, <1>10, <1>11 DEF TimeInv, setVars, discVars

\* A thread has done with the time it got.
LEMMA NoLocalSampled == NoLocal \in Sampled
BY ClockAssumption DEF NoLocal, Sampled

\* The time stays.
LEMMA TimeSame ==
    ASSUME TimeInv,
           UNCHANGED <<now, timeVars, setVars, discVars, event, timer, lock, stopping, local>>
    PROVE  TimeInv'
BY DEF TimeInv, timeVars, setVars, discVars

-----------------------------------------------------------------------------
(* The steps of the worker.                                                 *)

\* The worker leaves the calls and the buffers alone.
LEMMA WorkerFrame ==
    ASSUME CallsInv, FreshInv, BuffersInv, UNCHANGED <<callVars, portVars>>
    PROVE  CallsInv' /\ FreshInv' /\ BuffersInv' /\ Inserting' = Inserting
<1> USE DEF callVars, portVars
<1>1. CallsInv'
  BY DEF CallsInv
<1>2. FreshInv'
  BY DEF FreshInv
<1>3. Inserting' = Inserting /\ Returning' = Returning
  BY DEF Inserting, Returning
<1>4. BuffersInv'
  BY <1>3 DEF BuffersInv
<1> QED
  BY <1>1, <1>2, <1>3, <1>4

\* The worker wakes up.
LEMMA WaitEventInv == ASSUME IndInv, WaitEvent PROVE IndInv'
<1> USE DEF IndInv
<1>1. CallsInv' /\ FreshInv' /\ BuffersInv' /\ Inserting' = Inserting
  BY WorkerFrame DEF WaitEvent
<1>2. TimeInv'
  <2>1. event' \in Nat /\ timer' \in Nat \cup {Off}
    BY ClockAssumption DEF WaitEvent, TimeInv
  <2> QED
    BY <2>1 DEF WaitEvent, TimeInv, timeVars, setVars, discVars
<1>3. HandInv'
  BY DEF WaitEvent, WorkerAt, HandInv, Places
<1>4. KeptInv'
  BY KeptSame DEF WaitEvent, slotVars, callVars
<1>5. SlotsInv'
  BY <1>1, SlotsSame DEF WaitEvent, slotVars
<1>6. EndInv'
  BY EndWorker DEF WaitEvent, WorkerAt, callVars
<1> QED
  BY <1>1, <1>2, <1>3, <1>4, <1>5, <1>6

\* The worker looks whether there is anything to do.
LEMMA TestPendingInv == ASSUME IndInv, TestPending PROVE IndInv'
<1> USE DEF IndInv
<1>1. CallsInv' /\ FreshInv' /\ BuffersInv' /\ Inserting' = Inserting
  BY WorkerFrame DEF TestPending
<1>2. TimeInv'
  BY TimeSame DEF TestPending
<1>3. HandInv'
  BY DEF TestPending, WorkerAt, HandInv, Places
<1>4. KeptInv'
  BY KeptSame DEF TestPending, slotVars, callVars
<1>5. SlotsInv'
  BY <1>1, SlotsSame DEF TestPending, slotVars
<1>6. EndInv'
  BY EndWorker DEF TestPending, WorkerAt, callVars
<1> QED
  BY <1>1, <1>2, <1>3, <1>4, <1>5, <1>6

\* The worker takes the lock.
LEMMA LockRequestsInv == ASSUME IndInv, LockRequests PROVE IndInv'
<1> USE DEF IndInv
<1>1. CallsInv' /\ FreshInv' /\ BuffersInv' /\ Inserting' = Inserting
  BY WorkerFrame DEF LockRequests
<1>2. TimeInv'
  BY DEF LockRequests, TimeInv, timeVars, setVars, discVars
<1>3. HandInv'
  BY DEF LockRequests, WorkerAt, HandInv, Places
<1>4. KeptInv'
  BY KeptSame DEF LockRequests, slotVars, callVars
<1>5. SlotsInv'
  BY <1>1, SlotsSame DEF LockRequests, slotVars
<1>6. EndInv'
  BY EndWorker DEF LockRequests, WorkerAt, callVars
<1> QED
  BY <1>1, <1>2, <1>3, <1>4, <1>5, <1>6

\* The worker updates the time.
LEMMA WorkerTimeInv == ASSUME IndInv, WorkerTime PROVE IndInv'
<1> USE DEF IndInv
<1>1. CallsInv' /\ FreshInv' /\ BuffersInv' /\ Inserting' = Inserting
  BY WorkerFrame DEF WorkerTime
<1>2. TimeInv'
  <2>1. "W" \in Threads /\ (Sample("W") \/ Apply("W"))
    BY DEF WorkerTime, Threads
  <2> QED
    BY <2>1, TimeSampled, TimeApplied DEF WorkerTime
<1>3. HandInv'
  BY DEF WorkerTime, WorkerAt, HandInv, Places
<1>4. KeptInv'
  BY KeptSame DEF WorkerTime, slotVars, callVars
<1>5. SlotsInv'
  BY <1>1, SlotsSame DEF WorkerTime, slotVars
<1>6. EndInv'
  BY EndWorker DEF WorkerTime, WorkerAt, callVars
<1> QED
  BY <1>1, <1>2, <1>3, <1>4, <1>5, <1>6

\* The time has gone back: the worker flushes the list.
LEMMA DetectDiscontinuityInv == ASSUME IndInv, DetectDiscontinuity PROVE IndInv'
<1> USE DEF IndInv
<1>1. CallsInv' /\ FreshInv' /\ BuffersInv' /\ Inserting' = Inserting
  BY WorkerFrame DEF DetectDiscontinuity
<1>2. TimeInv'
  <2>1. local' \in [Threads -> Sampled]
    BY NoLocalSampled DEF DetectDiscontinuity, TimeInv
  <2>2. [start |-> at_timer, end |-> at_timer + discont_duration,
         expiry |-> wall + discont_duration] \in [start : Int, end : Int, expiry : Int]
    BY ClockAssumption DEF TimeInv
  <2>3. discont' \in [start : Int, end : Int, expiry : Int] /\ at_timer' \in Int
    BY <2>2 DEF DetectDiscontinuity, TimeInv, Flushed, discVars
  <2> QED
    BY <2>1, <2>3 DEF DetectDiscontinuity, TimeInv, timeVars, setVars
<1>3. HandInv'
  BY DEF DetectDiscontinuity, WorkerAt, HandInv, Places
<1>4. KeptInv' /\ SlotsInv'
  <2>1. UNCHANGED <<next, accepted, stopping>>
    BY DEF DetectDiscontinuity, callVars
  <2>2. CASE Flushed
    BY <1>1, <2>1, <2>2, KeptFlushed, SlotsFlushed
  <2>3. CASE UNCHANGED slotVars
    BY <1>1, <2>1, <2>3, KeptSame, SlotsSame DEF slotVars
  <2> QED
    BY <2>2, <2>3 DEF DetectDiscontinuity
<1>6. EndInv'
  BY EndWorker DEF DetectDiscontinuity, WorkerAt, callVars
<1> QED
  BY <1>1, <1>2, <1>3, <1>4, <1>6

\* The worker takes the first request in its hand, or gives the lock back.
LEMMA PopRequestInv == ASSUME IndInv, PopRequest PROVE IndInv'
<1> USE DEF IndInv
<1>1. CallsInv' /\ FreshInv' /\ BuffersInv' /\ Inserting' = Inserting
  BY WorkerFrame DEF PopRequest
<1>2. TimeInv'
  <2>1. lock' \in {Nobody, "W"}
    BY DEF PopRequest, TimeInv
  <2> QED
    BY <2>1 DEF PopRequest, TimeInv, timeVars, setVars, discVars
<1>3. CASE requests = <<>>
  <2>1. HandInv'
    BY <1>3 DEF PopRequest, WorkerAt, HandInv, Places
  <2>2. KeptInv'
    BY <1>3, KeptSame DEF PopRequest, callVars
  <2>3. SlotsInv'
    BY <1>1, <1>3, SlotsSame DEF PopRequest
  <2>4. EndInv'
    BY EndWorker DEF PopRequest, WorkerAt, callVars
  <2> QED
    BY <1>1, <1>2, <2>1, <2>2, <2>3, <2>4
<1>4. CASE requests # <<>>
  <2>1. /\ requests \in Seq(Request) /\ Len(requests) > 0 /\ Len(requests) \in Nat
        /\ next' = requests[1] /\ next' \in Request
        /\ requests' = Tail(requests) /\ requests' \in Seq(Request)
        /\ Len(requests') = Len(requests) - 1
        /\ \A k \in 1..(Len(requests) - 1) : requests'[k] = requests[k + 1]
        /\ next = NoRequest /\ wpc' = "sample" /\ UNCHANGED <<accepted, called, free, stopping>>
    <3>1. requests \in Seq(Request) /\ Len(requests) > 0 /\ Len(requests) \in Nat
      BY <1>4 DEF KeptInv
    <3>2. next' = Head(requests) /\ requests' = Tail(requests) /\ wpc' = "sample"
      BY <1>4 DEF PopRequest
    <3>3. UNCHANGED <<accepted, called, free, stopping>>
      BY DEF PopRequest, callVars
    <3>4. next = NoRequest
      BY DEF PopRequest, WorkerAt, HandInv
    <3>5. Head(requests) = requests[1] /\ Head(requests) \in Request
      BY <3>1
    <3>6. /\ Tail(requests) \in Seq(Request) /\ Len(Tail(requests)) = Len(requests) - 1
          /\ \A k \in 1..(Len(requests) - 1) : Tail(requests)[k] = requests[k + 1]
      BY <3>1
    <3> QED
      BY <3>1, <3>2, <3>3, <3>4, <3>5, <3>6
  <2>2. HandInv'
    BY <2>1 DEF HandInv, Places
  <2>3. \A i \in Ids : Waiting(i) <=> Waiting(i)' \/ next'.id = i
    <3>1. ASSUME NEW i \in Ids, Waiting(i) PROVE Waiting(i)' \/ next'.id = i
      <4>1. PICK k \in DOMAIN requests : requests[k].id = i
        BY <3>1 DEF Waiting
      <4>2. CASE k = 1
        BY <2>1, <4>1, <4>2
      <4>3. CASE k # 1
        <5>1. k - 1 \in 1..(Len(requests) - 1) /\ k - 1 + 1 = k /\ k - 1 \in DOMAIN requests'
          BY <2>1, <4>3
        <5> QED
          BY <2>1, <4>1, <5>1 DEF Waiting
      <4> QED
        BY <4>2, <4>3
    <3>2. ASSUME NEW i \in Ids, Waiting(i)' PROVE Waiting(i)
      <4>1. PICK k \in DOMAIN requests' : requests'[k].id = i
        BY <3>2 DEF Waiting
      <4>2. k + 1 \in DOMAIN requests /\ requests'[k] = requests[k + 1]
        BY <2>1
      <4> QED
        BY <4>1, <4>2 DEF Waiting
    <3>3. ASSUME NEW i \in Ids, next'.id = i PROVE Waiting(i)
      <4>1. 1 \in DOMAIN requests
        BY <2>1
      <4> QED
        BY <2>1, <3>3, <4>1 DEF Waiting
    <3> QED
      BY <3>1, <3>2, <3>3
  <2>4. ASSUME NEW i \in Ids, Waiting(i)' PROVE next'.id # i
    <3>1. PICK k \in DOMAIN requests' : requests'[k].id = i
      BY <2>4 DEF Waiting
    <3>2. k + 1 \in DOMAIN requests /\ 1 \in DOMAIN requests /\ k + 1 # 1
          /\ requests'[k] = requests[k + 1]
      BY <2>1
    <3>3. requests[k + 1].id # requests[1].id
      BY <3>2 DEF KeptInv
    <3> QED
      BY <2>1, <3>1, <3>2, <3>3
  <2>5. ASSUME NEW j \in DOMAIN requests', NEW k \in DOMAIN requests',
               requests'[j].id = requests'[k].id
        PROVE  j = k
    <3>1. /\ j + 1 \in DOMAIN requests /\ requests'[j] = requests[j + 1]
          /\ k + 1 \in DOMAIN requests /\ requests'[k] = requests[k + 1]
      BY <2>1
    <3>2. j + 1 = k + 1
      BY <2>5, <3>1 DEF KeptInv
    <3> QED
      BY <2>1, <3>2
  <2>6. KeptInv'
    <3>1. ASSUME NEW i \in Ids
          PROVE  /\ Waiting(i)' => i \in accepted' /\ next'.id # i /\ called'[i] = 0
                 /\ next'.id = i => i \in accepted' /\ called'[i] = 0
                 /\ called'[i] = IF i \in accepted' /\ ~Waiting(i)' /\ next'.id # i THEN 1 ELSE 0
      <4>1. /\ Waiting(i) => i \in accepted /\ next.id # i /\ called[i] = 0
            /\ called[i] = IF i \in accepted /\ ~Waiting(i) /\ next.id # i THEN 1 ELSE 0
        BY DEF KeptInv
      <4>2. next.id # i
        BY <2>1, NoRequestId
      <4>3. accepted' = accepted /\ called' = called
        BY <2>1
      <4> QED
        BY <2>3, <2>4, <4>1, <4>2, <4>3
    <3>2. called' \in [Ids -> Int]
      BY <2>1 DEF KeptInv
    <3> QED
      BY <2>1, <2>5, <3>1, <3>2 DEF KeptInv
  <2>7. next' # NoRequest
    BY <2>1, NoRequestId DEF Request
  <2>8. SlotsInv'
    <3>1. Cardinality(Inserting) \in Nat
      BY Counts
    <3> QED
      BY <1>1, <2>1, <2>7, <3>1 DEF SlotsInv
  <2>9. EndInv'
    BY EndWorker DEF PopRequest, WorkerAt, callVars
  <2> QED
    BY <1>1, <1>2, <2>2, <2>6, <2>8, <2>9
<1> QED
  BY <1>3, <1>4

\* The end of a discontinuity keeps its record.
LEMMA DiscontEnded ==
    ASSUME TimeInv
    PROVE  (IF Expired THEN [discont EXCEPT !.expiry = 0] ELSE discont)
              \in [start : Int, end : Int, expiry : Int]
BY DEF TimeInv

\* The worker calls the client of the request in its hand.
LEMMA ServeRequestInv == ASSUME IndInv, ServeRequest PROVE IndInv'
<1> USE DEF IndInv
<1>1. CallsInv' /\ FreshInv' /\ BuffersInv' /\ Inserting' = Inserting
  BY WorkerFrame DEF ServeRequest
<1>2. TimeInv'
  <2>1. local' \in [Threads -> Sampled]
    BY NoLocalSampled DEF ServeRequest, TimeInv
  <2>2. discont' \in [start : Int, end : Int, expiry : Int]
    BY DiscontEnded DEF ServeRequest
  <2> QED
    BY <2>1, <2>2 DEF ServeRequest, TimeInv, timeVars, setVars
<1>3. /\ next \in Request /\ next.id \in Ids /\ next' = NoRequest /\ free' = free + 1
      /\ called' = [called EXCEPT ![next.id] = @ + 1] /\ wpc' = "pop"
      /\ UNCHANGED <<requests, accepted, stopping>>
  BY DEF ServeRequest, WorkerAt, HandInv, Request, callVars
<1>4. HandInv'
  BY <1>3 DEF HandInv, Places
<1>5. \A i : Waiting(i)' <=> Waiting(i)
  BY <1>3 DEF Waiting
<1>6. KeptInv'
  <2>1. called' \in [Ids -> Int]
    BY <1>3 DEF KeptInv
  <2>2. ASSUME NEW i \in Ids
        PROVE  /\ Waiting(i)' => i \in accepted' /\ next'.id # i /\ called'[i] = 0
               /\ next'.id = i => i \in accepted' /\ called'[i] = 0
               /\ called'[i] = IF i \in accepted' /\ ~Waiting(i)' /\ next'.id # i THEN 1 ELSE 0
    <3>1. /\ Waiting(i) => i \in accepted /\ next.id # i /\ called[i] = 0
          /\ next.id = i => i \in accepted /\ called[i] = 0
          /\ called[i] = IF i \in accepted /\ ~Waiting(i) /\ next.id # i THEN 1 ELSE 0
      BY DEF KeptInv
    <3>2. called'[i] = IF next.id = i THEN called[i] + 1 ELSE called[i]
      BY <1>3 DEF KeptInv
    <3>3. next'.id # i
      BY <1>3, NoRequestId
    <3> QED
      BY <1>3, <1>5, <3>1, <3>2, <3>3
  <2> QED
    BY <1>3, <2>1, <2>2 DEF KeptInv
<1>7. SlotsInv'
  <2>1. next # NoRequest
    BY <1>3, NoRequestId
  <2>2. Cardinality(Inserting) \in Nat /\ Len(requests) \in Nat
    BY Counts DEF KeptInv
  <2> QED
    BY <1>1, <1>3, <2>1, <2>2 DEF SlotsInv
<1>8. EndInv'
  BY EndWorker DEF ServeRequest, WorkerAt, callVars
<1> QED
  BY <1>1, <1>2, <1>4, <1>6, <1>7, <1>8

\* The worker puts the request back and sets the timer.
LEMMA RescheduleInv == ASSUME IndInv, Reschedule PROVE IndInv'
<1> USE DEF IndInv
<1>1. CallsInv' /\ FreshInv' /\ BuffersInv' /\ Inserting' = Inserting
  BY WorkerFrame DEF Reschedule
<1>2. /\ next \in Request /\ next.id \in Ids /\ next.adj \in Int /\ next' = NoRequest
      /\ requests' = <<next>> \o requests /\ wpc' = "wait" /\ lock' = Nobody
      /\ UNCHANGED <<called, free, accepted, stopping>>
  BY DEF Reschedule, WorkerAt, HandInv, Request, callVars
<1>3. TimeInv'
  <2>1. local' \in [Threads -> Sampled]
    BY NoLocalSampled DEF Reschedule, TimeInv
  <2>2. discont' \in [start : Int, end : Int, expiry : Int]
    BY DiscontEnded DEF Reschedule
  <2>3. local["W"] \in Sampled /\ local["W"].time \in Int
    BY DEF TimeInv, Threads, Sampled
  <2>4. at_timer' \in Int
    BY <2>3 DEF Reschedule
  <2>5. timer' \in Nat
    <3> DEFINE d == Distance(local["W"].time, next.adj)
               n == Distance(scale, 0)
    <3>1. d \in Nat
      BY <1>2, <2>3 DEF Distance
    <3>2. scale # 0 => n \in Nat /\ n # 0
      BY DEF TimeInv, Distance
    <3>3. timer' = now + IF scale = 0 THEN CLOCK_WAIT_TIME ELSE d \div n
      BY DEF Reschedule, SetTimer
    <3>4. now \in Nat
      BY ClockAssumption DEF TimeInv
    <3> HIDE DEF d, n
    <3>5. scale # 0 => d \div n \in Nat
      BY <3>1, <3>2, DivNat
    <3> QED
      BY <3>3, <3>4, <3>5, ClockAssumption
  <2> QED
    BY <1>2, <2>1, <2>2, <2>4, <2>5 DEF Reschedule, TimeInv, timeVars, setVars
<1>4. HandInv'
  BY <1>2 DEF HandInv, Places
<1>5. /\ requests \in Seq(Request) /\ Len(requests) \in Nat
      /\ requests' \in Seq(Request) /\ Len(requests') = Len(requests) + 1
      /\ requests'[1] = next
      /\ \A k \in 2..(Len(requests) + 1) : requests'[k] = requests[k - 1]
      /\ DOMAIN requests' = 1..(Len(requests) + 1) /\ DOMAIN requests = 1..Len(requests)
  BY <1>2 DEF KeptInv
<1>6. ASSUME NEW k \in DOMAIN requests', k # 1
      PROVE  k - 1 \in DOMAIN requests /\ requests'[k] = requests[k - 1]
  BY <1>5, <1>6
<1>7. \A i : Waiting(i)' <=> Waiting(i) \/ next.id = i
  <2>1. ASSUME NEW i, Waiting(i)' PROVE Waiting(i) \/ next.id = i
    <3>1. PICK k \in DOMAIN requests' : requests'[k].id = i
      BY <2>1 DEF Waiting
    <3>2. CASE k = 1
      BY <1>5, <3>1, <3>2
    <3>3. CASE k # 1
      BY <1>6, <3>1, <3>3 DEF Waiting
    <3> QED
      BY <3>2, <3>3
  <2>2. ASSUME NEW i, Waiting(i) PROVE Waiting(i)'
    <3>1. PICK k \in DOMAIN requests : requests[k].id = i
      BY <2>2 DEF Waiting
    <3>2. k + 1 \in 2..(Len(requests) + 1) /\ k + 1 - 1 = k /\ k + 1 \in DOMAIN requests'
      BY <1>5
    <3>3. requests'[k + 1] = requests[k]
      BY <1>5, <3>2
    <3> QED
      BY <3>1, <3>2, <3>3 DEF Waiting
  <2>3. ASSUME NEW i, next.id = i PROVE Waiting(i)'
    <3>1. 1 \in DOMAIN requests'
      BY <1>5
    <3> QED
      BY <1>5, <2>3, <3>1 DEF Waiting
  <2> QED
    BY <2>1, <2>2, <2>3
<1>8. KeptInv'
  <2>1. ~Waiting(next.id)
    BY <1>2 DEF KeptInv
  <2>2. ASSUME NEW j \in DOMAIN requests', NEW k \in DOMAIN requests',
               requests'[j].id = requests'[k].id
        PROVE  j = k
    <3>1. ASSUME NEW m \in DOMAIN requests', m # 1 PROVE requests'[m].id # next.id
      BY <1>6, <2>1, <3>1 DEF Waiting
    <3>2. CASE j = 1 \/ k = 1
      BY <1>5, <2>2, <3>1, <3>2
    <3>3. CASE j # 1 /\ k # 1
      <4>1. j - 1 = k - 1
        BY <1>6, <2>2, <3>3 DEF KeptInv
      <4> QED
        BY <1>5, <4>1
    <3> QED
      BY <3>2, <3>3
  <2>3. ASSUME NEW i \in Ids
        PROVE  /\ Waiting(i)' => i \in accepted' /\ next'.id # i /\ called'[i] = 0
               /\ next'.id = i => i \in accepted' /\ called'[i] = 0
               /\ called'[i] = IF i \in accepted' /\ ~Waiting(i)' /\ next'.id # i THEN 1 ELSE 0
    <3>1. /\ Waiting(i) => i \in accepted /\ next.id # i /\ called[i] = 0
          /\ next.id = i => i \in accepted /\ called[i] = 0
          /\ called[i] = IF i \in accepted /\ ~Waiting(i) /\ next.id # i THEN 1 ELSE 0
      BY DEF KeptInv
    <3>2. next'.id # i
      BY <1>2, NoRequestId
    <3>3. accepted' = accepted /\ called' = called
      BY <1>2
    <3> QED
      BY <1>7, <3>1, <3>2, <3>3
  <2>4. called' \in [Ids -> Int]
    BY <1>2 DEF KeptInv
  <2> QED
    BY <1>5, <2>2, <2>3, <2>4 DEF KeptInv
<1>9. SlotsInv'
  <2>1. next # NoRequest
    BY <1>2, NoRequestId
  <2>2. Cardinality(Inserting) \in Nat
    BY Counts
  <2> QED
    BY <1>1, <1>2, <1>5, <2>1, <2>2 DEF SlotsInv
<1>10. EndInv'
  BY EndWorker DEF Reschedule, WorkerAt, callVars
<1> QED
  BY <1>1, <1>3, <1>4, <1>8, <1>9, <1>10

-----------------------------------------------------------------------------
(* Time passes, the timer goes off, and a clock that is no more is used.    *)

\* Time passes.
LEMMA TickInv == ASSUME IndInv, Tick PROVE IndInv'
<1> USE DEF IndInv
<1>1. CallsInv' /\ FreshInv' /\ BuffersInv' /\ Inserting' = Inserting
  BY WorkerFrame DEF Tick
<1>2. TimeInv'
  <2>1. now' \in 0..MaxTime
    BY ClockAssumption DEF Tick, TimeInv
  <2> QED
    BY <2>1 DEF Tick, TimeInv, timeVars, setVars, discVars
<1>3. HandInv'
  BY DEF Tick, HandInv
<1>4. KeptInv'
  BY KeptSame DEF Tick, slotVars, callVars
<1>5. SlotsInv'
  BY <1>1, SlotsSame DEF Tick, slotVars
<1>6. EndInv'
  BY DEF EndInv, Tick, slotVars, callVars
<1> QED
  BY <1>1, <1>2, <1>3, <1>4, <1>5, <1>6

\* The timer goes off.
LEMMA TimerExpiresInv == ASSUME IndInv, TimerExpires PROVE IndInv'
<1> USE DEF IndInv
<1>1. CallsInv' /\ FreshInv' /\ BuffersInv' /\ Inserting' = Inserting
  BY WorkerFrame DEF TimerExpires
<1>2. TimeInv'
  <2>1. timer' \in Nat \cup {Off} /\ event' \in Nat
    BY ClockAssumption DEF TimerExpires, TimeInv
  <2> QED
    BY <2>1 DEF TimerExpires, TimeInv, timeVars, setVars, discVars
<1>3. HandInv'
  BY DEF TimerExpires, HandInv
<1>4. KeptInv'
  BY KeptSame DEF TimerExpires, slotVars, callVars
<1>5. SlotsInv'
  BY <1>1, SlotsSame DEF TimerExpires, slotVars
<1>6. EndInv'
  BY DEF EndInv, TimerExpires, slotVars, callVars
<1> QED
  BY <1>1, <1>2, <1>3, <1>4, <1>5, <1>6

\* A clock that is no more is used.
LEMMA UseFreedInv == ASSUME IndInv, NEW c \in Callers, UseFreed(c) PROVE IndInv'
<1> USE DEF IndInv
<1>1. CallsInv' /\ FreshInv'
  BY DEF UseFreed, callVars, CallsInv, FreshInv
<1>2. Inserting' = Inserting /\ Returning' = Returning
  BY DEF UseFreed, callVars, Inserting, Returning
<1>3. BuffersInv'
  BY <1>2 DEF UseFreed, BuffersInv, portVars
<1>4. TimeInv' /\ HandInv'
  BY TimeSame DEF UseFreed, HandInv
<1>5. KeptInv'
  BY KeptSame DEF UseFreed, slotVars, callVars
<1>6. SlotsInv'
  BY <1>2, SlotsSame DEF UseFreed, slotVars
<1>7. EndInv'
  BY DEF EndInv, UseFreed, slotVars, callVars
<1> QED
  BY <1>1, <1>3, <1>4, <1>5, <1>6, <1>7

-----------------------------------------------------------------------------
(* The steps of the callers.                                                *)

\* What a step that goes on with the call does to the parts about calls and the end.
LEMMA GoneOn ==
    ASSUME IndInv, NEW c \in Callers, state = "ok", steps[c] # <<>>,
           Head(steps[c]) \notin {"check", "insert", "return", "enqueue"},
           GoOn(c), UNCHANGED <<accepted, wpc, next>>, stopping => stopping',
           stopping /\ requests = <<>> => requests' = <<>>,
           Head(steps[c]) = "halt" => stopping',
           Head(steps[c]) = "join" => wpc = "ended",
           Head(steps[c]) = "flush" => requests' = <<>>,
           state' = "ok" \/ (Head(steps[c]) = "free" /\ state' = "freed")
    PROVE  /\ CallsInv' /\ FreshInv' /\ EndInv' /\ HandInv'
           /\ Inserting' = Inserting /\ Returning' = Returning
<1>1. CallsInv' /\ FreshInv' /\ Inserting' = Inserting /\ Returning' = Returning
  BY PlainStep DEF IndInv
<1>2. /\ steps'[c] = Tail(steps[c])
      /\ \A d \in Callers \ {c} : steps'[d] = steps[d]
  BY DEF IndInv, CallsInv, GoOn
<1>3. CallsInv /\ EndInv /\ HandInv /\ wpc' = wpc
  BY DEF IndInv
<1>4. EndInv'
  BY <1>2, <1>3, EndStep
<1>5. HandInv'
  BY <1>3 DEF HandInv
<1> QED
  BY <1>1, <1>4, <1>5

\* Buffers that nobody moves.
LEMMA BuffersSame ==
    ASSUME BuffersInv, Returning' = Returning, UNCHANGED <<queue, away>>
    PROVE  BuffersInv'
BY DEF BuffersInv

\* A caller updates the time.
LEMMA CallerTimeInv == ASSUME IndInv, NEW c \in Callers, CallerTime(c) PROVE IndInv'
<1> USE DEF IndInv
<1>1. /\ state = "ok" /\ steps[c] # <<>> /\ Head(steps[c]) \in {"sample", "apply"} /\ GoOn(c)
      /\ UNCHANGED <<accepted, wpc, next, stopping, requests, state>>
  BY DEF CallerTime, At, slotVars
<1>2. /\ CallsInv' /\ FreshInv' /\ EndInv' /\ HandInv'
      /\ Inserting' = Inserting /\ Returning' = Returning
  BY <1>1, GoneOn
<1>3. TimeInv'
  <2>1. c \in Threads /\ (Sample(c) \/ Apply(c))
    BY DEF CallerTime, Threads
  <2> QED
    BY <2>1, TimeSampled, TimeApplied DEF CallerTime
<1>4. KeptInv'
  BY KeptSame DEF CallerTime, slotVars
<1>5. SlotsInv'
  BY <1>2, SlotsSame DEF CallerTime, slotVars
<1>6. BuffersInv'
  BY <1>2, BuffersSame DEF CallerTime, portVars
<1> QED
  BY <1>2, <1>3, <1>4, <1>5, <1>6

\* A caller wakes the worker.
LEMMA PostInv == ASSUME IndInv, NEW c \in Callers, Post(c) PROVE IndInv'
<1> USE DEF IndInv
<1>1. /\ state = "ok" /\ steps[c] # <<>> /\ Head(steps[c]) = "post" /\ GoOn(c)
      /\ UNCHANGED <<accepted, wpc, next, stopping, requests, state>>
  BY DEF Post, At, slotVars
<1>2. /\ CallsInv' /\ FreshInv' /\ EndInv' /\ HandInv'
      /\ Inserting' = Inserting /\ Returning' = Returning
  BY <1>1, GoneOn
<1>3. TimeInv'
  <2>1. event' \in Nat
    BY DEF Post, TimeInv
  <2> QED
    BY <2>1 DEF Post, TimeInv, timeVars, setVars, discVars
<1>4. KeptInv'
  BY KeptSame DEF Post, slotVars
<1>5. SlotsInv'
  BY <1>2, SlotsSame DEF Post, slotVars
<1>6. BuffersInv'
  BY <1>2, BuffersSame DEF Post, portVars
<1> QED
  BY <1>2, <1>3, <1>4, <1>5, <1>6

\* A caller sets the offset or the threshold, starts or stops the clock.
LEMMA SetInv == ASSUME IndInv, NEW c \in Callers, Set(c) PROVE IndInv'
<1> USE DEF IndInv
<1>1. /\ state = "ok" /\ steps[c] # <<>> /\ GoOn(c)
      /\ Head(steps[c]) \in {"offset", "threshold", "start", "stop", "refer"}
      /\ UNCHANGED <<accepted, wpc, next, stopping, requests, state>>
  BY DEF Set, At, slotVars
<1>2. /\ CallsInv' /\ FreshInv' /\ EndInv' /\ HandInv'
      /\ Inserting' = Inserting /\ Returning' = Returning
  BY <1>1, GoneOn
<1>3. TimeInv'
  <2>1. call[c].arg \in Int
    BY DEF CallsInv
  <2>2. offset' \in Int /\ limit' \in Int /\ active' \in BOOLEAN
    <3>1. offset \in Int /\ limit \in Int /\ active \in BOOLEAN
      BY DEF TimeInv
    <3>2. CASE At(c, "offset") /\ offset' = call[c].arg /\ UNCHANGED <<active, limit, reference>>
      BY <2>1, <3>1, <3>2
    <3>3. CASE limit' = 0 /\ UNCHANGED <<active, offset, reference>>
      BY <3>1, <3>3
    <3>4. CASE active' \in BOOLEAN /\ UNCHANGED <<offset, limit, reference>>
      BY <3>1, <3>4
    <3>5. CASE UNCHANGED <<active, offset, limit>>
      BY <3>1, <3>5
    <3> QED
      BY <3>2, <3>3, <3>4, <3>5 DEF Set
  <2> QED
    BY <2>2 DEF Set, TimeInv, timeVars, discVars
<1>4. KeptInv'
  BY KeptSame DEF Set, slotVars
<1>5. SlotsInv'
  BY <1>2, SlotsSame DEF Set, slotVars
<1>6. BuffersInv'
  BY <1>2, BuffersSame DEF Set
<1> QED
  BY <1>2, <1>3, <1>4, <1>5, <1>6

\* A caller sets the speed.
LEMMA ScaleSetInv == ASSUME IndInv, NEW c \in Callers, mmal_clock_scale_set(c) PROVE IndInv'
<1> USE DEF IndInv
<1>1. /\ state = "ok" /\ steps[c] # <<>> /\ GoOn(c) /\ Head(steps[c]) = "scale"
      /\ UNCHANGED <<accepted, wpc, next, stopping, requests, state>>
  BY DEF mmal_clock_scale_set, At, slotVars
<1>2. /\ CallsInv' /\ FreshInv' /\ EndInv' /\ HandInv'
      /\ Inserting' = Inserting /\ Returning' = Returning
  BY <1>1, GoneOn
<1>3. TimeInv'
  <2>1. scale' \in Int
    BY DEF CallsInv, mmal_clock_scale_set
  <2> QED
    BY <2>1 DEF mmal_clock_scale_set, TimeInv, timeVars, discVars
<1>4. KeptInv'
  BY KeptSame DEF mmal_clock_scale_set, slotVars
<1>5. SlotsInv'
  BY <1>2, SlotsSame DEF mmal_clock_scale_set, slotVars
<1>6. BuffersInv'
  BY <1>2, BuffersSame DEF mmal_clock_scale_set, portVars
<1> QED
  BY <1>2, <1>3, <1>4, <1>5, <1>6

\* A caller flushes the list.
LEMMA FlushInv == ASSUME IndInv, NEW c \in Callers, mmal_clock_request_flush(c) PROVE IndInv'
<1> USE DEF IndInv
<1>1. /\ state = "ok" /\ steps[c] # <<>> /\ GoOn(c) /\ Head(steps[c]) = "flush" /\ Flushed
      /\ UNCHANGED <<accepted, wpc, next, stopping, state>> /\ requests' = <<>>
  BY DEF mmal_clock_request_flush, At, Flushed
<1>2. /\ CallsInv' /\ FreshInv' /\ EndInv' /\ HandInv'
      /\ Inserting' = Inserting /\ Returning' = Returning
  BY <1>1, GoneOn
<1>3. TimeInv'
  <2>1. at_timer' \in Int
    BY <1>1 DEF Flushed
  <2> QED
    BY <2>1 DEF mmal_clock_request_flush, TimeInv, timeVars, setVars
<1>4. KeptInv'
  BY <1>1, KeptFlushed
<1>5. SlotsInv'
  BY <1>1, <1>2, SlotsFlushed
<1>6. BuffersInv'
  BY <1>2, BuffersSame DEF mmal_clock_request_flush, portVars
<1> QED
  BY <1>2, <1>3, <1>4, <1>5, <1>6

\* A caller destroys the clock.
LEMMA DestroyInv == ASSUME IndInv, NEW c \in Callers, Destroy(c) PROVE IndInv'
<1> USE DEF IndInv
<1>1. /\ state = "ok" /\ steps[c] # <<>> /\ GoOn(c)
      /\ Head(steps[c]) \in {"halt", "join", "free"}
      /\ UNCHANGED <<accepted, wpc, next, requests>>
      /\ Head(steps[c]) = "join" => wpc = "ended"
      /\ state' = "ok" \/ (Head(steps[c]) = "free" /\ state' = "freed")
  BY DEF Destroy, At, slotVars
<1>2. /\ stopping => stopping'
      /\ Head(steps[c]) = "halt" => stopping'
      /\ stopping' \in BOOLEAN
  <2>1. stopping \in BOOLEAN
    BY DEF TimeInv
  <2>2. CASE At(c, "halt") /\ stopping' = TRUE
    BY <2>2
  <2>3. CASE Head(steps[c]) # "halt" /\ stopping' = stopping
    BY <2>1, <2>3
  <2> QED
    BY <2>2, <2>3 DEF Destroy, At
<1>3. /\ CallsInv' /\ FreshInv' /\ EndInv' /\ HandInv'
      /\ Inserting' = Inserting /\ Returning' = Returning
  BY <1>1, <1>2, GoneOn
<1>4. TimeInv'
  BY <1>2 DEF Destroy, TimeInv, timeVars, setVars, discVars
<1>5. KeptInv'
  BY KeptSame DEF Destroy, slotVars
<1>6. SlotsInv'
  BY <1>2, <1>3, SlotsSame DEF Destroy, slotVars
<1>7. BuffersInv'
  BY <1>3, BuffersSame DEF Destroy, portVars
<1> QED
  BY <1>3, <1>4, <1>5, <1>6, <1>7

\* What a step that leaves something else of the call does.
LEMMA Cut ==
    ASSUME IndInv, NEW c \in Callers, state = "ok", steps[c] # <<>>, NEW t, Shaped(t),
           Head(steps[c]) \notin {"halt", "join", "flush", "free"},
           ~Has(t, "insert"), ~Has(t, "free"),
           steps' = [steps EXCEPT ![c] = t],
           UNCHANGED <<call, calls, accepted, wpc, next, stopping, requests, state>>
    PROVE  /\ CallsInv' /\ FreshInv' /\ EndInv' /\ HandInv'
           /\ steps'[c] = t /\ \A d \in Callers \ {c} : steps'[d] = steps[d]
<1>1. CallsInv' /\ steps'[c] = t /\ \A d \in Callers \ {c} : steps'[d] = steps[d]
  BY StepsTo DEF IndInv
<1>2. CallsInv /\ FreshInv /\ EndInv /\ HandInv
  BY DEF IndInv
<1>3. FreshInv'
  BY <1>1, <1>2, FreshStep
<1>4. EndInv'
  BY <1>1, <1>2, EndStep
<1>5. HandInv'
  BY <1>2 DEF HandInv
<1> QED
  BY <1>1, <1>3, <1>4, <1>5

\* A caller wakes the worker, and a reference tells the other port.
LEMMA PostTellInv == ASSUME IndInv, NEW c \in Callers, PostTell(c) PROVE IndInv'
<1> USE DEF IndInv
<1> DEFINE t == IF reference THEN <<"sample", "apply", "forward">> ELSE <<>>
<1>1. /\ state = "ok" /\ steps[c] # <<>> /\ Head(steps[c]) = "post_tell"
      /\ steps' = [steps EXCEPT ![c] = t]
      /\ UNCHANGED <<call, calls, accepted, wpc, next, stopping, requests, state>>
  BY DEF PostTell, At, slotVars
<1>2. /\ Shaped(t) /\ ~Has(t, "insert") /\ ~Has(t, "free") /\ ~Returns(t) /\ ~Inserts(t)
  BY ShapedRests DEF Inserts
<1> HIDE DEF t
<1>3. /\ CallsInv' /\ FreshInv' /\ EndInv' /\ HandInv'
      /\ steps'[c] = t /\ \A d \in Callers \ {c} : steps'[d] = steps[d]
  BY <1>1, <1>2, Cut
<1>4. ~Returns(steps[c]) /\ ~Inserts(steps[c])
  <2>1. Shaped(steps[c])
    BY DEF CallsInv
  <2>2. Tail(steps[c]) = <<>> /\ Head(steps[c]) = "post_tell"
    BY <1>1, <2>1, ShapedHead
  <2>3. ~Has(steps[c], "return") /\ ~Has(steps[c], "enqueue")
    <3>1. \A x : ~Has(<<>>, x)
      <4>1. \A j \in DOMAIN <<>> : FALSE
        OBVIOUS
      <4> QED
        BY <4>1 DEF Has
    <3>2. \A x : Has(steps[c], x) /\ Head(steps[c]) # x => Has(<<>>, x)
      BY <1>1, <2>1, <2>2, ShapedTail
    <3> QED
      BY <2>2, <3>1, <3>2
  <2> QED
    BY <1>1, <2>3 DEF Returns, Has, Inserts
<1>5. Inserting' = Inserting /\ Returning' = Returning
  BY <1>2, <1>3, <1>4, SameSets
<1>6. TimeInv'
  <2>1. event' \in Nat
    BY DEF PostTell, TimeInv
  <2> QED
    BY <2>1 DEF PostTell, TimeInv, timeVars, setVars, discVars
<1>7. KeptInv'
  BY KeptSame DEF PostTell, slotVars
<1>8. SlotsInv'
  BY <1>5, SlotsSame DEF PostTell, slotVars
<1>9. BuffersInv'
  BY <1>5, BuffersSame DEF PostTell, portVars
<1> QED
  BY <1>3, <1>6, <1>7, <1>8, <1>9

\* A call that is to insert a request has no buffer to give back.
LEMMA InsertsNotReturns ==
    ASSUME NEW s, Shaped(s), s # <<>>, Head(s) \in {"check", "insert"}
    PROVE  ~Returns(s)
<1>1. Has(s, "insert") /\ ~Has(s, "return") /\ ~Has(s, "enqueue")
  BY ShapedHead
<1> QED
  BY <1>1 DEF Has, Returns

\* mmal_clock_request_add() takes a slot, or leaves.
LEMMA TakeSlotInv == ASSUME IndInv, NEW c \in Callers, TakeSlot(c) PROVE IndInv'
<1> USE DEF IndInv
<1> DEFINE s == steps[c]
<1>1. /\ state = "ok" /\ s # <<>> /\ Head(s) = "check" /\ Shaped(s)
      /\ UNCHANGED <<call, calls, accepted, wpc, next, stopping, requests, called, state>>
      /\ UNCHANGED <<queue, away>>
  BY DEF TakeSlot, At, CallsInv, GoOn, Leave, portVars
<1>2. TimeInv'
  <2>1. local' \in [Threads -> Sampled]
    BY NoLocalSampled DEF TakeSlot, TimeInv
  <2> QED
    BY <2>1 DEF TakeSlot, TimeInv, timeVars, setVars, discVars
<1>3. KeptInv'
  BY <1>1, KeptSame
<1>4. ~Returns(s) /\ ~Inserts(s)
  BY <1>1, InsertsNotReturns DEF Inserts
<1>5. CASE steps' = [steps EXCEPT ![c] = <<>>] /\ UNCHANGED free
  <2>1. /\ CallsInv' /\ FreshInv' /\ EndInv' /\ HandInv'
        /\ steps'[c] = <<>> /\ \A d \in Callers \ {c} : steps'[d] = steps[d]
    BY <1>1, <1>5, ShapedRests, Cut
  <2>2. Inserting' = Inserting /\ Returning' = Returning
    BY <1>4, <2>1, SameSets, ShapedRests DEF Inserts
  <2>3. SlotsInv' /\ BuffersInv'
    BY <1>1, <1>5, <2>2, SlotsSame, BuffersSame
  <2> QED
    BY <1>2, <1>3, <2>1, <2>3
<1>6. CASE GoOn(c) /\ free # 0 /\ free' = free - 1
  <2> DEFINE t == Tail(s)
  <2>1. /\ Shaped(t) /\ (Has(t, "insert") => Has(s, "insert"))
        /\ Inserts(t) /\ steps' = [steps EXCEPT ![c] = t]
    BY <1>1, <1>6, ShapedTail, ShapedHead DEF GoOn, Inserts
  <2> HIDE DEF t
  <2>2. CallsInv' /\ steps'[c] = t /\ \A d \in Callers \ {c} : steps'[d] = steps[d]
    BY <1>1, <2>1, StepsTo
  <2>3. FreshInv'
    BY <1>1, <2>1, <2>2, FreshStep
  <2>4. EndInv'
    BY <1>1, <2>2, EndStep DEF t
  <2>5. HandInv'
    BY <1>1 DEF HandInv
  <2>6. ~Returns(t)
    <3>1. \A x : Has(t, x) => Has(s, x)
      BY <1>1, ShapedTail DEF t
    <3> QED
      BY <1>4, <3>1 DEF Returns, Has
  <2>7. /\ Inserting' = Inserting \cup {c} /\ c \notin Inserting /\ Returning' = Returning
    BY <1>4, <2>1, <2>2, <2>6, SameSets
  <2>8. Cardinality(Inserting') = Cardinality(Inserting) + 1 /\ Cardinality(Inserting) \in Nat
    BY <2>7, Counts, FS_AddElement
  <2>9. SlotsInv'
    <3> DEFINE a == Len(requests)
               b == IF next = NoRequest THEN 0 ELSE 1
               d == Cardinality(Inserting)
    <3>1. a \in Nat /\ b \in Nat /\ d \in Nat
      BY <2>8 DEF KeptInv
    <3>2. a' = a /\ b' = b /\ d' = d + 1 /\ stopping' = stopping
      BY <1>1, <2>8
    <3>3. free' = free - 1 /\ free # 0
      BY <1>6
    <3>4. free \in Nat /\ free + (a + b + d) <= SLOTS /\ (~stopping => free + (a + b + d) = SLOTS)
      BY DEF SlotsInv
    <3> HIDE DEF a, b, d
    <3>5. /\ free' \in Nat /\ free' + (a' + b' + d') <= SLOTS
          /\ ~stopping' => free' + (a' + b' + d') = SLOTS
      BY <3>1, <3>2, <3>3, <3>4, ClockAssumption
    <3> QED
      BY <3>5 DEF SlotsInv, a, b, d
  <2>10. BuffersInv'
    BY <1>1, <2>7, BuffersSame
  <2> QED
    BY <1>2, <1>3, <2>2, <2>3, <2>4, <2>5, <2>9, <2>10
<1> QED
  BY <1>5, <1>6 DEF TakeSlot, Leave

\* mmal_clock_request_add() inserts the request, unless the clock is being destroyed.
LEMMA InsertRequestInv == ASSUME IndInv, NEW c \in Callers, InsertRequest(c) PROVE IndInv'
<1> USE DEF IndInv
<1> DEFINE s == steps[c]
<1>1. /\ state = "ok" /\ s # <<>> /\ Head(s) = "insert" /\ Shaped(s)
      /\ UNCHANGED <<call, calls, wpc, next, stopping, called, state, free, queue, away>>
  BY DEF InsertRequest, At, CallsInv, GoOn, Leave, portVars
<1>2. TimeInv'
  BY TimeSame DEF InsertRequest, discVars
<1>3. ~Returns(s) /\ Inserts(s)
  BY <1>1, InsertsNotReturns DEF Inserts
<1>4. CASE stopping
  <2>1. /\ steps' = [steps EXCEPT ![c] = <<>>] /\ UNCHANGED <<requests, accepted>>
    BY <1>4 DEF InsertRequest, Leave
  <2>2. /\ CallsInv' /\ FreshInv' /\ EndInv' /\ HandInv'
        /\ steps'[c] = <<>> /\ \A d \in Callers \ {c} : steps'[d] = steps[d]
    BY <1>1, <2>1, ShapedRests, Cut
  <2>3. /\ Inserting' = Inserting \ {c} /\ c \in Inserting /\ Returning' = Returning
    BY <1>3, <2>2, SameSets, ShapedRests DEF Inserts
  <2>4. /\ Cardinality(Inserting') = Cardinality(Inserting) - 1
        /\ Cardinality(Inserting) \in Nat /\ Cardinality(Inserting') \in Nat
    <3>1. IsFiniteSet(Inserting) /\ Cardinality(Inserting) \in Nat
      BY Counts
    <3>2. IsFiniteSet(Inserting \ {c})
          /\ Cardinality(Inserting \ {c}) = Cardinality(Inserting) - 1
      BY <2>3, <3>1, FS_RemoveElement
    <3> QED
      BY <2>3, <3>1, <3>2, FS_CardinalityType
  <2>5. SlotsInv'
    <3>1. Len(requests) \in Nat
      BY DEF KeptInv
    <3> QED
      BY <1>1, <1>4, <2>1, <2>4, <3>1, ClockAssumption DEF SlotsInv
  <2>6. KeptInv' /\ BuffersInv'
    BY <1>1, <2>1, <2>3, KeptSame, BuffersSame
  <2> QED
    BY <1>2, <2>2, <2>5, <2>6
<1>5. CASE ~stopping
  <2> DEFINE r == [id |-> call[c].id, adj |-> call[c].arg]
             t == Tail(s)
  <2>1. /\ requests' = Inserted(r) /\ accepted' = accepted \cup {r.id}
        /\ steps' = [steps EXCEPT ![c] = t]
    BY <1>5 DEF InsertRequest, GoOn
  <2>2. Has(s, "insert") /\ Shaped(t) /\ ~Has(t, "insert") /\ \A x : Has(t, x) => Has(s, x)
    BY <1>1, ShapedHead, ShapedTail
  <2>3. /\ Len(calls[c]) < 4 /\ call[c].id = <<c, Len(calls[c]) + 1>>
        /\ call[c].id \notin accepted
    BY <2>2 DEF FreshInv
  <2>4. Len(calls[c]) \in Nat
    BY DEF CallsInv
  <2>5. call[c].id \in Ids /\ call[c].arg \in Int
    BY <2>3, <2>4 DEF CallsInv, Ids
  <2>6. r \in Request /\ r.id = call[c].id
    BY <2>5 DEF Request
  <2> HIDE DEF t, r
  <2>7. KeptInv' /\ Len(requests') = Len(requests) + 1
    <3> DEFINE q == call[c].id
    <3>1. \A x \in Request : x.id \notin accepted /\ requests' = Inserted(x)
                               /\ accepted' = accepted \cup {x.id}
                            => KeptInv' /\ Len(requests') = Len(requests) + 1
      BY <1>1, KeptInserted
    <3> QED
      BY <2>1, <2>3, <2>6, <3>1
  <2>8. CallsInv' /\ steps'[c] = t /\ \A d \in Callers \ {c} : steps'[d] = steps[d]
    BY <1>1, <2>1, <2>2, StepsTo
  <2>9. FreshInv'
    <3>1. accepted' \subseteq Ids
      BY <2>1, <2>5, <2>6 DEF FreshInv
    <3>2. \A i : i \in accepted' <=> i \in accepted \/ i = <<c, Len(calls[c]) + 1>>
      BY <2>1, <2>3, <2>6
    <3>3. ASSUME NEW d \in Callers, NEW n \in 1..4, <<d, n>> \in accepted'
          PROVE  n > Len(calls'[d])
      <4>1. CASE <<d, n>> \in accepted
        BY <1>1, <4>1 DEF FreshInv
      <4>2. CASE <<d, n>> = <<c, Len(calls[c]) + 1>>
        <5>1. d = c /\ n = Len(calls[c]) + 1
          BY <4>2
        <5> QED
          BY <1>1, <2>4, <5>1
      <4> QED
        BY <3>2, <3>3, <4>1, <4>2
    <3>4. ASSUME NEW d \in Callers, Has(steps'[d], "insert")
          PROVE  /\ Len(calls'[d]) < 4 /\ call'[d].id = <<d, Len(calls'[d]) + 1>>
                 /\ call'[d].id \notin accepted'
      <4>1. d # c /\ Has(steps[d], "insert")
        BY <2>2, <2>8, <3>4
      <4>2. /\ Len(calls[d]) < 4 /\ call[d].id = <<d, Len(calls[d]) + 1>>
            /\ call[d].id \notin accepted
        BY <4>1 DEF FreshInv
      <4>3. <<d, Len(calls[d]) + 1>> # <<c, Len(calls[c]) + 1>>
        BY <4>1
      <4> QED
        BY <1>1, <3>2, <4>2, <4>3
    <3> QED
      BY <3>1, <3>3, <3>4 DEF FreshInv
  <2>10. EndInv'
    <3>1. Has(t, "free") => t = Tail(steps[c])
      BY DEF t
    <3> QED
      BY <1>1, <1>5, <2>8, <3>1, EndStep
  <2>11. HandInv'
    BY <1>1 DEF HandInv
  <2>12. ~Returns(t) /\ ~Inserts(t)
    <3>1. ~Returns(t)
      BY <1>3, <2>2 DEF Returns, Has
    <3>2. Inserts(t) => Has(t, "insert")
      <4> SUFFICES ASSUME t # <<>>, Head(t) = "insert" PROVE Has(t, "insert")
        BY DEF Inserts
      <4>1. 1 \in DOMAIN t /\ t[1] = "insert"
        BY <2>2 DEF Shaped
      <4> QED
        BY <4>1 DEF Has
    <3> QED
      BY <2>2, <3>1, <3>2
  <2>13. Inserting' = Inserting \ {c} /\ c \in Inserting /\ Returning' = Returning
    BY <1>3, <2>8, <2>12, SameSets
  <2>14. Cardinality(Inserting') = Cardinality(Inserting) - 1 /\ Cardinality(Inserting) \in Nat
    BY <2>13, Counts, FS_RemoveElement
  <2>15. SlotsInv'
    <3>1. Len(requests) \in Nat
      BY DEF KeptInv
    <3> QED
      BY <1>1, <1>5, <2>7, <2>14, <3>1 DEF SlotsInv
  <2>16. BuffersInv'
    BY <1>1, <2>13, BuffersSame
  <2> QED
    BY <1>2, <2>7, <2>8, <2>9, <2>10, <2>11, <2>15, <2>16
<1> QED
  BY <1>4, <1>5

\* A caller sets the time, or the difference is too small.
LEMMA TimeSetInv == ASSUME IndInv, NEW c \in Callers, mmal_clock_media_time_set(c) PROVE IndInv'
<1> USE DEF IndInv
<1> DEFINE s == steps[c]
           d == media - call[c].arg
<1>1. /\ state = "ok" /\ s # <<>> /\ Head(s) = "time" /\ Shaped(s)
      /\ UNCHANGED <<accepted, wpc, next, stopping, requests, free, called, state, queue, away>>
  BY DEF mmal_clock_media_time_set, At, CallsInv, slotVars, portVars
<1>2. TimeInv'
  <2>1. call[c].arg \in Int /\ media \in Int /\ avg \in Int
    BY DEF CallsInv, TimeInv
  <2>2. d \in Int
    BY <2>1
  <2>3. Average(d) \in Int
    BY <2>1, <2>2 DEF Average
  <2> HIDE DEF d
  <2>4. media - Average(d) \in Int
    BY <2>1, <2>3
  <2>5. media' \in {media, call[c].arg, media - Average(d)} /\ avg' \in {0, Average(d)}
    BY DEF mmal_clock_media_time_set, d
  <2>6. media' \in Int /\ avg' \in Int
    BY <2>1, <2>3, <2>4, <2>5
  <2> QED
    BY <2>6 DEF mmal_clock_media_time_set, TimeInv, discVars
<1>3. KeptInv'
  BY <1>1, KeptSame
<1>4. CASE GoOn(c)
  <2>1. /\ CallsInv' /\ FreshInv' /\ EndInv' /\ HandInv'
        /\ Inserting' = Inserting /\ Returning' = Returning
    BY <1>1, <1>4, GoneOn
  <2>2. SlotsInv' /\ BuffersInv'
    BY <1>1, <2>1, SlotsSame, BuffersSame
  <2> QED
    BY <1>2, <1>3, <2>1, <2>2
<1>5. CASE /\ steps' = [steps EXCEPT ![c] = IF Last(@) = "return" THEN <<"return">> ELSE <<>>]
           /\ UNCHANGED <<call, calls>>
  <2> DEFINE t == IF Last(s) = "return" THEN <<"return">> ELSE <<>>
  <2>1. steps' = [steps EXCEPT ![c] = t]
    BY <1>5 DEF CallsInv
  <2>2. /\ Shaped(t) /\ ~Has(t, "insert") /\ ~Has(t, "free") /\ ~Inserts(t)
        /\ Returns(t) <=> Last(s) = "return"
    BY ShapedRests DEF Inserts
  <2> HIDE DEF t
  <2>3. /\ CallsInv' /\ FreshInv' /\ EndInv' /\ HandInv'
        /\ steps'[c] = t /\ \A e \in Callers \ {c} : steps'[e] = steps[e]
    BY <1>1, <1>5, <2>1, <2>2, Cut
  <2>4. Returns(s) <=> Last(s) = "return"
    <3>1. s \in Seq(StepNames) /\ Len(s) \in DOMAIN s /\ Last(s) = s[Len(s)]
      BY <1>1 DEF Shaped, Last
    <3>2. ~Has(s, "enqueue")
      BY <1>1, ShapedHead
    <3>3. ASSUME NEW j \in DOMAIN s, s[j] = "return" PROVE j = Len(s)
      BY <1>1, <3>3 DEF Shaped
    <3>4. ASSUME Returns(s) PROVE Last(s) = "return"
      BY <3>1, <3>2, <3>3, <3>4 DEF Returns, Has
    <3>5. ASSUME Last(s) = "return" PROVE Returns(s)
      BY <3>1, <3>5 DEF Returns
    <3> QED
      BY <3>4, <3>5
  <2>5. ~Inserts(s)
    BY <1>1 DEF Inserts
  <2>6. Inserting' = Inserting /\ Returning' = Returning
    BY <2>2, <2>3, <2>4, <2>5, SameSets
  <2>7. SlotsInv' /\ BuffersInv'
    BY <1>1, <2>6, SlotsSame, BuffersSame
  <2> QED
    BY <1>2, <1>3, <2>3, <2>7
<1> QED
  BY <1>4, <1>5 DEF mmal_clock_media_time_set

\* A buffer is put in the queue or goes back to the other port.
LEMMA BufferInv == ASSUME IndInv, NEW c \in Callers, Buffer(c) PROVE IndInv'
<1> USE DEF IndInv
<1> DEFINE s == steps[c]
<1>1. /\ state = "ok" /\ s # <<>> /\ Shaped(s) /\ GoOn(c)
      /\ Head(s) \in {"forward", "unqueue", "enqueue", "return"}
      /\ UNCHANGED <<accepted, wpc, next, stopping, requests, free, called, state>>
  BY DEF Buffer, At, CallsInv, slotVars
<1>2. TimeInv'
  BY TimeSame DEF Buffer
<1>3. KeptInv'
  BY <1>1, KeptSame
<1>4. queue \in Nat /\ away \in Nat /\ Cardinality(Returning) \in Nat /\ Cardinality(Inserting) \in Nat
  BY Counts DEF BuffersInv
<1>5. CASE Head(s) \in {"forward", "unqueue"}
  <2>1. /\ CallsInv' /\ FreshInv' /\ EndInv' /\ HandInv'
        /\ Inserting' = Inserting /\ Returning' = Returning
    BY <1>1, <1>5, GoneOn
  <2>2. queue' \in Nat /\ away' \in Nat /\ queue' + away' = queue + away
    BY <1>4, <1>5 DEF Buffer, At
  <2>3. BuffersInv'
    BY <1>4, <2>1, <2>2 DEF BuffersInv
  <2>4. SlotsInv'
    BY <1>1, <2>1, SlotsSame
  <2> QED
    BY <1>2, <1>3, <2>1, <2>3, <2>4
<1>6. CASE Head(s) \in {"enqueue", "return"}
  <2>1. /\ Tail(s) = <<>> /\ steps' = [steps EXCEPT ![c] = <<>>]
        /\ UNCHANGED <<call, calls>>
    BY <1>1, <1>6, ShapedHead DEF GoOn
  <2>2. /\ CallsInv' /\ FreshInv' /\ EndInv' /\ HandInv'
        /\ steps'[c] = <<>> /\ \A e \in Callers \ {c} : steps'[e] = steps[e]
    BY <1>1, <1>6, <2>1, ShapedRests, Cut
  <2>3. Returns(s) /\ ~Inserts(s)
    <3>1. 1 \in DOMAIN s /\ Head(s) = s[1]
      BY <1>1 DEF Shaped
    <3> QED
      BY <1>6, <3>1 DEF Returns, Inserts
  <2>4. Inserting' = Inserting /\ Returning' = Returning \ {c} /\ c \in Returning
    BY <2>2, <2>3, SameSets, ShapedRests DEF Inserts
  <2>5. Cardinality(Returning') = Cardinality(Returning) - 1
    BY <2>4, Counts, FS_RemoveElement
  <2>6. queue' \in Nat /\ away' \in Nat /\ queue' + away' = queue + away + 1
    BY <1>4, <1>6 DEF Buffer, At
  <2>7. BuffersInv'
    <3>1. queue + away + Cardinality(Returning) = NBuffers
      BY DEF BuffersInv
    <3>2. queue' + away' + Cardinality(Returning') = NBuffers
      <4> DEFINE n == Cardinality(Returning)
                 m == Cardinality(Returning')
                 sum == queue + away
                 later == queue' + away'
      <4>1. n \in Nat /\ m = n - 1 /\ sum \in Nat /\ later = sum + 1 /\ sum + n = NBuffers
        <5>1. n \in Nat
          BY <1>4
        <5>2. m = n - 1
          BY <2>5
        <5>3. sum \in Nat /\ later = sum + 1
          <6>1. sum \in Nat
            BY <1>4
          <6>2. queue' + away' = queue + away + 1
            BY <2>6
          <6>3. later = sum + 1
            BY <6>2
          <6> QED
            BY <6>1, <6>3
        <5>4. sum + n = NBuffers
          BY <3>1
        <5> QED
          BY <5>1, <5>2, <5>3, <5>4
      <4> HIDE DEF n, m, sum, later
      <4>2. later + m = NBuffers
        BY <4>1
      <4> QED
        BY <4>2 DEF m, later
    <3> QED
      BY <2>6, <3>2 DEF BuffersInv
  <2>8. SlotsInv'
    BY <1>1, <2>4, SlotsSame
  <2> QED
    BY <1>2, <1>3, <2>2, <2>7, <2>8
<1> QED
  BY <1>1, <1>5, <1>6

\* A caller makes its next call.
LEMMA CallInv == ASSUME IndInv, NEW c \in Callers, Call(c) PROVE IndInv'
<1> USE DEF IndInv
<1> DEFINE k == Head(calls[c])[1]
           a == Head(calls[c])[2]
           t == Program[k]
<1>1. /\ state = "ok" /\ steps[c] = <<>> /\ calls[c] # <<>>
      /\ Received(k) => away > 0
      /\ away' = IF Received(k) THEN away - 1 ELSE away
      /\ steps' = [steps EXCEPT ![c] = t]
      /\ call' = [call EXCEPT ![c] = [id |-> <<c, Len(calls[c])>>, arg |-> a]]
      /\ calls' = [calls EXCEPT ![c] = Tail(@)]
      /\ UNCHANGED <<accepted, wpc, next, stopping, requests, free, called, state, queue>>
  BY DEF Call, Received, slotVars
<1>2. TimeInv'
  BY TimeSame DEF Call
<1>3. KeptInv' /\ HandInv'
  BY <1>1, KeptSame DEF HandInv
<1>4. /\ calls[c] \in Seq((DOMAIN Program) \X Int) /\ Len(calls[c]) \in 1..4
      /\ Tail(calls[c]) \in Seq((DOMAIN Program) \X Int)
      /\ Len(Tail(calls[c])) = Len(calls[c]) - 1
      /\ Head(calls[c]) \in (DOMAIN Program) \X Int
  <2> DEFINE S == (DOMAIN Program) \X Int
             q == calls[c]
  <2>1. q \in Seq(S) /\ q # <<>> /\ Len(q) <= 4
    BY <1>1 DEF CallsInv
  <2> HIDE DEF S, q
  <2>3. Len(q) \in 1..4
    <3> DEFINE n == Len(q)
    <3>1. n \in Nat /\ n # 0 /\ n <= 4
      BY <2>1
    <3> HIDE DEF n
    <3>2. n \in 1..4
      BY <3>1
    <3> QED
      BY <3>2 DEF n
  <2>4. Tail(q) \in Seq(S) /\ Len(Tail(q)) = Len(q) - 1 /\ Head(q) \in S
    BY <2>1
  <2> QED
    BY <2>1, <2>3, <2>4 DEF S, q
<1>5. k \in DOMAIN Program /\ a \in Int
  BY <1>4
<1>6. /\ Shaped(t) /\ t # <<>> /\ Head(t) # "insert"
      /\ Returns(t) <=> Received(k)
      /\ Has(t, "free") => Len(t) = 5
  BY <1>5, ShapedPrograms
<1>7. t \in Seq(StepNames)
  BY <1>6 DEF Shaped
<1> HIDE DEF t, k, a
<1>8. /\ steps' \in [Callers -> Seq(StepNames)]
      /\ steps'[c] = t /\ \A d \in Callers \ {c} : steps'[d] = steps[d]
  BY <1>1, <1>7 DEF CallsInv
<1>9. /\ calls'[c] = Tail(calls[c]) /\ \A d \in Callers \ {c} : calls'[d] = calls[d]
      /\ calls' \in [Callers -> Seq((DOMAIN Program) \X Int)]
  BY <1>1, <1>4 DEF CallsInv
<1>10. <<c, Len(calls[c])>> \in Ids
  BY <1>4 DEF Ids
<1>11. /\ call'[c] = [id |-> <<c, Len(calls[c])>>, arg |-> a]
       /\ call'[c].id = <<c, Len(calls[c])>>
       /\ \A d \in Callers \ {c} : call'[d] = call[d]
       /\ call' \in [Callers -> [id : Ids \cup {<<>>}, arg : Int]]
  BY <1>1, <1>5, <1>10 DEF CallsInv
<1>12. CallsInv'
  <2>1. \A d \in Callers : Shaped(steps'[d])
    BY <1>6, <1>8 DEF CallsInv
  <2>2. ASSUME NEW d \in Callers PROVE Len(calls'[d]) <= 4
    <3>1. CASE d = c
      <4> DEFINE n == Len(calls[c])
      <4>1. n \in 1..4 /\ Len(calls'[d]) = n - 1
        BY <1>4, <1>9, <3>1
      <4> HIDE DEF n
      <4>2. n - 1 <= 4
        BY <4>1
      <4> QED
        BY <4>1, <4>2
    <3>2. CASE d # c
      BY <1>9, <3>2 DEF CallsInv
    <3> QED
      BY <3>1, <3>2
  <2> QED
    BY <1>8, <1>9, <1>11, <2>1, <2>2 DEF CallsInv
<1>13. FreshInv'
  <2>1. ASSUME NEW d \in Callers, NEW n \in 1..4, <<d, n>> \in accepted
        PROVE  n > Len(calls'[d])
    <3>1. n > Len(calls[d])
      BY <2>1 DEF FreshInv
    <3>2. CASE d = c
      BY <1>4, <1>9, <3>1, <3>2
    <3>3. CASE d # c
      BY <1>9, <3>1, <3>3
    <3> QED
      BY <3>2, <3>3
  <2>2. ASSUME NEW d \in Callers, Has(steps'[d], "insert")
        PROVE  /\ Len(calls'[d]) < 4 /\ call'[d].id = <<d, Len(calls'[d]) + 1>>
               /\ call'[d].id \notin accepted
    <3>1. CASE d = c
      <4>1. Len(calls'[c]) < 4 /\ Len(calls'[c]) + 1 = Len(calls[c])
        <5> DEFINE n == Len(calls[c])
                   m == Len(calls'[c])
        <5>1. n \in 1..4 /\ m = n - 1
          BY <1>4, <1>9
        <5> HIDE DEF n, m
        <5>2. m < 4 /\ m + 1 = n
          BY <5>1
        <5> QED
          BY <5>2 DEF n, m
      <4>2. <<c, Len(calls[c])>> \notin accepted
        <5> SUFFICES ASSUME <<c, Len(calls[c])>> \in accepted PROVE FALSE
          OBVIOUS
        <5>1. Len(calls[c]) > Len(calls[c])
          BY <1>4 DEF FreshInv
        <5> QED
          BY <1>4, <5>1
      <4> QED
        BY <1>11, <3>1, <4>1, <4>2
    <3>2. CASE d # c
      <4>1. /\ Has(steps[d], "insert") /\ calls'[d] = calls[d] /\ call'[d] = call[d]
        BY <1>8, <1>9, <1>11, <2>2, <3>2
      <4> QED
        BY <4>1 DEF FreshInv
    <3> QED
      BY <3>1, <3>2
  <2>3. accepted' = accepted
    BY <1>1
  <2> QED
    BY <2>1, <2>2, <2>3 DEF FreshInv
<1>14. ~Returns(steps[c]) /\ ~Inserts(steps[c]) /\ ~Inserts(t)
  BY <1>1, <1>6, ShapedRests DEF Inserts
<1>15. Inserting' = Inserting
  BY <1>8, <1>14, SameSets
<1>16. SlotsInv'
  BY <1>1, <1>15, SlotsSame
<1>17. BuffersInv'
  <2>1. queue \in Nat /\ away \in Nat /\ Cardinality(Returning) \in Nat
    BY Counts DEF BuffersInv
  <2>2. CASE Received(k)
    <3>1. Returning' = Returning \cup {c} /\ c \notin Returning
      BY <1>6, <1>8, <1>14, <2>2, SameSets
    <3>2. Cardinality(Returning') = Cardinality(Returning) + 1
      BY <3>1, Counts, FS_AddElement
    <3> QED
      BY <1>1, <2>1, <2>2, <3>2 DEF BuffersInv
  <2>3. CASE ~Received(k)
    <3>1. Returning' = Returning
      BY <1>6, <1>8, <1>14, <2>3, SameSets
    <3> QED
      BY <1>1, <2>3, <3>1, BuffersSame
  <2> QED
    BY <2>2, <2>3
<1>18. EndInv'
  <2>1. ASSUME NEW d \in Callers, Has(steps'[d], "free")
        PROVE  /\ Len(steps'[d]) <= 4 => stopping
               /\ Len(steps'[d]) <= 2 => wpc = "ended"
               /\ Len(steps'[d]) <= 1 => requests = <<>>
    <3>1. CASE d = c
      <4>1. Len(steps'[d]) = 5
        BY <1>6, <1>8, <2>1, <3>1
      <4> QED
        BY <4>1
    <3>2. CASE d # c
      <4>1. steps'[d] = steps[d]
        BY <1>8, <3>2
      <4> QED
        BY <2>1, <4>1 DEF EndInv
    <3> QED
      BY <3>1, <3>2
  <2>2. UNCHANGED <<stopping, wpc, requests, state>>
    BY <1>1
  <2> QED
    BY <2>1, <2>2 DEF EndInv
<1> QED
  BY <1>2, <1>3, <1>12, <1>13, <1>16, <1>17, <1>18

-----------------------------------------------------------------------------
\* A new clock satisfies the inductive invariant.
LEMMA InitClock == Init => IndInv
<1> SUFFICES ASSUME Init PROVE IndInv
  OBVIOUS
<1>1. TimeInv
  <2>1. local \in [Threads -> Sampled]
    BY NoLocalSampled DEF Init
  <2>2. discont \in [start : Int, end : Int, expiry : Int]
    BY DEF Init
  <2>3. timer \in Nat \cup {Off} /\ now \in 0..MaxTime /\ rtc \in 0..MaxTime
    BY ClockAssumption DEF Init
  <2>4. /\ media \in Int /\ wall \in Int /\ avg \in Int /\ offset \in Int /\ scale \in Int
        /\ at_timer \in Int /\ limit \in Int /\ event \in Nat
    BY DEF Init
  <2>5. lock \in {Nobody, "W"} /\ active \in BOOLEAN /\ stopping \in BOOLEAN
    BY DEF Init
  <2> QED
    BY <2>1, <2>2, <2>3, <2>4, <2>5 DEF TimeInv
<1>2. HandInv
  BY DEF Init, HandInv, Places
<1>3. \A c \in Callers : steps[c] = <<>>
  BY DEF Init
<1>4. CallsInv
  <2>1. steps \in [Callers -> Seq(StepNames)]
    BY DEF Init
  <2>2. calls \in [Callers -> Seq((DOMAIN Program) \X Int)] /\ \A c \in Callers : Len(calls[c]) <= 4
    BY ScriptsAssumption DEF Init
  <2>3. call \in [Callers -> [id : Ids \cup {<<>>}, arg : Int]]
    BY DEF Init
  <2>4. \A c \in Callers : Shaped(steps[c])
    BY <1>3, ShapedRests
  <2> QED
    BY <2>1, <2>2, <2>3, <2>4 DEF CallsInv
<1>5. FreshInv
  BY <1>3, ShapedRests DEF Init, FreshInv
<1>6. KeptInv
  <2>1. requests = <<>> /\ next = NoRequest /\ accepted = {} /\ called = [i \in Ids |-> 0]
    BY DEF Init
  <2>2. requests \in Seq(Request) /\ \A k \in DOMAIN requests : FALSE
    BY <2>1
  <2>3. ASSUME NEW i \in Ids PROVE ~Waiting(i) /\ next.id # i /\ called[i] = 0
    BY <2>1, <2>2, NoRequestId DEF Waiting
  <2>4. called \in [Ids -> Int]
    BY <2>1
  <2> QED
    BY <2>1, <2>2, <2>3, <2>4 DEF KeptInv
<1>7. Inserting = {} /\ Returning = {}
  BY <1>3, ShapedRests DEF Inserting, Returning
<1>8. SlotsInv
  BY <1>7, FS_EmptySet, ClockAssumption DEF Init, SlotsInv
<1>9. BuffersInv
  BY <1>7, FS_EmptySet, ClockAssumption DEF Init, BuffersInv
<1>10. EndInv
  BY <1>3, ShapedRests DEF Init, EndInv
<1> QED
  BY <1>1, <1>2, <1>4, <1>5, <1>6, <1>8, <1>9, <1>10 DEF IndInv

\* Every step keeps it: one lemma per action.
LEMMA NextClock == IndInv /\ [Next]_clockVars => IndInv'
<1> SUFFICES ASSUME IndInv, [Next]_clockVars PROVE IndInv'
  OBVIOUS
<1>1. CASE Tick \/ TimerExpires
  BY <1>1, TickInv, TimerExpiresInv
<1>2. CASE mmal_clock_worker_thread
  BY <1>2, WaitEventInv, TestPendingInv, LockRequestsInv, WorkerTimeInv, DetectDiscontinuityInv,
     PopRequestInv, ServeRequestInv, RescheduleInv DEF mmal_clock_worker_thread
<1>3. ASSUME NEW c \in Callers, Call(c) PROVE IndInv'
  BY <1>3, CallInv
<1>4. ASSUME NEW c \in Callers, CallStep(c) PROVE IndInv'
  BY <1>4, CallerTimeInv, PostInv, PostTellInv, TakeSlotInv, InsertRequestInv, FlushInv,
     TimeSetInv, SetInv, ScaleSetInv, BufferInv, DestroyInv, UseFreedInv DEF CallStep
<1>5. CASE UNCHANGED clockVars
  <2>1. CallsInv' /\ FreshInv' /\ BuffersInv' /\ Inserting' = Inserting
    BY <1>5, WorkerFrame DEF clockVars, IndInv
  <2>2. TimeInv' /\ KeptInv' /\ SlotsInv'
    BY <1>5, <2>1, TimeSame, KeptSame, SlotsSame DEF clockVars, IndInv, slotVars, callVars
  <2>3. HandInv' /\ EndInv'
    BY <1>5 DEF clockVars, IndInv, slotVars, callVars, HandInv, EndInv
  <2> QED
    BY <2>1, <2>2, <2>3 DEF IndInv
<1> QED
  BY <1>1, <1>2, <1>3, <1>4, <1>5 DEF Next

\* It implies what is promised.
LEMMA ServedClock == IndInv => RequestsServed
<1> SUFFICES ASSUME IndInv PROVE RequestsServed
  OBVIOUS
<1> USE DEF IndInv
<1>1. Len(requests) \in Nat /\ Cardinality(Inserting) \in Nat /\ Cardinality(Returning) \in Nat
  BY Counts DEF KeptInv
<1>2. TypeOK
  <2>1. free \in 0..SLOTS /\ Len(requests) <= SLOTS
    BY <1>1, ClockAssumption DEF SlotsInv
  <2>2. queue \in 0..NBuffers /\ away \in 0..NBuffers
    BY <1>1, ClockAssumption DEF BuffersInv
  <2>3. /\ event \in Nat /\ wpc \in Places /\ timer \in Nat \cup {Off} /\ rtc \in 0..MaxTime
        /\ lock \in {Nobody, "W"} /\ state \in {"ok", "freed", "crashed"}
    BY DEF TimeInv, HandInv, EndInv
  <2> QED
    BY <2>1, <2>2, <2>3 DEF TypeOK
<1>3. RequestKept
  <2> SUFFICES ASSUME NEW i \in Ids
               PROVE  Listed(i) + InHand(i) + called[i] = IF i \in accepted THEN 1 ELSE 0
    BY DEF RequestKept
  <2> DEFINE S == {k \in DOMAIN requests : requests[k].id = i}
  <2>1. Listed(i) = IF Waiting(i) THEN 1 ELSE 0
    <3>1. CASE Waiting(i)
      <4>1. PICK k \in DOMAIN requests : requests[k].id = i
        BY <3>1 DEF Waiting
      <4>2. S = {k}
        BY <4>1 DEF KeptInv
      <4> QED
        BY <3>1, <4>2, FS_Singleton DEF Listed
    <3>2. CASE ~Waiting(i)
      <4>1. S = {}
        BY <3>2 DEF Waiting
      <4> QED
        BY <3>2, <4>1, FS_EmptySet DEF Listed
    <3> QED
      BY <3>1, <3>2
  <2>2. /\ Waiting(i) => i \in accepted /\ next.id # i /\ called[i] = 0
        /\ next.id = i => i \in accepted /\ called[i] = 0
        /\ called[i] = IF i \in accepted /\ ~Waiting(i) /\ next.id # i THEN 1 ELSE 0
    BY DEF KeptInv
  <2> QED
    BY <2>1, <2>2 DEF InHand
<1>4. SlotsKept
  <2> SUFFICES ASSUME ~stopping
               PROVE  free + Len(requests) + Cardinality({i \in {1} : next # NoRequest})
                          + Cardinality({c \in Callers : At(c, "insert")}) = SLOTS
    BY DEF SlotsKept
  <2>1. state = "ok"
    BY DEF EndInv
  <2>2. {c \in Callers : At(c, "insert")} = Inserting
    BY <2>1 DEF At, Inserting
  <2>3. Cardinality({i \in {1} : next # NoRequest}) = IF next = NoRequest THEN 0 ELSE 1
    <3>1. CASE next = NoRequest
      <4>1. {i \in {1} : next # NoRequest} = {}
        BY <3>1
      <4> QED
        BY <3>1, <4>1, FS_EmptySet
    <3>2. CASE next # NoRequest
      <4>1. {i \in {1} : next # NoRequest} = {1}
        BY <3>2
      <4> QED
        BY <3>2, <4>1, FS_Singleton
    <3> QED
      BY <3>1, <3>2
  <2>4. free \in Nat /\ free + (Len(requests) + (IF next = NoRequest THEN 0 ELSE 1)
                                  + Cardinality(Inserting)) = SLOTS
    BY DEF SlotsInv
  <2> DEFINE a == Len(requests)
             b == Cardinality({i \in {1} : next # NoRequest})
             d == Cardinality(Inserting)
  <2>5. a \in Nat /\ b \in Nat /\ d \in Nat /\ free \in Nat /\ free + (a + b + d) = SLOTS
    BY <1>1, <2>3, <2>4
  <2> HIDE DEF a, b, d
  <2>6. free + a + b + d = SLOTS
    BY <2>5
  <2> QED
    BY <2>2, <2>6 DEF a, b, d
<1>5. EndsServed
  <2> SUFFICES ASSUME state = "freed", NEW i \in accepted PROVE called[i] = 1
    BY DEF EndsServed
  <2>1. i \in Ids
    BY DEF FreshInv
  <2>2. requests = <<>> /\ next = NoRequest
    BY DEF EndInv, HandInv
  <2>3. ~Waiting(i)
    BY <2>2 DEF Waiting
  <2>4. next.id # i
    BY <2>1, <2>2, NoRequestId
  <2> QED
    BY <2>1, <2>3, <2>4 DEF KeptInv
<1> QED
  BY <1>2, <1>3, <1>4, <1>5 DEF RequestsServed

\* A request that was accepted is called once, whatever flushes, jumps of the time and
\* the end of the clock come in between, and no slot is lost before that end.
THEOREM RequestsServedHolds == Spec => []RequestsServed
<1>1. Spec => []IndInv
  BY InitClock, NextClock, PTL DEF Spec
<1> QED
  BY <1>1, ServedClock, PTL

-----------------------------------------------------------------------------
(* The lock.                                                                *)

\* A step of a caller takes the lock and gives it back: the lock, the timer, the time and
\* the worker are as they were.
LEMMA CallerFrame ==
    ASSUME NEW c \in Callers, Call(c) \/ CallStep(c)
    PROVE  UNCHANGED <<now, timer, lock, wpc, next, discont>>
BY DEF Call, CallStep, CallerTime, Post, PostTell, TakeSlot, InsertRequest,
       mmal_clock_request_flush, mmal_clock_media_time_set, Set, mmal_clock_scale_set, Buffer,
       Destroy, UseFreed, discVars

\* Every step keeps the lock with the worker that is in its round, and only with it.
LEMMA LockStep == ASSUME IndInv, LockInv, Next PROVE LockInv'
<1> USE DEF LockInv, Holding
<1>1. ASSUME NEW c \in Callers, Call(c) \/ CallStep(c) PROVE LockInv'
  BY <1>1, CallerFrame
<1>2. CASE Tick \/ TimerExpires
  BY <1>2 DEF Tick, TimerExpires
<1>3. CASE WaitEvent
  BY <1>3 DEF WaitEvent, WorkerAt
<1>4. CASE TestPending
  BY <1>4 DEF TestPending, WorkerAt
<1>5. CASE LockRequests
  BY <1>5 DEF LockRequests, WorkerAt
<1>6. CASE WorkerTime
  BY <1>6 DEF WorkerTime, WorkerAt
<1>7. CASE DetectDiscontinuity
  BY <1>7 DEF DetectDiscontinuity, WorkerAt
<1>8. CASE PopRequest
  BY <1>8, ClockAssumption DEF PopRequest, WorkerAt
<1>9. CASE ServeRequest
  BY <1>9 DEF ServeRequest, WorkerAt
<1>10. CASE Reschedule
  BY <1>10, ClockAssumption DEF Reschedule, WorkerAt
<1> QED
  BY <1>1, <1>2, <1>3, <1>4, <1>5, <1>6, <1>7, <1>8, <1>9, <1>10
     DEF Next, mmal_clock_worker_thread

-----------------------------------------------------------------------------
(* The calls tell.                                                          *)

\* The rest of a call tells; after a step that changes the list or the time it is a
\* wake-up, and what is applied was sampled before.
LEMMA TellingTail ==
    ASSUME NEW s \in Seq(StepNames), s # <<>>, Telling(s)
    PROVE  /\ Telling(Tail(s))
           /\ Head(s) \in {"insert", "time", "offset", "scale", "start"} => Posts(Tail(s))
           /\ Tail(s) # <<>> /\ Head(Tail(s)) = "apply" => Head(s) = "sample"
<1> DEFINE n == Len(s)  t == Tail(s)
<1>1. n \in Nat /\ n > 0 /\ Head(s) = s[1] /\ DOMAIN s = 1..n
  OBVIOUS
<1>2. Len(t) = n - 1 /\ DOMAIN t = 1..(n - 1) /\ \A k \in 1..(n - 1) : t[k] = s[k + 1]
  OBVIOUS
<1>3. t # <<>> => n > 1 /\ Head(t) = s[2]
  BY <1>1, <1>2
<1> HIDE DEF n, t
<1>4. n > 1 => t # <<>> /\ Head(t) = s[2]
  <2>1. t = <<>> => Len(t) = 0
    OBVIOUS
  <2>2. n > 1 => t # <<>>
    BY <1>1, <1>2, <2>1
  <2>3. n > 1 => t[1] = s[2]
    BY <1>1, <1>2
  <2> QED
    BY <1>3, <2>2
<1>5. \A j \in 1..n :
        /\ s[j] \in {"insert", "time", "offset", "scale", "start"} =>
              j < n /\ s[j + 1] \in {"post", "post_tell"}
        /\ s[j] = "apply" /\ j > 1 => s[j - 1] = "sample"
  BY <1>1 DEF Telling, n
<1>6. ASSUME NEW k \in 1..(n - 1)
      PROVE  /\ t[k] \in {"insert", "time", "offset", "scale", "start"} =>
                    k < n - 1 /\ t[k + 1] \in {"post", "post_tell"}
             /\ t[k] = "apply" /\ k > 1 => t[k - 1] = "sample"
  <2>1. k + 1 \in 1..n /\ t[k] = s[k + 1]
    BY <1>1, <1>2
  <2>2. k + 1 < n => t[k + 1] = s[k + 1 + 1]
    BY <1>1, <1>2
  <2>3. k > 1 => t[k - 1] = s[k + 1 - 1]
    BY <1>1, <1>2
  <2> QED
    BY <1>1, <1>5, <2>1, <2>2, <2>3
<1>7. Telling(t)
  BY <1>2, <1>6 DEF Telling
<1>8. Head(s) \in {"insert", "time", "offset", "scale", "start"} => Posts(t)
  <2> SUFFICES ASSUME s[1] \in {"insert", "time", "offset", "scale", "start"} PROVE Posts(t)
    BY <1>1
  <2>1. 1 < n /\ s[1 + 1] \in {"post", "post_tell"}
    BY <1>1, <1>5
  <2> QED
    BY <2>1, <1>4 DEF Posts
<1>9. t # <<>> /\ Head(t) = "apply" => Head(s) = "sample"
  <2> SUFFICES ASSUME t # <<>>, s[2] = "apply" PROVE s[1] = "sample"
    BY <1>1, <1>3
  <2>1. 2 \in 1..n /\ s[2 - 1] = "sample"
    BY <1>1, <1>3, <1>5
  <2> QED
    BY <2>1
<1> QED
  BY <1>7, <1>8, <1>9 DEF t

\* Every call tells.
LEMMA TellingPrograms ==
    ASSUME NEW k \in DOMAIN Program
    PROVE  Telling(Program[k]) /\ Program[k] # <<>> /\ Head(Program[k]) # "apply"
<1> USE DEF Telling
<1>1. CASE k = "request_add"
  BY <1>1 DEF Program, mmal_clock_request_add
<1>2. CASE k = "destroy"
  BY <1>2 DEF Program, mmal_clock_destroy
<1>3. CASE k = "request_flush"
  BY <1>3 DEF Program
<1>4. CASE k = "time_get"
  BY <1>4 DEF Program
<1>5. CASE k = "time_set"
  BY <1>5 DEF Program
<1>6. CASE k = "offset_set"
  BY <1>6 DEF Program
<1>7. CASE k = "scale_set"
  BY <1>7 DEF Program
<1>8. CASE k = "threshold_set"
  BY <1>8 DEF Program
<1>9. CASE k = "start"
  BY <1>9 DEF Program
<1>10. CASE k = "stop"
  BY <1>10 DEF Program
<1>11. CASE k = "reference"
  BY <1>11 DEF Program
<1>12. CASE k = "empty_buffer"
  BY <1>12 DEF Program
<1>13. CASE k = "time_buffer"
  BY <1>13 DEF Program
<1>14. CASE k = "scale_buffer"
  BY <1>14 DEF Program
<1>15. CASE k = "disable"
  BY <1>15 DEF Program
<1> QED
  BY <1>1, <1>2, <1>3, <1>4, <1>5, <1>6, <1>7, <1>8, <1>9, <1>10, <1>11, <1>12, <1>13, <1>14,
     <1>15, ProgramKinds DEF Kinds

\* What PostTell and a small difference of the time leave of a call.
LEMMA TellingRests ==
    /\ Telling(<<>>) /\ Telling(<<"return">>) /\ Telling(<<"sample", "apply", "forward">>)
    /\ Head(<<"return">>) # "apply" /\ Head(<<"sample", "apply", "forward">>) # "apply"
<1>1. Telling(<<>>)
  BY DEF Telling
<1>2. Telling(<<"return">>)
  BY DEF Telling
<1>3. Telling(<<"sample", "apply", "forward">>)
  BY DEF Telling
<1> QED
  BY <1>1, <1>2, <1>3

\* The rest of a call that changes is as telling.
LEMMA TellingKept ==
    ASSUME TellingInv, NEW c \in Callers, NEW t, Telling(t), steps'[c] = t,
           \A d \in Callers \ {c} : steps'[d] = steps[d]
    PROVE  TellingInv'
BY DEF TellingInv

\* What every step of a caller does to its call: it makes the next one, goes on, leaves it
\* or cuts it short.
Follows(c) ==
    \/ /\ Call(c) /\ steps[c] = <<>>
       /\ \E k \in DOMAIN Program : steps' = [steps EXCEPT ![c] = Program[k]]
    \/ steps[c] # <<>> /\ GoOn(c)
    \/ /\ steps[c] # <<>> /\ Head(steps[c]) \notin {"post", "sample"}
       /\ \E t \in {<<>>, <<"return">>, <<"sample", "apply", "forward">>} :
             /\ steps' = [steps EXCEPT ![c] = t]
             /\ Head(steps[c]) = "time" => UNCHANGED media
    \/ UseFreed(c)

\* No step of a caller does anything else to its call.
LEMMA CallerFollows ==
    ASSUME IndInv, NEW c \in Callers, Call(c) \/ CallStep(c)
    PROVE  Follows(c)
<1>1. CASE Call(c)
  <2>1. calls[c] # <<>> /\ calls[c] \in Seq((DOMAIN Program) \X Int)
    BY <1>1 DEF Call, IndInv, CallsInv
  <2>2. Head(calls[c]) \in (DOMAIN Program) \X Int
    BY <2>1
  <2>3. Head(calls[c])[1] \in DOMAIN Program
    BY <2>2
  <2> QED
    BY <1>1, <2>3 DEF Call, Follows
<1>2. CASE CallerTime(c)
  BY <1>2 DEF CallerTime, At, Follows
<1>3. CASE Post(c)
  BY <1>3 DEF Post, At, Follows
<1>4. CASE PostTell(c)
  BY <1>4 DEF PostTell, At, Follows
<1>5. CASE TakeSlot(c)
  BY <1>5 DEF TakeSlot, At, Follows, Leave
<1>6. CASE InsertRequest(c)
  BY <1>6 DEF InsertRequest, At, Follows, Leave
<1>7. CASE mmal_clock_request_flush(c)
  BY <1>7 DEF mmal_clock_request_flush, At, Follows
<1>8. CASE mmal_clock_media_time_set(c)
  BY <1>8 DEF mmal_clock_media_time_set, At, Follows
<1>9. CASE Set(c)
  BY <1>9 DEF Set, At, Follows
<1>10. CASE mmal_clock_scale_set(c)
  BY <1>10 DEF mmal_clock_scale_set, At, Follows
<1>11. CASE Buffer(c)
  BY <1>11 DEF Buffer, At, Follows
<1>12. CASE Destroy(c)
  BY <1>12 DEF Destroy, At, Follows
<1>13. CASE UseFreed(c)
  BY <1>13 DEF Follows
<1> QED
  BY <1>1, <1>2, <1>3, <1>4, <1>5, <1>6, <1>7, <1>8, <1>9, <1>10, <1>11, <1>12, <1>13
     DEF CallStep

\* The calls go on telling, and a caller applies the time only after sampling it.
LEMMA CallerTells ==
    ASSUME IndInv, TellingInv, NEW c \in Callers, Call(c) \/ CallStep(c)
    PROVE  /\ TellingInv'
           /\ \A d \in Callers \ {c} : steps'[d] = steps[d]
           /\ (state' # "crashed" /\ steps'[c] # <<>> /\ Head(steps'[c]) = "apply") =>
                 steps[c] # <<>> /\ Head(steps[c]) = "sample"
<1>1. /\ steps \in [Callers -> Seq(StepNames)]
      /\ steps[c] \in Seq(StepNames) /\ Telling(steps[c])
  BY DEF IndInv, CallsInv, TellingInv
<1>2. CASE \E k \in DOMAIN Program : steps' = [steps EXCEPT ![c] = Program[k]]
  BY <1>1, <1>2, TellingPrograms, TellingKept
<1>3. CASE steps[c] # <<>> /\ GoOn(c)
  BY <1>1, <1>3, TellingTail, TellingKept DEF GoOn
<1>4. CASE \E t \in {<<>>, <<"return">>, <<"sample", "apply", "forward">>} :
              steps' = [steps EXCEPT ![c] = t]
  BY <1>1, <1>4, TellingRests, TellingKept
<1>5. CASE UseFreed(c)
  BY <1>5 DEF UseFreed, callVars, TellingInv
<1> QED
  BY <1>2, <1>3, <1>4, <1>5, CallerFollows DEF Follows

\* Every step of the clock leaves calls that tell.
LEMMA TellingStep == ASSUME IndInv, TellingInv, Next PROVE TellingInv'
<1>1. ASSUME NEW c \in Callers, Call(c) \/ CallStep(c) PROVE TellingInv'
  BY <1>1, CallerTells
<1>2. CASE steps' = steps
  BY <1>2 DEF TellingInv
<1>3. CASE Tick \/ TimerExpires \/ mmal_clock_worker_thread
  <2>1. steps' = steps
    BY <1>3 DEF Tick, TimerExpires, mmal_clock_worker_thread, WaitEvent, TestPending,
                LockRequests, WorkerTime, DetectDiscontinuity, PopRequest, ServeRequest,
                Reschedule, callVars
  <2> QED
    BY <1>2, <2>1
<1> QED
  BY <1>1, <1>3 DEF Next

-----------------------------------------------------------------------------
(* What was sampled is of now.                                              *)

\* A caller leaves what others have sampled.
LEMMA CallerLocal ==
    ASSUME IndInv, NEW c \in Callers, Call(c) \/ CallStep(c)
    PROVE  /\ \A t \in Threads \ {c} : local'[t] = local[t]
           /\ rtc' = rtc \/ (At(c, "apply") /\ rtc' = local[c].now)
           /\ state = "ok" /\ steps[c] # <<>> /\ Head(steps[c]) = "sample" =>
                 Sample(c) \/ state' = "crashed"
<1>1. local \in [Threads -> Sampled] /\ c \in Threads
  BY DEF IndInv, TimeInv, Threads
<1>2. CASE CallerTime(c)
  BY <1>1, <1>2 DEF CallerTime, Sample, Apply, At, timeVars
<1>3. CASE TakeSlot(c)
  BY <1>1, <1>3 DEF TakeSlot, At, timeVars
<1>4. CASE UNCHANGED <<local, rtc>> /\ ~CallerTime(c)
  <2>1. state = "ok" /\ steps[c] # <<>> /\ Head(steps[c]) = "sample" => state' = "crashed"
    BY <1>4 DEF Call, CallStep, Post, PostTell, TakeSlot, InsertRequest,
       mmal_clock_request_flush, mmal_clock_media_time_set, Set, mmal_clock_scale_set, Buffer,
       Destroy, UseFreed, At
  <2> QED
    BY <1>4, <2>1
<1> QED
  BY <1>2, <1>3, <1>4
     DEF Call, CallStep, Post, PostTell, InsertRequest,
       mmal_clock_request_flush, mmal_clock_media_time_set, Set, mmal_clock_scale_set, Buffer,
       Destroy, UseFreed, timeVars

\* Every step of the clock leaves what is sampled as of now.
LEMMA SampleStep == ASSUME IndInv, TellingInv, SampleInv, Next PROVE SampleInv'
<1>0. /\ local \in [Threads -> Sampled] /\ "W" \in Threads /\ Callers \subseteq Threads
      /\ "W" \notin Callers /\ now \in Nat /\ rtc \in Int
  BY ClockAssumption DEF IndInv, TimeInv, Threads
<1>1. ASSUME NEW c \in Callers, Call(c) \/ CallStep(c) PROVE SampleInv'
  <2>1. UNCHANGED <<now, wpc>>
    BY <1>1, CallerFrame
  <2>2. /\ \A t \in Threads \ {c} : local'[t] = local[t]
        /\ rtc' = rtc \/ (At(c, "apply") /\ rtc' = local[c].now)
    BY <1>1, CallerLocal
  <2>3. rtc' <= now'
    BY <1>0, <2>1, <2>2 DEF SampleInv, At
  <2>4. wpc' \in {"d_apply", "apply"} => local'["W"].now = now'
    BY <1>0, <2>1, <2>2 DEF SampleInv
  <2>5. ASSUME NEW d \in Callers, steps'[d] # <<>>, Head(steps'[d]) = "apply"
        PROVE  local'[d].now = now'
    <3>1. CASE d # c
      BY <1>0, <1>1, <2>1, <2>2, <2>5, <3>1, CallerTells DEF SampleInv
    <3>2. CASE d = c /\ state' = "crashed"
      <4>1. CASE UseFreed(c)
        BY <2>1, <2>5, <3>2, <4>1 DEF UseFreed, SampleInv, callVars
      <4>2. CASE ~UseFreed(c)
        <5>1. state = "crashed"
          BY <1>1, <3>2, <4>2 DEF Call, CallStep, CallerTime, Post, PostTell, TakeSlot,
             InsertRequest, mmal_clock_request_flush, mmal_clock_media_time_set, Set,
             mmal_clock_scale_set, Buffer, Destroy
        <5> QED
          BY <1>1, <4>2, <5>1 DEF Call, CallStep, CallerTime, Post, PostTell, TakeSlot,
             InsertRequest, mmal_clock_request_flush, mmal_clock_media_time_set, Set,
             mmal_clock_scale_set, Buffer, Destroy, At
      <4> QED
        BY <4>1, <4>2
    <3>3. CASE d = c /\ state' # "crashed"
      <4>1. steps[c] # <<>> /\ Head(steps[c]) = "sample"
        BY <1>1, <2>5, <3>3, CallerTells
      <4>2. state = "ok"
        BY <1>1, <3>3 DEF Call, CallStep, CallerTime, Post, PostTell, TakeSlot,
             InsertRequest, mmal_clock_request_flush, mmal_clock_media_time_set, Set,
             mmal_clock_scale_set, Buffer, Destroy, UseFreed, At
      <4>3. Sample(c)
        BY <1>1, <3>3, <4>1, <4>2, CallerLocal
      <4> QED
        BY <1>0, <2>1, <3>3, <4>3 DEF Sample
    <3> QED
      BY <3>1, <3>2, <3>3
  <2> QED
    BY <2>3, <2>4, <2>5 DEF SampleInv
<1>2. CASE Tick
  <2>1. steps' = steps /\ local' = local /\ wpc' = wpc /\ rtc' = rtc /\ now' = now + 1
    BY <1>2 DEF Tick, callVars, timeVars
  <2> QED
    BY <1>0, <1>2, <2>1 DEF Tick, SampleInv
<1>3. CASE TimerExpires
  BY <1>3 DEF TimerExpires, SampleInv, callVars, timeVars
<1>4. CASE WorkerTime
  <2>1. now' = now /\ steps' = steps
    BY <1>4 DEF WorkerTime, callVars
  <2>2. CASE Sample("W") /\ wpc' \in {"d_apply", "apply"}
    BY <1>0, <2>1, <2>2 DEF Sample, SampleInv, timeVars
  <2>3. CASE Apply("W") /\ wpc \in {"d_apply", "apply"} /\ wpc' \in {"detect", "serve"}
    BY <1>0, <2>1, <2>3 DEF Apply, SampleInv
  <2> QED
    BY <1>4, <2>2, <2>3 DEF WorkerTime, WorkerAt
<1>5. CASE mmal_clock_worker_thread /\ ~WorkerTime
  <2>1. steps' = steps /\ rtc' = rtc /\ now' = now /\ wpc' \notin {"d_apply", "apply"}
    BY <1>5 DEF mmal_clock_worker_thread, WaitEvent, TestPending,
                LockRequests, DetectDiscontinuity, PopRequest, ServeRequest,
                Reschedule, callVars, timeVars
  <2>2. local' = local \/ local' = [local EXCEPT !["W"] = NoLocal]
    BY <1>5 DEF mmal_clock_worker_thread, WaitEvent, TestPending,
                LockRequests, DetectDiscontinuity, PopRequest, ServeRequest,
                Reschedule
  <2>3. \A c \in Callers : local'[c] = local[c]
    BY <1>0, <2>2
  <2> QED
    BY <2>1, <2>3 DEF SampleInv
<1> QED
  BY <1>1, <1>2, <1>3, <1>4, <1>5 DEF Next

-----------------------------------------------------------------------------
(* The list is in order.                                                    *)

Sorted(q) == \A j, k \in DOMAIN q : j < k => ~Before(q[k], q[j])

\* The order of the list is one.
LEMMA BeforeOrder ==
    ASSUME scale \in Int, NEW r \in Request, NEW s \in Request, NEW t \in Request
    PROVE  /\ ~Before(s, r) /\ ~Before(t, s) => ~Before(t, r)
           /\ Before(r, s) /\ ~Before(t, s) => ~Before(t, r)
<1>1. r.adj \in Int /\ s.adj \in Int /\ t.adj \in Int
  BY DEF Request
<1> QED
  BY <1>1 DEF Before

\* mmal_clock_request_insert() puts a request where it belongs.
LEMMA InsertedInOrder ==
    ASSUME requests \in Seq(Request), NEW r \in Request, scale \in Int, Sorted(requests)
    PROVE  \E p \in 1..(Len(requests) + 1) :
              /\ InsertedAs(Inserted(r), r, p)
              /\ \A k \in 1..(p - 1) : ~Before(r, requests[k])
              /\ \A k \in p..Len(requests) : ~Before(requests[k], r)
<1> DEFINE later == {k \in DOMAIN requests : Before(r, requests[k])}
           n == Len(requests)
<1>0. n \in Nat /\ DOMAIN requests = 1..n /\ \A k \in 1..n : requests[k] \in Request
  OBVIOUS
<1>1. CASE requests = <<>> \/ ~Before(r, Last(requests)) \/ later = {}
  <2>1. Inserted(r) = Append(requests, r)
    BY <1>1 DEF Inserted
  <2>2. InsertedAs(Append(requests, r), r, n + 1)
    BY DEF InsertedAs
  <2>3. ASSUME NEW k \in 1..n PROVE ~Before(r, requests[k])
    <3>1. CASE later = {}
      BY <1>0, <3>1
    <3>2. CASE ~Before(r, Last(requests)) /\ k < n
      <4>1. Last(requests) = requests[n] /\ n \in 1..n
        BY <1>0, <3>2 DEF Last
      <4> HIDE DEF n
      <4>2. ~Before(requests[n], requests[k])
        BY <1>0, <3>2, <4>1 DEF Sorted
      <4> QED
        BY <1>0, <3>2, <4>1, <4>2, BeforeOrder
    <3>3. CASE ~Before(r, Last(requests)) /\ k = n
      BY <3>3 DEF Last
    <3>4. requests # <<>>
      BY <1>0
    <3> HIDE DEF later, n
    <3>5. k < n \/ k = n
      BY <1>0
    <3> QED
      BY <1>1, <3>1, <3>2, <3>3, <3>4, <3>5
  <2> HIDE DEF n
  <2>4. n + 1 \in 1..(n + 1) /\ n + 1 - 1 = n /\ (n + 1)..n = {}
    BY <1>0
  <2> QED
    BY <2>1, <2>2, <2>3, <2>4 DEF n
<1>2. CASE ~(requests = <<>> \/ ~Before(r, Last(requests)) \/ later = {})
  <2> DEFINE p == Min(later)
  <2>1. Inserted(r) = InsertAt(requests, p, r)
    BY <1>2 DEF Inserted
  <2>2. later \in SUBSET Nat /\ later # {}
    BY <1>2
  <2>3. p \in later /\ \A y \in later : p =< y
    BY <2>2, MinMember
  <2>4. ASSUME NEW i \in 1..Len(requests)
        PROVE  InsertedAs(InsertAt(requests, i, r), r, i)
    BY DEF InsertAt, InsertedAs
  <2>5. p \in 1..n /\ Before(r, requests[p])
    BY <2>3
  <2> HIDE DEF p
  <2>6. ASSUME NEW k \in 1..(p - 1) PROVE ~Before(r, requests[k])
    <3>1. k \in 1..n /\ ~(p =< k)
      BY <1>0, <2>5
    <3>2. k \notin later
      BY <2>3, <3>1
    <3> QED
      BY <1>0, <3>1, <3>2
  <2> HIDE DEF later, n
  <2>7. ASSUME NEW k \in p..n PROVE ~Before(requests[k], r)
    <3>1. k \in 1..n
      BY <1>0, <2>5
    <3>2. CASE k = p
      <4>1. r.adj \in Int /\ requests[p].adj \in Int
        BY <1>0, <2>5 DEF Request
      <4> QED
        BY <2>5, <3>2, <4>1 DEF Before
    <3>3. CASE k # p
      <4>1. p < k
        BY <1>0, <2>5, <3>3
      <4>2. ~Before(requests[k], requests[p])
        BY <1>0, <2>5, <3>1, <4>1 DEF Sorted
      <4> QED
        BY <1>0, <2>5, <3>1, <4>2, BeforeOrder
    <3> QED
      BY <3>2, <3>3
  <2>8. p \in 1..(n + 1)
    BY <1>0, <2>5
  <2> QED
    BY <2>1, <2>4, <2>5, <2>6, <2>7, <2>8 DEF n
<1> QED
  BY <1>1, <1>2

\* So the list stays in order.
LEMMA InsertedSorted ==
    ASSUME requests \in Seq(Request), NEW r \in Request, scale \in Int, Sorted(requests)
    PROVE  Sorted(Inserted(r))
<1> DEFINE n == Len(requests)
           t == Inserted(r)
<1>0. n \in Nat /\ DOMAIN requests = 1..n
  OBVIOUS
<1>1. PICK p \in 1..(n + 1) :
         /\ InsertedAs(t, r, p)
         /\ \A k \in 1..(p - 1) : ~Before(r, requests[k])
         /\ \A k \in p..n : ~Before(requests[k], r)
  BY InsertedInOrder
<1> HIDE DEF t
<1>2. DOMAIN t = 1..(n + 1) /\ t[p] = r
  BY <1>0, <1>1 DEF InsertedAs
<1>3. /\ \A k \in 1..(p - 1) : t[k] = requests[k]
      /\ \A k \in (p + 1)..(n + 1) : t[k] = requests[k - 1]
  BY <1>1 DEF InsertedAs
<1> HIDE DEF n
<1> SUFFICES ASSUME NEW j \in 1..(n + 1), NEW k \in 1..(n + 1), j < k
             PROVE  ~Before(t[k], t[j])
  BY <1>2 DEF Sorted, t
<1>4. CASE k < p
  <2>1. j \in 1..(p - 1) /\ k \in 1..(p - 1) /\ j \in 1..n /\ k \in 1..n
    BY <1>0, <1>4
  <2> QED
    BY <1>0, <1>3, <2>1 DEF Sorted
<1>5. CASE k = p
  <2>1. j \in 1..(p - 1)
    BY <1>0, <1>5
  <2> QED
    BY <1>1, <1>2, <1>3, <1>5, <2>1
<1>6. CASE k > p /\ j = p
  <2>1. k \in (p + 1)..(n + 1) /\ k - 1 \in p..n
    BY <1>0, <1>6
  <2> QED
    BY <1>1, <1>2, <1>3, <1>6, <2>1
<1>7. CASE k > p /\ j > p
  <2>1. /\ k \in (p + 1)..(n + 1) /\ j \in (p + 1)..(n + 1)
        /\ k - 1 \in 1..n /\ j - 1 \in 1..n /\ j - 1 < k - 1
    BY <1>0, <1>7
  <2> QED
    BY <1>0, <1>3, <2>1 DEF Sorted
<1>8. CASE k > p /\ j < p
  <2>1. k \in (p + 1)..(n + 1) /\ j \in 1..(p - 1) /\ k - 1 \in 1..n /\ j \in 1..n /\ j < k - 1
    BY <1>0, <1>8
  <2> QED
    BY <1>0, <1>3, <2>1 DEF Sorted
<1> QED
  BY <1>0, <1>4, <1>5, <1>6, <1>7, <1>8

\* A list that is empty is in order.
LEMMA OrderEmpty ==
    ASSUME requests' = <<>>
    PROVE  OrderInv'
<1>1. DOMAIN requests' = {}
  OBVIOUS
<1> QED
  BY <1>1 DEF OrderInv

\* Every step of the clock keeps the list in order, the request in the hand of the
\* worker before it.
LEMMA OrderStep == ASSUME IndInv, LockInv, OrderInv, Next PROVE OrderInv'
<1>0. requests \in Seq(Request) /\ scale \in Int /\ Nobody # "W"
  BY ClockAssumption DEF IndInv, KeptInv, TimeInv, HandInv
<1>a. lock = Nobody => next = NoRequest
  BY <1>0 DEF LockInv, Holding, IndInv, HandInv
<1>1. CASE UNCHANGED <<requests, next, turned, scale>>
  BY <1>1 DEF OrderInv, Before
<1>2. ASSUME NEW c \in Callers, Call(c) \/ CallStep(c) PROVE OrderInv'
  <2>1. CASE mmal_clock_request_flush(c)
    BY <2>1, OrderEmpty DEF mmal_clock_request_flush, Flushed
  <2>2. CASE mmal_clock_scale_set(c)
    <3>1. UNCHANGED <<requests, next>> /\ lock = Nobody
      BY <2>2 DEF mmal_clock_scale_set, slotVars
    <3>2. CASE requests = <<>>
      BY <3>1, <3>2, OrderEmpty
    <3>3. CASE requests # <<>>
      <4>1. ~turned' => ~turned /\ (scale' >= 0) = (scale >= 0)
        BY <2>2, <3>3 DEF mmal_clock_scale_set
      <4> QED
        BY <3>1, <4>1 DEF OrderInv, Before
    <3> QED
      BY <3>2, <3>3
  <2>3. CASE InsertRequest(c) /\ ~stopping
    <3> DEFINE r == [id |-> call[c].id, adj |-> call[c].arg]
    <3>1. /\ requests' = Inserted(r) /\ turned' = (turned /\ requests # <<>>)
          /\ lock = Nobody /\ next' = next /\ scale' = scale
      BY <2>3 DEF InsertRequest, setVars
    <3>2. r \in Request
      <4>1. steps[c] # <<>> /\ Head(steps[c]) = "insert"
        BY <2>3 DEF InsertRequest, At
      <4>2. Shaped(steps[c]) /\ FreshInv /\ CallsInv
        BY DEF IndInv, CallsInv
      <4>3. Has(steps[c], "insert")
        BY <4>1, <4>2, ShapedHead
      <4>4. call[c].id = <<c, Len(calls[c]) + 1>> /\ Len(calls[c]) < 4
        BY <4>2, <4>3 DEF FreshInv
      <4>5. calls[c] \in Seq((DOMAIN Program) \X Int)
        BY <4>2 DEF CallsInv
      <4>6. Len(calls[c]) \in Nat
        BY <4>5
      <4>7. call[c].id \in Ids
        BY <4>4, <4>6 DEF Ids
      <4>8. call[c].arg \in Int
        BY <4>2 DEF CallsInv
      <4> QED
        BY <4>7, <4>8 DEF Request
    <3> HIDE DEF r
    <3>3. CASE requests # <<>>
      <4> SUFFICES ASSUME ~turned' PROVE OrderInv'
        BY DEF OrderInv
      <4>1. Sorted(requests)
        BY <3>1, <3>3 DEF OrderInv, Sorted
      <4>2. Sorted(requests')
        BY <1>0, <3>1, <3>2, <4>1, InsertedSorted
      <4>3. \A j, k \in DOMAIN requests' : j < k => ~Before(requests'[k], requests'[j])
        BY <4>2 DEF Sorted
      <4> QED
        BY <1>a, <3>1, <4>3 DEF OrderInv, Before
    <3>4. CASE requests = <<>>
      <4>1. DOMAIN requests = {} /\ Sorted(requests)
        BY <3>4 DEF Sorted
      <4>2. Sorted(requests')
        BY <1>0, <3>1, <3>2, <4>1, InsertedSorted
      <4>3. \A j, k \in DOMAIN requests' : j < k => ~Before(requests'[k], requests'[j])
        BY <4>2 DEF Sorted
      <4> QED
        BY <1>a, <3>1, <4>3 DEF OrderInv, Before
    <3> QED
      BY <3>3, <3>4
  <2> QED
    BY <1>1, <1>2, <2>1, <2>2, <2>3
       DEF Call, CallStep, CallerTime, Post, PostTell, TakeSlot, InsertRequest,
       mmal_clock_media_time_set, Set, Buffer, Destroy, UseFreed, slotVars, setVars
<1>3. CASE DetectDiscontinuity
  <2>1. CASE Flushed
    BY <2>1, OrderEmpty DEF Flushed
  <2> QED
    BY <1>1, <1>3, <2>1 DEF DetectDiscontinuity, slotVars, setVars
<1>4. CASE PopRequest /\ requests # <<>>
  <2> DEFINE n == Len(requests)
             t == Tail(requests)
  <2>1. next' = requests[1] /\ requests' = t /\ UNCHANGED <<turned, scale>>
    BY <1>4 DEF PopRequest, setVars
  <2>2. n \in Nat /\ n > 0 /\ DOMAIN requests = 1..n
    BY <1>0, <1>4
  <2>3. DOMAIN t = 1..(n - 1) /\ \A k \in 1..(n - 1) : t[k] = requests[k + 1]
    BY <1>0, <1>4
  <2> HIDE DEF n, t
  <2> SUFFICES ASSUME ~turned PROVE OrderInv'
    BY <2>1 DEF OrderInv
  <2>4. ASSUME NEW j \in 1..(n - 1), NEW k \in 1..(n - 1), j < k
        PROVE  ~Before(t[k], t[j])
    <3>1. j + 1 \in 1..n /\ k + 1 \in 1..n /\ j + 1 < k + 1
      BY <2>2, <2>4
    <3> QED
      BY <2>2, <2>3, <2>4, <3>1 DEF OrderInv
  <2>5. ASSUME NEW k \in 1..(n - 1)
        PROVE  ~Before(t[k], requests[1])
    <3>1. 1 \in 1..n /\ k + 1 \in 1..n /\ 1 < k + 1
      BY <2>2
    <3> QED
      BY <2>2, <2>3, <3>1 DEF OrderInv
  <2> QED
    BY <2>1, <2>3, <2>4, <2>5 DEF OrderInv, Before
<1>5. CASE ServeRequest
  <2>1. UNCHANGED <<requests, turned, scale>> /\ next' = NoRequest
    BY <1>5 DEF ServeRequest, setVars
  <2> QED
    BY <2>1 DEF OrderInv, Before
<1>6. CASE Reschedule
  <2> DEFINE n == Len(requests)
             t == <<next>> \o requests
  <2>1. requests' = t /\ next' = NoRequest /\ UNCHANGED <<turned, scale>>
    BY <1>6 DEF Reschedule, setVars
  <2>2. next \in Request /\ next # NoRequest
    <3>1. next \in Request
      BY <1>6 DEF Reschedule, WorkerAt, IndInv, HandInv
    <3> QED
      BY <3>1, NoRequestId DEF Request
  <2>3. n \in Nat /\ DOMAIN requests = 1..n
    BY <1>0
  <2>4. DOMAIN t = 1..(n + 1) /\ t[1] = next /\ \A k \in 2..(n + 1) : t[k] = requests[k - 1]
    BY <1>0, <2>2
  <2> HIDE DEF n, t
  <2> SUFFICES ASSUME ~turned PROVE OrderInv'
    BY <2>1 DEF OrderInv
  <2>5. ASSUME NEW j \in 1..(n + 1), NEW k \in 1..(n + 1), j < k
        PROVE  ~Before(t[k], t[j])
    <3>1. k \in 2..(n + 1) /\ k - 1 \in 1..n
      BY <2>3, <2>5
    <3>2. CASE j = 1
      BY <2>2, <2>3, <2>4, <3>1, <3>2 DEF OrderInv
    <3>3. CASE j # 1
      <4>1. j \in 2..(n + 1) /\ j - 1 \in 1..n /\ j - 1 < k - 1
        BY <2>3, <2>5, <3>3
      <4> QED
        BY <2>3, <2>4, <3>1, <4>1 DEF OrderInv
    <3> QED
      BY <3>2, <3>3
  <2> QED
    BY <2>1, <2>4, <2>5 DEF OrderInv, Before
<1> QED
  BY <1>1, <1>2, <1>3, <1>4, <1>5, <1>6
     DEF Next, Tick, TimerExpires, mmal_clock_worker_thread, WaitEvent, TestPending,
         LockRequests, WorkerTime, PopRequest, slotVars, setVars

-----------------------------------------------------------------------------
(* The timer goes off in time.                                              *)

\* What is needed of multiplication.
LEMMA Products ==
    ASSUME NEW s \in Int, NEW a \in Int, NEW b \in Int
    PROVE  s * a \in Int /\ s * a = a * s /\ s * (a + b) = s * a + s * b /\ s * (a - a) = 0
OBVIOUS

\* A wake-up that is under way gets to the worker.
LEMMA WakingKept ==
    ASSUME IndInv, NEW c \in Callers, Call(c) \/ CallStep(c), Waking, state' = "ok"
    PROVE  Waking'
<1>0. event \in Nat /\ steps \in [Callers -> Seq(StepNames)]
  BY DEF IndInv, TimeInv, CallsInv
<1>1. CASE Post(c) \/ PostTell(c)
  <2>1. event' = event + 1
    BY <1>1 DEF Post, PostTell
  <2> QED
    BY <1>0, <2>1 DEF Waking
<1>2. CASE ~Post(c) /\ ~PostTell(c)
  <2>1. event' = event /\ ~Posts(steps[c])
    BY <1>2 DEF Call, CallStep, CallerTime, TakeSlot, InsertRequest,
       mmal_clock_request_flush, mmal_clock_media_time_set, Set, mmal_clock_scale_set, Buffer,
       Destroy, UseFreed, At, Posts
  <2>2. \A d \in Callers \ {c} : steps'[d] = steps[d]
    <3>1. Follows(c)
      BY CallerFollows
    <3>2. ~UseFreed(c)
      BY DEF UseFreed
    <3> QED
      BY <1>0, <3>1, <3>2 DEF Follows, GoOn
  <2> QED
    BY <2>1, <2>2 DEF Waking, Posts
<1> QED
  BY <1>1, <1>2

\* A caller that changes the list or the time is about to wake the worker.
LEMMA CallerQuiet ==
    ASSUME IndInv, TellingInv, NEW c \in Callers, Call(c) \/ CallStep(c),
           ~Waking', state' = "ok", active'
    PROVE  /\ state = "ok" /\ active /\ ~Waking
           /\ UNCHANGED <<offset, scale>> /\ (requests' = requests \/ requests' = <<>>)
           /\ mixed => mixed'
           /\ UNCHANGED <<media, rtc>> \/ (At(c, "apply") /\ Apply(c))
<1>1. state = "ok"
  BY DEF Call, CallStep, CallerTime, Post, PostTell, TakeSlot, InsertRequest,
       mmal_clock_request_flush, mmal_clock_media_time_set, Set, mmal_clock_scale_set, Buffer,
       Destroy, UseFreed, At
<1>2. ~Waking
  BY WakingKept
<1>3. ~Posts(steps'[c])
  BY DEF Waking, Posts
<1>4. ASSUME NEW s \in {"insert", "time", "offset", "scale", "start"}, At(c, s), GoOn(c)
      PROVE  FALSE
  <2>1. /\ steps \in [Callers -> Seq(StepNames)] /\ steps[c] \in Seq(StepNames)
        /\ Telling(steps[c]) /\ steps[c] # <<>> /\ Head(steps[c]) = s
    BY <1>4 DEF IndInv, CallsInv, TellingInv, At
  <2>2. Posts(Tail(steps[c]))
    BY <2>1, TellingTail
  <2>3. steps'[c] = Tail(steps[c])
    BY <1>4, <2>1 DEF GoOn
  <2> QED
    BY <1>3, <2>2, <2>3
<1>5. CASE CallerTime(c)
  <2>1. UNCHANGED <<offset, scale, active, requests>>
    BY <1>5 DEF CallerTime, setVars, slotVars
  <2>2. CASE At(c, "sample") /\ Sample(c)
    BY <1>1, <1>2, <2>1, <2>2 DEF Sample, timeVars
  <2>3. CASE At(c, "apply") /\ Apply(c)
    <3>1. mixed => mixed'
      BY <2>3 DEF Apply
    <3> QED
      BY <1>1, <1>2, <2>1, <2>3, <3>1
  <2> QED
    BY <1>5, <2>2, <2>3 DEF CallerTime
<1>6. CASE InsertRequest(c)
  BY <1>1, <1>2, <1>4, <1>6 DEF InsertRequest, setVars, timeVars
<1>7. CASE mmal_clock_media_time_set(c)
  BY <1>1, <1>2, <1>4, <1>7 DEF mmal_clock_media_time_set, slotVars
<1>8. CASE Set(c)
  BY <1>1, <1>2, <1>4, <1>8 DEF Set, slotVars, timeVars
<1>9. CASE mmal_clock_scale_set(c)
  BY <1>1, <1>2, <1>4, <1>9 DEF mmal_clock_scale_set
<1>10. CASE mmal_clock_request_flush(c)
  BY <1>1, <1>2, <1>10 DEF mmal_clock_request_flush, Flushed, setVars, timeVars
<1>11. CASE Call(c) \/ Post(c) \/ PostTell(c) \/ TakeSlot(c) \/ Buffer(c) \/ Destroy(c)
  <2>1. UNCHANGED <<offset, scale, active, requests, media, rtc, mixed>>
    BY <1>11 DEF Call, Post, PostTell, TakeSlot, Buffer, Destroy, setVars, slotVars, timeVars
  <2> QED
    BY <1>1, <1>2, <2>1
<1>12. ~UseFreed(c)
  BY DEF UseFreed
<1> QED
  BY <1>5, <1>6, <1>7, <1>8, <1>9, <1>10, <1>11, <1>12 DEF CallStep

\* Two threads that do not mix count the time once.
LEMMA MediaSame ==
    ASSUME IndInv, SampleInv, NEW c \in Callers, At(c, "apply"), Apply(c), active, ~mixed',
           UNCHANGED <<now, offset, scale>>
    PROVE  MediaNow' = MediaNow
<1> DEFINE a == now - rtc
<1>1. /\ now \in Int /\ rtc \in Int /\ media \in Int /\ scale \in Int /\ offset \in Int
      /\ rtc <= now /\ local[c].now = now
  BY DEF IndInv, TimeInv, SampleInv, At
<1>2. local[c].rtc = rtc /\ local[c].media = media
  BY DEF Apply
<1>3. Elapsed(local[c]) = a /\ a \in Int
  BY <1>1, <1>2 DEF Elapsed
<1>4. rtc' = now /\ media' = media + Elapsed(local[c]) * scale
  BY <1>1, <1>2 DEF Apply
<1>5. MediaNow = media + scale * a + scale * offset
  BY DEF MediaNow, Media
<1>6. MediaNow' = media' + scale * (now - now) + scale * offset
  BY <1>4 DEF MediaNow, Media
<1>7. scale * a \in Int /\ scale * a = a * scale /\ scale * (now - now) = 0
      /\ scale * offset \in Int
  BY <1>1, <1>3, Products
<1> HIDE DEF a
<1> QED
  BY <1>1, <1>3, <1>4, <1>5, <1>6, <1>7

\* A step of a caller.
LEMMA AlarmCaller ==
    ASSUME IndInv, RightInv, NEW c \in Callers, Call(c) \/ CallStep(c)
    PROVE  AlarmInv'
<1> SUFFICES ASSUME state' = "ok", active', ~Waking'
             PROVE  /\ (wpc' = "serve" /\ ~mixed') => local'["W"].time = MediaNow'
                    /\ (wpc' = "wait" /\ requests' # <<>>) =>
                          /\ timer' # Off
                          /\ (scale' # 0 /\ ~mixed') =>
                                Distance(scale', 0) * (timer' - now') <= ToGo(Head(requests))'
  BY DEF AlarmInv
<1>1. UNCHANGED <<now, timer, wpc>>
  BY CallerFrame
<1>2. local'["W"] = local["W"]
  <2>1. "W" \in Threads \ {c}
    BY ClockAssumption DEF Threads
  <2> QED
    BY <2>1, CallerLocal
<1>3. /\ state = "ok" /\ active /\ ~Waking
      /\ UNCHANGED <<offset, scale>> /\ (requests' = requests \/ requests' = <<>>)
      /\ mixed => mixed'
      /\ UNCHANGED <<media, rtc>> \/ (At(c, "apply") /\ Apply(c))
  BY CallerQuiet DEF RightInv
<1>4. ~mixed' => MediaNow' = MediaNow
  <2>1. CASE UNCHANGED <<media, rtc>>
    BY <1>1, <1>3, <2>1 DEF MediaNow, Media
  <2>2. CASE At(c, "apply") /\ Apply(c)
    BY <1>1, <1>3, <2>2, MediaSame DEF RightInv
  <2> QED
    BY <1>3, <2>1, <2>2
<1>5. (wpc' = "serve" /\ ~mixed') => local'["W"].time = MediaNow'
  BY <1>1, <1>2, <1>3, <1>4 DEF RightInv, AlarmInv
<1>6. ASSUME wpc' = "wait", requests' # <<>>
      PROVE  /\ timer' # Off
             /\ (scale' # 0 /\ ~mixed') =>
                   Distance(scale', 0) * (timer' - now') <= ToGo(Head(requests))'
  <2>1. requests' = requests /\ wpc = "wait"
    BY <1>1, <1>3, <1>6
  <2>2. timer # Off
    BY <1>3, <1>6, <2>1 DEF RightInv, AlarmInv
  <2>3. ASSUME scale' # 0, ~mixed'
        PROVE  Distance(scale', 0) * (timer' - now') <= ToGo(Head(requests))'
    <3>1. Distance(scale, 0) * (timer - now) <= ToGo(Head(requests))
      BY <1>3, <1>6, <2>1, <2>3 DEF RightInv, AlarmInv
    <3>2. ToGo(Head(requests))' = ToGo(Head(requests))
      BY <1>3, <1>4, <2>1, <2>3 DEF ToGo
    <3> QED
      BY <1>1, <1>3, <3>1, <3>2 DEF Distance
  <2> QED
    BY <1>1, <2>2, <2>3
<1> QED
  BY <1>5, <1>6

\* The distance of a request over the speed, rounded down, is no later than the request.
LEMMA Rounded ==
    ASSUME NEW s \in Nat, s # 0, NEW d \in Nat
    PROVE  d \div s \in Nat /\ s * (d \div s) <= d
OBVIOUS

\* A unit of time brings the timer and the first request nearer by as much.
LEMMA TickAlarm == ASSUME IndInv, RightInv, Tick PROVE AlarmInv'
<1> DEFINE n == Distance(scale, 0)
           a == now - rtc
<1>1. /\ now' = now + 1 /\ wpc # "serve"
      /\ UNCHANGED <<requests, timer, wpc, rtc, media, offset, scale, active, event, steps,
                     state, mixed, local>>
  BY DEF Tick, slotVars, timeVars, setVars, callVars
<1>2. Waking' = Waking
  BY <1>1 DEF Waking
<1> SUFFICES ASSUME state = "ok", active, ~Waking, wpc = "wait", requests # <<>>
             PROVE  /\ timer # Off
                    /\ (scale # 0 /\ ~mixed) => n * (timer - now') <= ToGo(Head(requests))'
  BY <1>1, <1>2 DEF AlarmInv, Distance
<1>3. timer # Off /\ ((scale # 0 /\ ~mixed) => n * (timer - now) <= ToGo(Head(requests)))
  BY DEF RightInv, AlarmInv
<1> SUFFICES ASSUME scale # 0, ~mixed
             PROVE  n * (timer - now') <= ToGo(Head(requests))'
  BY <1>3
<1>4. /\ now \in Int /\ rtc \in Int /\ media \in Int /\ scale \in Int /\ offset \in Int
      /\ timer \in Int /\ a \in Int
  BY DEF IndInv, TimeInv, Off
<1>5. Head(requests).adj \in Int /\ Head(requests') = Head(requests)
  <2>1. requests \in Seq(Request)
    BY DEF IndInv, KeptInv
  <2>2. Head(requests) \in Request
    BY <2>1
  <2> QED
    BY <1>1, <2>2 DEF Request
<1>6. MediaNow = media + scale * a + scale * offset
  BY DEF MediaNow, Media
<1>7. MediaNow' = media + scale * (a + 1) + scale * offset
  <2>1. now' - rtc' = a + 1
    BY <1>1, <1>4
  <2> QED
    BY <1>1, <2>1 DEF MediaNow, Media
<1>8. /\ scale * a \in Int /\ scale * (a + 1) = scale * a + scale * 1
      /\ scale * offset \in Int /\ scale * 1 = scale
  BY <1>4, Products
<1> HIDE DEF a
<1>9. MediaNow \in Int /\ MediaNow' = MediaNow + scale
  BY <1>4, <1>6, <1>7, <1>8
<1>10. ToGo(Head(requests))' = ToGo(Head(requests)) - n /\ n \in Int
       /\ ToGo(Head(requests)) \in Int
  BY <1>1, <1>4, <1>5, <1>9 DEF ToGo, Distance
<1>11. n * (timer - now') = n * (timer - now) - n /\ n * (timer - now) \in Int
  <2> HIDE DEF n
  <2>1. timer - now' = (timer - now) + (-1) /\ timer - now \in Int
    BY <1>1, <1>4
  <2>2. n * ((timer - now) + (-1)) = n * (timer - now) + n * (-1)
        /\ n * (timer - now) \in Int
    BY <1>10, <2>1, Products
  <2>3. n * (-1) = -n
    BY <1>10
  <2> QED
    BY <1>10, <2>1, <2>2, <2>3
<1> QED
  BY <1>3, <1>10, <1>11

\* The worker has looked at the time before it serves a request.
LEMMA WorkerTimeAlarm == ASSUME IndInv, RightInv, WorkerTime PROVE AlarmInv'
<1>1. /\ now \in Int /\ rtc \in Int /\ scale \in Int /\ offset \in Int
      /\ local \in [Threads -> Sampled] /\ "W" \in Threads
  BY DEF IndInv, TimeInv, Threads
<1>2. wpc' # "wait"
  BY DEF WorkerTime
<1>3. CASE wpc' # "serve"
  BY <1>2, <1>3 DEF AlarmInv
<1>4. CASE wpc' = "serve"
  <2>1. WorkerAt("apply") /\ Apply("W") /\ UNCHANGED <<now, scale, offset>>
    BY <1>4 DEF WorkerTime, setVars
  <2>2. local["W"].now = now
    BY <2>1 DEF WorkerAt, RightInv, SampleInv
  <2>3. rtc' = now
    BY <2>1, <2>2 DEF Apply
  <2>4. Wanted("W")
    BY DEF Wanted
  <2>5. local' = [local EXCEPT !["W"] = [NoLocal EXCEPT !.time = Media(media')]]
    BY <2>1, <2>4 DEF Apply
  <2>6. local'["W"].time = Media(media')
    BY <1>1, <2>5 DEF NoLocal
  <2>7. MediaNow' = media' + scale * (now - now) + scale * offset
    BY <2>1, <2>3 DEF MediaNow, Media
  <2>8. scale * (now - now) = 0
    BY <1>1, Products
  <2>9. media' \in Int /\ scale * offset \in Int
    <3>1. IndInv'
      BY WorkerTimeInv
    <3> QED
      BY <1>1, <3>1, Products DEF IndInv, TimeInv
  <2>10. Media(media') = media' + scale * offset
    BY DEF Media
  <2>11. local'["W"].time = MediaNow'
    BY <2>6, <2>7, <2>8, <2>9, <2>10
  <2> QED
    BY <1>2, <2>11 DEF AlarmInv
<1> QED
  BY <1>3, <1>4

\* The worker sets the timer for the request that it puts back.
LEMMA RescheduleAlarm == ASSUME IndInv, RightInv, Reschedule PROVE AlarmInv'
<1> DEFINE n == Distance(scale, 0)
           d == Distance(local["W"].time, next.adj)
<1>1. /\ wpc = "serve" /\ state = "ok" /\ wpc' = "wait" /\ requests' = <<next>> \o requests
      /\ UNCHANGED <<now, rtc, media, offset, scale, active, event, steps, state, mixed>>
      /\ ~Due(next, local["W"].time)
      /\ timer' = now + IF scale = 0 THEN CLOCK_WAIT_TIME ELSE d \div n
  BY DEF Reschedule, WorkerAt, timeVars, setVars, callVars, SetTimer
<1>2. Waking' = Waking
  BY <1>1 DEF Waking
<1>3. /\ now \in Nat /\ scale \in Int /\ next \in Request /\ next.adj \in Int
      /\ local["W"].time \in Int /\ requests \in Seq(Request)
      /\ MIN_TIMER_DELAY \in Nat /\ CLOCK_WAIT_TIME \in Nat
  BY <1>1, ClockAssumption DEF IndInv, TimeInv, HandInv, KeptInv, Threads, Sampled, Request
<1>4. Head(requests') = next
  BY <1>1, <1>3
<1>5. d \in Nat /\ n \in Nat /\ (scale # 0 => n # 0)
  BY <1>3 DEF Distance
<1> HIDE DEF n, d
<1>6. scale # 0 => d \div n \in Nat /\ n * (d \div n) <= d
  BY <1>5, Rounded
<1>7. timer' # Off
  BY <1>1, <1>3, <1>6 DEF Off
<1> SUFFICES ASSUME active, ~Waking, scale # 0, ~mixed
             PROVE  n * (timer' - now) <= ToGo(Head(requests))'
  BY <1>1, <1>2, <1>7 DEF AlarmInv, n, Distance
<1>8. local["W"].time = MediaNow
  BY <1>1 DEF RightInv, AlarmInv
<1>9. MediaNow' = MediaNow
  BY <1>1 DEF MediaNow, Media
<1>10. ToGo(Head(requests))' = d
  <2>1. scale > 0 => next.adj - MediaNow > 0
    BY <1>1, <1>3, <1>8 DEF Due
  <2>2. scale < 0 => MediaNow - next.adj > 0
    BY <1>1, <1>3, <1>8 DEF Due
  <2> QED
    BY <1>1, <1>3, <1>4, <1>8, <1>9, <2>1, <2>2 DEF ToGo, d, Distance
<1>11. timer' - now = d \div n
  BY <1>1, <1>3, <1>6
<1> QED
  BY <1>6, <1>10, <1>11

\* Every step of the clock leaves the worker awake, about to be woken, or with a timer
\* that goes off in time.
LEMMA AlarmStep == ASSUME IndInv, RightInv, Next PROVE AlarmInv'
<1>1. ASSUME NEW c \in Callers, Call(c) \/ CallStep(c) PROVE AlarmInv'
  BY <1>1, AlarmCaller
<1>2. CASE TimerExpires
  <2>1. event \in Nat /\ event' = event + 1
    BY <1>2 DEF TimerExpires, IndInv, TimeInv
  <2>2. Waking'
    BY <2>1 DEF Waking
  <2> QED
    BY <2>2 DEF AlarmInv
<1>3. CASE WaitEvent \/ LockRequests \/ DetectDiscontinuity \/ ServeRequest
  <2>1. wpc' \notin {"wait", "serve"}
    BY <1>3 DEF WaitEvent, LockRequests, DetectDiscontinuity, ServeRequest
  <2> QED
    BY <2>1 DEF AlarmInv
<1>4. CASE TestPending
  <2>1. wpc' # "serve" /\ (wpc' = "wait" => requests' = <<>> \/ ~active')
    BY <1>4 DEF TestPending, slotVars, setVars
  <2> QED
    BY <2>1 DEF AlarmInv
<1>5. CASE PopRequest
  <2>1. wpc' # "serve" /\ (wpc' = "wait" => requests' = <<>>)
    BY <1>5 DEF PopRequest
  <2> QED
    BY <2>1 DEF AlarmInv
<1> QED
  BY <1>1, <1>2, <1>3, <1>4, <1>5, TickAlarm, WorkerTimeAlarm, RescheduleAlarm
     DEF Next, mmal_clock_worker_thread

-----------------------------------------------------------------------------
(* Together.                                                                *)

\* A new clock is right.
LEMMA InitRight == Init => RightInv
<1> SUFFICES ASSUME Init PROVE RightInv
  OBVIOUS
<1>1. LockInv
  BY ClockAssumption DEF Init, LockInv, Holding
<1>2. OrderInv
  BY DEF Init, OrderInv
<1>3. \A c \in Callers : steps[c] = <<>>
  BY DEF Init
<1>4. TellingInv
  BY <1>3, TellingRests DEF TellingInv
<1>5. SampleInv
  BY <1>3 DEF Init, SampleInv
<1>6. AlarmInv
  BY DEF Init, AlarmInv, Waking
<1> QED
  BY <1>1, <1>2, <1>4, <1>5, <1>6 DEF RightInv

\* Every step keeps it right.
LEMMA NextRight == IndInv /\ RightInv /\ [Next]_clockVars => RightInv'
<1> SUFFICES ASSUME IndInv, RightInv, [Next]_clockVars PROVE RightInv'
  OBVIOUS
<1>1. CASE Next
  BY <1>1, LockStep, OrderStep, TellingStep, SampleStep, AlarmStep DEF RightInv
<1>2. CASE UNCHANGED clockVars
  <2>1. /\ UNCHANGED <<lock, wpc, requests, next, turned, scale, steps, rtc, now, local>>
        /\ UNCHANGED <<state, active, event, mixed, timer, media, offset>>
    BY <1>2 DEF clockVars, timeVars, setVars, slotVars, callVars
  <2>2. LockInv' /\ OrderInv' /\ TellingInv' /\ SampleInv'
    BY <2>1 DEF RightInv, LockInv, OrderInv, Before, TellingInv, SampleInv
  <2>3. AlarmInv'
    BY <2>1 DEF RightInv, AlarmInv, Waking, MediaNow, Media, ToGo, Distance
  <2> QED
    BY <2>2, <2>3 DEF RightInv
<1> QED
  BY <1>1, <1>2

\* A number is no more than a multiple of it.
LEMMA Multiple ==
    ASSUME NEW s \in Nat, s # 0, NEW x \in Int, NEW y \in Int, s * x <= y, y > 0
    PROVE  x <= y
<1>1. CASE x <= 0
  BY <1>1
<1>2. CASE x > 0
  <2>1. s - 1 \in Nat /\ s = (s - 1) + 1
    OBVIOUS
  <2>2. x * s = x * (s - 1) + x * 1 /\ x * s = s * x /\ x * 1 = x
    BY <2>1, Products
  <2>3. x * (s - 1) >= 0
    BY <1>2, <2>1
  <2> QED
    BY <2>2, <2>3
<1> QED
  BY <1>1, <1>2

\* It implies what is promised.
LEMMA RightTimer == IndInv /\ RightInv => TimerRight
<1> SUFFICES ASSUME IndInv, RightInv PROVE TimerRight
  OBVIOUS
<1>1. PendingOrdered
  BY DEF RightInv, OrderInv, PendingOrdered
<1>2. TimerInTime
  <2> SUFFICES ASSUME Quiet, active, requests # <<>>
               PROVE  /\ timer # Off
                      /\ (scale # 0 /\ ~mixed /\ ToGo(Head(requests)) > 0) =>
                            timer <= now + ToGo(Head(requests))
    BY DEF TimerInTime
  <2>1. ~Waking
    BY DEF Quiet, Waking, Posts
  <2>2. timer # Off /\ ((scale # 0 /\ ~mixed) =>
           Distance(scale, 0) * (timer - now) <= ToGo(Head(requests)))
    BY <2>1 DEF Quiet, RightInv, AlarmInv
  <2>3. /\ now \in Int /\ timer \in Int /\ scale \in Int /\ rtc \in Int /\ media \in Int
        /\ offset \in Int
    BY DEF IndInv, TimeInv, Off
  <2>4. ToGo(Head(requests)) \in Int
    <3>1. requests \in Seq(Request)
      BY DEF IndInv, KeptInv
    <3>2. Head(requests).adj \in Int
      <4>1. Head(requests) \in Request
        BY <3>1
      <4> QED
        BY <4>1 DEF Request
    <3>3. scale * (now - rtc) \in Int /\ scale * offset \in Int
      BY <2>3, Products
    <3>4. MediaNow \in Int
      BY <2>3, <3>3 DEF MediaNow, Media
    <3> QED
      BY <3>2, <3>4 DEF ToGo
  <2> SUFFICES ASSUME scale # 0, ~mixed, ToGo(Head(requests)) > 0
               PROVE  timer <= now + ToGo(Head(requests))
    BY <2>2
  <2>5. Distance(scale, 0) \in Nat /\ Distance(scale, 0) # 0
    BY <2>3 DEF Distance
  <2>6. timer - now <= ToGo(Head(requests))
    BY <2>2, <2>3, <2>4, <2>5, Multiple
  <2> QED
    BY <2>3, <2>4, <2>6
<1> QED
  BY <1>1, <1>2 DEF TimerRight

\* The thread sleeps no longer than the first request allows, and it is the first: no
\* wake-up is lost between the test of the list without the lock and the sleep.
THEOREM TimerRightHolds == Spec => []TimerRight
<1>1. Spec => []IndInv
  BY InitClock, NextClock, PTL DEF Spec
<1>2. Spec => []RightInv
  BY <1>1, InitRight, NextRight, PTL DEF Spec
<1> QED
  BY <1>1, <1>2, RightTimer, PTL
=============================================================================
