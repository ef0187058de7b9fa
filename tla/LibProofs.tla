----------------------------- MODULE LibProofs ------------------------------
(***************************************************************************)
(* Lemmas about the two libraries the drivers are modelled with: the index *)
(* arithmetic of DescRing.tla, for rings of any size, and NAPI.            *)
(***************************************************************************)
EXTENDS DescRing, Napi, Sequences, SequenceTheorems, TLAPS

-----------------------------------------------------------------------------
(* Rings: what "not full", "not empty" and the step to the next slot mean  *)
(* for the set of occupied slots.                                          *)

\* Below 2 * n the remainder by n is a conditional subtraction.
LEMMA ModRange ==
  ASSUME NEW n \in Nat \ {0}, NEW x \in 0 .. (2 * n - 1)
  PROVE  x % n = IF x < n THEN x ELSE x - n
BY SMT

\* The distance from slot a forward to slot b.
LEMMA Dist ==
  ASSUME NEW n \in Nat \ {0}, NEW a \in Slots(n), NEW b \in Slots(n)
  PROVE  (b - a + n) % n = IF a <= b THEN b - a ELSE b - a + n
<1> DEFINE x == b - a + n
<1>1. x \in 0 .. (2 * n - 1)
  BY SMT DEF Slots
<1>2. x % n = IF x < n THEN x ELSE x - n
  BY <1>1, ModRange
<1>3. QED
  BY <1>2, SMT DEF Slots

\* The successor of a slot is a slot.
LEMMA NextSlotInRing ==
  ASSUME NEW n \in Nat \ {0}, NEW i \in Slots(n)
  PROVE  NextSlot(i, n) \in Slots(n)
BY SMT DEF NextSlot, Slots

\* The next slot, without division.
LEMMA NextSlotCases ==
  ASSUME NEW n \in Nat \ {0}, NEW a \in Slots(n)
  PROVE  NextSlot(a, n) = IF a = n - 1 THEN 0 ELSE a + 1
<1> DEFINE x == a + 1
<1>1. x \in 0 .. (2 * n - 1)
  BY SMT DEF Slots
<1>2. x % n = IF x < n THEN x ELSE x - n
  BY <1>1, ModRange
<1>3. QED
  BY <1>2, SMT DEF Slots, NextSlot

\* The window of take and put, as an interval that may wrap.
LEMMA InWindow ==
  ASSUME NEW n \in Nat \ {0}, NEW take \in Slots(n), NEW put \in Slots(n), NEW i \in Slots(n)
  PROVE  i \in Window(take, put, n) <=> IF take <= put THEN take <= i /\ i < put ELSE take <= i \/ i < put
BY Dist, SMT DEF Window, Count, Slots

\* The test in the code: full means that put is one position behind take.
LEMMA FullCases ==
  ASSUME NEW n \in Nat \ {0}, NEW take \in Slots(n), NEW put \in Slots(n)
  PROVE  Full(take, put, n) <=> take = NextSlot(put, n)
<1> DEFINE x == take - (put + 1) + n
<1>1. x \in 0 .. (2 * n - 1)
  BY SMT DEF Slots
<1>2. x % n = IF x < n THEN x ELSE x - n
  BY <1>1, ModRange
<1>3. QED
  BY <1>2, NextSlotCases, SMT DEF Full, Slots

\* Filling the slot at put of a ring that is not full adds it to the window.
LEMMA PutWindow ==
  ASSUME NEW n \in Nat \ {0}, NEW take \in Slots(n), NEW put \in Slots(n), ~Full(take, put, n)
  PROVE  /\ put \notin Window(take, put, n)
         /\ Window(take, NextSlot(put, n), n) = Window(take, put, n) \cup {put}
<1>1. take # NextSlot(put, n)
  BY FullCases
<1>2. NextSlot(put,n) \in Slots(n)
  BY NextSlotCases, SMT DEF Slots
<1>3. put \notin Window(take, put, n)
  BY InWindow, SMT DEF Slots
<1>4. ASSUME NEW i \in Slots(n) PROVE i \in Window(take, NextSlot(put,n), n) <=> i \in Window(take, put, n) \cup {put}
  BY <1>1, <1>2, InWindow, NextSlotCases, SMT DEF Slots
<1>5. QED
  BY <1>3, <1>4 DEF Window

\* Emptying the slot at take of a ring that is not empty removes it.
LEMMA TakeWindow ==
  ASSUME NEW n \in Nat \ {0}, NEW take \in Slots(n), NEW put \in Slots(n), take # put
  PROVE  /\ take \in Window(take, put, n)
         /\ Window(NextSlot(take, n), put, n) = Window(take, put, n) \ {take}
<1>2. NextSlot(take,n) \in Slots(n)
  BY NextSlotCases, SMT DEF Slots
<1>3. take \in Window(take, put, n)
  BY InWindow, SMT DEF Slots
<1>4. ASSUME NEW i \in Slots(n) PROVE i \in Window(NextSlot(take,n), put, n) <=> i \in Window(take, put, n) \ {take}
  BY <1>2, InWindow, NextSlotCases, SMT DEF Slots
<1>5. QED
  BY <1>3, <1>4 DEF Window

\* A ring whose indices agree is empty.
LEMMA EmptyWindow ==
  ASSUME NEW n \in Nat \ {0}, NEW take \in Slots(n)
  PROVE Window(take,take,n) = {}
<1> SUFFICES ASSUME NEW i \in Slots(n) PROVE i \notin Window(take, take, n)
  BY DEF Window
<1> QED BY InWindow, SMT DEF Slots
-----------------------------------------------------------------------------
(* Rings: what they mean for the queue of what the occupied slots hold.    *)

\* A ring of n slots holds at most n - 1 packets, and fewer when not full.
LEMMA CountCases ==
  ASSUME NEW n \in Nat \ {0}, NEW take \in Slots(n), NEW put \in Slots(n)
  PROVE  /\ Count(take, put, n) = IF take <= put THEN put - take ELSE put - take + n
         /\ Count(take, put, n) \in 0 .. (n - 1)
         /\ Count(take, put, n) = 0 <=> take = put
         /\ Full(take, put, n) <=> Count(take, put, n) = n - 1
<1>1. Count(take, put, n) = IF take <= put THEN put - take ELSE put - take + n
  BY Dist DEF Count
<1>2. Full(take, put, n) <=> take = IF put = n - 1 THEN 0 ELSE put + 1
  BY FullCases, NextSlotCases
<1>3. QED
  BY <1>1, <1>2, SMT DEF Slots

\* Filling a slot counts one packet more, and emptying one counts one less.
LEMMA PutCount ==
  ASSUME NEW n \in Nat \ {0}, NEW take \in Slots(n), NEW put \in Slots(n),
         ~Full(take, put, n)
  PROVE  Count(take, NextSlot(put, n), n) = Count(take, put, n) + 1
<1> DEFINE new == NextSlot(put, n)
           c == Count(take, put, n)
<1>1. take # new /\ new \in Slots(n)
  BY FullCases, NextSlotInRing
<1>2. Count(take, new, n) = IF take <= new THEN new - take ELSE new - take + n
  BY <1>1, CountCases
<1>3. c = IF take <= put THEN put - take ELSE put - take + n
  BY CountCases
<1>4. new = IF put = n - 1 THEN 0 ELSE put + 1
  BY NextSlotCases
<1> HIDE DEF new, c
<1>5. Count(take, new, n) = c + 1
  BY <1>1, <1>2, <1>3, <1>4, SMT DEF Slots
<1>6. QED
  BY <1>5 DEF new, c

LEMMA TakeCount ==
  ASSUME NEW n \in Nat \ {0}, NEW take \in Slots(n), NEW put \in Slots(n), take # put
  PROVE  Count(NextSlot(take, n), put, n) = Count(take, put, n) - 1
<1> DEFINE new == NextSlot(take, n)
           c == Count(take, put, n)
<1>1. Count(new, put, n) = IF new <= put THEN put - new ELSE put - new + n
  BY NextSlotInRing, CountCases
<1>2. c = IF take <= put THEN put - take ELSE put - take + n
  BY CountCases
<1>3. new = IF take = n - 1 THEN 0 ELSE take + 1
  BY NextSlotCases
<1> HIDE DEF new, c
<1>4. Count(new, put, n) = c - 1
  BY <1>1, <1>2, <1>3, SMT DEF Slots
<1>5. QED
  BY <1>4 DEF new, c

\* The slots in order are slots of the window.
LEMMA OrderInWindow ==
  ASSUME NEW n \in Nat \ {0}, NEW take \in Slots(n), NEW put \in Slots(n),
         NEW k \in 1 .. Count(take, put, n)
  PROVE  /\ InOrder(take, put, n)[k] =
              IF take + k - 1 < n THEN take + k - 1 ELSE take + k - 1 - n
         /\ InOrder(take, put, n)[k] \in Window(take, put, n)
<1>1. Count(take, put, n) = IF take <= put THEN put - take ELSE put - take + n
  BY CountCases
<1>2. InOrder(take, put, n)[k] =
        IF take + k - 1 < n THEN take + k - 1 ELSE take + k - 1 - n
  <2> DEFINE x == take + k - 1
  <2>1. x \in 0 .. (2 * n - 1)
    BY <1>1, SMT DEF Slots
  <2>2. InOrder(take, put, n)[k] = x % n
    BY DEF InOrder
  <2>3. x % n = IF x < n THEN x ELSE x - n
    BY <2>1, ModRange
  <2>4. QED
    BY <1>1, <2>2, <2>3, SMT DEF Slots
<1>3. InOrder(take, put, n)[k] \in Slots(n)
  BY <1>1, <1>2, SMT DEF Slots
<1>4. InOrder(take, put, n)[k] \in Window(take, put, n)
  BY <1>1, <1>2, <1>3, InWindow, SMT DEF Slots
<1>5. QED
  BY <1>2, <1>4

\* The queue is a sequence, with one element for each packet in the ring.
LEMMA QueueType ==
  ASSUME NEW n \in Nat \ {0}, NEW take \in Slots(n), NEW put \in Slots(n),
         NEW S, NEW buffer, \A i \in Window(take, put, n) : buffer[i] \in S
  PROVE  /\ Queue(buffer, take, put, n) \in Seq(S)
         /\ Len(Queue(buffer, take, put, n)) = Count(take, put, n)
<1> DEFINE c == Count(take, put, n)
           q == Queue(buffer, take, put, n)
<1>1. c \in Nat
  BY CountCases, SMT
<1>2. \A k \in 1 .. c : q[k] \in S
  BY OrderInWindow DEF Queue
<1>3. q \in [ 1 .. c -> S ]
  BY <1>2 DEF Queue
<1>4. q \in Seq(S)
  BY <1>1, <1>3, SeqDef
<1>5. QED
  BY <1>1, <1>3, <1>4, LenProperties, SMT

\* A ring whose indices agree is the empty queue.
LEMMA EmptyQueue ==
  ASSUME NEW n \in Nat \ {0}, NEW take \in Slots(n), NEW buffer
  PROVE  Queue(buffer, take, take, n) = << >>
<1>1. Count(take, take, n) = 0
  BY CountCases
<1>2. QED
  BY <1>1 DEF Queue

\* What filling the slot at put does to the queue, whatever the buffer holds,
\* and what emptying the slot at take does.
PutAppends(take, put, n) ==
  \A S : \A e \in S : \A buffer :
    DOMAIN buffer = Slots(n) /\ Queue(buffer, take, put, n) \in Seq(S) =>
      Queue([ buffer EXCEPT ![put] = e ], take, NextSlot(put, n), n)
        = Append(Queue(buffer, take, put, n), e)

TakesHead(take, put, n) ==
  \A S, none, buffer :
    DOMAIN buffer = Slots(n) /\ Queue(buffer, take, put, n) \in Seq(S) =>
      /\ Queue(buffer, take, put, n) # << >>
      /\ Head(Queue(buffer, take, put, n)) = buffer[take]
      /\ Queue([ buffer EXCEPT ![take] = none ], NextSlot(take, n), put, n)
           = Tail(Queue(buffer, take, put, n))

\* Filling the slot at put of a ring that is not full appends to the queue.
LEMMA PutQueue ==
  ASSUME NEW n \in Nat \ {0}, NEW take \in Slots(n), NEW put \in Slots(n),
         ~Full(take, put, n)
  PROVE  PutAppends(take, put, n)
<1> SUFFICES ASSUME NEW S, NEW e \in S, NEW buffer,
                    DOMAIN buffer = Slots(n), Queue(buffer, take, put, n) \in Seq(S)
             PROVE  Queue([ buffer EXCEPT ![put] = e ], take, NextSlot(put, n), n)
                      = Append(Queue(buffer, take, put, n), e)
  BY DEF PutAppends
<1> DEFINE new == NextSlot(put, n)
           b == [ buffer EXCEPT ![put] = e ]
           c == Count(take, put, n)
           q == Queue(buffer, take, put, n)
           r == Queue(b, take, new, n)
<1>1. new \in Slots(n)
  BY NextSlotInRing
<1>2. c \in Nat /\ Count(take, new, n) = c + 1
  BY CountCases, PutCount, SMT
<1>3. q \in Seq(S) /\ Len(q) = c
  BY <1>2, LenProperties, SMT DEF Queue
<1>4. ASSUME NEW k \in 1 .. (c + 1) PROVE r[k] = Append(q, e)[k]
  <2>1. CASE k = c + 1
    <3>1. InOrder(take, new, n)[k] = put
      <4>1. InOrder(take, new, n)[k] = IF take + k - 1 < n THEN take + k - 1
                                                           ELSE take + k - 1 - n
        BY <1>1, <1>2, OrderInWindow
      <4>2. c = IF take <= put THEN put - take ELSE put - take + n
        BY CountCases
      <4> HIDE DEF c, new
      <4>3. QED
        BY <1>2, <2>1, <4>1, <4>2, SMT DEF Slots
    <3>2. r[k] = e
      BY <1>2, <3>1, <2>1 DEF Queue
    <3>3. QED
      BY <1>3, <2>1, <3>2
  <2>2. CASE k # c + 1
    <3>0. k \in 1 .. c
      BY <1>2, <2>2, SMT
    <3>1. InOrder(take, new, n)[k] = InOrder(take, put, n)[k]
      BY <1>2, <3>0 DEF InOrder
    <3>2. InOrder(take, put, n)[k] # put /\ InOrder(take, put, n)[k] \in Slots(n)
      BY <3>0, OrderInWindow, PutWindow DEF Window
    <3>3. r[k] = q[k]
      BY <1>2, <3>0, <3>1, <3>2 DEF Queue
    <3>4. QED
      BY <1>3, <3>0, <3>3
  <2>3. QED
    BY <2>1, <2>2
<1>5. r = [ k \in 1 .. (c + 1) |-> r[k] ]
  BY <1>2 DEF Queue
<1>6. Append(q, e) = [ k \in 1 .. (c + 1) |-> Append(q, e)[k] ]
  <2> HIDE DEF q, c
  <2>1. Append(q, e) \in Seq(S) /\ Len(Append(q, e)) = c + 1
    BY <1>3
  <2>2. QED
    BY <2>1, LenProperties
<1>7. QED
  BY <1>4, <1>5, <1>6

\* Emptying the slot at take of a ring that is not empty takes the head off.
LEMMA TakeQueue ==
  ASSUME NEW n \in Nat \ {0}, NEW take \in Slots(n), NEW put \in Slots(n), take # put
  PROVE  TakesHead(take, put, n)
<1> SUFFICES ASSUME NEW S, NEW none, NEW buffer,
                    DOMAIN buffer = Slots(n), Queue(buffer, take, put, n) \in Seq(S)
             PROVE  /\ Queue(buffer, take, put, n) # << >>
                    /\ Head(Queue(buffer, take, put, n)) = buffer[take]
                    /\ Queue([ buffer EXCEPT ![take] = none ], NextSlot(take, n), put, n)
                         = Tail(Queue(buffer, take, put, n))
  BY DEF TakesHead
<1> DEFINE new == NextSlot(take, n)
           b == [ buffer EXCEPT ![take] = none ]
           c == Count(take, put, n)
           q == Queue(buffer, take, put, n)
           r == Queue(b, new, put, n)
<1>1. new \in Slots(n)
  BY NextSlotInRing
<1>2. c \in Nat \ {0} /\ Count(new, put, n) = c - 1
  BY CountCases, TakeCount, SMT
<1>3. q \in Seq(S) /\ Len(q) = c
  BY <1>2, LenProperties, SMT DEF Queue
<1>4. q # << >> /\ Head(q) = buffer[take]
  <2>1. InOrder(take, put, n)[1] = take
    <3> DEFINE j == 1
    <3>1. InOrder(take, put, n)[j] =
            IF take + j - 1 < n THEN take + j - 1 ELSE take + j - 1 - n
      <4>1. j \in 1 .. c
        BY <1>2, SMT
      <4>2. QED
        BY <4>1, OrderInWindow
    <3>2. QED
      BY <3>1, SMT DEF Slots
  <2>2. q[1] = buffer[take]
    BY <1>2, <2>1 DEF Queue
  <2>3. QED
    BY <1>2, <1>3, <2>2
<1>5. ASSUME NEW k \in 1 .. (c - 1) PROVE r[k] = Tail(q)[k]
  <2>0. k + 1 \in 1 .. c
    BY <1>2, SMT
  <2>1. InOrder(new, put, n)[k] = InOrder(take, put, n)[k + 1]
    <3>1. InOrder(new, put, n)[k] = IF new + k - 1 < n THEN new + k - 1 ELSE new + k - 1 - n
      BY <1>1, <1>2, OrderInWindow
    <3>2. InOrder(take, put, n)[k + 1] = IF take + k < n THEN take + k ELSE take + k - n
      <4> DEFINE j == k + 1
      <4>1. InOrder(take, put, n)[j] =
              IF take + j - 1 < n THEN take + j - 1 ELSE take + j - 1 - n
        BY <2>0, OrderInWindow
      <4>2. take + j - 1 = take + k
        BY SMT DEF Slots
      <4>3. QED
        BY <4>1, <4>2
    <3>3. new = IF take = n - 1 THEN 0 ELSE take + 1
      BY NextSlotCases
    <3>4. c <= n - 1
      BY CountCases, SMT
    <3> HIDE DEF new, c
    <3>5. QED
      BY <1>2, <3>1, <3>2, <3>3, <3>4, SMT DEF Slots
  <2>2. /\ InOrder(new, put, n)[k] \in Slots(n)
        /\ InOrder(new, put, n)[k] # take
    BY <1>1, <1>2, OrderInWindow, TakeWindow DEF Window
  <2>3. r[k] = q[k + 1]
    BY <1>2, <2>0, <2>1, <2>2 DEF Queue
  <2>4. QED
    BY <1>2, <1>3, <1>4, <2>3, HeadTailProperties
<1>6. r = [ k \in 1 .. (c - 1) |-> r[k] ]
  BY <1>2 DEF Queue
<1>7. Tail(q) = [ k \in 1 .. (c - 1) |-> Tail(q)[k] ]
  BY <1>2, <1>3, <1>4, HeadTailProperties, LenProperties
<1>8. QED
  BY <1>4, <1>5, <1>6, <1>7
-----------------------------------------------------------------------------
(* NAPI. *)

\* Every operation of NAPI yields an instance.
LEMMA NapiType ==
  ASSUME NEW n \in Instance
  PROVE  /\ napi_schedule(n) \in Instance
         /\ napi_start_poll(n) \in Instance
         /\ napi_complete(n) \in Instance
         /\ napi_repoll(n) \in Instance
         /\ napi_enable(n) \in Instance
         /\ napi_disable_begin(n) \in Instance
         /\ napi_disable_end(n) \in Instance
<1>1. napi_schedule(n) \in Instance
  BY DEF Instance, napi_schedule
<1>2. napi_start_poll(n) \in Instance
  BY DEF Instance, napi_start_poll
<1>3. napi_complete(n) \in Instance
  BY DEF Instance, napi_complete
<1>4. napi_repoll(n) \in Instance
  BY <1>3 DEF Instance, napi_repoll
<1>5. napi_enable(n) \in Instance
  BY DEF Instance, napi_enable
<1>6. napi_disable_begin(n) \in Instance
  BY DEF Instance, napi_disable_begin
<1>7. napi_disable_end(n) \in Instance
  BY DEF Instance, napi_disable_end
<1>8. QED
  BY <1>1, <1>2, <1>3, <1>4, <1>5, <1>6, <1>7
=============================================================================
