-------------------------- MODULE EventQueueProofs --------------------------
(***************************************************************************)
(* Theorems about EventQueue for every set of threads, loops and           *)
(* callbacks and every number of events.                                   *)
(***************************************************************************)
EXTENDS EventQueue, TLAPS

\* A queue and its last element once something is appended to it.
LEMMA AppendLast ==
  ASSUME NEW S, NEW q \in Seq(S), NEW e \in S
  PROVE  /\ Append(q, e) \in Seq(S) /\ Append(q, e) # <<>>
         /\ Len(Append(q, e)) = Len(q) + 1 /\ Append(q, e)[Len(q) + 1] = e
         /\ \A k \in 1 .. Len(q) : Append(q, e)[k] = q[k]
OBVIOUS

\* What popping the front of a queue leaves.
LEMMA PopFront ==
  ASSUME NEW S, NEW q \in Seq(S), q # <<>>
  PROVE  /\ Len(q) \in Nat /\ Len(q) >= 1 /\ Head(q) = q[1] /\ Head(q) \in S
         /\ Tail(q) \in Seq(S) /\ Len(Tail(q)) = Len(q) - 1
         /\ \A k \in 1 .. Len(q) - 1 : Tail(q)[k] = q[k + 1]
OBVIOUS

\* A queue of length 0.
LEMMA EmptyQueue ==
  ASSUME NEW S, NEW q \in Seq(S), Len(q) = 0
  PROVE  q = <<>>
OBVIOUS

\* Every step of the threads, the loops and the drain keeps every variable in its type.
LEMMA TypeStep == TypeOK /\ [Next]_vars => TypeOK'
<1> SUFFICES ASSUME TypeOK, [Next]_vars PROVE TypeOK'
  OBVIOUS
<1> USE NamesAssumption, BoundsAssumption
<1> USE DEF TypeOK, loopVars, queueVars, drainVars, Goto
<1>1. ASSUME NEW l \in Loops, StartLoop(l) PROVE TypeOK'
  BY <1>1 DEF StartLoop
<1>2. CASE EndLoop
  BY <1>2 DEF EndLoop
<1>3. CASE capture_loop
  BY <1>3 DEF capture_loop
<1>4. ASSUME NEW cb \in Callbacks \cup {None}, set_progress_callback(cb) PROVE TypeOK'
  BY <1>4 DEF set_progress_callback
<1>5. ASSUME NEW t \in Threads, schedule(t) PROVE TypeOK'
  <2>1. [id |-> reported + 1, to |-> Events, caller |-> caller] \in Event
    BY DEF Event
  <2>2. pending' \in Seq(Event) /\ reported' \in Nat
    BY <1>5, <2>1, AppendLast DEF schedule, push
  <2>3. recent' \subseteq Callbacks \cup {None}
    BY <1>5 DEF schedule, push
  <2> QED BY <1>5, <2>2, <2>3 DEF schedule
<1>6. ASSUME NEW t \in Threads, schedule_progress(t) PROVE TypeOK'
  BY <1>6 DEF schedule_progress
<1>7. ASSUME NEW t \in Threads, PushProgress(t) PROVE TypeOK'
  <2>1. [id |-> reported + 1, to |-> held[t], caller |-> caller] \in Event
    BY <1>7 DEF Event, PushProgress
  <2>2. pending' \in Seq(Event) /\ reported' \in Nat
    BY <1>7, <2>1, AppendLast DEF PushProgress, push
  <2>3. recent' \subseteq Callbacks \cup {None}
    BY <1>7 DEF PushProgress, push
  <2> QED BY <1>7, <2>2, <2>3 DEF PushProgress
<1>8. ASSUME NEW t \in Threads, CallSoon(t) PROVE TypeOK'
  BY <1>8 DEF CallSoon
<1>9. ASSUME NEW t \in Threads, CallFails(t) PROVE TypeOK'
  BY <1>9 DEF CallFails
<1>10. ASSUME NEW t \in Threads, unschedule(t) PROVE TypeOK'
  BY <1>10 DEF unschedule
<1>11. CASE take
  <2>1. Head(ready) \in Callbacks \cup {None} /\ Tail(ready) \in Seq(Callbacks \cup {None})
    BY <1>11, PopFront DEF take
  <2> QED BY <1>11, <2>1 DEF take
<1>12. CASE Deliver
  <2>1. Head(batch) \in Event /\ Tail(batch) \in Seq(Event)
    BY <1>12, PopFront DEF Deliver
  <2>2. recent' \subseteq Callbacks \cup {None}
    <3>1. recent' = {progress_callback} \/ recent' = recent
      BY <1>12 DEF Deliver
    <3> QED BY <3>1
  <2>3. delivered' \in Seq([id : Nat, to : Callbacks \cup {Events}, got : Callbacks \cup {Events, None}])
    BY <1>12, <2>1 DEF Deliver, Event
  <2> QED BY <1>12, <2>1, <2>2, <2>3 DEF Deliver
<1>13. ASSUME NEW t \in Threads, ReadProgress(t) PROVE TypeOK'
  BY <1>13 DEF ReadProgress
<1>14. CASE UNCHANGED vars
  BY <1>14 DEF vars
<1> QED
  BY <1>1, <1>2, <1>3, <1>4, <1>5, <1>6, <1>7, <1>8, <1>9, <1>10, <1>11, <1>12, <1>13, <1>14 DEF Next

\* The event queue's variables always have their types.
THEOREM TypeCorrect == Spec => []TypeOK
<1>1. Init => TypeOK
  <2> SUFFICES ASSUME Init PROVE TypeOK
    OBVIOUS
  <2>1. /\ pc \in [Threads -> {"idle", "progress", "session", "call", "failed"}] /\ held \in [Threads -> Callbacks \cup {None}]
        /\ \A t \in Threads : pc[t] = "idle"
    BY DEF Init
  <2>2. \A t \in Threads : pc[t] = "progress" => held[t] # None
    BY <2>1
  <2>3. running = None /\ ended = {} /\ loop_ = None /\ progress_callback = None /\ drainer = None /\ caller = None
        /\ recent \subseteq Callbacks \cup {None}
    BY DEF Init
  <2>4. ready = <<>> /\ pending = <<>> /\ batch = <<>> /\ delivered = <<>> /\ reported = 0 /\ scheduled = FALSE
    BY DEF Init
  <2>5. \A S : <<>> \in Seq(S)
    OBVIOUS
  <2>6. /\ ready \in Seq(Callbacks \cup {None}) /\ pending \in Seq(Event) /\ batch \in Seq(Event)
        /\ delivered \in Seq([id : Nat, to : Callbacks \cup {Events}, got : Callbacks \cup {Events, None}])
    BY <2>4, <2>5, Zenon
  <2> QED BY <2>1, <2>2, <2>3, <2>4, <2>6 DEF TypeOK
<1> QED BY <1>1, TypeStep, PTL DEF Spec

-----------------------------------------------------------------------------
(* Order.                                                                  *)

\* Appending to the queue with the next number, taking it whole into an empty batch and
\* moving the batch's front to the delivered events keep the numbering.
LEMMA OrderStep == TypeOK /\ TypeOK' /\ OnceInOrder /\ [Next]_vars => OnceInOrder'
<1> SUFFICES ASSUME TypeOK, TypeOK', OnceInOrder, [Next]_vars PROVE OnceInOrder'
  OBVIOUS
<1> DEFINE Delivered == [id : Nat, to : Callbacks \cup {Events}, got : Callbacks \cup {Events, None}]
<1>0. /\ pending \in Seq(Event) /\ batch \in Seq(Event) /\ delivered \in Seq(Delivered)
      /\ Len(pending) \in Nat /\ Len(batch) \in Nat /\ Len(delivered) \in Nat /\ reported \in Nat
  BY DEF TypeOK
<1>1. ASSUME NEW to \in Callbacks \cup {Events}, push(to), UNCHANGED <<batch, delivered>> PROVE OnceInOrder'
  <2> DEFINE e == [id |-> reported + 1, to |-> to, caller |-> caller]
  <2>1. e \in Event
    BY <1>0 DEF Event, TypeOK
  <2>2. /\ Len(pending') = Len(pending) + 1 /\ pending'[Len(pending) + 1] = e
        /\ \A k \in 1 .. Len(pending) : pending'[k] = pending[k]
    BY <1>0, <1>1, <2>1, AppendLast DEF push
  <2>3. reported' = reported + 1 /\ e.id = reported + 1
    BY <1>1 DEF push
  <2>4. ASSUME NEW n \in 1 .. Len(pending') PROVE pending'[n].id = Len(delivered) + Len(batch) + n
    <3>1. CASE n = Len(pending) + 1
      BY <1>0, <2>2, <2>3, <3>1 DEF OnceInOrder
    <3>2. CASE n \in 1 .. Len(pending)
      BY <1>0, <2>2, <3>2 DEF OnceInOrder
    <3> QED BY <1>0, <2>2, <3>1, <3>2
  <2> QED BY <1>0, <1>1, <2>2, <2>3, <2>4 DEF OnceInOrder
<1>2. ASSUME NEW t \in Threads, schedule(t) PROVE OnceInOrder'
  BY <1>1, <1>2 DEF schedule, drainVars
<1>3. ASSUME NEW t \in Threads, PushProgress(t) PROVE OnceInOrder'
  BY <1>1, <1>3 DEF PushProgress, drainVars, TypeOK
<1>4. CASE take
  BY <1>0, <1>4 DEF take, OnceInOrder
<1>5. CASE Deliver
  <2> DEFINE e == Head(batch)
             d == [id |-> e.id, to |-> e.to, got |-> IF e.to = Events THEN Events ELSE drainer]
  <2>1. /\ Len(batch) >= 1 /\ e = batch[1] /\ e \in Event
        /\ Len(batch') = Len(batch) - 1 /\ \A k \in 1 .. Len(batch) - 1 : batch'[k] = batch[k + 1]
    BY <1>0, <1>5, PopFront DEF Deliver
  <2>2. d \in Delivered
    BY <2>1 DEF Event, TypeOK
  <2>3. /\ Len(delivered') = Len(delivered) + 1 /\ delivered'[Len(delivered) + 1] = d
        /\ \A k \in 1 .. Len(delivered) : delivered'[k] = delivered[k]
    BY <1>0, <1>5, <2>2, AppendLast DEF Deliver
  <2>4. d.id = Len(delivered) + 1
    BY <1>0, <2>1 DEF OnceInOrder
  <2>5. ASSUME NEW n \in 1 .. Len(delivered') PROVE delivered'[n].id = n
    <3>1. CASE n = Len(delivered) + 1
      BY <2>3, <2>4, <3>1
    <3>2. CASE n \in 1 .. Len(delivered)
      BY <2>3, <3>2 DEF OnceInOrder
    <3> QED BY <1>0, <2>3, <3>1, <3>2
  <2>6. ASSUME NEW n \in 1 .. Len(batch') PROVE batch'[n].id = Len(delivered') + n
    <3>1. n \in 1 .. Len(batch) - 1 /\ n + 1 \in 1 .. Len(batch)
      BY <1>0, <2>1
    <3>2. batch'[n].id = Len(delivered) + (n + 1)
      BY <2>1, <3>1 DEF OnceInOrder
    <3> QED BY <1>0, <2>3, <3>1, <3>2
  <2>7. UNCHANGED <<pending, reported>>
    BY <1>5 DEF Deliver, queueVars
  <2> QED BY <1>0, <2>1, <2>3, <2>5, <2>6, <2>7 DEF OnceInOrder
<1>6. CASE UNCHANGED <<pending, batch, delivered, reported>>
  BY <1>6 DEF OnceInOrder
<1>7. \/ \E t \in Threads : schedule(t) \/ PushProgress(t)
      \/ take \/ Deliver \/ UNCHANGED <<pending, batch, delivered, reported>>
  BY DEF Next, vars, StartLoop, EndLoop, capture_loop, set_progress_callback, schedule_progress,
       ReadProgress, CallSoon, CallFails,
         unschedule, queueVars, drainVars
<1> QED BY <1>2, <1>3, <1>4, <1>5, <1>6, <1>7

\* Events reach Python in the order in which the session reported them, none twice and
\* none left out, however pushes, failed schedules and drains interleave.
THEOREM Order == Spec => []OnceInOrder
<1>1. Init => OnceInOrder
  BY DEF Init, OnceInOrder
<1> QED BY <1>1, OrderStep, TypeCorrect, PTL DEF Spec

-----------------------------------------------------------------------------
(* No wedge.                                                               *)

\* The strengthening of NoStranded: while the captured loop is open, the flag is set only
\* with a drain coming, and it is set whenever the newest event was queued after connect().
\* A thread that failed to schedule has seen the loop closed, so clearing the flag strands
\* nothing; before connect() nobody has scheduled anything.
Scheduling ==
  /\ loop_ = None <=> caller = None
  /\ loop_ = None => ~scheduled
  /\ \A t \in Threads : (pc[t] = "failed" => loop_ \in ended) /\ (pc[t] \in {"call", "progress", "session"} => loop_ # None)
  /\ loop_ \notin ended /\ scheduled => DrainComing
  /\ loop_ \notin ended /\ pending # <<>> /\ pending[Len(pending)].caller # None => scheduled

\* Every step keeps Scheduling.
LEMMA SchedulingStep == TypeOK /\ Scheduling /\ [Next]_vars => Scheduling'
<1> SUFFICES ASSUME TypeOK, Scheduling, [Next]_vars PROVE Scheduling'
  OBVIOUS
<1> USE NamesAssumption
<1>0. /\ pending \in Seq(Event) /\ pc \in [Threads -> {"idle", "progress", "session", "call", "failed"}]
      /\ scheduled \in BOOLEAN /\ running \in Loops \cup {None} /\ ended \subseteq Loops /\ caller \in Loops \cup {None}
  BY DEF TypeOK
<1>1. ASSUME NEW l \in Loops, StartLoop(l) PROVE Scheduling'
  BY <1>0, <1>1 DEF StartLoop, Scheduling, DrainComing, queueVars
<1>2. CASE EndLoop
  BY <1>0, <1>2 DEF EndLoop, Scheduling, DrainComing, queueVars
<1>3. CASE capture_loop
  BY <1>0, <1>3 DEF capture_loop, Scheduling, DrainComing, queueVars, loopVars
<1>4. ASSUME NEW cb \in Callbacks \cup {None}, set_progress_callback(cb) PROVE Scheduling'
  BY <1>0, <1>4 DEF set_progress_callback, Scheduling, DrainComing, queueVars, loopVars
<1>5. ASSUME NEW t \in Threads, NEW to \in Callbacks \cup {Events}, push(to), UNCHANGED caller
      PROVE  pending' # <<>> /\ pending'[Len(pending')].caller = caller
  <2>1. [id |-> reported + 1, to |-> to, caller |-> caller] \in Event
    BY DEF Event, TypeOK
  <2> QED BY <1>0, <1>5, <2>1, AppendLast DEF push
<1>6. ASSUME NEW t \in Threads, schedule(t) PROVE Scheduling'
  <2>1. pending' # <<>> /\ pending'[Len(pending')].caller = caller
    BY <1>5, <1>6 DEF schedule
  <2> QED BY <1>0, <1>6, <2>1 DEF schedule, Scheduling, DrainComing, loopVars, Goto
<1>7. ASSUME NEW t \in Threads, schedule_progress(t) PROVE Scheduling'
  BY <1>0, <1>7 DEF schedule_progress, Scheduling, DrainComing, queueVars, loopVars, Goto
<1>8. ASSUME NEW t \in Threads, PushProgress(t) PROVE Scheduling'
  <2>1. pending' # <<>> /\ pending'[Len(pending')].caller = caller
    BY <1>5, <1>8 DEF PushProgress, TypeOK
  <2> QED BY <1>0, <1>8, <2>1 DEF PushProgress, Scheduling, DrainComing, loopVars, Goto
<1>9. ASSUME NEW t \in Threads, CallSoon(t) PROVE Scheduling'
  <2>1. ready' # <<>>
    BY <1>9 DEF CallSoon, TypeOK
  <2> QED BY <1>0, <1>9, <2>1 DEF CallSoon, Scheduling, DrainComing, queueVars, Goto
<1>10. ASSUME NEW t \in Threads, CallFails(t) PROVE Scheduling'
  BY <1>0, <1>10 DEF CallFails, Scheduling, DrainComing, queueVars, loopVars, Goto
<1>11. ASSUME NEW t \in Threads, unschedule(t) PROVE Scheduling'
  BY <1>0, <1>11 DEF unschedule, Scheduling, DrainComing, loopVars, Goto
<1>12. CASE take
  BY <1>0, <1>12 DEF take, Scheduling, DrainComing
<1>13. CASE Deliver
  BY <1>0, <1>13 DEF Deliver, Scheduling, DrainComing, queueVars, loopVars
<1>14. ASSUME NEW t \in Threads, ReadProgress(t) PROVE Scheduling'
  BY <1>0, <1>14 DEF ReadProgress, Scheduling, DrainComing, queueVars, loopVars, Goto
<1>15. CASE UNCHANGED vars
  BY <1>15 DEF vars, Scheduling, DrainComing, queueVars, loopVars
<1> QED
  BY <1>1, <1>2, <1>3, <1>4, <1>6, <1>7, <1>8, <1>9, <1>10, <1>11, <1>12, <1>13, <1>14, <1>15 DEF Next

\* An event queued since connect() always has a drain coming while the captured loop is
\* open: the flag protocol of push, unschedule and take never wedges the queue.
THEOREM NeverWedged == Spec => []NoStranded
<1>1. Init => Scheduling
  BY NamesAssumption DEF Init, Scheduling
<1>2. Scheduling => NoStranded
  BY DEF Scheduling, NoStranded
<1> QED BY <1>1, <1>2, SchedulingStep, TypeCorrect, PTL DEF Spec

-----------------------------------------------------------------------------
(* Refinement.                                                             *)

Label == [id : Nat, to : Callbacks \cup {Events}]

\* The labels of a sequence of events are a sequence of labels.
LEMMA LabelsType ==
  ASSUME NEW S, NEW s \in Seq(S), \A e \in S : e.id \in Nat /\ e.to \in Callbacks \cup {Events}
  PROVE  /\ Labels(s) \in Seq(Label) /\ Len(Labels(s)) = Len(s)
         /\ \A n \in 1 .. Len(s) : Labels(s)[n] = [id |-> s[n].id, to |-> s[n].to]
<1>1. \A n \in 1 .. Len(s) : [id |-> s[n].id, to |-> s[n].to] \in Label
  BY DEF Label
<1>2. Labels(s) \in [1 .. Len(s) -> Label] /\ Len(s) \in Nat
  BY <1>1 DEF Labels
<1>3. Labels(s) \in Seq(Label)
  BY <1>2
<1> QED BY <1>2, <1>3 DEF Labels

\* Two sequences of the same length with the same elements are the same.
LEMMA SeqExtensional ==
  ASSUME NEW S, NEW s \in Seq(S), NEW r \in Seq(S), Len(s) = Len(r), \A n \in 1 .. Len(s) : s[n] = r[n]
  PROVE  s = r
OBVIOUS

\* What is under way is a sequence of labels, the drain's before the queue's.
LEMMA UnderWayType ==
  ASSUME NEW b \in Seq(Event), NEW p \in Seq(Event)
  PROVE  /\ UnderWay(b, p) \in Seq(Label) /\ Len(UnderWay(b, p)) = Len(b) + Len(p)
         /\ \A n \in 1 .. Len(b) : UnderWay(b, p)[n] = [id |-> b[n].id, to |-> b[n].to]
         /\ \A n \in 1 .. Len(p) : UnderWay(b, p)[Len(b) + n] = [id |-> p[n].id, to |-> p[n].to]
<1>0. Len(b) \in Nat /\ Len(p) \in Nat
  OBVIOUS
<1>1. \A e \in Event : e.id \in Nat /\ e.to \in Callbacks \cup {Events}
  BY DEF Event
<1>2. /\ \A n \in 1 .. Len(b) : Labels(b)[n] = [id |-> b[n].id, to |-> b[n].to] /\ Labels(b)[n] \in Label
      /\ \A n \in 1 .. Len(p) : Labels(p)[n] = [id |-> p[n].id, to |-> p[n].to] /\ Labels(p)[n] \in Label
  <2>1. Labels(b) \in Seq(Label) /\ Len(Labels(b)) = Len(b)
    BY <1>1, LabelsType
  <2>2. Labels(p) \in Seq(Label) /\ Len(Labels(p)) = Len(p)
    BY <1>1, LabelsType
  <2> QED BY <1>1, <2>1, <2>2, LabelsType
<1>3. UnderWay(b, p) \in [1 .. Len(b) + Len(p) -> Label]
  <2>1. ASSUME NEW n \in 1 .. Len(b) + Len(p)
        PROVE  (IF n <= Len(b) THEN Labels(b)[n] ELSE Labels(p)[n - Len(b)]) \in Label
    <3>1. CASE n <= Len(b)
      <4>1. n \in 1 .. Len(b)
        BY <1>0, <3>1
      <4> QED BY <1>2, <3>1, <4>1
    <3>2. CASE n > Len(b)
      <4>1. n - Len(b) \in 1 .. Len(p)
        BY <1>0, <3>2
      <4>2. Labels(p)[n - Len(b)] \in Label
        BY <1>2, <4>1
      <4>3. ~(n <= Len(b))
        BY <1>0, <3>2
      <4> QED BY <4>2, <4>3
    <3> QED BY <1>0, <3>1, <3>2
  <2> QED BY <2>1 DEF UnderWay
<1>4. UnderWay(b, p) \in Seq(Label) /\ Len(UnderWay(b, p)) = Len(b) + Len(p)
  BY <1>0, <1>3
<1>5. \A n \in 1 .. Len(b) : UnderWay(b, p)[n] = Labels(b)[n]
  BY <1>0 DEF UnderWay
<1>6. \A n \in 1 .. Len(p) : UnderWay(b, p)[Len(b) + n] = Labels(p)[n]
  BY <1>0 DEF UnderWay
<1> QED BY <1>2, <1>4, <1>5, <1>6

\* push: the event's label comes last.
LEMMA UnderWayAppend ==
  ASSUME NEW b \in Seq(Event), NEW p \in Seq(Event), NEW e \in Event
  PROVE  UnderWay(b, Append(p, e)) = Append(UnderWay(b, p), [id |-> e.id, to |-> e.to])
<1> DEFINE q == Append(p, e)
           l == [id |-> e.id, to |-> e.to]
           u == UnderWay(b, p)
           v == UnderWay(b, q)
<1>1. q \in Seq(Event) /\ Len(q) = Len(p) + 1 /\ q[Len(p) + 1] = e /\ \A k \in 1 .. Len(p) : q[k] = p[k]
  BY AppendLast
<1>2. l \in Label
  BY DEF Label, Event
<1>3. /\ u \in Seq(Label) /\ Len(u) = Len(b) + Len(p)
      /\ \A n \in 1 .. Len(b) : u[n] = [id |-> b[n].id, to |-> b[n].to]
      /\ \A n \in 1 .. Len(p) : u[Len(b) + n] = [id |-> p[n].id, to |-> p[n].to]
  BY UnderWayType
<1>4. /\ v \in Seq(Label) /\ Len(v) = Len(b) + Len(q)
      /\ \A n \in 1 .. Len(b) : v[n] = [id |-> b[n].id, to |-> b[n].to]
      /\ \A n \in 1 .. Len(q) : v[Len(b) + n] = [id |-> q[n].id, to |-> q[n].to]
  BY <1>1, UnderWayType
<1> HIDE DEF q, l, u, v
<1>5. /\ Append(u, l) \in Seq(Label) /\ Len(Append(u, l)) = Len(u) + 1 /\ Append(u, l)[Len(u) + 1] = l
      /\ \A k \in 1 .. Len(u) : Append(u, l)[k] = u[k]
  BY <1>2, <1>3, AppendLast
<1>6. Len(b) \in Nat /\ Len(p) \in Nat
  OBVIOUS
<1>7. ASSUME NEW n \in 1 .. Len(v) PROVE v[n] = Append(u, l)[n]
  <2>1. CASE n \in 1 .. Len(b)
    <3>1. n \in 1 .. Len(u)
      BY <1>3, <1>6, <2>1
    <3>2. v[n] = u[n]
      BY <1>3, <1>4, <2>1
    <3> QED BY <1>5, <3>1, <3>2
  <2>2. CASE n \in Len(b) + 1 .. Len(b) + Len(p)
    <3>0. n - Len(b) \in 1 .. Len(p) /\ n = Len(b) + (n - Len(b))
      BY <1>6, <2>2
    <3>1. PICK m \in 1 .. Len(p) : n = Len(b) + m
      BY <3>0, Zenon
    <3>2. m \in 1 .. Len(q) /\ n \in 1 .. Len(u)
      BY <1>1, <1>3, <1>6, <2>2
    <3>3. v[Len(b) + m] = [id |-> q[m].id, to |-> q[m].to]
      BY <1>4, <3>2
    <3>4. u[Len(b) + m] = [id |-> p[m].id, to |-> p[m].to]
      BY <1>3
    <3>5. q[m] = p[m]
      BY <1>1
    <3>6. v[n] = u[n]
      BY <3>1, <3>3, <3>4, <3>5, Zenon
    <3> QED BY <1>5, <3>2, <3>6
  <2>3. CASE n = Len(b) + Len(p) + 1
    <3>1. Len(p) + 1 \in 1 .. Len(q) /\ Len(b) + (Len(p) + 1) = n /\ n = Len(u) + 1
      BY <1>1, <1>3, <1>6, <2>3
    <3>2. v[Len(b) + (Len(p) + 1)] = l
      BY <1>1, <1>4, <3>1 DEF l
    <3> QED BY <1>5, <3>1, <3>2
  <2>4. n \in 1 .. Len(b) \/ n \in Len(b) + 1 .. Len(b) + Len(p) \/ n = Len(b) + Len(p) + 1
    <3>1. Len(v) = Len(b) + Len(p) + 1 /\ n \in 1 .. Len(v)
      BY <1>1, <1>4, <1>6
    <3> QED BY <1>6, <3>1
  <2> QED BY <2>1, <2>2, <2>3, <2>4
<1>8. v = Append(u, l)
  BY <1>1, <1>3, <1>4, <1>5, <1>6, <1>7, SeqExtensional
<1> QED BY <1>8 DEF q, l, u, v

\* take: what was queued is what the drain holds.
LEMMA UnderWayTaken ==
  ASSUME NEW p \in Seq(Event)
  PROVE  UnderWay(p, <<>>) = UnderWay(<<>>, p)
<1> DEFINE u == UnderWay(p, <<>>)
           v == UnderWay(<<>>, p)
<1>1. <<>> \in Seq(Event) /\ Len(<<>>) = 0 /\ Len(p) \in Nat
  OBVIOUS
<1>2. /\ u \in Seq(Label) /\ Len(u) = Len(p) + Len(<<>>)
      /\ \A n \in 1 .. Len(p) : u[n] = [id |-> p[n].id, to |-> p[n].to]
  BY <1>1, UnderWayType
<1>3. /\ v \in Seq(Label) /\ Len(v) = Len(<<>>) + Len(p)
      /\ \A n \in 1 .. Len(p) : v[Len(<<>>) + n] = [id |-> p[n].id, to |-> p[n].to]
  BY <1>1, UnderWayType
<1> HIDE DEF u, v
<1>4. \A n \in 1 .. Len(u) : u[n] = v[n]
  BY <1>1, <1>2, <1>3
<1>5. u = v
  BY <1>1, <1>2, <1>3, <1>4, SeqExtensional
<1> QED BY <1>5 DEF u, v

\* Deliver: the first of the drain's events goes.
LEMMA UnderWayPop ==
  ASSUME NEW b \in Seq(Event), NEW p \in Seq(Event), b # <<>>
  PROVE  /\ UnderWay(b, p) # <<>>
         /\ Head(UnderWay(b, p)) = [id |-> Head(b).id, to |-> Head(b).to]
         /\ Tail(UnderWay(b, p)) = UnderWay(Tail(b), p)
<1> DEFINE u == UnderWay(b, p)
           v == UnderWay(Tail(b), p)
           t == Tail(b)
<1>1. /\ Len(b) \in Nat /\ Len(b) >= 1 /\ Head(b) = b[1] /\ t \in Seq(Event) /\ Len(t) = Len(b) - 1
      /\ \A k \in 1 .. Len(b) - 1 : t[k] = b[k + 1]
  BY PopFront
<1>2. Len(p) \in Nat
  OBVIOUS
<1>3. /\ u \in Seq(Label) /\ Len(u) = Len(b) + Len(p)
      /\ \A n \in 1 .. Len(b) : u[n] = [id |-> b[n].id, to |-> b[n].to]
      /\ \A n \in 1 .. Len(p) : u[Len(b) + n] = [id |-> p[n].id, to |-> p[n].to]
  BY UnderWayType
<1>4. /\ v \in Seq(Label) /\ Len(v) = Len(t) + Len(p)
      /\ \A n \in 1 .. Len(t) : v[n] = [id |-> t[n].id, to |-> t[n].to]
      /\ \A n \in 1 .. Len(p) : v[Len(t) + n] = [id |-> p[n].id, to |-> p[n].to]
  BY <1>1, UnderWayType
<1> HIDE DEF u, v, t
<1>5. u # <<>>
  BY <1>1, <1>2, <1>3
<1>6. /\ Head(u) = u[1] /\ Tail(u) \in Seq(Label) /\ Len(Tail(u)) = Len(u) - 1
      /\ \A k \in 1 .. Len(u) - 1 : Tail(u)[k] = u[k + 1]
  BY <1>3, <1>5, PopFront
<1>7. u[1] = [id |-> b[1].id, to |-> b[1].to]
  BY <1>1, <1>3
<1>8. ASSUME NEW n \in 1 .. Len(v) PROVE v[n] = Tail(u)[n]
  <2>0. Len(v) = Len(u) - 1 /\ n \in 1 .. Len(u) - 1 /\ Tail(u)[n] = u[n + 1]
    BY <1>1, <1>2, <1>3, <1>4, <1>6
  <2>1. CASE n \in 1 .. Len(t)
    <3>1. n \in 1 .. Len(b) - 1 /\ n + 1 \in 1 .. Len(b)
      BY <1>1, <2>1
    <3>2. v[n] = [id |-> b[n + 1].id, to |-> b[n + 1].to]
      BY <1>1, <1>4, <2>1, <3>1
    <3> QED BY <1>3, <2>0, <3>1, <3>2
  <2>2. CASE n \in Len(t) + 1 .. Len(t) + Len(p)
    <3>1. n - Len(t) \in 1 .. Len(p) /\ Len(t) + (n - Len(t)) = n /\ Len(b) + (n - Len(t)) = n + 1
      BY <1>1, <1>2, <2>2
    <3>2. v[Len(t) + (n - Len(t))] = u[Len(b) + (n - Len(t))]
      BY <1>3, <1>4, <3>1
    <3> QED BY <2>0, <3>1, <3>2
  <2>3. n \in 1 .. Len(t) \/ n \in Len(t) + 1 .. Len(t) + Len(p)
    <3>1. Len(v) = Len(t) + Len(p) /\ n \in 1 .. Len(v) /\ Len(t) \in Nat
      BY <1>1, <1>4
    <3> QED BY <1>2, <3>1
  <2> QED BY <2>1, <2>2, <2>3
<1>9. Tail(u) = v
  <2>1. Len(v) = Len(Tail(u))
    BY <1>1, <1>2, <1>3, <1>4, <1>6
  <2> QED BY <1>4, <1>6, <1>8, <2>1, SeqExtensional
<1> QED BY <1>1, <1>5, <1>6, <1>7, <1>9 DEF u, v, t

\* Nothing is under way exactly when batch and queue are empty.
LEMMA UnderWayEmpty ==
  ASSUME NEW b \in Seq(Event), NEW p \in Seq(Event)
  PROVE  UnderWay(b, p) = <<>> <=> b = <<>> /\ p = <<>>
<1>1. UnderWay(b, p) \in Seq(Label) /\ Len(UnderWay(b, p)) = Len(b) + Len(p) /\ Len(b) \in Nat /\ Len(p) \in Nat
  BY UnderWayType
<1> HIDE DEF UnderWay
<1>2. \A S : \A q \in Seq(S) : q = <<>> <=> Len(q) = 0
  OBVIOUS
<1>3. b = <<>> <=> Len(b) = 0
  BY <1>2
<1>4. p = <<>> <=> Len(p) = 0
  BY <1>2
<1>5. UnderWay(b, p) = <<>> <=> Len(UnderWay(b, p)) = 0
  BY <1>1, <1>2
<1> QED BY <1>1, <1>3, <1>4, <1>5

\* A thread on its way to call_soon_threadsafe.
Flipper(t) == pc[t] \in {"session", "call"}

\* No drain is stale.  While the captured loop is open at most one drain is coming, the flag and
\* the event that it was scheduled for wait for it, so its callback is recent when it takes the
\* queue; and what it took is under way until it is delivered.
Fresh ==
  /\ progress_callback \in recent /\ running \notin ended
  /\ batch # <<>> => drainer \in recent
  /\ loop_ \notin ended =>
        /\ \A t, u \in Threads : Flipper(t) /\ Flipper(u) => t = u
        /\ ready # <<>> => Len(ready) = 1 /\ Head(ready) \in recent /\ \A t \in Threads : ~Flipper(t)
        /\ DrainComing => scheduled /\ pending # <<>>
        /\ \A t \in Threads : pc[t] = "call" => held[t] \in recent

\* Every step keeps the drains fresh.
LEMMA FreshStep == TypeOK /\ Scheduling /\ Fresh /\ [Next]_vars => Fresh'
<1> SUFFICES ASSUME TypeOK, Scheduling, Fresh, [Next]_vars PROVE Fresh'
  OBVIOUS
<1> USE NamesAssumption
<1>0. /\ pending \in Seq(Event) /\ pc \in [Threads -> {"idle", "progress", "session", "call", "failed"}]
      /\ held \in [Threads -> Callbacks \cup {None}] /\ ready \in Seq(Callbacks \cup {None}) /\ batch \in Seq(Event)
      /\ scheduled \in BOOLEAN /\ running \in Loops \cup {None} /\ ended \subseteq Loops
      /\ progress_callback \in Callbacks \cup {None}
      /\ \A t \in Threads : pc[t] = "progress" => held[t] # None
  BY DEF TypeOK
<1>1. ASSUME NEW l \in Loops, StartLoop(l) PROVE Fresh'
  BY <1>0, <1>1 DEF StartLoop, Fresh, DrainComing, Flipper, queueVars, drainVars
<1>2. CASE EndLoop
  BY <1>0, <1>2 DEF EndLoop, Fresh, DrainComing, Flipper, queueVars, drainVars
<1>3. CASE capture_loop
  BY <1>0, <1>3 DEF capture_loop, Fresh, DrainComing, Flipper, queueVars, loopVars, drainVars
<1>4. ASSUME NEW cb \in Callbacks \cup {None}, set_progress_callback(cb) PROVE Fresh'
  BY <1>0, <1>4 DEF set_progress_callback, NothingUnderWay, Fresh, DrainComing, Flipper, queueVars, loopVars, drainVars
<1>5. ASSUME NEW to \in Callbacks \cup {Events}, push(to)
      PROVE  pending' # <<>> /\ recent \subseteq recent' /\ (to \in Callbacks => to \in recent')
  <2>1. [id |-> reported + 1, to |-> to, caller |-> caller] \in Event
    BY DEF Event, TypeOK
  <2> QED BY <1>0, <1>5, <2>1, AppendLast DEF push
<1>6. ASSUME NEW t \in Threads, schedule(t) PROVE Fresh'
  <2>1. pending' # <<>> /\ recent \subseteq recent'
    BY <1>5, <1>6 DEF schedule
  <2> QED BY <1>0, <1>6, <2>1 DEF schedule, Fresh, DrainComing, Flipper, loopVars, drainVars, Goto
<1>7. ASSUME NEW t \in Threads, schedule_progress(t) PROVE Fresh'
  BY <1>0, <1>7 DEF schedule_progress, Fresh, DrainComing, Flipper, queueVars, loopVars, drainVars, Goto
<1>8. ASSUME NEW t \in Threads, PushProgress(t) PROVE Fresh'
  <2>1. held[t] \in Callbacks
    BY <1>0, <1>8 DEF PushProgress
  <2>2. pending' # <<>> /\ recent \subseteq recent' /\ held[t] \in recent'
    BY <1>5, <1>8, <2>1 DEF PushProgress
  <2> QED BY <1>0, <1>8, <2>2 DEF PushProgress, Fresh, DrainComing, Flipper, loopVars, drainVars, Goto
<1>9. ASSUME NEW t \in Threads, CallSoon(t) PROVE Fresh'
  <2>1. ready = <<>> /\ held[t] \in recent /\ Flipper(t)
    BY <1>0, <1>9 DEF CallSoon, Fresh, Flipper
  <2>2. Len(ready') = 1 /\ Head(ready') = held[t] /\ ready' # <<>>
    BY <1>0, <1>9, <2>1 DEF CallSoon
  <2>3. DrainComing
    BY <1>9 DEF CallSoon, DrainComing
  <2> QED BY <1>0, <1>9, <2>1, <2>2, <2>3 DEF CallSoon, Fresh, DrainComing, Flipper, queueVars, drainVars, Goto
<1>10. ASSUME NEW t \in Threads, CallFails(t) PROVE Fresh'
  BY <1>0, <1>10 DEF CallFails, Fresh, DrainComing, Flipper, queueVars, loopVars, drainVars, Goto
<1>11. ASSUME NEW t \in Threads, unschedule(t) PROVE Fresh'
  BY <1>0, <1>11 DEF unschedule, Scheduling, Fresh, DrainComing, Flipper, loopVars, drainVars, Goto
<1>12. CASE take
  <2>1. loop_ \notin ended
    BY <1>12 DEF take, Fresh
  <2>2. Len(ready) = 1 /\ Head(ready) \in recent /\ \A t \in Threads : ~Flipper(t)
    BY <1>12, <2>1 DEF take, Fresh
  <2>3. Tail(ready) = <<>>
    <3>1. ready \in Seq(Callbacks \cup {None}) /\ ready # <<>>
      BY <1>12 DEF TypeOK, take
    <3>2. Tail(ready) \in Seq(Callbacks \cup {None}) /\ Len(Tail(ready)) = 0
      BY <2>2, <3>1, PopFront
    <3> QED BY <3>2, EmptyQueue
  <2> QED BY <1>0, <1>12, <2>2, <2>3 DEF take, Fresh, DrainComing, Flipper
<1>13. CASE Deliver
  <2>1. batch # <<>> /\ batch' = Tail(batch)
    BY <1>13 DEF Deliver
  <2> QED BY <1>0, <1>13, <2>1 DEF Deliver, Fresh, DrainComing, Flipper, queueVars, loopVars
<1>14. ASSUME NEW t \in Threads, ReadProgress(t) PROVE Fresh'
  BY <1>0, <1>14 DEF ReadProgress, Fresh, DrainComing, Flipper, queueVars, loopVars, drainVars, Goto
<1>15. CASE UNCHANGED vars
  BY <1>15 DEF vars, Fresh, DrainComing, Flipper, queueVars, loopVars, drainVars
<1> QED
  BY <1>1, <1>2, <1>3, <1>4, <1>6, <1>7, <1>8, <1>9, <1>10, <1>11, <1>12, <1>13, <1>14, <1>15 DEF Next

\* Every step of the queue is a step of the stream or none: a push is a Report, Deliver is
\* Deliver, set_progress_callback is SetCallback, and a drain that takes the queue leaves what is
\* under way as it is.
LEMMA StreamStep == TypeOK /\ Fresh /\ [Next]_vars => [Stream!Next]_(Stream!vars)
<1> SUFFICES ASSUME TypeOK, Fresh, [Next]_vars PROVE [Stream!Next]_(Stream!vars)
  OBVIOUS
<1>0. /\ pending \in Seq(Event) /\ batch \in Seq(Event) /\ reported \in Nat /\ recent \subseteq Callbacks \cup {None}
      /\ Tail(batch) \in Seq(Event) \/ batch = <<>>
  BY PopFront DEF TypeOK
<1>1. ASSUME NEW to \in Callbacks \cup {Events}, push(to), UNCHANGED <<batch, delivered, progress_callback>> PROVE Stream!Next
  <2> DEFINE e == [id |-> reported + 1, to |-> to, caller |-> caller]
  <2>1. e \in Event /\ e.id = reported + 1 /\ e.to = to
    BY <1>0 DEF Event, TypeOK
  <2>2. pending' = Append(pending, e) /\ reported' = reported + 1 /\ recent' = recent \cup ({to} \cap Callbacks)
    BY <1>1 DEF push
  <2> HIDE DEF e
  <2>3. UnderWay(batch, pending') = Append(UnderWay(batch, pending), [id |-> reported + 1, to |-> to])
    BY <1>0, <2>1, <2>2, UnderWayAppend
  <2>4. Stream!Report(to)
    BY <1>1, <2>2, <2>3 DEF Stream!Report
  <2> QED BY <2>4 DEF Stream!Next
<1>2. ASSUME NEW t \in Threads, schedule(t) PROVE Stream!Next
  BY <1>1, <1>2 DEF schedule, drainVars
<1>3. ASSUME NEW t \in Threads, PushProgress(t) PROVE Stream!Next
  BY <1>1, <1>3 DEF PushProgress, drainVars, TypeOK
<1>4. CASE take
  <2>1. batch = <<>> /\ batch' = pending /\ pending' = <<>> /\ UNCHANGED <<reported, delivered, progress_callback, recent>>
    BY <1>4 DEF take
  <2>2. UnderWay(batch', pending') = UnderWay(batch, pending)
    BY <1>0, <2>1, UnderWayTaken
  <2> QED BY <2>1, <2>2 DEF Stream!vars
<1>5. CASE Deliver
  <2> DEFINE e == Head(batch)
             got == IF e.to = Events THEN Events ELSE drainer
  <2>1. /\ batch # <<>> /\ batch' = Tail(batch) /\ UNCHANGED <<pending, reported, progress_callback>>
        /\ delivered' = Append(delivered, [id |-> e.id, to |-> e.to, got |-> got])
        /\ recent' = IF Tail(batch) = <<>> /\ pending = <<>> THEN {progress_callback} ELSE recent
    BY <1>5 DEF Deliver, queueVars
  <2>2. got \in (IF e.to = Events THEN {Events} ELSE recent) /\ got \in Callbacks \cup {Events, None}
    BY <1>0, <2>1 DEF Fresh
  <2> HIDE DEF e, got
  <2>3. /\ UnderWay(batch, pending) # <<>>
        /\ Head(UnderWay(batch, pending)) = [id |-> e.id, to |-> e.to]
        /\ Tail(UnderWay(batch, pending)) = UnderWay(batch', pending')
    BY <1>0, <2>1, UnderWayPop DEF e
  <2>4. UnderWay(batch', pending') = <<>> <=> Tail(batch) = <<>> /\ pending = <<>>
    BY <1>0, <2>1, UnderWayEmpty
  <2>5. got \in IF Head(UnderWay(batch, pending)).to = Events THEN {Events} ELSE recent
    BY <2>2, <2>3
  <2>6. delivered' = Append(delivered, [id |-> Head(UnderWay(batch, pending)).id, to |-> Head(UnderWay(batch, pending)).to, got |-> got])
    BY <2>1, <2>3
  <2>7. recent' = IF Tail(UnderWay(batch, pending)) = <<>> THEN {progress_callback} ELSE recent
    BY <2>1, <2>3, <2>4
  <2>8. Stream!Deliver(got)
    BY <2>1, <2>3, <2>5, <2>6, <2>7, Zenon DEF Stream!Deliver
  <2> QED BY <2>2, <2>8 DEF Stream!Next
<1>6. ASSUME NEW cb \in Callbacks \cup {None}, set_progress_callback(cb) PROVE Stream!Next
  <2>1. UnderWay(batch, pending) = <<>> <=> NothingUnderWay
    BY <1>0, UnderWayEmpty DEF NothingUnderWay
  <2>2. Stream!SetCallback(cb)
    BY <1>6, <2>1 DEF set_progress_callback, Stream!SetCallback, queueVars, drainVars
  <2> QED BY <2>2 DEF Stream!Next
<1>7. CASE UNCHANGED <<pending, batch, delivered, reported, progress_callback, recent>>
  BY <1>7 DEF Stream!vars
<1>8. \/ \E t \in Threads : schedule(t) \/ PushProgress(t)
      \/ \E cb \in Callbacks \cup {None} : set_progress_callback(cb)
      \/ take \/ Deliver \/ UNCHANGED <<pending, batch, delivered, reported, progress_callback, recent>>
  BY DEF Next, vars, StartLoop, EndLoop, capture_loop, schedule_progress, ReadProgress, CallSoon, CallFails,
         unschedule, queueVars, drainVars
<1> QED BY <1>2, <1>3, <1>4, <1>5, <1>6, <1>7, <1>8

\* PyEvents implements the abstract stream of EventStream: whatever threads, loops and drains
\* do, events are delivered first in, first out, each to the event callback or to a progress
\* callback that is not stale.
THEOREM Refinement == Spec => ImplementsStream
<1>1. Init => Stream!Init /\ Fresh /\ Scheduling
  <2> SUFFICES ASSUME Init PROVE Stream!Init /\ Fresh /\ Scheduling
    OBVIOUS
  <2>1. pending = <<>> /\ batch = <<>> /\ delivered = <<>> /\ reported = 0 /\ progress_callback = None /\ recent = {None}
    BY DEF Init
  <2>2. batch \in Seq(Event) /\ pending \in Seq(Event)
    BY <2>1
  <2>3. UnderWay(batch, pending) = <<>>
    BY <2>1, <2>2, UnderWayEmpty
  <2>4. Fresh /\ Scheduling
    BY NamesAssumption DEF Init, Fresh, Scheduling, DrainComing, Flipper
  <2> QED BY <2>1, <2>3, <2>4 DEF Stream!Init
<1> QED BY <1>1, FreshStep, SchedulingStep, StreamStep, TypeCorrect, PTL DEF Spec, ImplementsStream, Stream!Spec
=============================================================================
