------------------------- MODULE FlowControlProofs -------------------------
(***************************************************************************)
(* Theorems about FlowControl for every set of senders, every assignment   *)
(* of kinds, every length and size and every bound.                        *)
(***************************************************************************)
EXTENDS FlowControl, TLAPS

-----------------------------------------------------------------------------
(* Queues.                                                                 *)

\* What appending to a queue does: one longer, the old elements in place.
LEMMA AppendFacts ==
  ASSUME NEW S, NEW q \in Seq(S), NEW e \in S
  PROVE  /\ Append(q, e) \in Seq(S)
         /\ Append(q, e) # <<>>
         /\ Len(Append(q, e)) = Len(q) + 1
         /\ Append(q, e)[Len(q) + 1] = e
         /\ \A k \in 1 .. Len(q) : Append(q, e)[k] = q[k]
OBVIOUS

\* What popping the front of a queue does: the others move up by one.
LEMMA TailFacts ==
  ASSUME NEW S, NEW q \in Seq(S), q # <<>>
  PROVE  /\ Len(q) \in Nat /\ Len(q) >= 1
         /\ Head(q) = q[1] /\ Head(q) \in S
         /\ Tail(q) \in Seq(S)
         /\ Len(Tail(q)) = Len(q) - 1
         /\ \A k \in 1 .. Len(q) - 1 : Tail(q)[k] = q[k + 1]
OBVIOUS

\* A queue is a list of Len(q) elements, empty exactly when its length is 0.
LEMMA QueueFacts ==
  ASSUME NEW S, NEW q \in Seq(S)
  PROVE  /\ Len(q) \in Nat
         /\ q = <<>> <=> Len(q) = 0
         /\ \A k \in 1 .. Len(q) : q[k] \in S
OBVIOUS

-----------------------------------------------------------------------------
(* Type correctness.                                                       *)

\* The fields of a command are naturals.
LEMMA CommandFacts ==
  ASSUME NEW c \in Command
  PROVE  /\ c.length \in Nat /\ c.mark \in Nat
         /\ \A m \in Nat : [c EXCEPT !.mark = m] \in Command
BY DEF Command

\* Every step of the flow control, its senders, its reader and the device
\* keeps every variable in its type.
LEMMA TypeStep == TypeOK /\ [Next]_vars => TypeOK'
<1> SUFFICES ASSUME TypeOK, [Next]_vars PROVE TypeOK'
  OBVIOUS
<1> USE SendersAssumption, KindAssumption, LengthsAssumption, SizesAssumption, BoundsAssumption
<1> USE DEF TypeOK, Kinds, Command, PC, Breach, flowVars, notifyVars, deviceVars, ghostVars, Goto, Release,
            TakesLock, Disturb
<1>1. ASSUME NEW s \in Senders, NEW n \in Lengths, Start(s, n) PROVE TypeOK'
  BY <1>1 DEF Start
<1>2. ASSUME NEW s \in Senders, AcquireLock(s) PROVE TypeOK'
  BY <1>2 DEF AcquireLock
<1>3. ASSUME NEW s \in Senders, DrainWait(s) PROVE TypeOK'
  <2>1. CASE DrainCheck(s) BY <2>1 DEF DrainCheck
  <2>2. CASE DrainRegister(s) BY <2>2 DEF DrainRegister
  <2>3. CASE DrainRecheck(s) BY <2>3 DEF DrainRecheck
  <2>4. CASE DrainWake(s) BY <2>4 DEF DrainWake
  <2> QED BY <1>3, <2>1, <2>2, <2>3, <2>4 DEF DrainWait
<1>4. ASSUME NEW s \in Senders, SpaceWait(s) PROVE TypeOK'
  <2>1. CASE SpaceCheck(s) BY <2>1 DEF SpaceCheck
  <2>2. CASE SpaceRegister(s) BY <2>2 DEF SpaceRegister
  <2>3. CASE SpaceRecheck(s) BY <2>3 DEF SpaceRecheck
  <2>4. CASE SpaceWake(s) BY <2>4 DEF SpaceWake
  <2> QED BY <1>4, <2>1, <2>2, <2>3, <2>4 DEF SpaceWait
<1>5. ASSUME NEW s \in Senders, SpaceTimeout(s) PROVE TypeOK'
  BY <1>5 DEF SpaceTimeout
<1>6. ASSUME NEW s \in Senders, AfterTimeout(s) PROVE TypeOK'
  <2>1. CASE StallRetry(s) BY <2>1 DEF StallRetry
  <2>2. CASE GiveUp(s) BY <2>2 DEF GiveUp
  <2>3. CASE SendRegardless(s) BY <2>3 DEF SendRegardless
  <2> QED BY <1>6, <2>1, <2>2, <2>3 DEF AfterTimeout
<1>7. ASSUME NEW s \in Senders, Transmit(s) PROVE TypeOK'
  <2>1. CASE track_command(s)
    <3> HIDE DEF Command
    <3>1. cmd[s] \in Command /\ cmd[s].length \in Nat
      BY CommandFacts
    <3>2. tracked' \in Nat /\ rx_count' \in Nat
      <4>1. tracked' = tracked + cmd[s].length /\ rx_count' = rx_count + cmd[s].length
        BY <2>1 DEF track_command
      <4> QED BY <3>1, <4>1
    <3>3. cmd' \in [Senders -> Command] /\ cmd'[s] \in Command
      BY <2>1, <3>1, <3>2, CommandFacts DEF track_command
    <3>4. pending' \in Seq(Command)
      BY <2>1, <3>3, AppendFacts DEF track_command
    <3> QED BY <2>1, <3>2, <3>3, <3>4 DEF track_command
  <2>2. CASE Write(s)
    <3> HIDE DEF Command
    <3>1. cmd[s] \in Command /\ cmd[s].length \in Nat
      BY CommandFacts
    <3>2. wire' \in Seq(Command)
      BY <2>2, <3>1, AppendFacts DEF Write
    <3>3. rx_used' \in Int
      BY <2>2, <3>1 DEF Write
    <3>4. pc' \in [Senders -> PC] /\ cmd_lock' \in Senders \cup {NoSender}
      BY <2>2 DEF Write
    <3> QED BY <2>2, <3>2, <3>3, <3>4 DEF Write
  <2>3. CASE AwaitDone(s) BY <2>3 DEF AwaitDone
  <2> QED BY <1>7, <2>1, <2>2, <2>3 DEF Transmit
<1>8. ASSUME NEW s \in Senders, WriteError(s) PROVE TypeOK'
  BY <1>8 DEF WriteError
<1>9. CASE DeviceAnswer
  <2> HIDE DEF Command
  <2>1. Head(wire) \in Command /\ Head(wire).length \in Nat /\ wire' \in Seq(Command)
    <3>1. Head(wire) \in Command /\ wire' \in Seq(Command)
      BY <1>9, TailFacts DEF DeviceAnswer
    <3> QED BY <3>1 DEF Command
  <2>2. acks' \in Seq(Command)
    BY <1>9, <2>1, AppendFacts DEF DeviceAnswer
  <2> QED BY <1>9, <2>1, <2>2 DEF DeviceAnswer
<1>10. CASE Reader
  <2>1. CASE ParseAck
    <3> HIDE DEF Command
    <3>1. acks' \in Seq(Command)
      BY <2>1, TailFacts DEF ParseAck
    <3>2. pending' \in Seq(Command) /\ rx_count' \in Nat
      <4>1. CASE pending = <<>> BY <2>1, <4>1 DEF ParseAck, ack_ok_locked
      <4>2. CASE pending # <<>>
        <5>1. Head(pending) \in Command /\ Tail(pending) \in Seq(Command)
          BY <4>2, TailFacts
        <5>2. Head(pending).length \in Nat
          BY <5>1 DEF Command
        <5>3. pending' = Tail(pending) /\ rx_count' = MonusNat(rx_count, Head(pending).length)
          BY <2>1, <4>2 DEF ParseAck, ack_ok_locked
        <5>4. \A a, b \in Nat : MonusNat(a, b) \in Nat
          BY DEF MonusNat
        <5> QED BY <5>1, <5>2, <5>3, <5>4
      <4> QED BY <4>1, <4>2
    <3> QED BY <2>1, <3>1, <3>2 DEF ParseAck
  <2>2. CASE ParseEnd BY <2>2 DEF ParseEnd
  <2>3. CASE flush_notifications
    BY <2>3 DEF flush_notifications, signal_space_available, notify_drained
  <2> QED BY <1>10, <2>1, <2>2, <2>3 DEF Reader
<1>11. CASE reset_flow_control
  BY <1>11 DEF reset_flow_control, signal_space_available, notify_drained
<1>12. CASE SoftReset BY <1>12 DEF SoftReset
<1>13. CASE SpuriousSignal BY <1>13 DEF SpuriousSignal, signal_space_available
<1>14. ASSUME NEW size \in Sizes, set_rx_buffer_size(size) PROVE TypeOK'
  BY <1>14 DEF set_rx_buffer_size
<1>15. CASE UNCHANGED vars BY <1>15 DEF vars
<1> HIDE DEF TypeOK, Kinds, Command, PC, Breach, flowVars, notifyVars, deviceVars, ghostVars, Goto, Release,
             TakesLock, Disturb
<1> QED
  BY <1>1, <1>2, <1>3, <1>4, <1>5, <1>6, <1>7, <1>8, <1>9, <1>10, <1>11, <1>12, <1>13, <1>14, <1>15
  DEF Next

\* In every behaviour, whatever the constants, each variable keeps its type.
THEOREM TypeCorrect == Spec => []TypeOK
<1>1. Init => TypeOK
  <2> HAVE Init
  <2>1. cmd \in [Senders -> Command]
    BY DEF Init, Command
  <2>2. pending \in Seq(Command) /\ wire \in Seq(Command) /\ acks \in Seq(Command)
    BY DEF Init
  <2>3. pc \in [Senders -> PC]
    BY DEF Init, PC
  <2>4. rx_count \in Nat /\ rx_size \in Nat /\ rx_used \in Int
        /\ tracked \in Nat /\ started \in Nat /\ disturbances \in Nat
    BY SizesAssumption DEF Init
  <2>5. /\ acked_since_flush \in BOOLEAN /\ drained_since_flush \in BOOLEAN
        /\ space_permit \in BOOLEAN /\ drain_permit \in BOOLEAN
        /\ space_waiters \subseteq Senders /\ drain_waiters \subseteq Senders
        /\ cmd_lock \in Senders \cup {NoSender} /\ breaches \subseteq Breach
        /\ reader \in {"idle", "parsing", "handling"}
    BY DEF Init
  <2> QED BY <2>1, <2>2, <2>3, <2>4, <2>5 DEF TypeOK
<1> QED BY <1>1, TypeStep, PTL DEF Spec

-----------------------------------------------------------------------------
(* Byte accounting.                                                        *)

\* Only tracking a command, an answer and a reset touch the accounting.
LEMMA AccountingFrame ==
  ASSUME [Next]_vars
  PROVE  \/ UNCHANGED <<pending, rx_count, tracked>>
         \/ \E s \in Senders : track_command(s)
         \/ ParseAck
         \/ reset_flow_control
<1> USE DEF flowVars, ghostVars
<1>1. ASSUME NEW s \in Senders, NEW n \in Lengths, Start(s, n) PROVE UNCHANGED <<pending, rx_count, tracked>>
  BY <1>1 DEF Start
<1>2. ASSUME NEW s \in Senders, AcquireLock(s) PROVE UNCHANGED <<pending, rx_count, tracked>>
  BY <1>2 DEF AcquireLock
<1>3. ASSUME NEW s \in Senders, DrainWait(s) PROVE UNCHANGED <<pending, rx_count, tracked>>
  BY <1>3 DEF DrainWait, DrainCheck, DrainRegister, DrainRecheck, DrainWake
<1>4. ASSUME NEW s \in Senders, SpaceWait(s) PROVE UNCHANGED <<pending, rx_count, tracked>>
  BY <1>4 DEF SpaceWait, SpaceCheck, SpaceRegister, SpaceRecheck, SpaceWake
<1>5. ASSUME NEW s \in Senders, SpaceTimeout(s) PROVE UNCHANGED <<pending, rx_count, tracked>>
  BY <1>5 DEF SpaceTimeout
<1>6. ASSUME NEW s \in Senders, AfterTimeout(s) PROVE UNCHANGED <<pending, rx_count, tracked>>
  BY <1>6 DEF AfterTimeout, StallRetry, GiveUp, SendRegardless
<1>7. ASSUME NEW s \in Senders, Write(s) \/ AwaitDone(s) \/ WriteError(s)
      PROVE UNCHANGED <<pending, rx_count, tracked>>
  BY <1>7 DEF Write, AwaitDone, WriteError
<1>8. CASE DeviceAnswer BY <1>8 DEF DeviceAnswer
<1>9. CASE ParseEnd \/ flush_notifications BY <1>9 DEF ParseEnd, flush_notifications
<1>10. CASE SoftReset \/ SpuriousSignal BY <1>10 DEF SoftReset, SpuriousSignal
<1>11. ASSUME NEW size \in Sizes, set_rx_buffer_size(size) PROVE UNCHANGED <<pending, rx_count, tracked>>
  BY <1>11 DEF set_rx_buffer_size
<1>12. CASE UNCHANGED vars BY <1>12 DEF vars
<1> QED
  BY <1>1, <1>2, <1>3, <1>4, <1>5, <1>6, <1>7, <1>8, <1>9, <1>10, <1>11, <1>12 DEF Next, Transmit, Reader

\* The pending queue and the byte count stay consistent across every step: a
\* tracked command extends the stream, an answer frees exactly its own bytes.
LEMMA AccountingStep ==
  TypeOK /\ TypeOK' /\ Accounting /\ Ordered /\ [Next]_vars => Accounting' /\ Ordered'
<1> SUFFICES ASSUME TypeOK, TypeOK', Accounting, Ordered, [Next]_vars PROVE Accounting' /\ Ordered'
  OBVIOUS
<1>t. /\ pending \in Seq(Command) /\ Len(pending) \in Nat
      /\ pending = <<>> <=> Len(pending) = 0
      /\ \A k \in 1 .. Len(pending) : pending[k].length \in Nat /\ pending[k].mark \in Nat
      /\ rx_count \in Nat /\ tracked \in Nat
  <2>1. pending \in Seq(Command) /\ rx_count \in Nat /\ tracked \in Nat
    BY DEF TypeOK
  <2>2. \A k \in 1 .. Len(pending) : pending[k] \in Command
    BY <2>1, QueueFacts
  <2> QED BY <2>1, <2>2, QueueFacts DEF Command
<1>1. CASE UNCHANGED <<pending, rx_count, tracked>>
  BY <1>1 DEF Accounting, Ordered
<1>2. ASSUME NEW s \in Senders, track_command(s) PROVE Accounting' /\ Ordered'
  <2> DEFINE c == cmd'[s]  n == Len(pending)
  <2>1. c \in Command /\ c.length \in Nat /\ c.mark = tracked' /\ c.length = cmd[s].length
    <3>1. cmd[s] \in Command
      BY DEF TypeOK
    <3> QED BY <1>2, <3>1 DEF track_command, TypeOK, Command
  <2>2. tracked' = tracked + c.length /\ rx_count' = rx_count + c.length
    BY <1>2, <2>1 DEF track_command
  <2>a. pending' = Append(pending, c)
    BY <1>2 DEF track_command
  <2> HIDE DEF c
  <2>3. /\ Len(pending') = n + 1 /\ pending'[n + 1] = c /\ pending' # <<>>
        /\ \A k \in 1 .. n : pending'[k] = pending[k]
    BY <1>t, <2>1, <2>a, AppendFacts
  <2>4. Ordered'
    <3>1. \A k \in 1 .. n + 1 : (k \in 1 .. n /\ pending'[k] = pending[k]) \/ (k = n + 1 /\ pending'[k] = c)
      BY <1>t, <2>3
    <3>2. \A k \in 1 .. n : pending[k].length <= pending[k].mark /\ pending[k].mark <= tracked
      BY DEF Ordered
    <3>3. \A k \in 1 .. n + 1 : pending'[k].length <= pending'[k].mark /\ pending'[k].mark <= tracked'
      <4> SUFFICES ASSUME NEW k \in 1 .. n + 1
                   PROVE  pending'[k].length <= pending'[k].mark /\ pending'[k].mark <= tracked'
        OBVIOUS
      <4>1. CASE k = n + 1 /\ pending'[k] = c
        BY <1>t, <2>1, <2>2, <4>1
      <4>2. CASE k \in 1 .. n /\ pending'[k] = pending[k]
        <5>1. pending[k].mark \in Nat /\ tracked \in Nat /\ c.length \in Nat
          BY <1>t, <2>1, <4>2
        <5> QED BY <2>2, <3>2, <4>2, <5>1
      <4> QED BY <3>1, <4>1, <4>2
    <3>4. ASSUME NEW i \in 1 .. n + 1, NEW j \in 1 .. n + 1, i < j
          PROVE pending'[i].mark + pending'[j].length <= pending'[j].mark
      <4>1. CASE j \in 1 .. n
        BY <1>t, <2>3, <3>4, <4>1 DEF Ordered
      <4>2. CASE j = n + 1
        <5>1. i \in 1 .. n /\ pending'[i] = pending[i] /\ pending'[j] = c
          BY <1>t, <2>3, <3>4, <4>2
        <5> QED BY <1>t, <2>1, <2>2, <3>2, <5>1
      <4> QED BY <1>t, <4>1, <4>2
    <3> QED BY <2>3, <3>3, <3>4 DEF Ordered
  <2>5. Accounting'
    <3>1. CASE n = 0
      BY <1>t, <2>1, <2>2, <2>3, <3>1 DEF Accounting
    <3>2. CASE n > 0
      <4>1. /\ pending # <<>> /\ pending[n].mark = tracked
            /\ pending[1].mark + rx_count = tracked + pending[1].length
            /\ \A k \in 1 .. n - 1 : pending[k + 1].mark = pending[k].mark + pending[k + 1].length
        BY <1>t, <3>2 DEF Accounting
      <4>2. pending'[1] = pending[1] /\ pending'[n] = pending[n]
        BY <1>t, <2>3, <3>2
      <4>3. pending'[1].mark + rx_count' = tracked' + pending'[1].length
        <5>1. pending[1].mark \in Nat /\ pending[1].length \in Nat
          BY <1>t, <3>2
        <5>2. rx_count \in Nat /\ tracked \in Nat /\ c.length \in Nat
          BY <1>t, <2>1
        <5>3. pending[1].mark + (rx_count + c.length) = (tracked + c.length) + pending[1].length
          <6>1. pending[1].mark + rx_count = tracked + pending[1].length
            BY <4>1
          <6> QED BY <5>1, <5>2, <6>1
        <5> QED BY <2>2, <4>2, <5>3
      <4>4. ASSUME NEW k \in 1 .. n PROVE pending'[k + 1].mark = pending'[k].mark + pending'[k + 1].length
        <5>1. CASE k = n
          BY <1>t, <2>1, <2>2, <2>3, <4>1, <4>2, <5>1
        <5>2. CASE k \in 1 .. n - 1
          <6>1. pending'[k] = pending[k] /\ pending'[k + 1] = pending[k + 1]
            BY <1>t, <2>3, <5>2
          <6> QED BY <4>1, <5>2, <6>1
        <5> QED BY <1>t, <5>1, <5>2
      <4> QED BY <1>t, <2>1, <2>3, <4>3, <4>4 DEF Accounting
    <3> QED BY <1>t, <3>1, <3>2
  <2> QED BY <2>4, <2>5
<1>3. CASE ParseAck
  <2>1. tracked' = tracked
    BY <1>3 DEF ParseAck, ghostVars
  <2>2. CASE pending = <<>>
    <3>1. pending' = pending /\ rx_count' = rx_count
      BY <1>3, <2>2 DEF ParseAck, ack_ok_locked
    <3> QED BY <2>1, <3>1 DEF Accounting, Ordered
  <2>3. CASE pending # <<>>
    <3> DEFINE n == Len(pending)
    <3>1. pending' = Tail(pending) /\ rx_count' = MonusNat(rx_count, Head(pending).length)
      BY <1>3, <2>3 DEF ParseAck, ack_ok_locked
    <3>2. /\ Head(pending) = pending[1] /\ n >= 1 /\ Len(pending') = n - 1
          /\ \A k \in 1 .. n - 1 : pending'[k] = pending[k + 1]
      <4>1. /\ Head(pending) = pending[1] /\ Len(pending) >= 1 /\ Len(Tail(pending)) = Len(pending) - 1
            /\ \A k \in 1 .. Len(pending) - 1 : Tail(pending)[k] = pending[k + 1]
        BY <1>t, <2>3, TailFacts
      <4>2. Len(pending') = Len(Tail(pending)) /\ \A k \in 1 .. Len(pending) - 1 : pending'[k] = Tail(pending)[k]
        BY <3>1
      <4> QED BY <4>1, <4>2
    <3>a. pending' = <<>> <=> n = 1
      <4>1. pending' \in Seq(Command)
        BY DEF TypeOK
      <4>2. pending' = <<>> <=> Len(pending') = 0
        BY <4>1, QueueFacts
      <4> QED BY <1>t, <3>2, <4>2
    <3>3. pending[1].length <= rx_count /\ rx_count' = rx_count - pending[1].length
      BY <1>t, <2>3, <3>1, <3>2 DEF Accounting, Ordered, MonusNat
    <3>4. Ordered'
      <4>1. \A k \in 1 .. Len(pending') : k + 1 \in 1 .. n /\ pending'[k] = pending[k + 1]
        BY <1>t, <3>2
      <4>2. \A k \in 1 .. Len(pending') :
               pending'[k].length <= pending'[k].mark /\ pending'[k].mark <= tracked'
        BY <2>1, <4>1 DEF Ordered
      <4>3. ASSUME NEW i \in 1 .. Len(pending'), NEW j \in 1 .. Len(pending'), i < j
            PROVE pending'[i].mark + pending'[j].length <= pending'[j].mark
        <5>1. i + 1 < j + 1
          BY <4>3, <3>2, <1>t
        <5> QED BY <4>1, <5>1 DEF Ordered
      <4> QED BY <4>2, <4>3 DEF Ordered
    <3>5. CASE n = 1
      BY <1>t, <2>1, <2>3, <3>2, <3>a, <3>3, <3>4, <3>5 DEF Accounting
    <3>6. CASE n > 1
      <4>1. /\ pending[n].mark = tracked
            /\ pending[1].mark + rx_count = tracked + pending[1].length
            /\ \A k \in 1 .. n - 1 : pending[k + 1].mark = pending[k].mark + pending[k + 1].length
        BY <2>3 DEF Accounting
      <4>2. pending'[1] = pending[2] /\ pending'[n - 1] = pending[n]
        BY <1>t, <3>2, <3>6
      <4>3. pending'[1].mark + rx_count' = tracked' + pending'[1].length
        <5>1. pending[2].mark = pending[1].mark + pending[2].length
          BY <1>t, <3>6, <4>1
        <5>2. /\ pending[1].mark \in Nat /\ pending[1].length \in Nat
              /\ pending[2].mark \in Nat /\ pending[2].length \in Nat
          BY <1>t, <3>6
        <5>3. rx_count \in Nat /\ tracked \in Nat
          BY <1>t
        <5>4. pending[2].mark + (rx_count - pending[1].length) = tracked + pending[2].length
          <6>1. pending[1].mark + rx_count = tracked + pending[1].length
            BY <4>1
          <6> QED BY <5>1, <5>2, <5>3, <6>1
        <5> QED BY <2>1, <3>3, <4>2, <5>4
      <4>4. ASSUME NEW k \in 1 .. (n - 1) - 1
            PROVE pending'[k + 1].mark = pending'[k].mark + pending'[k + 1].length
        <5>1. /\ k \in 1 .. n - 1 /\ k + 1 \in 1 .. n - 1
              /\ pending'[k] = pending[k + 1] /\ pending'[k + 1] = pending[(k + 1) + 1]
          BY <1>t, <3>2
        <5>2. pending[(k + 1) + 1].mark = pending[k + 1].mark + pending[(k + 1) + 1].length
          BY <4>1, <5>1
        <5> QED BY <5>1, <5>2
      <4> QED BY <1>t, <2>1, <3>2, <3>a, <3>4, <3>6, <4>1, <4>2, <4>3, <4>4 DEF Accounting
    <3> QED BY <1>t, <3>2, <3>5, <3>6
  <2> QED BY <2>2, <2>3
<1>4. CASE reset_flow_control
  BY <1>4, <1>t DEF reset_flow_control, Accounting, Ordered
<1> QED BY <1>1, <1>2, <1>3, <1>4, AccountingFrame

\* rx_count is at all times the byte length of the commands in `pending', in
\* every behaviour and for every instance: resets, answers that match no
\* command, failed writes and concurrent senders included.
THEOREM AccountingCorrect == Spec => []Accounting
<1>1. Init => Accounting /\ Ordered
  BY DEF Init, Accounting, Ordered
<1>2. TypeOK /\ TypeOK' /\ (Accounting /\ Ordered) /\ [Next]_vars => (Accounting /\ Ordered)'
  BY AccountingStep
<1> QED BY <1>1, <1>2, TypeCorrect, PTL DEF Spec

-----------------------------------------------------------------------------
(* Back-pressure and attribution while the discipline holds.               *)

\* A step that leaves the queues and counts alone, writes nothing, and grants
\* space only where it found some.
Quiet ==
    /\ UNCHANGED <<pending, rx_count, rx_size, wire, rx_used, acks, breaches>>
    /\ \A t \in Senders :
          /\ pc'[t] = "tracked" <=> pc[t] = "tracked"
          /\ pc[t] = "tracked" => cmd'[t] = cmd[t]
          /\ pc'[t] = "granted" => \/ pc[t] = "granted" /\ cmd'[t] = cmd[t]
                                  \/ rx_count + cmd'[t].length <= rx_size

\* The steps that are not quiet are the sends, the answers and the resets.
LEMMA QuietFrame ==
  ASSUME TypeOK, [Next]_vars
  PROVE  \/ Quiet
         \/ \E s \in Senders : SendRegardless(s) \/ track_command(s) \/ Write(s) \/ WriteError(s)
         \/ DeviceAnswer \/ ParseAck \/ reset_flow_control \/ SoftReset
         \/ \E size \in Sizes : set_rx_buffer_size(size)
<1> USE DEF flowVars, deviceVars, ghostVars, Goto, Quiet
<1>t. /\ pc \in [Senders -> PC] /\ cmd \in [Senders -> Command] /\ rx_count \in Nat /\ rx_size \in Nat
      /\ \A t \in Senders : cmd[t].length \in Nat
  <2>1. /\ pc \in [Senders -> PC] /\ cmd \in [Senders -> Command] /\ rx_count \in Nat /\ rx_size \in Nat
    BY DEF TypeOK
  <2> QED BY <2>1, CommandFacts
<1>1. ASSUME NEW s \in Senders, NEW n \in Lengths, Start(s, n) PROVE Quiet
  BY <1>t, <1>1 DEF Start
<1>2. ASSUME NEW s \in Senders, AcquireLock(s) PROVE Quiet
  BY <1>t, <1>2 DEF AcquireLock
<1>3. ASSUME NEW s \in Senders, DrainWait(s) PROVE Quiet
  BY <1>t, <1>3 DEF DrainWait, DrainCheck, DrainRegister, DrainRecheck, DrainWake
<1>4. ASSUME NEW s \in Senders, SpaceWait(s) PROVE Quiet
  <2>1. CASE SpaceCheck(s) BY <1>t, <2>1 DEF SpaceCheck, needs_space
  <2>2. CASE SpaceRegister(s) BY <1>t, <2>2 DEF SpaceRegister
  <2>3. CASE SpaceRecheck(s) BY <1>t, <2>3 DEF SpaceRecheck, needs_space
  <2>4. CASE SpaceWake(s) BY <1>t, <2>4 DEF SpaceWake
  <2> QED BY <1>4, <2>1, <2>2, <2>3, <2>4 DEF SpaceWait
<1>5. ASSUME NEW s \in Senders, SpaceTimeout(s) PROVE Quiet
  BY <1>t, <1>5 DEF SpaceTimeout, needs_space
<1>6. ASSUME NEW s \in Senders, StallRetry(s) \/ GiveUp(s) \/ AwaitDone(s) PROVE Quiet
  BY <1>t, <1>6 DEF StallRetry, GiveUp, AwaitDone
<1>7. CASE ParseEnd BY <1>t, <1>7 DEF ParseEnd
<1>8. CASE flush_notifications BY <1>t, <1>8 DEF flush_notifications
<1>9. CASE SpuriousSignal BY <1>t, <1>9 DEF SpuriousSignal
<1>10. CASE UNCHANGED vars BY <1>t, <1>10 DEF vars
<1> HIDE DEF Quiet
<1> QED
  BY <1>1, <1>2, <1>3, <1>4, <1>5, <1>6, <1>7, <1>8, <1>9, <1>10 DEF Next, Transmit, Reader, AfterTimeout

\* As long as no step breaks the discipline, the pending queue mirrors the
\* answers in flight and the device's RX buffer, and granted space stays free.
LEMMA DisciplineStep ==
  TypeOK /\ TypeOK' /\ Accounting /\ Disciplined /\ [Next]_vars => Disciplined'
<1> SUFFICES ASSUME TypeOK, TypeOK', Accounting, Disciplined, [Next]_vars, breaches' = {}
             PROVE  InStep' /\ Room' /\ DeviceBytes'
  BY DEF Disciplined
<1> DEFINE n == Len(pending)  a == Len(acks)  w == Len(wire)
<1>t. /\ pending \in Seq(Command) /\ acks \in Seq(Command) /\ wire \in Seq(Command)
      /\ n \in Nat /\ a \in Nat /\ w \in Nat
      /\ (pending = <<>> <=> n = 0) /\ (acks = <<>> <=> a = 0) /\ (wire = <<>> <=> w = 0)
      /\ rx_count \in Nat /\ rx_size \in Nat /\ rx_used \in Int
      /\ \A t \in Senders : cmd[t] \in Command /\ cmd[t].length \in Nat /\ cmd[t].mark \in Nat
      /\ \A k \in 1 .. w : wire[k].length \in Nat /\ wire[k].mark \in Nat
      /\ pc \in [Senders -> PC] /\ cmd \in [Senders -> Command]
  <2>1. /\ pending \in Seq(Command) /\ acks \in Seq(Command) /\ wire \in Seq(Command)
        /\ rx_count \in Nat /\ rx_size \in Nat /\ rx_used \in Int
        /\ pc \in [Senders -> PC] /\ cmd \in [Senders -> Command]
    BY DEF TypeOK
  <2>2. \A k \in 1 .. w : wire[k] \in Command
    BY <2>1, QueueFacts
  <2> QED BY <2>1, <2>2, QueueFacts, CommandFacts
<1>i. ASSUME breaches = {} PROVE InStep /\ Room /\ DeviceBytes
  BY <1>i DEF Disciplined
<1>1. CASE Quiet
  <2>1. InStep /\ Room /\ DeviceBytes
    BY <1>1, <1>i DEF Quiet
  <2>2. InStep'
    BY <1>1, <2>1 DEF Quiet, InStep
  <2>3. Room'
    BY <1>1, <2>1 DEF Quiet, Room
  <2>4. DeviceBytes'
    BY <1>1, <2>1 DEF Quiet, DeviceBytes
  <2> QED BY <2>2, <2>3, <2>4
<1>2. ASSUME NEW s \in Senders, SendRegardless(s) \/ WriteError(s) PROVE FALSE
  BY <1>2 DEF SendRegardless, WriteError
<1>3. ASSUME NEW s \in Senders, track_command(s) PROVE InStep' /\ Room' /\ DeviceBytes'
  <2> DEFINE c == cmd'[s]
  <2>1. breaches = {} /\ \A t \in Senders \ {s} : pc[t] \notin {"granted", "tracked"}
    BY <1>3 DEF track_command
  <2>2. InStep /\ Room /\ DeviceBytes
    BY <2>1, <1>i
  <2>3. /\ pc[s] = "granted" /\ pc'[s] = "tracked" /\ \A t \in Senders \ {s} : pc'[t] = pc[t] /\ cmd'[t] = cmd[t]
        /\ rx_count' = rx_count + cmd[s].length
        /\ UNCHANGED <<rx_size, wire, rx_used, acks>>
    BY <1>3, <1>t DEF track_command, Goto, deviceVars
  <2>4. pending' = Append(pending, c)
    BY <1>3 DEF track_command
  <2>5. c \in Command
    BY DEF TypeOK
  <2> HIDE DEF c
  <2>6. /\ Len(pending') = n + 1 /\ pending'[n + 1] = c
        /\ \A k \in 1 .. n : pending'[k] = pending[k]
    BY <1>t, <2>4, <2>5, AppendFacts
  <2>7. n = a + w
    BY <2>1, <2>2, <2>3 DEF InStep
  <2>8. InStep'
    <3>1. \A k \in 1 .. Len(acks') : k <= Len(pending') /\ acks'[k] = pending'[k]
      BY <1>t, <2>2, <2>3, <2>6, <2>7 DEF InStep
    <3>2. \A k \in 1 .. Len(wire') : Len(acks') + k <= Len(pending') /\ wire'[k] = pending'[Len(acks') + k]
      <4> SUFFICES ASSUME NEW k \in 1 .. w
                   PROVE  a + k <= Len(pending') /\ wire[k] = pending'[a + k]
        BY <2>3
      <4>1. a + k \in 1 .. n /\ wire[k] = pending[a + k]
        BY <1>t, <2>2, <2>7 DEF InStep
      <4> QED BY <1>t, <2>6, <4>1
    <3>3. \A t \in Senders : pc'[t] = "tracked" => t = s
      BY <2>1, <2>3
    <3>4. Len(pending') = Len(acks') + Len(wire') + 1 /\ pending'[Len(pending')] = cmd'[s]
      BY <1>t, <2>3, <2>6, <2>7 DEF c
    <3> QED BY <2>3, <3>1, <3>2, <3>3, <3>4 DEF InStep
  <2>9. Room'
    BY <1>t, <2>1, <2>2, <2>3 DEF Room
  <2>10. DeviceBytes'
    BY <2>2, <2>3 DEF DeviceBytes
  <2> QED BY <2>8, <2>9, <2>10
<1>4. ASSUME NEW s \in Senders, Write(s) PROVE InStep' /\ Room' /\ DeviceBytes'
  <2>1. breaches = {} /\ UNCHANGED <<pending, rx_count, rx_size, acks, cmd>>
    BY <1>4 DEF Write, ghostVars, flowVars
  <2>2. InStep /\ Room /\ DeviceBytes
    BY <2>1, <1>i
  <2>3. /\ pc[s] = "tracked" /\ pc'[s] \notin {"tracked", "granted"}
        /\ \A t \in Senders \ {s} : pc'[t] = pc[t]
        /\ rx_used' = rx_used + cmd[s].length
    BY <1>4, <1>t DEF Write, Goto
  <2>4. wire' = Append(wire, cmd[s])
    BY <1>4 DEF Write
  <2>5. /\ Len(wire') = w + 1 /\ wire'[w + 1] = cmd[s] /\ wire' # <<>>
        /\ \A k \in 1 .. w : wire'[k] = wire[k]
    <3>1. wire \in Seq(Command) /\ cmd[s] \in Command
      BY <1>t
    <3>2. /\ Len(Append(wire, cmd[s])) = w + 1 /\ Append(wire, cmd[s])[w + 1] = cmd[s]
          /\ Append(wire, cmd[s]) # <<>>
          /\ \A k \in 1 .. w : Append(wire, cmd[s])[k] = wire[k]
      BY <3>1, AppendFacts
    <3> QED BY <2>4, <3>2
  <2>6. n = a + w + 1 /\ pending[n] = cmd[s] /\ \A t \in Senders : pc[t] = "tracked" => t = s
    BY <2>2, <2>3 DEF InStep
  <2>7. \A t \in Senders : pc'[t] # "tracked"
    BY <2>3, <2>6
  <2>8. InStep'
    <3>1. \A k \in 1 .. Len(acks') : k <= Len(pending') /\ acks'[k] = pending'[k]
      BY <2>1, <2>2 DEF InStep
    <3>2. ASSUME NEW k \in 1 .. Len(wire')
          PROVE  Len(acks') + k <= Len(pending') /\ wire'[k] = pending'[Len(acks') + k]
      <4>1. CASE k \in 1 .. w
        BY <1>t, <2>1, <2>2, <2>5, <2>6, <4>1 DEF InStep
      <4>2. CASE k = w + 1
        BY <1>t, <2>1, <2>5, <2>6, <4>2
      <4> QED BY <1>t, <2>5, <4>1, <4>2
    <3>3. Len(pending') = Len(acks') + Len(wire')
      BY <1>t, <2>1, <2>5, <2>6
    <3> QED BY <2>7, <3>1, <3>2, <3>3 DEF InStep
  <2>9. Room'
    BY <1>t, <2>1, <2>2, <2>3 DEF Room
  <2>10. DeviceBytes'
    <3>1. CASE w = 0
      <4>1. rx_used = 0 /\ wire'[1] = cmd[s] /\ Len(wire') = 1
        BY <1>t, <2>2, <2>5, <3>1 DEF DeviceBytes
      <4>2. cmd[s].length \in Nat /\ cmd[s].mark \in Nat
        BY <1>t
      <4>3. rx_used' + cmd[s].mark = cmd[s].mark + cmd[s].length
        BY <2>3, <4>1, <4>2
      <4> QED BY <2>5, <4>1, <4>3 DEF DeviceBytes
    <3>2. CASE w > 0
      <4>1. wire'[1] = wire[1] /\ wire[w] = pending[n - 1] /\ n - 1 \in 1 .. n - 1
        BY <1>t, <2>2, <2>5, <2>6, <3>2 DEF InStep
      <4>2. cmd[s].mark = wire[w].mark + cmd[s].length
        <5>1. pending[(n - 1) + 1].mark = pending[n - 1].mark + pending[(n - 1) + 1].length
          BY <4>1 DEF Accounting
        <5> QED BY <1>t, <2>6, <4>1, <5>1
      <4>3. rx_used + wire[1].mark = wire[w].mark + wire[1].length
        BY <1>t, <2>2, <3>2 DEF DeviceBytes
      <4>4. /\ wire[1].mark \in Nat /\ wire[1].length \in Nat /\ wire[w].mark \in Nat
            /\ cmd[s].length \in Nat /\ rx_used \in Int
        BY <1>t, <3>2
      <4>5. (rx_used + cmd[s].length) + wire[1].mark = cmd[s].mark + wire[1].length
        <5> HIDE DEF w
        <5> QED BY <4>2, <4>3, <4>4
      <4> QED BY <2>3, <2>5, <4>1, <4>5 DEF DeviceBytes
    <3> QED BY <1>t, <3>1, <3>2
  <2> QED BY <2>8, <2>9, <2>10
<1>5. CASE DeviceAnswer
  <2>1. breaches = {} /\ UNCHANGED <<pending, rx_count, rx_size, pc, cmd>> /\ wire # <<>>
    BY <1>5 DEF DeviceAnswer, ghostVars, flowVars
  <2>2. InStep /\ Room /\ DeviceBytes
    BY <2>1, <1>i
  <2>3. wire' = Tail(wire) /\ acks' = Append(acks, Head(wire)) /\ rx_used' = rx_used - Head(wire).length
    BY <1>5 DEF DeviceAnswer
  <2>4. /\ Head(wire) = wire[1] /\ Head(wire) \in Command /\ w >= 1 /\ Len(Tail(wire)) = w - 1
        /\ \A k \in 1 .. w - 1 : Tail(wire)[k] = wire[k + 1]
    BY <1>t, <2>1, TailFacts
  <2>5. Len(wire') = w - 1 /\ \A k \in 1 .. w - 1 : wire'[k] = wire[k + 1]
    BY <2>3, <2>4
  <2>6. /\ Len(acks') = a + 1 /\ acks'[a + 1] = wire[1]
        /\ \A k \in 1 .. a : acks'[k] = acks[k]
    BY <1>t, <2>3, <2>4, AppendFacts
  <2>7. InStep'
    <3>1. ASSUME NEW k \in 1 .. Len(acks') PROVE k <= Len(pending') /\ acks'[k] = pending'[k]
      <4>1. CASE k \in 1 .. a
        BY <2>1, <2>2, <2>6, <4>1 DEF InStep
      <4>2. CASE k = a + 1
        <5>1. 1 \in 1 .. w
          BY <1>t, <2>4
        <5> QED BY <2>1, <2>2, <2>6, <4>2, <5>1 DEF InStep
      <4> QED BY <1>t, <2>6, <4>1, <4>2
    <3>2. ASSUME NEW k \in 1 .. Len(wire')
          PROVE  Len(acks') + k <= Len(pending') /\ wire'[k] = pending'[Len(acks') + k]
      <4>1. k + 1 \in 1 .. w /\ wire'[k] = wire[k + 1] /\ Len(acks') + k = a + (k + 1)
        BY <1>t, <2>5, <2>6
      <4> QED BY <2>1, <2>2, <4>1 DEF InStep
    <3>3. Len(acks') + Len(wire') = a + w
      BY <1>t, <2>5, <2>6
    <3> QED BY <2>1, <2>2, <3>1, <3>2, <3>3 DEF InStep
  <2>8. Room'
    BY <2>1, <2>2 DEF Room
  <2>9. DeviceBytes'
    <3>1. rx_used + wire[1].mark = wire[w].mark + wire[1].length
      BY <2>1, <2>2 DEF DeviceBytes
    <3>2. wire[1].length \in Nat /\ wire[1].mark \in Nat /\ wire[w].mark \in Nat /\ rx_used \in Int
      BY <1>t, <2>4
    <3>3. rx_used' = rx_used - wire[1].length
      BY <2>3, <2>4
    <3>4. wire' = <<>> <=> w = 1
      <4>1. wire' \in Seq(Command)
        BY DEF TypeOK
      <4>2. wire' = <<>> <=> Len(wire') = 0
        BY <4>1, QueueFacts
      <4> QED BY <1>t, <2>5, <4>2
    <3>5. CASE w = 1
      BY <3>1, <3>2, <3>3, <3>4, <3>5 DEF DeviceBytes
    <3>6. CASE w > 1
      <4>1. wire'[1] = wire[2] /\ wire'[w - 1] = wire[w]
        BY <1>t, <2>5, <3>6
      <4>2. wire[1] = pending[a + 1] /\ wire[2] = pending[a + 2] /\ a + 1 \in 1 .. n - 1
        <5>1. 1 \in 1 .. w /\ 2 \in 1 .. w
          BY <1>t, <3>6
        <5>2. \A k \in 1 .. w : a + k <= n /\ wire[k] = pending[a + k]
          BY <2>2 DEF InStep
        <5>3. wire[1] = pending[a + 1] /\ a + 2 <= n /\ wire[2] = pending[a + 2]
          BY <5>1, <5>2
        <5> QED BY <1>t, <5>3
      <4>3. wire[2].mark = wire[1].mark + wire[2].length
        <5>1. pending[(a + 1) + 1].mark = pending[a + 1].mark + pending[(a + 1) + 1].length
          BY <4>2 DEF Accounting
        <5>2. (a + 1) + 1 = a + 2
          BY <1>t
        <5> QED BY <4>2, <5>1, <5>2
      <4>4. wire[2].length \in Nat /\ wire[2].mark \in Nat
        BY <1>t, <3>6
      <4>5. (rx_used - wire[1].length) + wire[2].mark = wire[w].mark + wire[2].length
        <5> HIDE DEF w
        <5> QED BY <3>1, <3>2, <4>3, <4>4
      <4>6. rx_used' + wire'[1].mark = wire'[w - 1].mark + wire'[1].length
        BY <3>3, <4>1, <4>5
      <4>7. wire' # <<>> /\ Len(wire') = w - 1
        BY <1>t, <2>5, <3>4, <3>6
      <4>8. wire'[Len(wire')] = wire'[w - 1]
        BY <4>7
      <4>9. rx_used' + wire'[1].mark = wire'[Len(wire')].mark + wire'[1].length
        BY <4>6, <4>8
      <4>10. wire' # <<>>
        BY <4>7
      <4> QED BY <4>9, <4>10 DEF DeviceBytes
    <3>7. w = 1 \/ w > 1
      <4>1. w \in Nat /\ w >= 1
        BY <1>t, <2>4, Zenon
      <4> HIDE DEF w
      <4> QED BY <4>1
    <3> QED BY <3>5, <3>6, <3>7
  <2> QED BY <2>7, <2>8, <2>9
<1>6. CASE ParseAck
  <2>1. breaches = {} /\ UNCHANGED <<rx_size, pc, cmd, wire, rx_used>> /\ acks # <<>>
    BY <1>6 DEF ParseAck, ghostVars
  <2>2. InStep /\ Room /\ DeviceBytes
    BY <2>1, <1>i
  <2>3. a >= 1 /\ n >= 1 /\ pending # <<>> /\ a + w <= n
    <3>1. a >= 1 /\ 1 \in 1 .. a
      BY <1>t, <2>1
    <3>2. n >= 1 /\ pending # <<>>
      BY <1>t, <2>2, <3>1 DEF InStep
    <3>3. a + w <= n
      BY <1>t, <2>2 DEF InStep
    <3> QED BY <3>1, <3>2, <3>3
  <2>4. acks' = Tail(acks) /\ pending' = Tail(pending) /\ rx_count' = MonusNat(rx_count, Head(pending).length)
    BY <1>6, <2>3 DEF ParseAck, ack_ok_locked
  <2>5. /\ Head(pending) \in Command /\ Len(Tail(pending)) = n - 1
        /\ \A k \in 1 .. n - 1 : Tail(pending)[k] = pending[k + 1]
    BY <1>t, <2>3, TailFacts
  <2>6. Len(Tail(acks)) = a - 1 /\ \A k \in 1 .. a - 1 : Tail(acks)[k] = acks[k + 1]
    BY <1>t, <2>1, TailFacts
  <2>7. Len(pending') = n - 1 /\ \A k \in 1 .. n - 1 : pending'[k] = pending[k + 1]
    BY <2>4, <2>5
  <2>8. Len(acks') = a - 1 /\ \A k \in 1 .. a - 1 : acks'[k] = acks[k + 1]
    BY <2>4, <2>6
  <2>9. rx_count' <= rx_count
    <3>1. Head(pending).length \in Nat
      BY <2>5, CommandFacts
    <3>2. \A x, y \in Nat : MonusNat(x, y) <= x
      BY DEF MonusNat
    <3> QED BY <1>t, <2>4, <3>1, <3>2
  <2>10. rx_count' \in Nat
    BY DEF TypeOK
  <2>11. InStep'
    <3>1. ASSUME NEW k \in 1 .. Len(acks') PROVE k <= Len(pending') /\ acks'[k] = pending'[k]
      <4>1. k + 1 \in 1 .. a /\ k \in 1 .. n - 1
        BY <1>t, <2>3, <2>8
      <4>2. acks'[k] = acks[k + 1] /\ pending'[k] = pending[k + 1]
        BY <1>t, <2>7, <2>8, <4>1
      <4> QED BY <1>t, <2>2, <2>7, <4>1, <4>2 DEF InStep
    <3>2. ASSUME NEW k \in 1 .. Len(wire')
          PROVE  Len(acks') + k <= Len(pending') /\ wire'[k] = pending'[Len(acks') + k]
      <4>1. k \in 1 .. w /\ Len(acks') + k \in 1 .. n - 1 /\ (Len(acks') + k) + 1 = a + k
        BY <1>t, <2>1, <2>3, <2>8
      <4>2. pending'[Len(acks') + k] = pending[(Len(acks') + k) + 1]
        BY <2>7, <4>1
      <4> QED BY <1>t, <2>1, <2>2, <2>7, <4>1, <4>2 DEF InStep
    <3>3. ASSUME NEW s \in Senders, pc'[s] = "tracked"
          PROVE  /\ Len(pending') = Len(acks') + Len(wire') + 1
                 /\ pending'[Len(pending')] = cmd'[s]
                 /\ \A t \in Senders : pc'[t] = "tracked" => t = s
      <4>1. n = a + w + 1 /\ pending[n] = cmd[s] /\ \A t \in Senders : pc[t] = "tracked" => t = s
        BY <2>1, <2>2, <3>3 DEF InStep
      <4>2. n - 1 \in 1 .. n - 1 /\ (n - 1) + 1 = n
        BY <1>t, <2>3, <4>1
      <4>3. pending'[n - 1] = pending[n]
        BY <2>7, <4>2
      <4> QED BY <1>t, <2>1, <2>7, <2>8, <4>1, <4>3
    <3>4. (\A s \in Senders : pc'[s] # "tracked") => Len(pending') = Len(acks') + Len(wire')
      BY <1>t, <2>1, <2>2, <2>7, <2>8 DEF InStep
    <3> QED BY <3>1, <3>2, <3>3, <3>4 DEF InStep
  <2>12. Room'
    BY <1>t, <2>1, <2>2, <2>9, <2>10 DEF Room
  <2>13. DeviceBytes'
    BY <2>1, <2>2 DEF DeviceBytes
  <2> QED BY <2>11, <2>12, <2>13
<1>7. CASE reset_flow_control
  <2>1. /\ breaches = {} /\ wire = <<>> /\ acks = <<>> /\ \A s \in Senders : pc[s] # "tracked"
        /\ rx_count' = 0 /\ pending' = <<>> /\ UNCHANGED <<rx_size, wire, rx_used, acks, pc, cmd>>
    BY <1>7 DEF reset_flow_control, Outstanding, deviceVars
  <2>2. InStep /\ Room /\ DeviceBytes
    BY <2>1, <1>i
  <2>3. Len(<<>>) = 0
    OBVIOUS
  <2>4. InStep'
    BY <1>t, <2>1, <2>3 DEF InStep
  <2>5. Room'
    BY <1>t, <2>1, <2>2 DEF Room
  <2>6. DeviceBytes'
    BY <2>1, <2>2 DEF DeviceBytes
  <2> QED BY <2>4, <2>5, <2>6
<1>8. CASE SoftReset
  <2>1. /\ breaches = {} /\ wire = <<>> /\ wire' = wire /\ rx_used' = 0
        /\ UNCHANGED <<pending, rx_count, rx_size, acks, pc, cmd>>
    BY <1>8 DEF SoftReset, Outstanding, flowVars
  <2>2. InStep /\ Room /\ DeviceBytes
    BY <2>1, <1>i
  <2> QED BY <2>1, <2>2 DEF InStep, Room, DeviceBytes
<1>9. ASSUME NEW size \in Sizes, set_rx_buffer_size(size) PROVE InStep' /\ Room' /\ DeviceBytes'
  <2>1. /\ breaches = {} /\ pending = <<>> /\ \A s \in Senders : pc[s] = "idle"
        /\ UNCHANGED <<pending, rx_count, wire, rx_used, acks, pc, cmd>>
    BY <1>9 DEF set_rx_buffer_size, deviceVars
  <2>2. InStep /\ Room /\ DeviceBytes
    BY <2>1, <1>i
  <2>3. rx_count' = 0 /\ rx_size' \in Nat
    BY <2>1 DEF Accounting, TypeOK
  <2>4. Room'
    BY <2>1, <2>3 DEF Room
  <2> QED BY <2>1, <2>2, <2>4 DEF InStep, DeviceBytes
<1> QED BY <1>1, <1>2, <1>3, <1>4, <1>5, <1>6, <1>7, <1>8, <1>9, QuietFrame

\* The inductive invariant behind the two theorems below.
Inv == Accounting /\ Ordered /\ Disciplined

\* Every reachable state satisfies it: the counter, the marks and the three queues agree.
LEMMA InvCorrect == Spec => []Inv
<1>1. Init => Inv
  BY SizesAssumption DEF Init, Inv, Accounting, Ordered, Disciplined, InStep, Room, DeviceBytes
<1>2. TypeOK /\ TypeOK' /\ Inv /\ [Next]_vars => Inv'
  BY AccountingStep, DisciplineStep DEF Inv
<1> QED BY <1>1, <1>2, TypeCorrect, PTL DEF Spec

\* The bytes in the device's RX buffer are a stretch of the bytes `pending'
\* spans, so they are at most rx_count, which is at most rx_size.
LEMMA OverflowFree == TypeOK /\ Inv => NoOverflow
<1> SUFFICES ASSUME TypeOK, Inv, breaches = {} PROVE rx_used <= rx_size
  BY DEF NoOverflow
<1> DEFINE n == Len(pending)  a == Len(acks)  w == Len(wire)
<1>1. InStep /\ Room /\ DeviceBytes /\ Accounting /\ Ordered
  BY DEF Inv, Disciplined
<1>2. /\ pending \in Seq(Command) /\ wire \in Seq(Command) /\ acks \in Seq(Command)
      /\ rx_count \in Nat /\ rx_size \in Nat /\ rx_used \in Int /\ tracked \in Nat
  BY DEF TypeOK
<1>3. /\ n \in Nat /\ a \in Nat /\ w \in Nat /\ (wire = <<>> <=> w = 0) /\ (pending = <<>> <=> n = 0)
      /\ \A k \in 1 .. n : pending[k].length \in Nat /\ pending[k].mark \in Nat
  <2>1. \A k \in 1 .. n : pending[k] \in Command
    BY <1>2, QueueFacts
  <2> QED BY <1>2, <2>1, QueueFacts, CommandFacts
<1>4. CASE w = 0
  BY <1>1, <1>2, <1>3, <1>4 DEF DeviceBytes, Room
<1>5. CASE w > 0
  <2>1. /\ wire[1] = pending[a + 1] /\ wire[w] = pending[a + w]
        /\ a + 1 \in 1 .. n /\ a + w \in 1 .. n /\ 1 \in 1 .. n
    BY <1>1, <1>3, <1>5 DEF InStep
  <2>2. rx_used + pending[a + 1].mark = pending[a + w].mark + pending[a + 1].length
    BY <1>1, <1>3, <1>5, <2>1 DEF DeviceBytes
  <2>3. pending[a + w].mark <= tracked
    BY <1>1, <2>1 DEF Ordered
  <2>4. pending[1].mark + rx_count = tracked + pending[1].length
    BY <1>1, <1>3, <2>1 DEF Accounting
  <2>5. a = 0 \/ pending[1].mark + pending[a + 1].length <= pending[a + 1].mark
    BY <1>1, <1>3, <2>1 DEF Ordered
  <2>6. /\ pending[1].mark \in Nat /\ pending[1].length \in Nat /\ pending[a + 1].mark \in Nat
        /\ pending[a + 1].length \in Nat /\ pending[a + w].mark \in Nat
    BY <1>3, <2>1
  <2>7. rx_used <= rx_count
    <3> DEFINE m1 == pending[1].mark  l1 == pending[1].length
               ma == pending[a + 1].mark  la == pending[a + 1].length  mw == pending[a + w].mark
    <3>1. m1 \in Nat /\ l1 \in Nat /\ ma \in Nat /\ la \in Nat /\ mw \in Nat
      BY <2>6
    <3>2. rx_used + ma = mw + la /\ mw <= tracked /\ m1 + rx_count = tracked + l1
      BY <2>2, <2>3, <2>4
    <3>3. (ma = m1 /\ la = l1) \/ m1 + la <= ma
      BY <1>3, <2>5
    <3> HIDE DEF m1, l1, ma, la, mw
    <3> QED BY <1>2, <3>1, <3>2, <3>3
  <2> QED BY <1>1, <1>2, <2>7 DEF Room
<1> QED BY <1>3, <1>4, <1>5

\* The device's RX buffer never overflows, whatever the senders, lengths and
\* sizes, unless a step on the list of breaches happened before.
THEOREM Backpressure == Spec => []NoOverflow
BY InvCorrect, TypeCorrect, OverflowFree, PTL

\* Under the same discipline an ok or error is always charged to the command
\* the device answered.
THEOREM Attribution == Spec => []AckAttribution
<1>1. TypeOK /\ Inv => AckAttribution
  <2> SUFFICES ASSUME TypeOK, Inv, breaches = {}, acks # <<>>
               PROVE  pending # <<>> /\ Head(pending) = Head(acks)
    BY DEF AckAttribution
  <2>1. pending \in Seq(Command) /\ acks \in Seq(Command) /\ InStep
    BY DEF TypeOK, Inv, Disciplined
  <2>2. Len(acks) >= 1 /\ Head(acks) = acks[1] /\ 1 \in 1 .. Len(acks)
    BY <2>1, TailFacts
  <2>3. 1 <= Len(pending) /\ acks[1] = pending[1]
    BY <2>1, <2>2 DEF InStep
  <2>4. pending # <<>>
    BY <2>1, <2>3, QueueFacts
  <2>5. Head(pending) = pending[1]
    BY <2>1, <2>4, TailFacts
  <2> QED BY <2>2, <2>3, <2>4, <2>5
<1> QED BY <1>1, InvCorrect, TypeCorrect, PTL

-----------------------------------------------------------------------------
(* No lost wake-up.                                                        *)

\* Nobody who parks is forgotten: freeing bytes obliges the reader to flush,
\* and the flush and every reset empty the set of waiters.
LEMMA WakeStep ==
  TypeOK /\ TypeOK' /\ NoLostSpace /\ NoLostDrain /\ [Next]_vars => NoLostSpace' /\ NoLostDrain'
<1> SUFFICES ASSUME TypeOK, TypeOK', NoLostSpace, NoLostDrain, [Next]_vars
             PROVE  NoLostSpace' /\ NoLostDrain'
  OBVIOUS
<1>t. /\ pc \in [Senders -> PC] /\ cmd \in [Senders -> Command]
      /\ space_waiters \subseteq Senders /\ drain_waiters \subseteq Senders
  BY DEF TypeOK
<1> USE DEF NoLostSpace, NoLostDrain, needs_space, flowVars, notifyVars, deviceVars, ghostVars, Goto
<1>1. ASSUME NEW s \in Senders, NEW n \in Lengths, Start(s, n) PROVE NoLostSpace' /\ NoLostDrain'
  BY <1>t, <1>1 DEF Start
<1>2. ASSUME NEW s \in Senders, AcquireLock(s) PROVE NoLostSpace' /\ NoLostDrain'
  BY <1>t, <1>2 DEF AcquireLock
<1>3. ASSUME NEW s \in Senders, DrainWait(s) PROVE NoLostSpace' /\ NoLostDrain'
  <2>1. CASE DrainCheck(s) BY <1>t, <2>1 DEF DrainCheck
  <2>2. CASE DrainRegister(s) BY <1>t, <2>2 DEF DrainRegister
  <2>3. CASE DrainRecheck(s) BY <1>t, <2>3 DEF DrainRecheck
  <2>4. CASE DrainWake(s) BY <1>t, <2>4 DEF DrainWake
  <2> QED BY <1>3, <2>1, <2>2, <2>3, <2>4 DEF DrainWait
<1>4. ASSUME NEW s \in Senders, SpaceWait(s) PROVE NoLostSpace' /\ NoLostDrain'
  <2>1. CASE SpaceCheck(s) BY <1>t, <2>1 DEF SpaceCheck
  <2>2. CASE SpaceRegister(s) BY <1>t, <2>2 DEF SpaceRegister
  <2>3. CASE SpaceRecheck(s) BY <1>t, <2>3 DEF SpaceRecheck
  <2>4. CASE SpaceWake(s) BY <1>t, <2>4 DEF SpaceWake
  <2> QED BY <1>4, <2>1, <2>2, <2>3, <2>4 DEF SpaceWait
<1>5. ASSUME NEW s \in Senders, SpaceTimeout(s) PROVE NoLostSpace' /\ NoLostDrain'
  BY <1>t, <1>5 DEF SpaceTimeout
<1>6. ASSUME NEW s \in Senders, AfterTimeout(s) PROVE NoLostSpace' /\ NoLostDrain'
  BY <1>t, <1>6 DEF AfterTimeout, StallRetry, GiveUp, SendRegardless
<1>7. ASSUME NEW s \in Senders, track_command(s) PROVE NoLostSpace' /\ NoLostDrain'
  <2>1. /\ \A t \in Senders \ {s} : pc'[t] = pc[t] /\ cmd'[t] = cmd[t]
        /\ pc'[s] = "tracked" /\ rx_count' = rx_count + cmd[s].length
        /\ UNCHANGED <<rx_size, acked_since_flush, drained_since_flush, space_waiters, drain_waiters, reader>>
        /\ ("resize" \notin breaches' => "resize" \notin breaches)
    BY <1>t, <1>7 DEF track_command
  <2>2. pending' # <<>>
    <3>1. pending' = Append(pending, cmd'[s]) /\ pending \in Seq(Command) /\ cmd'[s] \in Command
      BY <1>7 DEF track_command, TypeOK
    <3> QED BY <3>1, AppendFacts
  <2>3. rx_count \in Nat /\ rx_size \in Nat /\ \A t \in Senders : cmd[t].length \in Nat
    BY <1>t, CommandFacts DEF TypeOK
  <2>4. NoLostSpace'
    BY <1>t, <2>1, <2>3
  <2>5. NoLostDrain'
    BY <2>2
  <2> QED BY <2>4, <2>5
<1>8. ASSUME NEW s \in Senders, Write(s) \/ AwaitDone(s) \/ WriteError(s) PROVE NoLostSpace' /\ NoLostDrain'
  BY <1>t, <1>8 DEF Write, AwaitDone, WriteError
<1>9. CASE DeviceAnswer BY <1>t, <1>9 DEF DeviceAnswer
<1>10. CASE ParseAck
  <2>1. reader' = "parsing" /\ acked_since_flush' = TRUE
    BY <1>10 DEF ParseAck
  <2>2. pending' = <<>> => drained_since_flush' = TRUE
    BY <1>10 DEF ParseAck
  <2> QED BY <2>1, <2>2
<1>11. CASE ParseEnd BY <1>t, <1>11 DEF ParseEnd
<1>12. CASE flush_notifications
  BY <1>t, <1>12 DEF flush_notifications, signal_space_available, notify_drained
<1>13. CASE reset_flow_control
  BY <1>13 DEF reset_flow_control, signal_space_available, notify_drained
<1>14. CASE SoftReset BY <1>t, <1>14 DEF SoftReset
<1>15. CASE SpuriousSignal BY <1>t, <1>15 DEF SpuriousSignal, signal_space_available
<1>16. ASSUME NEW size \in Sizes, set_rx_buffer_size(size) PROVE NoLostSpace' /\ NoLostDrain'
  BY <1>t, <1>16 DEF set_rx_buffer_size
<1>17. CASE UNCHANGED vars BY <1>17 DEF vars
<1> HIDE DEF NoLostSpace, NoLostDrain
<1> QED
  BY <1>1, <1>2, <1>3, <1>4, <1>5, <1>6, <1>7, <1>8, <1>9, <1>10, <1>11, <1>12, <1>13, <1>14, <1>15,
       <1>16, <1>17
  DEF Next, Transmit, Reader

\* A sender parked in wait_for_space whose bytes fit, or parked in
\* wait_pending_empty on an empty queue, has been woken or is owed a flush.
THEOREM NoWakeupLost == Spec => []NoLostWakeup
<1>1. Init => NoLostWakeup
  BY DEF Init, NoLostWakeup, NoLostSpace, NoLostDrain
<1>2. TypeOK /\ TypeOK' /\ NoLostWakeup /\ [Next]_vars => NoLostWakeup'
  BY WakeStep DEF NoLostWakeup
<1> QED BY <1>1, <1>2, TypeCorrect, PTL DEF Spec
=============================================================================
