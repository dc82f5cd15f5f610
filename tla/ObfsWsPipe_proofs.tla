------------------------- MODULE ObfsWsPipe_proofs -------------------------
(***************************************************************************)
(* Theorems about ObfsWsPipe, for every set of handles, channel capacity,  *)
(* buffer length and message length.                                       *)
(***************************************************************************)
EXTENDS ObfsWsPipe, SequenceFacts

-----------------------------------------------------------------------------
(* Sequences of bytes and of messages.                                     *)

LEMMA PiecesType ==
  ASSUME NEW s \in Seq(Nat), NEW n \in Nat
  PROVE  FirstOf(s, n) \in Seq(Nat) /\ After(s, n) \in Seq(Nat)
BY DEF FirstOf, After

LEMMA ConcatType ==
  ASSUME NEW S, NEW s \in Seq(S), NEW t \in Seq(S)
  PROVE  s \o t \in Seq(S)
OBVIOUS

LEMMA PushType ==
  ASSUME NEW S, NEW q \in Seq(S), NEW m \in S
  PROVE  Push(q, m) \in Seq(S) /\ Len(Push(q, m)) = Len(q) + 1
BY DEF Push

LEMMA TailType ==
  ASSUME NEW S, NEW q \in Seq(S), q # <<>>
  PROVE  /\ Head(q) \in S
         /\ Tail(q) \in Seq(S)
         /\ Len(Tail(q)) = Len(q) - 1
         /\ Len(q) \in Nat \ {0}
OBVIOUS

LEMMA BytesType ==
  ASSUME NEW n \in Nat, NEW k \in Nat
  PROVE  [i \in 1..n |-> k + i] \in Seq(Nat)
OBVIOUS

-----------------------------------------------------------------------------
(* Types.  Both channels stay within their capacity.                       *)
THEOREM TypeCorrect == Spec => []TypeOK
<1>1. ASSUME Init PROVE TypeOK
  <2> USE <1>1 DEF Init
  <2>1. live \subseteq Handle
    OBVIOUS
  <2>2. [h \in Handle |-> <<>>] \in [Handle -> Seq(Nat)]
    OBVIOUS
  <2>3. sendq \in Seq(Nat) /\ recvq \in Seq(Seq(Nat)) /\ sent \in Seq(Nat) /\ pushing \in Seq(Nat)
    OBVIOUS
  <2>4. Len(sendq) <= Capacity /\ Len(recvq) <= Capacity
    BY PipeAssumption
  <2>5. QED
    BY <2>1, <2>2, <2>3, <2>4 DEF TypeOK
<1>2. TypeOK /\ [Next]_vars => TypeOK'
  <2> SUFFICES ASSUME TypeOK, [Next]_vars PROVE TypeOK'
    OBVIOUS
  <2> USE PipeAssumption DEF TypeOK
  <2> USE DEF handleVars, outVars, inVars, late
  <2>1. ASSUME NEW h \in Handle, PollWrite(h) PROVE TypeOK'
    BY <2>1 DEF PollWrite, Idle
  <2>2. ASSUME NEW h \in Handle, TrySend(h) PROVE TypeOK'
    <3>1. accepted' = accepted + 1 /\ accepted' \in Nat /\ accepted' \in 1..accepted'
      BY <2>2 DEF TrySend
    <3>2. 1..accepted \subseteq 1..accepted'
      BY <3>1
    <3>3. CASE Full(sendq) \/ TaskDone
      <4>1. refused' = refused \cup {accepted'} /\ sendq' = sendq
        BY <2>2, <3>3 DEF TrySend
      <4>2. QED
        BY <2>2, <3>1, <3>2, <4>1 DEF TrySend
    <3>4. CASE ~(Full(sendq) \/ TaskDone)
      <4>1. refused' = refused /\ sendq' = Push(sendq, accepted')
        BY <2>2, <3>4 DEF TrySend
      <4>2. Len(sendq) < Capacity
        BY <3>4 DEF Full
      <4>3. sendq' \in Seq(Nat) /\ Len(sendq') = Len(sendq) + 1
        BY <3>1, <4>1 DEF Push
      <4>4. Len(sendq') <= Capacity
        BY <4>2, <4>3
      <4>5. refused' \subseteq 1..accepted'
        BY <3>2, <4>1
      <4>6. UNCHANGED <<live, recv_buf, parked, got, spc, sending, sent, inVars, closed, link, late>>
            /\ writing' \subseteq live'
        BY <2>2 DEF TrySend
      <4>7. QED
        BY <3>1, <4>3, <4>4, <4>5, <4>6
    <3>5. QED
      BY <3>3, <3>4
  <2>3. ASSUME NEW h \in Handle, PollClose(h) PROVE TypeOK'
    BY <2>3 DEF PollClose
  <2>4. ASSUME NEW h \in Handle, NEW g \in Handle, CloneHandle(h, g) PROVE TypeOK'
    BY <2>4 DEF CloneHandle, Idle
  <2>5. ASSUME NEW h \in Handle, DropHandle(h) PROVE TypeOK'
    BY <2>5 DEF DropHandle, Idle
  <2>6. ASSUME NEW h \in Handle, NEW n \in ReadLens, ReadLeftover(h, n) PROVE TypeOK'
    <3>1. got[h] \o FirstOf(recv_buf[h], n) \in Seq(Nat) /\ After(recv_buf[h], n) \in Seq(Nat)
      BY PiecesType, ConcatType
    <3>2. QED
      BY <2>6, <3>1 DEF ReadLeftover, Reading, Idle
  <2>7. ASSUME NEW h \in Handle, NEW n \in ReadLens, ReadPending(h, n) PROVE TypeOK'
    BY <2>7 DEF ReadPending, Reading, Idle
  <2>8. ASSUME NEW h \in Handle, NEW n \in ReadLens, ReadMessage(h, n) PROVE TypeOK'
    <3> DEFINE room == n - Len(recv_buf[h])
    <3>1. room \in Nat /\ Head(recvq) \in Seq(Nat)
      BY <2>8 DEF ReadMessage
    <3>2. FirstOf(Head(recvq), room) \in Seq(Nat) /\ After(Head(recvq), room) \in Seq(Nat)
      BY <3>1, PiecesType
    <3>3. got[h] \o recv_buf[h] \o FirstOf(Head(recvq), room) \in Seq(Nat)
      BY <3>2, ConcatType
    <3>4. recvq' \in Seq(Seq(Nat)) /\ Len(recvq') <= Capacity
      BY <2>8, TailType DEF ReadMessage
    <3>5. QED
      BY <2>8, <3>2, <3>3, <3>4 DEF ReadMessage, Reading, Idle
  <2>9. ASSUME NEW h \in Handle, Repoll(h) PROVE TypeOK'
    BY <2>9 DEF Repoll
  <2>10. ASSUME Exit, closed' \in BOOLEAN PROVE TypeOK'
    BY <2>10 DEF Exit
  <2>11. CASE SendLoop
    <3>1. CASE SendRecv
      BY <3>1, TailType DEF SendRecv
    <3>2. CASE SendDone
      <4>1. sent' \in Seq(Nat)
        BY <3>2 DEF SendDone
      <4>2. lateSent' \in Nat
        BY <3>2 DEF SendDone, OneIfClosed
      <4>3. QED
        BY <3>2, <4>1, <4>2 DEF SendDone
    <3>3. QED
      BY <2>10, <2>11, <3>1, <3>2
         DEF SendLoop, SendCheck, SendRecvClosed, SendError, StoreClosed
  <2>12. CASE RecvLoop
    <3>1. ASSUME NEW n \in MsgLens, RecvBinary(n) PROVE TypeOK'
      <4>1. pushing' \in Seq(Nat) /\ incoming' \in Nat
        BY <3>1, BytesType DEF RecvBinary
      <4>2. QED
        BY <3>1, <4>1 DEF RecvBinary
    <3>2. CASE RecvPush
      <4>1. recvq' \in Seq(Seq(Nat)) /\ Len(recvq') <= Capacity
        BY <3>2, PushType DEF RecvPush, Full
      <4>2. lateQueued' \in Nat
        BY <3>2 DEF RecvPush, OneIfClosed
      <4>3. QED
        BY <3>2, <4>1, <4>2 DEF RecvPush
    <3>3. QED
      BY <2>10, <2>12, <3>1, <3>2
         DEF RecvLoop, RecvCheck, RecvOther, RecvErr, RecvEnd, RecvPushClosed, StoreClosed
  <2>13. CASE LinkDown
    BY <2>13 DEF LinkDown
  <2>14. CASE UNCHANGED vars
    BY <2>14 DEF vars
  <2>15. QED
    BY <2>1, <2>2, <2>3, <2>4, <2>5, <2>6, <2>7, <2>8, <2>9, <2>11, <2>12, <2>13, <2>14
       DEF Next, Application, PollRead
<1>3. QED
  BY <1>1, <1>2, PTL DEF Spec

-----------------------------------------------------------------------------
(* Every way the task can end leaves its mark: it ends only where closed   *)
(* is set, is being set, or has no handle left to be read through.  With   *)
(* closed never reset, and handles made only from handles, the property is *)
(* inductive as it stands.                                                 *)
LEMMA ExitIsSeen ==
  ASSUME Exit, closed' \/ live = {}
  PROVE  DeadTaskIsClosed'
BY DEF Exit, DeadTaskIsClosed, handleVars

LEMMA DeadTaskStep ==
  ASSUME DeadTaskIsClosed, [Next]_vars
  PROVE  DeadTaskIsClosed'
<1> USE DEF handleVars, outVars, inVars, late
<1>1. ASSUME NEW h \in Handle, Application(h) PROVE DeadTaskIsClosed'
  <2>1. live # {} \/ live' = live
    BY <1>1 DEF Application, Idle, Repoll, TrySend, PollRead,
                ReadLeftover, ReadPending, ReadMessage, PollWrite, PollClose, DropHandle,
                CloneHandle
  <2>2. spc' = spc
    BY <1>1 DEF Application, TrySend, PollRead, ReadLeftover, ReadPending, ReadMessage,
                PollWrite, PollClose, DropHandle, CloneHandle, Repoll
  <2>3. closed' = closed \/ closed'
    BY <1>1 DEF Application, TrySend, PollRead, ReadLeftover, ReadPending, ReadMessage,
                PollWrite, PollClose, DropHandle, CloneHandle, Repoll
  <2>4. QED
    BY <2>1, <2>2, <2>3 DEF DeadTaskIsClosed, TaskDone
<1>2. CASE SendLoop
  <2>1. CASE SendRecv
    BY <2>1 DEF SendRecv, DeadTaskIsClosed, TaskDone
  <2>2. CASE SendDone
    BY <2>2 DEF SendDone, DeadTaskIsClosed, TaskDone
  <2>3. CASE SendCheck
    BY <2>3, ExitIsSeen DEF SendCheck, LoopGuard, DeadTaskIsClosed, TaskDone
  <2>4. CASE SendRecvClosed \/ SendError
    BY <2>4, ExitIsSeen DEF SendRecvClosed, HandlesGone, SendError, StoreClosed
  <2>5. QED
    BY <1>2, <2>1, <2>2, <2>3, <2>4 DEF SendLoop
<1>3. CASE RecvLoop
  <2>1. ASSUME NEW n \in MsgLens, RecvBinary(n) PROVE DeadTaskIsClosed'
    BY <2>1 DEF RecvBinary, DeadTaskIsClosed, TaskDone
  <2>2. CASE RecvOther \/ RecvErr \/ RecvPush
    BY <2>2 DEF RecvOther, RecvErr, RecvPush, DeadTaskIsClosed, TaskDone
  <2>3. CASE RecvCheck
    BY <2>3, ExitIsSeen DEF RecvCheck, LoopGuard, DeadTaskIsClosed, TaskDone
  <2>4. CASE RecvEnd \/ RecvPushClosed
    BY <2>4, ExitIsSeen DEF RecvEnd, StoreClosed, RecvPushClosed, HandlesGone
  <2>5. QED
    BY <1>3, <2>1, <2>2, <2>3, <2>4 DEF RecvLoop
<1>4. CASE LinkDown
  BY <1>4 DEF LinkDown, DeadTaskIsClosed, TaskDone
<1>5. CASE UNCHANGED vars
  BY <1>5 DEF vars, DeadTaskIsClosed, TaskDone
<1>6. QED
  BY <1>1, <1>2, <1>3, <1>4, <1>5 DEF Next

(* A background task that has ended leaves a pipe that says it is closed,  *)
(* to whoever still holds a handle (is_closed, poll_write, remote_addr).   *)
THEOREM DeadTaskCorrect == Spec => []DeadTaskIsClosed
<1>1. Init => DeadTaskIsClosed
  BY DEF Init, DeadTaskIsClosed, TaskDone
<1>2. QED
  BY <1>1, DeadTaskStep, PTL DEF Spec

-----------------------------------------------------------------------------
(* Why each loop moves at most one message after closed is set: nothing is *)
(* late before, and the loop that has moved its one is back at its check   *)
(* of the flag, which can now only end the task.                           *)
LateInv == /\ lateSent \in {0, 1} /\ lateQueued \in {0, 1}
           /\ ~closed => lateSent = 0 /\ lateQueued = 0
           /\ lateSent = 1 => spc \in {"check", "done"}
           /\ lateQueued = 1 => rpc \in {"check", "done"}

LEMMA ExitIsLast ==
  ASSUME LateInv, Exit, closed => closed'
  PROVE  LateInv'
BY DEF LateInv, Exit, late

LEMMA LateStep ==
  ASSUME LateInv, [Next]_vars
  PROVE  LateInv'
<1> USE DEF handleVars, outVars, inVars, late
<1>1. ASSUME NEW h \in Handle, Application(h) PROVE LateInv'
  <2>1. UNCHANGED <<late, spc, rpc>> /\ (closed' = closed \/ closed')
    BY <1>1 DEF Application, TrySend, PollRead, ReadLeftover, ReadPending, ReadMessage,
                PollWrite, PollClose, DropHandle, CloneHandle, Repoll
  <2>2. QED
    BY <2>1 DEF LateInv
<1>2. CASE SendLoop
  <2>1. CASE SendRecv
    BY <2>1 DEF SendRecv, LateInv
  <2>2. CASE SendDone
    <3>1. lateSent = 0
      BY <2>2 DEF SendDone, LateInv
    <3>2. QED
      BY <2>2, <3>1 DEF SendDone, OneIfClosed, LateInv
  <2>3. CASE SendCheck
    BY <2>3, ExitIsLast DEF SendCheck, LoopGuard, LateInv
  <2>4. CASE SendRecvClosed \/ SendError
    BY <2>4, ExitIsLast DEF SendRecvClosed, SendError, StoreClosed
  <2>5. QED
    BY <1>2, <2>1, <2>2, <2>3, <2>4 DEF SendLoop
<1>3. CASE RecvLoop
  <2>1. ASSUME NEW n \in MsgLens, RecvBinary(n) PROVE LateInv'
    BY <2>1 DEF RecvBinary, LateInv
  <2>2. CASE RecvOther \/ RecvErr
    BY <2>2 DEF RecvOther, RecvErr, LateInv
  <2>3. CASE RecvPush
    <3>1. lateQueued = 0
      BY <2>3 DEF RecvPush, LateInv
    <3>2. QED
      BY <2>3, <3>1 DEF RecvPush, OneIfClosed, LateInv
  <2>4. CASE RecvCheck
    BY <2>4, ExitIsLast DEF RecvCheck, LoopGuard, LateInv
  <2>5. CASE RecvEnd \/ RecvPushClosed
    BY <2>5, ExitIsLast DEF RecvEnd, StoreClosed, RecvPushClosed
  <2>6. QED
    BY <1>3, <2>1, <2>2, <2>3, <2>4, <2>5 DEF RecvLoop
<1>4. CASE LinkDown
  BY <1>4 DEF LinkDown, LateInv
<1>5. CASE UNCHANGED vars
  BY <1>5 DEF vars, LateInv
<1>6. QED
  BY <1>1, <1>2, <1>3, <1>4, <1>5 DEF Next

(* poll_close cuts both streams off: whatever is queued, each loop moves   *)
(* at most one more message.                                               *)
THEOREM AtMostOneLateCorrect == Spec => []AtMostOneLate
<1>1. Init => LateInv
  BY DEF Init, LateInv
<1>2. LateInv => AtMostOneLate
  BY DEF LateInv, AtMostOneLate
<1>3. QED
  BY <1>1, <1>2, LateStep, PTL DEF Spec

-----------------------------------------------------------------------------
(* An open pipe's messages: the ones poll_write accepted are the refused   *)
(* ones and the ones sent, queued or held by send_loop.                    *)
Held == IF spc = "send" THEN {sending} ELSE {}

LEMMA RangeOfPush ==
  ASSUME NEW q \in Seq(Nat), NEW m \in Nat
  PROVE  Range(Append(q, m)) = Range(q) \cup {m}
<1>1. \A i \in 1..Len(q) : Append(q, m)[i] = q[i]
  OBVIOUS
<1>2. DOMAIN Append(q, m) = 1..(Len(q) + 1) /\ DOMAIN q = 1..Len(q)
  OBVIOUS
<1>3. Append(q, m)[Len(q) + 1] = m
  OBVIOUS
<1>4. 1..(Len(q) + 1) = 1..Len(q) \cup {Len(q) + 1}
  OBVIOUS
<1>5. QED
  BY <1>1, <1>2, <1>3, <1>4 DEF Range

LEMMA RangeOfTail ==
  ASSUME NEW q \in Seq(Nat), q # <<>>
  PROVE  Range(q) = {Head(q)} \cup Range(Tail(q))
<1>1. Len(q) \in Nat \ {0} /\ Head(q) = q[1]
  OBVIOUS
<1>2. DOMAIN q = 1..Len(q) /\ DOMAIN Tail(q) = 1..(Len(q) - 1)
  OBVIOUS
<1>3. \A i \in 1..(Len(q) - 1) : Tail(q)[i] = q[i + 1]
  OBVIOUS
<1>4. \A i \in 1..Len(q) : i = 1 \/ (i - 1 \in 1..(Len(q) - 1) /\ Tail(q)[i - 1] = q[i])
  BY <1>1, <1>3
<1>5. Range(q) \subseteq {Head(q)} \cup Range(Tail(q))
  <2> SUFFICES ASSUME NEW i \in 1..Len(q) PROVE q[i] \in {Head(q)} \cup Range(Tail(q))
    BY <1>2 DEF Range
  <2>1. CASE i = 1
    BY <1>1, <2>1
  <2>2. CASE i # 1
    <3>1. i - 1 \in DOMAIN Tail(q) /\ Tail(q)[i - 1] = q[i]
      BY <1>2, <1>4, <2>2
    <3>2. QED
      BY <3>1 DEF Range
  <2>3. QED
    BY <2>1, <2>2
<1>6. {Head(q)} \cup Range(Tail(q)) \subseteq Range(q)
  BY <1>1, <1>2, <1>3 DEF Range
<1>7. QED
  BY <1>5, <1>6

\* An action that leaves the messages alone, and neither reopens the pipe nor
\* makes a handle from nothing, keeps the account.
LEMMA AccountUntouched ==
  ASSUME OpenLosesOnlyRefused, UNCHANGED <<accepted, refused, sent, sendq>>,
         UNCHANGED sending /\ (spc = "send" <=> spc' = "send"),
         closed => closed', live = {} => live' = {}
  PROVE  OpenLosesOnlyRefused'
BY DEF OpenLosesOnlyRefused

LEMMA AccountStep ==
  ASSUME TypeOK, DeadTaskIsClosed, OpenLosesOnlyRefused, [Next]_vars
  PROVE  OpenLosesOnlyRefused'
<1> USE DEF handleVars, outVars, inVars, late
<1>1. ASSUME NEW h \in Handle, TrySend(h) PROVE OpenLosesOnlyRefused'
  <2> SUFFICES ASSUME ~closed'
               PROVE  (1..accepted') \ refused' = Range(sent') \cup Range(sendq')
                                                  \cup (IF spc' = "send" THEN {sending'} ELSE {})
    BY DEF OpenLosesOnlyRefused
  <2>1. live # {} /\ ~closed /\ ~TaskDone
    BY <1>1 DEF TrySend, TypeOK, DeadTaskIsClosed
  <2>2. (1..accepted) \ refused = Range(sent) \cup Range(sendq) \cup Held
    BY <2>1 DEF OpenLosesOnlyRefused, Held
  <2>3. UNCHANGED <<sent, spc, sending>> /\ accepted' = accepted + 1
    BY <1>1 DEF TrySend
  <2>4. 1..accepted' = (1..accepted) \cup {accepted'} /\ accepted' \notin 1..accepted
    BY <2>3 DEF TypeOK
  <2>5. CASE Full(sendq)
    <3>1. refused' = refused \cup {accepted'} /\ sendq' = sendq
      BY <1>1, <2>5 DEF TrySend
    <3>2. (1..accepted') \ refused' = (1..accepted) \ refused
      BY <2>4, <3>1
    <3>3. QED
      BY <2>2, <2>3, <3>1, <3>2 DEF Held
  <2>6. CASE ~Full(sendq)
    <3>1. refused' = refused /\ sendq' = Append(sendq, accepted')
      BY <1>1, <2>1, <2>6 DEF TrySend, Push
    <3>2. accepted' \notin refused
      BY <2>4 DEF TypeOK
    <3>3. (1..accepted') \ refused' = ((1..accepted) \ refused) \cup {accepted'}
      BY <2>4, <3>1, <3>2
    <3>4. Range(sendq') = Range(sendq) \cup {accepted'}
      <4>1. accepted' \in Nat /\ sendq \in Seq(Nat)
        BY <2>3 DEF TypeOK
      <4>2. QED
        BY <3>1, <4>1, RangeOfPush
    <3>5. QED
      BY <2>2, <2>3, <3>3, <3>4 DEF Held
  <2>7. QED
    BY <2>5, <2>6
<1>2. ASSUME NEW h \in Handle, Application(h), ~TrySend(h) PROVE OpenLosesOnlyRefused'
  <2>1. UNCHANGED <<sendq, spc, sending, accepted, refused, sent>> /\ (closed' = closed \/ closed')
    BY <1>2 DEF Application, PollRead, ReadLeftover, ReadPending, ReadMessage,
                PollWrite, PollClose, DropHandle, CloneHandle, Repoll
  <2>2. live = {} => live' = {}
    BY <1>2 DEF Application, PollRead, ReadLeftover, ReadPending, ReadMessage,
                PollWrite, PollClose, DropHandle, CloneHandle, Repoll, Idle
  <2>3. QED
    BY <2>1, <2>2, AccountUntouched
<1>3. CASE SendRecv
  <2>1. sending' = Head(sendq) /\ sendq' = Tail(sendq) /\ spc = "recv" /\ spc' = "send"
        /\ UNCHANGED <<accepted, refused, sent, closed, live>>
    BY <1>3 DEF SendRecv
  <2>2. Range(sendq) = {sending'} \cup Range(sendq')
    BY <1>3, <2>1, RangeOfTail DEF SendRecv, TypeOK
  <2>3. QED
    BY <2>1, <2>2 DEF OpenLosesOnlyRefused
<1>4. CASE SendDone
  <2>1. sent' = Append(sent, sending) /\ spc = "send" /\ spc' = "check"
        /\ UNCHANGED <<accepted, refused, sendq, closed, live>>
    BY <1>4 DEF SendDone
  <2>2. Range(sent') = Range(sent) \cup {sending}
    <3>1. sent \in Seq(Nat) /\ sending \in Nat
      BY DEF TypeOK
    <3>2. QED
      BY <2>1, <3>1, RangeOfPush
  <2>3. QED
    BY <2>1, <2>2 DEF OpenLosesOnlyRefused
<1>5. ASSUME Exit, closed' \/ live = {} PROVE OpenLosesOnlyRefused'
  BY <1>5 DEF Exit, OpenLosesOnlyRefused
<1>6. CASE SendCheck \/ SendRecvClosed \/ SendError
  BY <1>5, <1>6, AccountUntouched
     DEF SendCheck, LoopGuard, SendRecvClosed, HandlesGone, SendError, StoreClosed
<1>7. ASSUME NEW n \in MsgLens, RecvBinary(n) PROVE OpenLosesOnlyRefused'
  BY <1>7, AccountUntouched DEF RecvBinary
<1>8. CASE RecvOther \/ RecvErr \/ RecvPush \/ LinkDown
  BY <1>8, AccountUntouched DEF RecvOther, RecvErr, RecvPush, LinkDown
<1>9. CASE RecvCheck \/ RecvEnd \/ RecvPushClosed
  BY <1>5, <1>9, AccountUntouched
     DEF RecvCheck, LoopGuard, RecvEnd, StoreClosed, RecvPushClosed, HandlesGone
<1>10. CASE UNCHANGED vars
  BY <1>10, AccountUntouched DEF vars
<1>11. QED
  BY <1>1, <1>2, <1>3, <1>4, <1>6, <1>7, <1>8, <1>9, <1>10
     DEF Next, SendLoop, RecvLoop

(* An open, held pipe loses no accepted message except to a full queue     *)
(* (try_send's refusal, which poll_write reports as success).              *)
THEOREM OpenLosesOnlyRefusedCorrect == Spec => []OpenLosesOnlyRefused
<1>1. Init => OpenLosesOnlyRefused
  <2> SUFFICES ASSUME Init PROVE OpenLosesOnlyRefused
    OBVIOUS
  <2>1. accepted = 0 /\ refused = {} /\ sent = <<>> /\ sendq = <<>> /\ spc # "send"
    BY DEF Init
  <2>2. (1..accepted) \ refused = {}
    BY <2>1
  <2>3. Range(sent) = {} /\ Range(sendq) = {}
    BY <2>1 DEF Range
  <2>4. QED
    BY <2>1, <2>2, <2>3 DEF OpenLosesOnlyRefused
<1>2. QED
  BY <1>1, AccountStep, TypeCorrect, DeadTaskCorrect, PTL DEF Spec

-----------------------------------------------------------------------------
(* The outgoing stream: accepted messages, those send_loop holds or has    *)
(* before it, and those sent.                                              *)
OutChan == (IF spc = "send" THEN <<sending>> ELSE <<>>) \o sendq

\* A step leaves them where they are, or accepts one, which is queued at the
\* back or refused, or sends the first, or ends the task.
OutKept == UNCHANGED <<accepted, sent, OutChan>>

OutPut == /\ accepted' = accepted + 1 /\ sent' = sent
          /\ OutChan' = OutChan \/ OutChan' = OutChan \o <<accepted + 1>>

OutSent == /\ spc = "send" /\ accepted' = accepted /\ sent' = Append(sent, sending)
           /\ OutChan = <<sending>> \o sendq /\ OutChan' = sendq

OutEnded == UNCHANGED <<accepted, sent>> /\ OutChan' = <<>>

\* The message that is sent leaves at the front.
LEMMA FirstLeaves ==
  ASSUME NEW m \in Nat, NEW q \in Seq(Nat)
  PROVE  LET c == <<m>> \o q
         IN  /\ 1 \in 1..Len(c)
             /\ SubSeq(c, 1, 1) = <<m>>
             /\ SubSeq(c, 1 + 1, Len(c)) = q
<1> DEFINE c == <<m>> \o q
<1>1. c \in Seq(Nat) /\ Len(c) = 1 + Len(q) /\ Len(q) \in Nat
  OBVIOUS
<1>2. 1 \in 1..Len(c)
  BY <1>1
<1>3. c[1] = m
  OBVIOUS
<1>4. SubSeq(c, 1, 1) = <<m>>
  <2> HIDE DEF c
  <2>1. 1 \in Int /\ 1 \in 1..Len(c) /\ \A i \in 1..1 : c[i] \in Nat
    BY <1>1, <1>3
  <2>2. /\ SubSeq(c, 1, 1) \in Seq(Nat) /\ Len(SubSeq(c, 1, 1)) = 1
        /\ \A i \in 1..1 : SubSeq(c, 1, 1)[i] = c[i]
    BY <2>1, SubSeqProperties
  <2>3. <<m>> \in Seq(Nat) /\ Len(<<m>>) = 1 /\ <<m>>[1] = m
    OBVIOUS
  <2>4. \A i \in 1..Len(SubSeq(c, 1, 1)) : SubSeq(c, 1, 1)[i] = <<m>>[i]
    BY <1>3, <2>2, <2>3
  <2>5. QED
    BY <2>2, <2>3, <2>4, SeqEqual
<1>5. SubSeq(c, 1 + 1, Len(c)) = q
  BY <1>1
<1>6. QED
  BY <1>2, <1>4, <1>5

LEMMA DoneSends == ASSUME TypeOK, SendDone PROVE OutSent
BY DEF TypeOK, SendDone, OutSent, OutChan, outVars

LEMMA OutMoves ==
  ASSUME TypeOK, [Next]_vars
  PROVE  OutKept \/ OutPut \/ SendDone \/ OutEnded
<1> USE DEF handleVars, outVars, inVars, late
<1>0. sending \in Nat /\ sendq \in Seq(Nat) /\ accepted \in Nat
  BY DEF TypeOK
<1>1. ASSUME UNCHANGED <<accepted, sent, spc, sending, sendq>> PROVE OutKept
  BY <1>1 DEF OutKept, OutChan
<1>2. ASSUME NEW h \in Handle, TrySend(h) PROVE OutPut
  <2>1. accepted' = accepted + 1 /\ UNCHANGED <<spc, sending, sent>>
    BY <1>2 DEF TrySend
  <2>2. CASE sendq' = sendq
    BY <2>1, <2>2 DEF OutPut, OutChan
  <2>3. CASE sendq' = Append(sendq, accepted')
    <3> DEFINE p == IF spc = "send" THEN <<sending>> ELSE <<>>
    <3>1. p \in Seq(Nat) /\ OutChan = p \o sendq /\ OutChan' = p \o Append(sendq, accepted + 1)
      BY <1>0, <2>1, <2>3 DEF OutChan
    <3> HIDE DEF p
    <3>2. OutChan' = OutChan \o <<accepted + 1>>
      BY <1>0, <3>1
    <3>3. QED
      BY <2>1, <3>2 DEF OutPut
  <2>4. QED
    BY <1>2, <2>2, <2>3 DEF TrySend, Push
<1>3. ASSUME NEW h \in Handle, Application(h) PROVE OutKept \/ OutPut
  BY <1>1, <1>2, <1>3
     DEF Application, PollRead, ReadLeftover, ReadPending, ReadMessage,
         PollWrite, PollClose, DropHandle, CloneHandle, Repoll
<1>4. ASSUME SendRecv PROVE OutKept
  <2>1. /\ spc = "recv" /\ spc' = "send" /\ sendq # <<>>
        /\ sending' = Head(sendq) /\ sendq' = Tail(sendq) /\ UNCHANGED <<accepted, sent>>
    BY <1>4 DEF SendRecv
  <2>2. <<Head(sendq)>> \o Tail(sendq) = sendq /\ <<>> \o sendq = sendq
    BY <1>0, <2>1
  <2>3. QED
    BY <2>1, <2>2 DEF OutKept, OutChan
<1>5. ASSUME Exit PROVE OutEnded
  BY <1>5 DEF Exit, OutEnded, OutChan
<1>6. ASSUME SendCheck PROVE OutKept \/ OutEnded
  <2>1. CASE Exit
    BY <1>5, <2>1
  <2>2. CASE spc # "send" /\ spc' # "send" /\ UNCHANGED <<accepted, sent, sendq>>
    BY <2>2 DEF OutKept, OutChan
  <2>3. QED
    BY <1>6, <2>1, <2>2 DEF SendCheck
<1>7. CASE SendLoop
  BY <1>4, <1>5, <1>6, <1>7 DEF SendLoop, SendRecvClosed, SendError
<1>8. CASE RecvLoop
  BY <1>1, <1>5, <1>8
     DEF RecvLoop, RecvCheck, RecvOther, RecvErr, RecvEnd, RecvPush, RecvPushClosed, RecvBinary
<1>9. CASE LinkDown \/ UNCHANGED vars
  BY <1>1, <1>9 DEF LinkDown, vars
<1>10. QED
  BY <1>3, <1>7, <1>8, <1>9 DEF Next

\* Each of these is a step of LossyStream.
LEMMA OutgoingStep ==
  ASSUME TypeOK, [Next]_vars
  PROVE  [Outgoing!Next]_Outgoing!vars
<1>0. /\ accepted \in Nat /\ sent \in Seq(Nat) /\ sending \in Nat /\ sendq \in Seq(Nat)
      /\ OutChan \in Seq(Nat)
  BY DEF TypeOK, OutChan
<1>1. ASSUME OutKept PROVE UNCHANGED Outgoing!vars
  BY <1>1 DEF OutKept, OutChan, Outgoing!vars
<1>2. ASSUME OutPut PROVE Outgoing!Put
  <2>1. accepted' \in Nat /\ accepted' > accepted /\ accepted' - accepted = 1 /\ sent' = sent
    BY <1>0, <1>2 DEF OutPut
  <2>2. [i \in 1..1 |-> accepted + i] = <<accepted + 1>>
    BY <1>0
  <2>3. \/ OutChan' = OutChan
        \/ OutChan' = OutChan \o [i \in 1..(accepted' - accepted) |-> accepted + i]
    BY <1>2, <2>1, <2>2 DEF OutPut
  <2>4. QED
    BY <2>1, <2>3 DEF Outgoing!Put, OutChan
<1>3. ASSUME SendDone PROVE Outgoing!Get
  <2>1. OutSent
    BY <1>3, DoneSends
  <2>2. /\ 1 \in 1..Len(OutChan)
        /\ SubSeq(OutChan, 1, 1) = <<sending>>
        /\ SubSeq(OutChan, 1 + 1, Len(OutChan)) = sendq
    BY <1>0, <2>1, FirstLeaves DEF OutSent
  <2>3. sent' = sent \o <<sending>> /\ accepted' = accepted /\ OutChan' = sendq
    BY <1>0, <2>1 DEF OutSent
  <2>4. QED
    BY <2>2, <2>3 DEF Outgoing!Get, OutChan
<1>4. ASSUME OutEnded PROVE Outgoing!Lose
  <2>1. OutChan' = <<>> /\ UNCHANGED <<accepted, sent>>
    BY <1>4 DEF OutEnded
  <2>2. \A S : <<>> \in Seq(S)
    OBVIOUS
  <2>3. Outgoing!Ascending(<<>>)
    BY DEF Outgoing!Ascending
  <2>4. QED
    BY <2>1, <2>2, <2>3 DEF Outgoing!Lose, OutChan
<1>5. QED
  BY <1>1, <1>2, <1>3, <1>4, OutMoves DEF Outgoing!Next

(* The messages of poll_write reach the websocket as a LossyStream does:   *)
(* queued behind one another or lost, by refusal or with the task, but     *)
(* never reordered, repeated or invented.                                  *)
THEOREM OutgoingCorrect == Spec => OutgoingStream
<1>1. Init => Outgoing!Init
  BY DEF Init, Outgoing!Init
<1>2. QED
  BY <1>1, OutgoingStep, TypeCorrect, PTL DEF Spec, OutgoingStream, Outgoing!Spec

-----------------------------------------------------------------------------
(* The incoming stream, as the reader of one handle meets it.  Bytes are   *)
(* numbered upwards, so it stays in order if new bytes go to its end, are  *)
(* moved along, or are left out.                                           *)
UpTo(s, n) == Increasing(s) /\ \A i \in DOMAIN s : s[i] \in 1..n

\* Bytes left out in the middle, and at the end.
LEMMA LeftOut ==
  ASSUME NEW n \in Nat, NEW x \in Seq(Nat), NEW y \in Seq(Nat), NEW z \in Seq(Nat),
         UpTo((x \o y) \o z, n)
  PROVE  UpTo(x \o z, n)
<1> DEFINE xy == x \o y
           w == xy \o z
           v == x \o z
<1>1. xy \in Seq(Nat) /\ w \in Seq(Nat) /\ v \in Seq(Nat)
  OBVIOUS
<1>2. /\ DOMAIN x = 1..Len(x) /\ DOMAIN z = 1..Len(z) /\ DOMAIN xy = 1..(Len(x) + Len(y))
      /\ DOMAIN w = 1..(Len(x) + Len(y) + Len(z)) /\ DOMAIN v = 1..(Len(x) + Len(z))
      /\ Len(x) \in Nat /\ Len(y) \in Nat /\ Len(z) \in Nat
  OBVIOUS
<1>3. /\ \A i \in 1..Len(x) : xy[i] = x[i] /\ w[i] = x[i] /\ v[i] = x[i]
      /\ \A i \in 1..Len(z) : w[Len(x) + Len(y) + i] = z[i] /\ v[Len(x) + i] = z[i]
  OBVIOUS
<1>4. Increasing(xy) /\ Increasing(z) /\ Below(xy, z)
  BY <1>1, IncreasingParts DEF UpTo
<1>5. Increasing(x)
  BY IncreasingParts, <1>4
<1>6. Below(x, z)
  <2> HIDE DEF xy
  <2> SUFFICES ASSUME NEW i \in DOMAIN x, NEW j \in DOMAIN z PROVE x[i] < z[j]
    BY DEF Below
  <2>1. i \in DOMAIN xy /\ xy[i] = x[i]
    BY <1>2, <1>3
  <2>2. QED
    BY <1>4, <2>1 DEF Below
<1>7. Increasing(v)
  BY <1>4, <1>5, <1>6, IncreasingParts
<1>8. \A i \in DOMAIN w : w[i] \in 1..n
  BY DEF UpTo
<1> HIDE DEF v, w
<1>9. ASSUME NEW i \in DOMAIN v PROVE v[i] \in 1..n
  <2>1. CASE i \in 1..Len(x)
    <3>1. i \in DOMAIN w /\ w[i] = v[i]
      BY <1>2, <1>3, <2>1
    <3>2. QED
      BY <1>8, <3>1
  <2>2. CASE i \notin 1..Len(x)
    <3>1. /\ i - Len(x) \in 1..Len(z) /\ i = Len(x) + (i - Len(x))
          /\ Len(x) + Len(y) + (i - Len(x)) \in DOMAIN w
      BY <1>2, <2>2
    <3>2. w[Len(x) + Len(y) + (i - Len(x))] = v[i]
      BY <1>3, <3>1
    <3>3. QED
      BY <1>8, <3>1, <3>2
  <2>3. QED
    BY <2>1, <2>2
<1>10. QED
  BY <1>7, <1>9 DEF UpTo, v

LEMMA BackLeftOut ==
  ASSUME NEW n \in Nat, NEW x \in Seq(Nat), NEW y \in Seq(Nat), UpTo(x \o y, n)
  PROVE  UpTo(x, n)
<1>1. (x \o y) \o <<>> = x \o y /\ x \o <<>> = x /\ <<>> \in Seq(Nat)
  OBVIOUS
<1>2. QED
  BY <1>1, LeftOut

\* New bytes at the end.
LEMMA NewBytes ==
  ASSUME NEW n \in Nat, NEW k \in Nat, NEW x \in Seq(Nat), UpTo(x, n)
  PROVE  UpTo(x \o [i \in 1..k |-> n + i], n + k)
<1> DEFINE y == [i \in 1..k |-> n + i]
           w == x \o y
<1>1. y \in Seq(Nat) /\ DOMAIN y = 1..k /\ Len(y) = k /\ \A i \in 1..k : y[i] = n + i
  BY BytesType
<1> HIDE DEF y
<1>2. Increasing(y) /\ Below(x, y)
  <2>1. Increasing(y)
    BY <1>1 DEF Increasing
  <2>2. \A i \in DOMAIN x : x[i] <= n /\ x[i] \in Nat
    BY DEF UpTo
  <2>3. QED
    BY <1>1, <2>1, <2>2 DEF Below
<1>3. Increasing(w)
  BY <1>1, <1>2, IncreasingParts DEF UpTo
<1>4. /\ DOMAIN x = 1..Len(x) /\ DOMAIN w = 1..(Len(x) + k) /\ Len(x) \in Nat
      /\ \A i \in 1..Len(x) : w[i] = x[i] /\ x[i] \in Nat
      /\ \A i \in 1..k : w[Len(x) + i] = y[i]
  BY <1>1, ConcatParts
<1> HIDE DEF w
<1>5. ASSUME NEW i \in DOMAIN w PROVE w[i] \in 1..(n + k)
  <2>1. CASE i \in 1..Len(x)
    BY <1>4, <2>1 DEF UpTo
  <2>2. CASE i \notin 1..Len(x)
    <3>1. i - Len(x) \in 1..k /\ i = Len(x) + (i - Len(x))
      BY <1>4, <2>2
    <3>2. w[i] = n + (i - Len(x))
      BY <1>1, <1>4, <3>1
    <3>3. QED
      BY <1>4, <3>1, <3>2
  <2>3. QED
    BY <2>1, <2>2
<1>6. QED
  BY <1>3, <1>5 DEF UpTo, w, y

\* A buffer that takes the first part of a message leaves the rest.
LEMMA PiecesOfMessage ==
  ASSUME NEW m \in Seq(Nat), NEW n \in Nat
  PROVE  FirstOf(m, n) \o After(m, n) = m
<1> DEFINE k == IF n < Len(m) THEN n ELSE Len(m)
           f == FirstOf(m, n)
           a == After(m, n)
<1>1. /\ f \in Seq(Nat) /\ Len(f) = k /\ \A i \in 1..k : f[i] = m[i]
      /\ a \in Seq(Nat) /\ Len(a) = Len(m) - k /\ \A i \in 1..(Len(m) - k) : a[i] = m[k + i]
      /\ k \in 0..Len(m) /\ Len(m) \in Nat
  <2>1. f = SubSeq(m, 1, k)
    BY DEF FirstOf
  <2>2. k \in 0..Len(m) /\ Len(m) \in Nat /\ \A i \in 1..Len(m) : m[i] \in Nat
    OBVIOUS
  <2>3. f \in Seq(Nat) /\ Len(f) = k /\ \A i \in 1..k : f[i] = m[i]
    <3> HIDE DEF k, f
    <3>1. 1 \in Int /\ k \in Int /\ k - 1 + 1 = k /\ \A i \in 1..k : m[i] \in Nat
      BY <2>2
    <3>2. QED
      BY <2>1, <2>2, <3>1, SubSeqProperties
  <2>4. CASE n < Len(m)
    <3>1. k = n /\ a = SubSeq(m, n + 1, Len(m))
      BY <2>4 DEF After
    <3>2. QED
      BY <2>2, <2>3, <2>4, <3>1
  <2>5. CASE ~(n < Len(m))
    <3>1. k = Len(m) /\ a = <<>>
      BY <2>5 DEF After
    <3>2. QED
      BY <2>2, <2>3, <3>1
  <2>6. QED
    BY <2>4, <2>5
<1> HIDE DEF f, a, k
<1>2. f \o a \in Seq(Nat) /\ Len(f \o a) = Len(m)
  <2>1. f \o a \in Seq(Nat) /\ Len(f \o a) = Len(f) + Len(a)
    BY <1>1, ConcatParts
  <2>2. QED
    BY <1>1, <2>1
<1>3. \A i \in 1..Len(m) : (f \o a)[i] = m[i]
  <2> SUFFICES ASSUME NEW i \in 1..Len(m) PROVE (f \o a)[i] = m[i]
    OBVIOUS
  <2>1. CASE i <= k
    <3>1. i \in 1..Len(f)
      BY <1>1, <2>1
    <3>2. QED
      BY <1>1, <3>1, ConcatParts
  <2>2. CASE ~(i <= k)
    <3>1. i - k \in 1..Len(a) /\ k + (i - k) = i
      BY <1>1, <2>2
    <3>2. (f \o a)[Len(f) + (i - k)] = a[i - k] /\ a[i - k] = m[k + (i - k)]
      BY <1>1, <3>1, ConcatParts
    <3>3. QED
      BY <1>1, <3>1, <3>2
  <2>3. QED
    BY <2>1, <2>2
<1>4. QED
  BY <1>2, <1>3, SeqEqual DEF f, a

-----------------------------------------------------------------------------
(* Why no reader meets a byte out of order or twice.  What a handle's      *)
(* reader has got, its recv_buf, the queue and the message recv_loop holds *)
(* are together in order and of bytes presented so far; and recv_loop      *)
(* holds nothing when it waits for more.  (It is so for every handle name, *)
(* live or not, since a clone starts from a handle's recv_buf.)            *)
InSeq(h) == Cat(Cat(Cat(got[h], recv_buf[h]), FlattenSeq(recvq)), pushing)

IncomingInv == /\ \A h \in Handle : UpTo(InSeq(h), incoming)
               /\ rpc # "push" => pushing = <<>>

LEMMA IncomingTypes ==
  ASSUME TypeOK
  PROVE  /\ \A h \in Handle : got[h] \in Seq(Nat) /\ recv_buf[h] \in Seq(Nat)
         /\ FlattenSeq(recvq) \in Seq(Nat) /\ pushing \in Seq(Nat) /\ incoming \in Nat
         /\ recvq \in Seq(Seq(Nat))
BY FlattenType DEF TypeOK

\* The queue's first message leaves.
LEMMA FlattenRest ==
  ASSUME TypeOK, recvq # <<>>
  PROVE  /\ Head(recvq) \in Seq(Nat) /\ FlattenSeq(Tail(recvq)) \in Seq(Nat)
         /\ FlattenSeq(recvq) = Cat(Head(recvq), FlattenSeq(Tail(recvq)))
<1>1. recvq \in Seq(Seq(Nat))
  BY DEF TypeOK
<1>2. Head(recvq) \in Seq(Nat) /\ Tail(recvq) \in Seq(Seq(Nat))
  BY <1>1, TailType
<1>3. QED
  BY <1>1, <1>2, FlattenType, FlattenHead DEF Cat

\* What a read does to the bytes of its reader: from recv_buf, and from a
\* message behind it.
LEMMA LeftoverRead ==
  ASSUME NEW a \in Seq(Nat), NEW b \in Seq(Nat), NEW n \in Nat
  PROVE  Cat(Cat(a, FirstOf(b, n)), After(b, n)) = Cat(a, b)
<1> DEFINE f == FirstOf(b, n)
           r == After(b, n)
<1>1. f \in Seq(Nat) /\ r \in Seq(Nat) /\ Cat(f, r) = b
  BY PiecesType, PiecesOfMessage DEF Cat
<1> HIDE DEF f, r
<1>2. Cat(Cat(a, f), r) = Cat(a, b)
  BY <1>1, CatAssociative
<1>3. QED
  BY <1>2 DEF f, r

LEMMA MessageRead ==
  ASSUME NEW a \in Seq(Nat), NEW b \in Seq(Nat), NEW m \in Seq(Nat), NEW t \in Seq(Nat),
         NEW n \in Nat
  PROVE  Cat(Cat(Cat(Cat(a, b), FirstOf(m, n)), After(m, n)), t) = Cat(Cat(a, b), Cat(m, t))
<1> DEFINE x == Cat(a, b)
           y == Cat(x, m)
<1>1. x \in Seq(Nat)
  BY CatAssociative
<1> HIDE DEF x
<1>2. Cat(Cat(x, FirstOf(m, n)), After(m, n)) = Cat(x, m)
  BY <1>1, LeftoverRead
<1>3. Cat(Cat(x, m), t) = Cat(x, Cat(m, t))
  BY <1>1, CatAssociative
<1>4. QED
  BY <1>2, <1>3 DEF x

\* The bytes of one handle, after another one takes the first message of the
\* queue, after a clone leaves behind what was got, and after recv_buf or the
\* message that recv_loop holds is lost.
LEMMA PieceLeftOut ==
  ASSUME NEW n \in Nat, NEW a \in Seq(Nat), NEW b \in Seq(Nat), NEW m \in Seq(Nat),
         NEW t \in Seq(Nat), NEW p \in Seq(Nat),
         UpTo(Cat(Cat(Cat(a, b), Cat(m, t)), p), n)
  PROVE  /\ UpTo(Cat(Cat(Cat(a, b), t), p), n)
         /\ UpTo(Cat(Cat(Cat(a, <<>>), Cat(m, t)), p), n)
         /\ UpTo(Cat(Cat(Cat(<<>>, b), Cat(m, t)), p), n)
         /\ UpTo(Cat(Cat(Cat(a, b), Cat(m, t)), <<>>), n)
<1>0. \A x, y, z \in Seq(Nat) : UpTo(Cat(Cat(x, y), z), n) => UpTo(Cat(x, z), n)
  BY LeftOut DEF Cat
<1>1. <<>> \in Seq(Nat)
  OBVIOUS
<1> DEFINE ab == Cat(a, b)
           tp == Cat(t, p)
           mt == Cat(m, t)
           mtp == Cat(m, tp)
           whole == Cat(Cat(ab, mt), p)
<1>2. /\ ab \in Seq(Nat) /\ tp \in Seq(Nat) /\ mt \in Seq(Nat) /\ mtp \in Seq(Nat)
      /\ whole \in Seq(Nat) /\ UpTo(whole, n)
      /\ whole = Cat(Cat(ab, m), tp) /\ whole = Cat(Cat(a, b), mtp)
      /\ whole = Cat(Cat(<<>>, a), Cat(b, mtp))
      /\ whole = Cat(Cat(Cat(ab, mt), p), <<>>)
      /\ mtp = Cat(mt, p)
  <2>1. /\ ab \in Seq(Nat) /\ tp \in Seq(Nat) /\ mt \in Seq(Nat) /\ mtp \in Seq(Nat)
        /\ whole \in Seq(Nat)
    BY CatAssociative
  <2>2. UpTo(whole, n)
    OBVIOUS
  <2>3. mtp = Cat(mt, p)
    BY CatAssociative
  <2>4. whole = Cat(ab, mtp)
    BY <2>1, <2>3, CatAssociative
  <2>5. whole = Cat(Cat(ab, m), tp)
    BY <2>1, <2>4, CatAssociative
  <2>6. whole = Cat(Cat(<<>>, a), Cat(b, mtp))
    BY <2>1, <2>4, CatAssociative
  <2>7. whole = Cat(Cat(Cat(ab, mt), p), <<>>)
    BY <2>1, CatAssociative
  <2>8. QED
    BY <2>1, <2>2, <2>3, <2>4, <2>5, <2>6, <2>7
<1>3. UpTo(Cat(ab, tp), n) /\ UpTo(Cat(a, mtp), n) /\ UpTo(Cat(b, mtp), n)
      /\ UpTo(Cat(Cat(ab, mt), <<>>), n)
  <2> HIDE DEF ab, tp, mt, mtp, whole
  <2>0. ab \in Seq(Nat) /\ tp \in Seq(Nat) /\ mt \in Seq(Nat) /\ mtp \in Seq(Nat)
    BY <1>2
  <2>1. UpTo(Cat(ab, tp), n)
    <3>1. UpTo(Cat(Cat(ab, m), tp), n)
      BY <1>2
    <3>2. QED
      BY <1>0, <2>0, <3>1
  <2>2. UpTo(Cat(a, mtp), n)
    <3>1. UpTo(Cat(Cat(a, b), mtp), n)
      BY <1>2
    <3>2. QED
      BY <1>0, <2>0, <3>1
  <2>3. UpTo(Cat(b, mtp), n)
    <3>1. Cat(b, mtp) \in Seq(Nat)
      BY <2>0, CatAssociative
    <3>2. UpTo(Cat(Cat(<<>>, a), Cat(b, mtp)), n)
      BY <1>2
    <3>3. UpTo(Cat(<<>>, Cat(b, mtp)), n)
      BY <1>0, <1>1, <3>1, <3>2
    <3>4. Cat(<<>>, Cat(b, mtp)) = Cat(b, mtp)
      BY <3>1, CatAssociative
    <3>5. QED
      BY <3>3, <3>4
  <2>4. UpTo(Cat(Cat(ab, mt), <<>>), n)
    <3>1. Cat(ab, mt) \in Seq(Nat)
      BY <2>0, CatAssociative
    <3>2. UpTo(Cat(Cat(Cat(ab, mt), p), <<>>), n)
      BY <1>2
    <3>3. QED
      BY <1>0, <1>1, <3>1, <3>2
  <2>5. QED
    BY <2>1, <2>2, <2>3, <2>4
<1>4. /\ Cat(ab, tp) = Cat(Cat(ab, t), p)
      /\ Cat(a, mtp) = Cat(Cat(Cat(a, <<>>), mt), p)
      /\ Cat(b, mtp) = Cat(Cat(Cat(<<>>, b), mt), p)
  BY <1>2, CatAssociative
<1>5. QED
  BY <1>3, <1>4

LEMMA PartLeftOut ==
  ASSUME NEW n \in Nat, NEW a \in Seq(Nat), NEW b \in Seq(Nat), NEW f \in Seq(Nat),
         NEW p \in Seq(Nat), UpTo(Cat(Cat(Cat(a, b), f), p), n)
  PROVE  /\ UpTo(Cat(Cat(Cat(a, <<>>), f), p), n)
         /\ UpTo(Cat(Cat(Cat(<<>>, b), f), p), n)
         /\ UpTo(Cat(Cat(Cat(a, b), f), <<>>), n)
<1>1. Cat(<<>>, f) = f /\ <<>> \in Seq(Nat)
  BY CatAssociative
<1>2. UpTo(Cat(Cat(Cat(a, b), Cat(<<>>, f)), p), n)
  BY <1>1
<1>3. /\ UpTo(Cat(Cat(Cat(a, <<>>), Cat(<<>>, f)), p), n)
      /\ UpTo(Cat(Cat(Cat(<<>>, b), Cat(<<>>, f)), p), n)
      /\ UpTo(Cat(Cat(Cat(a, b), Cat(<<>>, f)), <<>>), n)
  BY <1>1, <1>2, PieceLeftOut
<1>4. QED
  BY <1>1, <1>3

LEMMA IncomingUntouched ==
  ASSUME IncomingInv, UNCHANGED <<got, recv_buf, recvq, pushing, incoming>>,
         rpc' = rpc \/ rpc # "push" \/ pushing = <<>>
  PROVE  IncomingInv'
BY DEF IncomingInv, InSeq

LEMMA ExitKeepsIncoming == ASSUME TypeOK, IncomingInv, Exit PROVE IncomingInv'
<1>1. UNCHANGED <<got, recv_buf, recvq, incoming>> /\ pushing' = <<>>
  BY DEF Exit, handleVars
<1>2. ASSUME NEW h \in Handle PROVE UpTo(InSeq(h)', incoming')
  <2> DEFINE front == Cat(Cat(got[h], recv_buf[h]), FlattenSeq(recvq))
  <2>1. front \in Seq(Nat) /\ pushing \in Seq(Nat) /\ incoming \in Nat
    BY IncomingTypes, CatAssociative
  <2>2. InSeq(h) = Cat(front, pushing) /\ InSeq(h)' = Cat(front, <<>>)
    BY <1>1 DEF InSeq
  <2> HIDE DEF front
  <2>3. UpTo(front, incoming)
    BY <2>1, <2>2, BackLeftOut DEF IncomingInv, Cat
  <2>4. Cat(front, <<>>) = front
    BY <2>1, CatAssociative
  <2>5. QED
    BY <1>1, <2>2, <2>3, <2>4
<1>3. QED
  BY <1>1, <1>2 DEF IncomingInv

\* A read from recv_buf alone moves bytes along.
LEMMA LeftoverKeepsStream ==
  ASSUME TypeOK, NEW h \in Handle, NEW n \in ReadLens, ReadLeftover(h, n)
  PROVE  /\ Cat(got'[h], recv_buf'[h]) = Cat(got[h], recv_buf[h])
         /\ \A g \in Handle \ {h} : got'[g] = got[g] /\ recv_buf'[g] = recv_buf[g]
<1>1. n \in Nat /\ got[h] \in Seq(Nat) /\ recv_buf[h] \in Seq(Nat)
  BY PipeAssumption DEF TypeOK
<1>2. /\ got'[h] = Cat(got[h], FirstOf(recv_buf[h], n))
      /\ recv_buf'[h] = After(recv_buf[h], n)
      /\ \A g \in Handle \ {h} : got'[g] = got[g] /\ recv_buf'[g] = recv_buf[g]
  BY DEF ReadLeftover, TypeOK, Cat
<1>3. QED
  BY <1>1, <1>2, LeftoverRead

\* A read of a message moves bytes along at its handle, and takes the message
\* away from the others.
LEMMA MessageKeepsStream ==
  ASSUME TypeOK, NEW h \in Handle, NEW n \in ReadLens, ReadMessage(h, n)
  PROVE  /\ recvq # <<>> /\ recvq' = Tail(recvq)
         /\ Cat(Cat(got'[h], recv_buf'[h]), FlattenSeq(recvq'))
              = Cat(Cat(got[h], recv_buf[h]), FlattenSeq(recvq))
         /\ \A g \in Handle \ {h} : got'[g] = got[g] /\ recv_buf'[g] = recv_buf[g]
<1> DEFINE room == n - Len(recv_buf[h])
           m == Head(recvq)
           t == FlattenSeq(Tail(recvq))
<1>1. got[h] \in Seq(Nat) /\ recv_buf[h] \in Seq(Nat)
  BY IncomingTypes
<1>2. room \in Nat
  <2>1. Len(recv_buf[h]) \in Nat /\ Len(recv_buf[h]) <= n /\ n \in Nat
    BY <1>1, LenProperties, PipeAssumption DEF ReadMessage
  <2>2. QED
    BY <2>1
<1>3. recvq # <<>> /\ recvq' = Tail(recvq)
  BY DEF ReadMessage
<1>4. m \in Seq(Nat) /\ t \in Seq(Nat) /\ FlattenSeq(recvq) = Cat(m, t)
  BY <1>3, FlattenRest
<1>5. /\ got'[h] = Cat(Cat(got[h], recv_buf[h]), FirstOf(m, room))
      /\ recv_buf'[h] = After(m, room)
      /\ \A g \in Handle \ {h} : got'[g] = got[g] /\ recv_buf'[g] = recv_buf[g]
  BY DEF ReadMessage, TypeOK, Cat
<1> HIDE DEF room, m
<1>6. FlattenSeq(recvq') = t
  BY <1>3
<1> HIDE DEF t
<1>7. QED
  BY <1>1, <1>2, <1>3, <1>4, <1>5, <1>6, MessageRead

LEMMA IncomingStep == ASSUME TypeOK, IncomingInv, [Next]_vars PROVE IncomingInv'
<1> USE DEF handleVars, outVars, inVars, late
<1>0. /\ \A h \in Handle : /\ got[h] \in Seq(Nat) /\ recv_buf[h] \in Seq(Nat)
                           /\ UpTo(InSeq(h), incoming)
      /\ FlattenSeq(recvq) \in Seq(Nat) /\ pushing \in Seq(Nat) /\ incoming \in Nat
      /\ recvq \in Seq(Seq(Nat)) /\ <<>> \in Seq(Nat)
      /\ got \in [Handle -> Seq(Nat)] /\ recv_buf \in [Handle -> Seq(Nat)]
  BY IncomingTypes DEF IncomingInv, TypeOK
<1>1. ASSUME NEW h \in Handle, NEW n \in ReadLens, ReadLeftover(h, n) PROVE IncomingInv'
  <2>1. UNCHANGED <<recvq, pushing, incoming, rpc>>
    BY <1>1 DEF ReadLeftover
  <2>2. ASSUME NEW g \in Handle PROVE InSeq(g)' = InSeq(g)
    BY <1>1, <2>1, LeftoverKeepsStream DEF InSeq
  <2>3. QED
    BY <2>1, <2>2 DEF IncomingInv
<1>2. ASSUME NEW h \in Handle, NEW n \in ReadLens, ReadMessage(h, n) PROVE IncomingInv'
  <2>1. UNCHANGED <<pushing, incoming, rpc>>
    BY <1>2 DEF ReadMessage
  <2>2. InSeq(h)' = InSeq(h)
    BY <1>2, <2>1, MessageKeepsStream DEF InSeq
  <2>3. ASSUME NEW g \in Handle \ {h} PROVE UpTo(InSeq(g)', incoming)
    <3>1. /\ got'[g] = got[g] /\ recv_buf'[g] = recv_buf[g]
          /\ recvq # <<>> /\ recvq' = Tail(recvq)
      BY <1>2, MessageKeepsStream
    <3> DEFINE m == Head(recvq)
               t == FlattenSeq(Tail(recvq))
    <3>2. m \in Seq(Nat) /\ t \in Seq(Nat) /\ FlattenSeq(recvq) = Cat(m, t)
      BY <3>1, FlattenRest
    <3>3. FlattenSeq(recvq') = t
      BY <3>1
    <3> HIDE DEF m, t
    <3>4. UpTo(Cat(Cat(Cat(got[g], recv_buf[g]), Cat(m, t)), pushing), incoming)
      BY <1>0, <3>2 DEF InSeq
    <3>5. UpTo(Cat(Cat(Cat(got[g], recv_buf[g]), t), pushing), incoming)
      BY <1>0, <3>2, <3>4, PieceLeftOut
    <3>6. QED
      BY <2>1, <3>1, <3>3, <3>5 DEF InSeq
  <2>4. QED
    BY <1>0, <2>1, <2>2, <2>3 DEF IncomingInv
<1>3. ASSUME NEW h \in Handle, UNCHANGED <<recvq, pushing, incoming, rpc, got>>,
             recv_buf' = [recv_buf EXCEPT ![h] = <<>>]
      PROVE  IncomingInv'
  <2>1. ASSUME NEW g \in Handle PROVE UpTo(InSeq(g)', incoming)
    <3>1. CASE g # h
      BY <1>0, <1>3, <3>1 DEF InSeq
    <3>2. CASE g = h
      <4>1. UpTo(Cat(Cat(Cat(got[h], <<>>), FlattenSeq(recvq)), pushing), incoming)
        BY <1>0, PartLeftOut DEF InSeq
      <4>2. QED
        BY <1>0, <1>3, <3>2, <4>1 DEF InSeq
    <3>3. QED
      BY <3>1, <3>2
  <2>2. QED
    BY <1>3, <2>1 DEF IncomingInv
<1>4. ASSUME NEW h \in Handle, NEW g \in Handle, CloneHandle(h, g) PROVE IncomingInv'
  <2>1. /\ UNCHANGED <<recvq, pushing, incoming, rpc>>
        /\ recv_buf' = [recv_buf EXCEPT ![g] = recv_buf[h]]
        /\ got' = [got EXCEPT ![g] = <<>>]
    BY <1>4 DEF CloneHandle
  <2>2. ASSUME NEW k \in Handle PROVE UpTo(InSeq(k)', incoming)
    <3>1. CASE k # g
      BY <1>0, <2>1, <3>1 DEF InSeq
    <3>2. CASE k = g
      <4>1. UpTo(Cat(Cat(Cat(<<>>, recv_buf[h]), FlattenSeq(recvq)), pushing), incoming)
        BY <1>0, PartLeftOut DEF InSeq
      <4>2. QED
        BY <1>0, <2>1, <3>2, <4>1 DEF InSeq
    <3>3. QED
      BY <3>1, <3>2
  <2>3. QED
    BY <2>1, <2>2 DEF IncomingInv
<1>5. ASSUME NEW h \in Handle, Application(h) PROVE IncomingInv'
  <2>1. CASE PollRead(h)
    BY <1>1, <1>2, <1>3, <2>1 DEF PollRead, ReadPending
  <2>2. CASE DropHandle(h)
    BY <1>3, <2>2 DEF DropHandle
  <2>3. CASE PollWrite(h) \/ TrySend(h) \/ PollClose(h) \/ Repoll(h)
    BY <2>3, IncomingUntouched DEF PollWrite, TrySend, PollClose, Repoll
  <2>4. QED
    BY <1>4, <1>5, <2>1, <2>2, <2>3 DEF Application
<1>6. ASSUME NEW k \in MsgLens, RecvBinary(k) PROVE IncomingInv'
  <2>1. /\ UNCHANGED <<got, recv_buf, recvq>> /\ pushing = <<>> /\ rpc' = "push"
        /\ pushing' = [i \in 1..k |-> incoming + i] /\ incoming' = incoming + k
    BY <1>6 DEF RecvBinary, IncomingInv
  <2>2. k \in Nat
    BY PipeAssumption
  <2>3. ASSUME NEW h \in Handle PROVE UpTo(InSeq(h)', incoming')
    <3> DEFINE front == Cat(Cat(got[h], recv_buf[h]), FlattenSeq(recvq))
    <3>1. front \in Seq(Nat)
      BY <1>0, CatAssociative
    <3>2. InSeq(h) = Cat(front, <<>>) /\ InSeq(h)' = Cat(front, pushing')
      BY <2>1 DEF InSeq
    <3> HIDE DEF front
    <3>3. UpTo(front, incoming)
      BY <1>0, <3>1, <3>2, CatAssociative
    <3>4. UpTo(Cat(front, [i \in 1..k |-> incoming + i]), incoming + k)
      BY <1>0, <2>2, <3>1, <3>3, NewBytes DEF Cat
    <3>5. QED
      BY <2>1, <3>2, <3>4
  <2>4. QED
    BY <2>1, <2>3 DEF IncomingInv
<1>7. CASE RecvPush
  <2>1. /\ UNCHANGED <<got, recv_buf, incoming>>
        /\ pushing' = <<>> /\ recvq' = Append(recvq, pushing)
    BY <1>7 DEF RecvPush, Push
  <2>2. FlattenSeq(recvq') = Cat(FlattenSeq(recvq), pushing)
    BY <1>0, <2>1, FlattenAppend DEF Cat
  <2>3. ASSUME NEW h \in Handle PROVE InSeq(h)' = InSeq(h)
    <3> DEFINE x == Cat(got[h], recv_buf[h])
               y == FlattenSeq(recvq)
    <3>1. x \in Seq(Nat) /\ y \in Seq(Nat)
      BY <1>0, CatAssociative
    <3>2. /\ InSeq(h) = Cat(Cat(x, y), pushing)
          /\ InSeq(h)' = Cat(Cat(x, Cat(y, pushing)), <<>>)
      BY <2>1, <2>2 DEF InSeq
    <3> HIDE DEF x, y
    <3>3. Cat(Cat(x, Cat(y, pushing)), <<>>) = Cat(Cat(x, y), pushing)
      BY <1>0, <3>1, CatAssociative
    <3>4. QED
      BY <3>2, <3>3
  <2>4. QED
    BY <2>1, <2>3 DEF IncomingInv
<1>8. CASE UNCHANGED <<got, recv_buf, recvq, pushing, incoming, rpc>>
  BY <1>8, IncomingUntouched
<1>9. CASE SendLoop
  BY <1>8, <1>9, ExitKeepsIncoming
     DEF SendLoop, SendCheck, SendRecv, SendRecvClosed, SendDone, SendError
<1>10. CASE RecvLoop
  <2>1. CASE RecvCheck \/ RecvOther \/ RecvErr
    BY <2>1, IncomingUntouched, ExitKeepsIncoming DEF RecvCheck, RecvOther, RecvErr
  <2>2. CASE RecvEnd \/ RecvPushClosed
    BY <2>2, ExitKeepsIncoming DEF RecvEnd, RecvPushClosed
  <2>3. QED
    BY <1>6, <1>7, <1>10, <2>1, <2>2 DEF RecvLoop
<1>11. CASE LinkDown \/ UNCHANGED vars
  BY <1>8, <1>11 DEF LinkDown, vars
<1>12. QED
  BY <1>5, <1>9, <1>10, <1>11 DEF Next

LEMMA IncomingInit == Init => IncomingInv
<1> SUFFICES ASSUME Init PROVE IncomingInv
  OBVIOUS
<1>1. /\ \A h \in Handle : got[h] = <<>> /\ recv_buf[h] = <<>>
      /\ recvq = <<>> /\ pushing = <<>> /\ incoming = 0
  BY DEF Init
<1>2. Cat(<<>>, <<>>) = <<>>
  BY DEF Cat
<1>3. \A h \in Handle : InSeq(h) = <<>>
  BY <1>1, <1>2, FlattenEmpty DEF InSeq
<1>4. UpTo(<<>>, 0)
  BY DEF UpTo, Increasing
<1>5. QED
  BY <1>1, <1>3, <1>4 DEF IncomingInv

(* What the reader of any handle has got, holds and has before it is in    *)
(* the order in which the websocket presented it, with nothing twice,      *)
(* however handles are cloned and dropped and buffers sized.               *)
THEOREM IncomingOrderCorrect == Spec => []IncomingOrder
<1>1. TypeOK /\ IncomingInv => IncomingOrder
  <2> SUFFICES ASSUME TypeOK, IncomingInv, NEW h \in live
               PROVE  LET s == ((got[h] \o recv_buf[h]) \o FlattenSeq(recvq)) \o pushing
                      IN  \A i, j \in DOMAIN s : i < j => s[i] < s[j]
    BY DEF IncomingOrder
  <2>1. Increasing(InSeq(h))
    BY DEF TypeOK, IncomingInv, UpTo
  <2>2. QED
    BY <2>1 DEF Increasing, InSeq, Cat
<1>2. QED
  BY <1>1, IncomingInit, IncomingStep, TypeCorrect, PTL DEF Spec

-----------------------------------------------------------------------------
(* The incoming stream of a pipe with one handle.  A step takes bytes out  *)
(* of Unread at the front, or puts new ones at its back, or loses what     *)
(* recv_buf held, or ends the task.                                        *)
Unshared == Handle = {Reader}

Taken == /\ incoming' = incoming
         /\ \E f \in Seq(Nat) : /\ got'[Reader] = Cat(got[Reader], f)
                                /\ Unread = Cat(f, Unread')

Came == \E k \in Nat : /\ incoming' = incoming + k /\ got'[Reader] = got[Reader]
                       /\ Unread' = Cat(Unread, [i \in 1..k |-> incoming + i])

LeftoverLost == /\ UNCHANGED <<got, recvq, pushing, incoming>> /\ recv_buf'[Reader] = <<>>
                /\ recvq = <<>> \/ Reader \notin live'

LEMMA UnsharedTypes ==
  ASSUME Unshared, TypeOK
  PROVE  /\ Reader \in Handle
         /\ got[Reader] \in Seq(Nat) /\ recv_buf[Reader] \in Seq(Nat)
         /\ FlattenSeq(recvq) \in Seq(Nat) /\ pushing \in Seq(Nat) /\ incoming \in Nat
         /\ Unread = Cat(Cat(recv_buf[Reader], FlattenSeq(recvq)), pushing)
         /\ Unread \in Seq(Nat) /\ Stream = Cat(got[Reader], Unread)
         /\ Stream = InSeq(Reader) /\ Stream \in Seq(Nat)
<1>1. Reader \in Handle
  BY DEF Unshared
<1>2. /\ got[Reader] \in Seq(Nat) /\ recv_buf[Reader] \in Seq(Nat)
      /\ FlattenSeq(recvq) \in Seq(Nat) /\ pushing \in Seq(Nat) /\ incoming \in Nat
  BY <1>1, IncomingTypes
<1>3. /\ Unread = Cat(Cat(recv_buf[Reader], FlattenSeq(recvq)), pushing)
      /\ Stream = Cat(got[Reader], Unread)
  BY DEF Unread, Stream, Cat
<1> DEFINE a == got[Reader]
           b == recv_buf[Reader]
           f == FlattenSeq(recvq)
           u == Unread
<1>4. /\ a \in Seq(Nat) /\ b \in Seq(Nat) /\ f \in Seq(Nat)
      /\ u = Cat(Cat(b, f), pushing) /\ InSeq(Reader) = Cat(Cat(Cat(a, b), f), pushing)
  BY <1>2, <1>3 DEF InSeq
<1> HIDE DEF a, b, f, u
<1>5. u \in Seq(Nat) /\ Cat(a, u) \in Seq(Nat)
  BY <1>2, <1>4, CatAssociative
<1>6. Cat(Cat(Cat(a, b), f), pushing) = Cat(a, u)
  BY <1>2, <1>4, CatAssociative
<1>7. QED
  BY <1>1, <1>2, <1>3, <1>4, <1>5, <1>6 DEF a, u

\* Moving nothing is the simplest way of taking.
LEMMA NothingTaken ==
  ASSUME Unshared, TypeOK, Unread' = Unread, UNCHANGED <<incoming, got>>
  PROVE  Taken
<1>1. got[Reader] \in Seq(Nat) /\ Unread \in Seq(Nat) /\ <<>> \in Seq(Nat)
  BY UnsharedTypes
<1>2. Cat(got[Reader], <<>>) = got[Reader] /\ Cat(<<>>, Unread) = Unread
  BY <1>1, CatAssociative
<1>3. QED
  BY <1>1, <1>2 DEF Taken

LEMMA UnreadUntouched ==
  ASSUME Unshared, TypeOK, UNCHANGED <<got, recv_buf, recvq, pushing, incoming>>
  PROVE  Taken
<1>1. Unread' = Unread
  BY DEF Unread
<1>2. QED
  BY <1>1, NothingTaken

LEMMA LeftoverIsTaken ==
  ASSUME Unshared, TypeOK, NEW n \in ReadLens, ReadLeftover(Reader, n)
  PROVE  Taken
<1> DEFINE b == recv_buf[Reader]
           q == FlattenSeq(recvq)
           f == FirstOf(b, n)
           r == After(b, n)
<1>1. b \in Seq(Nat) /\ q \in Seq(Nat) /\ pushing \in Seq(Nat) /\ Reader \in Handle /\ n \in Nat
  BY UnsharedTypes, PipeAssumption
<1>2. f \in Seq(Nat) /\ r \in Seq(Nat) /\ Cat(f, r) = b
  BY <1>1, PiecesType, PiecesOfMessage DEF Cat
<1>3. /\ got'[Reader] = Cat(got[Reader], f) /\ recv_buf'[Reader] = r
      /\ UNCHANGED <<recvq, pushing, incoming>>
  BY <1>1 DEF ReadLeftover, TypeOK, Cat, inVars
<1>4. Unread = Cat(Cat(b, q), pushing) /\ Unread' = Cat(Cat(r, q), pushing)
  BY <1>3 DEF Unread, Cat
<1> HIDE DEF b, q, f, r
<1>5. Cat(Cat(b, q), pushing) = Cat(f, Cat(Cat(r, q), pushing))
  <2>1. Cat(r, q) \in Seq(Nat)
    BY <1>1, <1>2, CatAssociative
  <2>2. Cat(b, q) = Cat(f, Cat(r, q))
    BY <1>1, <1>2, CatAssociative
  <2>3. QED
    BY <1>1, <1>2, <2>1, <2>2, CatAssociative
<1>6. QED
  BY <1>2, <1>3, <1>4, <1>5 DEF Taken

LEMMA MessageIsTaken ==
  ASSUME Unshared, TypeOK, NEW n \in ReadLens, ReadMessage(Reader, n)
  PROVE  Taken
<1> DEFINE b == recv_buf[Reader]
           room == n - Len(b)
           m == Head(recvq)
           t == FlattenSeq(Tail(recvq))
           f == FirstOf(m, room)
           r == After(m, room)
<1>1. b \in Seq(Nat) /\ pushing \in Seq(Nat) /\ Reader \in Handle /\ got[Reader] \in Seq(Nat)
  BY UnsharedTypes
<1>2. room \in Nat
  <2>1. Len(b) \in Nat /\ Len(b) <= n /\ n \in Nat
    BY <1>1, LenProperties, PipeAssumption DEF ReadMessage
  <2>2. QED
    BY <2>1
<1>3. recvq # <<>> /\ recvq' = Tail(recvq)
  BY DEF ReadMessage
<1>4. m \in Seq(Nat) /\ t \in Seq(Nat) /\ FlattenSeq(recvq) = Cat(m, t)
  BY <1>3, FlattenRest
<1>5. /\ got'[Reader] = Cat(Cat(got[Reader], b), f) /\ recv_buf'[Reader] = r
      /\ UNCHANGED <<pushing, incoming>>
  BY <1>1 DEF ReadMessage, TypeOK, Cat
<1>6. Unread = Cat(Cat(b, Cat(m, t)), pushing) /\ Unread' = Cat(Cat(r, t), pushing)
  BY <1>3, <1>4, <1>5 DEF Unread, Cat
<1> HIDE DEF b, room, m, t
<1>7. f \in Seq(Nat) /\ r \in Seq(Nat) /\ Cat(f, r) = m
  BY <1>2, <1>4, PiecesType, PiecesOfMessage DEF Cat
<1> HIDE DEF f, r
<1>8. /\ Cat(b, f) \in Seq(Nat)
      /\ Cat(Cat(got[Reader], b), f) = Cat(got[Reader], Cat(b, f))
  <2> DEFINE a == got[Reader]
  <2>1. a \in Seq(Nat)
    BY <1>1
  <2> HIDE DEF a
  <2>2. Cat(b, f) \in Seq(Nat) /\ Cat(Cat(a, b), f) = Cat(a, Cat(b, f))
    BY <1>1, <1>7, <2>1, CatAssociative
  <2>3. QED
    BY <2>2 DEF a
<1>9. Cat(Cat(b, Cat(m, t)), pushing) = Cat(Cat(b, f), Cat(Cat(r, t), pushing))
  <2>1. Cat(r, t) \in Seq(Nat) /\ Cat(m, t) = Cat(f, Cat(r, t))
    BY <1>4, <1>7, CatAssociative
  <2>2. Cat(b, Cat(f, Cat(r, t))) = Cat(Cat(b, f), Cat(r, t))
    BY <1>1, <1>7, <2>1, CatAssociative
  <2>3. Cat(Cat(Cat(b, f), Cat(r, t)), pushing) = Cat(Cat(b, f), Cat(Cat(r, t), pushing))
    BY <1>1, <1>8, <2>1, CatAssociative
  <2>4. QED
    BY <2>1, <2>2, <2>3
<1>10. QED
  BY <1>5, <1>6, <1>8, <1>9 DEF Taken

LEMMA UnsharedStep ==
  ASSUME Unshared, TypeOK, IncomingInv, [Next]_vars
  PROVE  Taken \/ Came \/ LeftoverLost \/ Exit
<1> USE DEF handleVars, outVars, inVars, late
<1>0. Reader \in Handle /\ \A h \in Handle : h = Reader
  BY DEF Unshared
<1>1. CASE Application(Reader)
  <2>1. CASE PollRead(Reader)
    <3>1. ASSUME NEW n \in ReadLens, ReadPending(Reader, n) PROVE LeftoverLost
      BY <1>0, <3>1 DEF ReadPending, LeftoverLost, TypeOK
    <3>2. QED
      BY <2>1, <3>1, LeftoverIsTaken, MessageIsTaken DEF PollRead
  <2>2. CASE DropHandle(Reader)
    BY <1>0, <2>2 DEF DropHandle, LeftoverLost, TypeOK
  <2>3. CASE PollWrite(Reader) \/ TrySend(Reader) \/ PollClose(Reader) \/ Repoll(Reader)
    BY <2>3, UnreadUntouched DEF PollWrite, TrySend, PollClose, Repoll
  <2>4. ASSUME NEW g \in Handle, CloneHandle(Reader, g) PROVE FALSE
    BY <1>0, <2>4 DEF CloneHandle, Idle
  <2>5. QED
    BY <1>1, <2>1, <2>2, <2>3, <2>4 DEF Application
<1>2. ASSUME NEW k \in MsgLens, RecvBinary(k) PROVE Came
  <2>1. /\ UNCHANGED <<got, recv_buf, recvq>> /\ pushing = <<>>
        /\ pushing' = [i \in 1..k |-> incoming + i] /\ incoming' = incoming + k /\ k \in Nat
    BY <1>2, PipeAssumption DEF RecvBinary, IncomingInv
  <2> DEFINE front == Cat(recv_buf[Reader], FlattenSeq(recvq))
  <2>2. front \in Seq(Nat)
    BY UnsharedTypes, CatAssociative
  <2>3. Unread = Cat(front, <<>>) /\ Unread' = Cat(front, [i \in 1..k |-> incoming + i])
    BY <2>1 DEF Unread, Cat
  <2> HIDE DEF front
  <2>4. Unread = front
    BY <2>2, <2>3, CatAssociative
  <2>5. QED
    BY <2>1, <2>3, <2>4 DEF Came
<1>3. CASE RecvPush
  <2>1. UNCHANGED <<got, recv_buf, incoming>> /\ pushing' = <<>> /\ recvq' = Append(recvq, pushing)
    BY <1>3 DEF RecvPush, Push
  <2>2. FlattenSeq(recvq') = Cat(FlattenSeq(recvq), pushing)
    BY <2>1, IncomingTypes, FlattenAppend DEF Cat
  <2> DEFINE b == recv_buf[Reader]
             q == FlattenSeq(recvq)
  <2>3. b \in Seq(Nat) /\ q \in Seq(Nat) /\ pushing \in Seq(Nat)
    BY UnsharedTypes
  <2>4. Unread = Cat(Cat(b, q), pushing) /\ Unread' = Cat(Cat(b, Cat(q, pushing)), <<>>)
    BY <2>1, <2>2 DEF Unread, Cat
  <2> HIDE DEF b, q
  <2>5. Cat(Cat(b, Cat(q, pushing)), <<>>) = Cat(Cat(b, q), pushing)
    BY <2>3, CatAssociative
  <2>6. QED
    BY <2>1, <2>4, <2>5, NothingTaken
<1>4. CASE UNCHANGED <<got, recv_buf, recvq, pushing, incoming>>
  BY <1>4, UnreadUntouched
<1>5. CASE SendLoop
  BY <1>4, <1>5
     DEF SendLoop, SendCheck, SendRecv, SendRecvClosed, SendDone, SendError
<1>6. CASE RecvLoop
  BY <1>2, <1>3, <1>4, <1>6
     DEF RecvLoop, RecvCheck, RecvOther, RecvErr, RecvEnd, RecvPushClosed
<1>7. CASE LinkDown \/ UNCHANGED vars
  BY <1>4, <1>7 DEF LinkDown, vars
<1>8. QED
  BY <1>0, <1>1, <1>5, <1>6, <1>7 DEF Next

\* The same after a step.
LEMMA UnreadAfter ==
  ASSUME Unshared, TypeOK'
  PROVE  /\ got'[Reader] \in Seq(Nat) /\ Unread' \in Seq(Nat)
         /\ Stream' = Cat(got'[Reader], Unread')
<1>1. /\ got'[Reader] \in Seq(Nat) /\ recv_buf'[Reader] \in Seq(Nat)
      /\ recvq' \in Seq(Seq(Nat)) /\ pushing' \in Seq(Nat)
  BY DEF TypeOK, Unshared
<1>2. FlattenSeq(recvq') \in Seq(Nat)
  BY <1>1, FlattenType
<1>3. Unread' = Cat(Cat(recv_buf'[Reader], FlattenSeq(recvq')), pushing')
  BY DEF Unread, Cat
<1>4. Stream' = Cat(got'[Reader], Unread')
  BY DEF Stream, Cat
<1>5. QED
  BY <1>1, <1>2, <1>3, <1>4, CatAssociative

\* While bytes are only taken and new ones come, the stream grows at its end.
LEMMA StreamExtends ==
  ASSUME Unshared, TypeOK, TypeOK', Taken \/ Came
  PROVE  /\ incoming \in Nat /\ incoming' - incoming \in Nat
         /\ Stream' = Stream \o [i \in 1..(incoming' - incoming) |-> incoming + i]
<1> DEFINE a == got[Reader]
           u == Unread
<1>1. /\ a \in Seq(Nat) /\ u \in Seq(Nat) /\ incoming \in Nat
      /\ Stream = Cat(a, u) /\ Stream' = Cat(a', u') /\ u' \in Seq(Nat)
  BY UnsharedTypes, UnreadAfter
<1>2. CASE Taken
  <2>1. PICK f \in Seq(Nat) : a' = Cat(a, f) /\ u = Cat(f, u')
    BY <1>2 DEF Taken
  <2>2. incoming' - incoming = 0
    BY <1>1, <1>2 DEF Taken
  <2>3. [i \in 1..0 |-> incoming + i] = <<>>
    OBVIOUS
  <2> HIDE DEF a, u
  <2>4. Cat(Cat(a, f), u') = Cat(a, Cat(f, u')) /\ Cat(Cat(a, u), <<>>) = Cat(a, u)
    BY <1>1, CatAssociative
  <2>5. Stream' = Cat(Stream, <<>>)
    BY <1>1, <2>1, <2>4
  <2>6. QED
    BY <1>1, <2>2, <2>3, <2>5 DEF Cat
<1>3. CASE Came
  <2>1. PICK k \in Nat : /\ incoming' = incoming + k /\ a' = a
                         /\ u' = Cat(u, [i \in 1..k |-> incoming + i])
    BY <1>3 DEF Came
  <2>2. incoming' - incoming = k
    BY <1>1, <2>1
  <2> DEFINE new == [i \in 1..k |-> incoming + i]
  <2>3. new \in Seq(Nat)
    BY <1>1, BytesType
  <2> HIDE DEF a, u, new
  <2>4. Cat(a, Cat(u, new)) = Cat(Cat(a, u), new)
    BY <1>1, <2>3, CatAssociative
  <2>5. Stream' = Cat(Stream, new)
    BY <1>1, <2>1, <2>4 DEF new
  <2>6. QED
    BY <1>1, <2>2, <2>5 DEF Cat, new
<1>4. QED
  BY <1>2, <1>3

LEMMA OnlyLeftoverLostStep ==
  ASSUME Unshared, TypeOK, TypeOK', IncomingInv, [Next]_vars, spc' # "done", Reader \in live'
  PROVE  \/ Stream' = Stream \o [i \in 1..(incoming' - incoming) |-> incoming + i]
         \/ recvq = <<>> /\ Stream' = got[Reader] \o pushing
<1> DEFINE a == got[Reader]
           u == Unread
<1>1. /\ a \in Seq(Nat) /\ u' \in Seq(Nat) /\ Stream' = Cat(a', u')
  BY UnsharedTypes, UnreadAfter
<1>2. CASE Taken \/ Came
  BY <1>2, StreamExtends
<1>4. CASE LeftoverLost
  <2>1. /\ recvq = <<>> /\ recvq' = <<>> /\ a' = a /\ recv_buf'[Reader] = <<>>
        /\ pushing' = pushing
    BY <1>4 DEF LeftoverLost
  <2>2. u' = Cat(Cat(<<>>, <<>>), pushing)
    BY <2>1, FlattenEmpty DEF Unread, Cat
  <2>3. pushing \in Seq(Nat) /\ <<>> \in Seq(Nat)
    BY UnsharedTypes
  <2>4. Cat(Cat(<<>>, <<>>), pushing) = pushing
    BY <2>3, CatAssociative
  <2>5. Stream' = Cat(a, pushing)
    BY <1>1, <2>1, <2>2, <2>4
  <2>6. QED
    BY <2>1, <2>5 DEF Cat
<1>5. CASE Exit
  BY <1>5 DEF Exit
<1>6. QED
  BY <1>2, <1>4, <1>5, UnsharedStep

(* All that the reader of an unshared, living pipe ever misses is what     *)
(* recv_buf held when a read found nothing queued.                         *)
THEOREM LosesOnlyLeftoverCorrect == ASSUME Unshared PROVE Spec => LosesOnlyLeftover
<1>1. /\ TypeOK /\ TypeOK' /\ IncomingInv /\ [Next]_vars
      => [spc' # "done" /\ Reader \in live' =>
            \/ Stream' = Stream \o [i \in 1..(incoming' - incoming) |-> incoming + i]
            \/ recvq = <<>> /\ Stream' = got[Reader] \o pushing]_vars
  BY OnlyLeftoverLostStep
<1>2. QED
  BY <1>1, IncomingInit, IncomingStep, TypeCorrect, PTL DEF Spec, LosesOnlyLeftover

-----------------------------------------------------------------------------
(* When nothing is missed: if every message fits every buffer, nothing is  *)
(* ever left over.                                                         *)
MessagesFit == \A m \in MsgLens, n \in ReadLens : m <= n

Fits(m) == \A n \in ReadLens : Len(m) <= n

\* What is queued or about to be fits any buffer, so recv_buf is never used.
FitsInv == /\ \A i \in DOMAIN recvq : Fits(recvq[i])
           /\ Fits(pushing)
           /\ recv_buf = [h \in Handle |-> <<>>]

LEMMA FitsInit == ASSUME Init PROVE FitsInv
<1>1. Len(<<>>) = 0 /\ DOMAIN recvq = {}
  BY DEF Init
<1>2. QED
  BY <1>1, PipeAssumption DEF Init, FitsInv, Fits

\* A buffer that fits the message leaves nothing of it.
LEMMA NothingLeft ==
  ASSUME NEW m \in Seq(Nat), NEW n \in Nat, Len(m) <= n
  PROVE  After(m, n) = <<>>
BY DEF After

LEMMA FitsStep ==
  ASSUME MessagesFit, TypeOK, FitsInv, [Next]_vars
  PROVE  FitsInv'
<1> USE DEF handleVars, outVars, inVars, late
<1>1. recvq \in Seq(Seq(Nat)) /\ pushing \in Seq(Nat) /\ Len(<<>>) = 0 /\ <<>> \in Seq(Nat)
  BY DEF TypeOK
<1>2. ASSUME UNCHANGED recvq, UNCHANGED recv_buf, UNCHANGED pushing \/ pushing' = <<>>
      PROVE  FitsInv'
  BY <1>1, <1>2, PipeAssumption DEF FitsInv, Fits
<1>3. ASSUME NEW h \in Handle, Application(h) PROVE FitsInv'
  <2>1. ASSUME NEW n \in ReadLens, ReadMessage(h, n) PROVE FitsInv'
    <3>1. n \in Nat /\ recv_buf[h] = <<>> /\ recvq # <<>>
      BY <2>1, PipeAssumption DEF ReadMessage, FitsInv
    <3>2. Head(recvq) \in Seq(Nat) /\ Fits(Head(recvq))
      BY <1>1, <3>1 DEF FitsInv
    <3>3. After(Head(recvq), n - Len(recv_buf[h])) = <<>>
      <4>1. n - Len(recv_buf[h]) = n /\ Len(Head(recvq)) <= n
        BY <1>1, <3>1, <3>2 DEF Fits
      <4>2. QED
        BY <3>1, <3>2, <4>1, NothingLeft
    <3>4. recv_buf' = [recv_buf EXCEPT ![h] = <<>>]
      BY <2>1, <3>3 DEF ReadMessage
    <3>5. recv_buf' = [g \in Handle |-> <<>>]
      BY <3>4 DEF FitsInv
    <3>6. \A i \in DOMAIN recvq' : Fits(recvq'[i])
      <4>1. recvq' = Tail(recvq)
        BY <2>1 DEF ReadMessage
      <4>2. \A i \in DOMAIN Tail(recvq) : i + 1 \in DOMAIN recvq /\ Tail(recvq)[i] = recvq[i + 1]
        BY <1>1, <3>1
      <4>3. QED
        BY <4>1, <4>2 DEF FitsInv
    <3>7. pushing' = pushing
      BY <2>1 DEF ReadMessage
    <3>8. QED
      BY <3>5, <3>6, <3>7 DEF FitsInv, Fits
  <2>2. ASSUME NEW n \in ReadLens, ReadLeftover(h, n) PROVE FALSE
    BY <1>1, <2>2, PipeAssumption DEF ReadLeftover, FitsInv
  <2>3. ASSUME NEW n \in ReadLens, ReadPending(h, n) PROVE FitsInv'
    <3>1. recv_buf' = recv_buf
      BY <2>3 DEF ReadPending, FitsInv
    <3>2. QED
      BY <1>2, <2>3, <3>1 DEF ReadPending
  <2>4. CASE DropHandle(h)
    <3>1. recv_buf' = recv_buf
      BY <2>4 DEF DropHandle, FitsInv
    <3>2. QED
      BY <1>2, <2>4, <3>1 DEF DropHandle
  <2>5. ASSUME NEW g \in Handle, CloneHandle(h, g) PROVE FitsInv'
    <3>1. recv_buf' = recv_buf
      BY <2>5 DEF CloneHandle, FitsInv
    <3>2. QED
      BY <1>2, <2>5, <3>1 DEF CloneHandle
  <2>6. CASE PollWrite(h) \/ TrySend(h) \/ PollClose(h) \/ Repoll(h)
    BY <1>2, <2>6 DEF PollWrite, TrySend, PollClose, Repoll
  <2>7. QED
    BY <1>3, <2>1, <2>2, <2>3, <2>4, <2>5, <2>6 DEF Application, PollRead
<1>4. ASSUME NEW k \in MsgLens, RecvBinary(k) PROVE FitsInv'
  <2>1. /\ UNCHANGED <<recvq, recv_buf>> /\ k \in Nat
        /\ pushing' = [i \in 1..k |-> incoming + i]
    BY <1>4, PipeAssumption DEF RecvBinary
  <2>2. Len(pushing') = k
    BY <2>1, BytesType DEF TypeOK
  <2>3. Fits(pushing')
    BY <1>4, <2>2 DEF MessagesFit, Fits
  <2>4. QED
    BY <2>1, <2>3 DEF FitsInv, Fits
<1>5. CASE RecvPush
  <2>1. recvq' = Append(recvq, pushing) /\ pushing' = <<>> /\ recv_buf' = recv_buf
    BY <1>5 DEF RecvPush, Push
  <2>2. \A i \in DOMAIN recvq' : recvq'[i] = pushing \/ (i \in DOMAIN recvq /\ recvq'[i] = recvq[i])
    BY <1>1, <2>1
  <2>3. \A i \in DOMAIN recvq' : Fits(recvq'[i])
    BY <2>2 DEF FitsInv
  <2>4. QED
    BY <1>1, <2>1, <2>3, PipeAssumption DEF FitsInv, Fits
<1>6. CASE SendLoop \/ RecvCheck \/ RecvOther \/ RecvErr \/ RecvEnd \/ RecvPushClosed
           \/ LinkDown \/ UNCHANGED vars
  BY <1>2, <1>6 DEF SendLoop, SendCheck, SendRecv, SendRecvClosed, SendDone, SendError, Exit,
                    RecvCheck, RecvOther, RecvErr, RecvEnd, RecvPushClosed, LinkDown, vars
<1>7. QED
  BY <1>3, <1>4, <1>5, <1>6 DEF Next, RecvLoop

LEMMA NumbersExtend ==
  ASSUME NEW n \in Nat, NEW k \in Nat
  PROVE  [i \in 1..n |-> i] \o [i \in 1..k |-> n + i] = [i \in 1..(n + k) |-> i]
<1> DEFINE x == [i \in 1..n |-> i]
           y == [i \in 1..k |-> n + i]
           w == x \o y
           v == [i \in 1..(n + k) |-> i]
<1>1. /\ x \in Seq(Nat) /\ Len(x) = n /\ \A i \in 1..n : x[i] = i
      /\ y \in Seq(Nat) /\ Len(y) = k /\ \A i \in 1..k : y[i] = n + i
  BY BytesType
<1> HIDE DEF x, y
<1>2. /\ w \in Seq(Nat) /\ DOMAIN w = 1..(Len(x) + Len(y))
      /\ \A i \in 1..Len(x) : w[i] = x[i]
      /\ \A i \in 1..Len(y) : w[Len(x) + i] = y[i]
  <2>1. x \in Seq(Nat) /\ y \in Seq(Nat)
    BY <1>1
  <2>2. QED
    BY <2>1, ConcatParts
<1> HIDE DEF w
<1>3. ASSUME NEW i \in 1..(n + k) PROVE w[i] = i
  <2>1. CASE i \in 1..n
    BY <1>1, <1>2, <2>1
  <2>2. CASE i \notin 1..n
    <3>1. i - n \in 1..k /\ n + (i - n) = i
      BY <2>2
    <3>2. QED
      BY <1>1, <1>2, <3>1
  <2>3. QED
    BY <2>1, <2>2
<1>4. w = [i \in 1..(n + k) |-> w[i]]
  BY <1>1, <1>2
<1>5. QED
  BY <1>3, <1>4 DEF w, x, y

LEMMA IntactStep ==
  ASSUME Unshared, TypeOK, TypeOK', IncomingInv, FitsInv, FitsInv', StreamIntact, [Next]_vars
  PROVE  StreamIntact'
<1> SUFFICES ASSUME Reader \in live', spc' # "done"
             PROVE  Stream' = [i \in 1..incoming' |-> i]
  BY DEF StreamIntact, TaskDone
<1>1. Reader \in Handle /\ recv_buf[Reader] = <<>> /\ recv_buf'[Reader] = <<>>
  BY DEF Unshared, FitsInv
<1>2. Reader \in live
  <2>1. ASSUME NEW h \in Handle, NEW g \in Handle, CloneHandle(h, g) PROVE FALSE
    BY <2>1 DEF CloneHandle, Idle, Unshared
  <2>2. live' \subseteq live
    BY <2>1 DEF Next, vars, handleVars, Application, PollRead, PollWrite, TrySend, PollClose,
                DropHandle, ReadLeftover, ReadPending, ReadMessage, Repoll, SendLoop,
                SendCheck, SendRecv, SendRecvClosed, SendDone, SendError, Exit, RecvLoop,
                RecvCheck, RecvBinary, RecvOther, RecvErr, RecvEnd, RecvPush,
                RecvPushClosed, LinkDown
  <2>3. QED
    BY <2>2
<1>3. spc # "done"
  BY DEF Next, vars, handleVars, outVars, Application, PollRead, PollWrite, TrySend, PollClose,
         CloneHandle, DropHandle, ReadLeftover, ReadPending, ReadMessage, Repoll, SendLoop,
         SendCheck, SendRecv, SendRecvClosed, SendDone, SendError, Exit, RecvLoop,
         RecvCheck, RecvBinary, RecvOther, RecvErr, RecvEnd, RecvPush, RecvPushClosed,
         LinkDown
<1>4. Stream = [i \in 1..incoming |-> i]
  BY <1>2, <1>3 DEF StreamIntact, TaskDone
<1>5. LeftoverLost => Taken
  <2> SUFFICES ASSUME LeftoverLost PROVE Taken
    OBVIOUS
  <2>1. Unread' = Unread
    BY <1>1 DEF LeftoverLost, Unread
  <2>2. QED
    BY <2>1, NothingTaken DEF LeftoverLost
<1>6. ~Exit
  BY DEF Exit
<1>7. Taken \/ Came
  BY <1>5, <1>6, UnsharedStep
<1> DEFINE k == incoming' - incoming
<1>8. /\ incoming \in Nat /\ k \in Nat
      /\ Stream' = Stream \o [i \in 1..k |-> incoming + i]
  BY <1>7, StreamExtends
<1>9. incoming' = incoming + k
  <2>1. incoming \in Nat /\ incoming' \in Nat
    BY DEF TypeOK
  <2>2. \A a, b \in Nat : b = a + (b - a)
    OBVIOUS
  <2>3. QED
    BY <2>1, <2>2
<1> HIDE DEF k
<1>10. QED
  BY <1>4, <1>8, <1>9, NumbersExtend

(* An unshared pipe whose messages all fit the buffers it is read with     *)
(* loses nothing while its task lives: poll_read's copy and clear of       *)
(* recv_buf, by which it loses bytes of a longer message, is the only      *)
(* place where it can.                                                     *)
THEOREM FittingIsIntactCorrect == ASSUME Unshared, MessagesFit PROVE Spec => []StreamIntact
<1>1. Init => StreamIntact
  <2> SUFFICES ASSUME Init PROVE StreamIntact
    OBVIOUS
  <2>1. /\ incoming = 0 /\ got[Reader] = <<>> /\ recv_buf[Reader] = <<>>
        /\ recvq = <<>> /\ pushing = <<>>
    BY DEF Init, Unshared
  <2>2. Cat(<<>>, Cat(Cat(<<>>, <<>>), <<>>)) = <<>> /\ [i \in 1..0 |-> i] = <<>>
    BY DEF Cat
  <2>3. Stream = <<>>
    BY <2>1, <2>2, FlattenEmpty DEF Stream, Unread, Cat
  <2>4. QED
    BY <2>1, <2>2, <2>3 DEF StreamIntact
<1>2. Init => FitsInv
  BY FitsInit
<1>3. TypeOK /\ FitsInv /\ [Next]_vars => FitsInv'
  BY FitsStep
<1>4. /\ TypeOK /\ TypeOK' /\ IncomingInv /\ FitsInv /\ FitsInv' /\ StreamIntact /\ [Next]_vars
      => StreamIntact'
  BY IntactStep
<1>5. QED
  BY <1>1, <1>2, <1>3, <1>4, IncomingInit, IncomingStep, TypeCorrect, PTL DEF Spec

-----------------------------------------------------------------------------
(* And as a stream that loses: each of these steps is one of LossyStream.  *)

\* What a concatenation is made of.
LEMMA ElementsOfCat ==
  ASSUME NEW s \in Seq(Nat), NEW t \in Seq(Nat)
  PROVE  /\ \A i \in DOMAIN s : s[i] \in Incoming!Elements(Cat(s, t))
         /\ \A i \in DOMAIN t : t[i] \in Incoming!Elements(Cat(s, t))
<1> DEFINE w == Cat(s, t)
<1>1. /\ DOMAIN s = 1..Len(s) /\ DOMAIN t = 1..Len(t) /\ DOMAIN w = 1..(Len(s) + Len(t))
      /\ Len(s) \in Nat /\ Len(t) \in Nat
      /\ \A i \in 1..Len(s) : w[i] = s[i]
      /\ \A i \in 1..Len(t) : w[Len(s) + i] = t[i]
  BY ConcatParts DEF Cat
<1> HIDE DEF w
<1>2. \A i \in 1..Len(s) : i \in DOMAIN w
  BY <1>1
<1>3. \A i \in 1..Len(t) : Len(s) + i \in DOMAIN w
  BY <1>1
<1>4. \A j \in DOMAIN w : w[j] \in Incoming!Elements(w)
  BY DEF Incoming!Elements
<1>5. QED
  BY <1>1, <1>2, <1>3, <1>4 DEF w

LEMMA UnreadAscends ==
  ASSUME Unshared, TypeOK, IncomingInv
  PROVE  Incoming!Ascending(Unread)
<1>1. /\ got[Reader] \in Seq(Nat) /\ Unread \in Seq(Nat)
      /\ Cat(got[Reader], Unread) = InSeq(Reader) /\ Reader \in Handle
  BY UnsharedTypes
<1>2. Increasing(Cat(got[Reader], Unread))
  BY <1>1 DEF IncomingInv, UpTo
<1>3. Increasing(Unread)
  BY <1>1, <1>2, IncreasingParts DEF Cat
<1>4. QED
  BY <1>3 DEF Incoming!Ascending, Increasing

LEMMA PartIsLost ==
  ASSUME Unread' \in Seq(Nat), Incoming!Ascending(Unread)', UNCHANGED <<incoming, got>>,
         \A i \in DOMAIN Unread' : Unread'[i] \in Incoming!Elements(Unread)
  PROVE  Incoming!Lose
<1> DEFINE s == Unread'
           S == Incoming!Elements(Unread)
<1>1. s \in Seq(S)
  <2>1. s \in Seq(Nat) /\ \A i \in DOMAIN s : s[i] \in S
    OBVIOUS
  <2> HIDE DEF s, S
  <2>2. QED
    BY <2>1
<1>2. QED
  BY <1>1 DEF Incoming!Lose, Incoming!Ascending

LEMMA TakenIsGet ==
  ASSUME Unshared, TypeOK, TypeOK', Taken
  PROVE  [Incoming!Get]_Incoming!vars
<1>1. PICK f \in Seq(Nat) : /\ got'[Reader] = Cat(got[Reader], f)
                            /\ Unread = Cat(f, Unread')
  BY DEF Taken
<1>2. /\ got[Reader] \in Seq(Nat) /\ Unread \in Seq(Nat) /\ Unread' \in Seq(Nat)
      /\ incoming' = incoming
  BY UnsharedTypes, UnreadAfter DEF Taken
<1>3. CASE f = <<>>
  <2>1. Cat(got[Reader], <<>>) = got[Reader] /\ Cat(<<>>, Unread') = Unread'
    BY <1>2, CatAssociative
  <2>2. got'[Reader] = got[Reader] /\ Unread' = Unread
    BY <1>1, <1>3, <2>1
  <2>3. QED
    BY <1>2, <2>2 DEF Incoming!vars
<1>4. CASE f # <<>>
  <2> DEFINE k == Len(f)
             u == Unread
  <2>1. /\ k \in 0..Len(u) /\ SubSeq(u, 1, k) = f
        /\ SubSeq(u, k + 1, Len(u)) = Unread'
    BY <1>1, <1>2, FrontTaken
  <2>2. k # 0
    BY <1>4, EmptySeq
  <2>3. Len(u) \in Nat
    BY <1>2, LenProperties
  <2> HIDE DEF k, u
  <2>4. k \in 1..Len(u)
    BY <2>1, <2>2, <2>3
  <2>5. got'[Reader] = got[Reader] \o SubSeq(u, 1, k)
    BY <1>1, <2>1 DEF Cat
  <2>6. QED
    BY <1>2, <2>1, <2>4, <2>5 DEF Incoming!Get, u
<1>5. QED
  BY <1>3, <1>4

LEMMA CameIsPut ==
  ASSUME Unshared, TypeOK, Came
  PROVE  [Incoming!Put]_Incoming!vars
<1>1. PICK k \in Nat : /\ incoming' = incoming + k /\ got'[Reader] = got[Reader]
                       /\ Unread' = Cat(Unread, [i \in 1..k |-> incoming + i])
  BY DEF Came
<1>2. incoming \in Nat /\ Unread \in Seq(Nat)
  BY UnsharedTypes
<1>3. CASE k = 0
  <2>1. [i \in 1..0 |-> incoming + i] = <<>>
    OBVIOUS
  <2>2. Unread' = Cat(Unread, <<>>)
    BY <1>1, <1>3, <2>1
  <2>3. Unread' = Unread /\ incoming' = incoming
    BY <1>1, <1>2, <1>3, <2>2, CatAssociative
  <2>4. QED
    BY <1>1, <2>3 DEF Incoming!vars
<1>4. CASE k # 0
  <2>1. incoming' \in Nat /\ incoming' > incoming /\ incoming' - incoming = k
    BY <1>1, <1>2, <1>4
  <2>2. QED
    BY <1>1, <2>1 DEF Incoming!Put, Cat
<1>5. QED
  BY <1>3, <1>4

\* A leftover is in front of what remains unread, and recv_loop's message
\* behind it.
LEMMA LeftoverInFront ==
  ASSUME Unshared, TypeOK, TypeOK', LeftoverLost
  PROVE  UNCHANGED <<incoming, got>> /\ \E b \in Seq(Nat) : Unread = Cat(b, Unread')
<1> DEFINE b == recv_buf[Reader]
           q == FlattenSeq(recvq)
           u == Unread'
<1>1. /\ b \in Seq(Nat) /\ q \in Seq(Nat) /\ pushing \in Seq(Nat) /\ <<>> \in Seq(Nat)
      /\ Unread = Cat(Cat(b, q), pushing)
  BY UnsharedTypes
<1>2. u = Cat(Cat(<<>>, q), pushing) /\ UNCHANGED <<incoming, got>>
  BY DEF LeftoverLost, Unread, Cat
<1> HIDE DEF b, q
<1>3. Cat(<<>>, q) = q /\ Cat(Cat(b, q), pushing) = Cat(b, Cat(q, pushing))
  BY <1>1, CatAssociative
<1>4. QED
  BY <1>1, <1>2, <1>3

LEMMA PushingBehind ==
  ASSUME Unshared, TypeOK, TypeOK', Exit
  PROVE  UNCHANGED <<incoming, got>> /\ \E m \in Seq(Nat) : Unread = Cat(Unread', m)
<1> DEFINE front == Cat(recv_buf[Reader], FlattenSeq(recvq))
<1>1. front \in Seq(Nat) /\ pushing \in Seq(Nat) /\ Unread = Cat(front, pushing)
  BY UnsharedTypes, CatAssociative
<1>2. Unread' = Cat(front, <<>>) /\ UNCHANGED <<incoming, got>>
  BY DEF Exit, Unread, Cat, handleVars
<1> HIDE DEF front
<1>3. Unread' = front
  BY <1>1, <1>2, CatAssociative
<1>4. QED
  BY <1>1, <1>2, <1>3

LEMMA LeftoverIsLost ==
  ASSUME Unshared, TypeOK, TypeOK', Incoming!Ascending(Unread)', LeftoverLost
  PROVE  Incoming!Lose
<1>1. PICK b \in Seq(Nat) : Unread = Cat(b, Unread')
  BY LeftoverInFront
<1> DEFINE u == Unread'
<1>2. u \in Seq(Nat) /\ UNCHANGED <<incoming, got>>
  BY UnreadAfter, LeftoverInFront
<1> HIDE DEF u
<1>3. \A i \in DOMAIN u : u[i] \in Incoming!Elements(Cat(b, u))
  BY <1>2, ElementsOfCat
<1>4. QED
  BY <1>1, <1>2, <1>3, PartIsLost DEF u

LEMMA ExitIsLose ==
  ASSUME Unshared, TypeOK, TypeOK', Incoming!Ascending(Unread)', Exit
  PROVE  Incoming!Lose
<1>1. PICK m \in Seq(Nat) : Unread = Cat(Unread', m)
  BY PushingBehind
<1> DEFINE u == Unread'
<1>2. u \in Seq(Nat) /\ UNCHANGED <<incoming, got>>
  BY UnreadAfter, PushingBehind
<1> HIDE DEF u
<1>3. \A i \in DOMAIN u : u[i] \in Incoming!Elements(Cat(u, m))
  BY <1>2, ElementsOfCat
<1>4. QED
  BY <1>1, <1>2, <1>3, PartIsLost DEF u

(* The bytes of an unshared pipe's websocket reach its reader as a         *)
(* LossyStream does: some may be missing, but none is reordered, repeated  *)
(* or invented, whatever buffers the reader polls with and wherever the    *)
(* task ends.                                                              *)
THEOREM IncomingCorrect == ASSUME Unshared PROVE Spec => IncomingStream
<1>1. Init => Incoming!Init
  <2> SUFFICES ASSUME Init PROVE Incoming!Init
    OBVIOUS
  <2>1. /\ incoming = 0 /\ got[Reader] = <<>> /\ recv_buf[Reader] = <<>>
        /\ recvq = <<>> /\ pushing = <<>>
    BY DEF Init, Unshared
  <2>2. Cat(Cat(<<>>, <<>>), <<>>) = <<>>
    BY DEF Cat
  <2>3. Unread = <<>>
    BY <2>1, <2>2, FlattenEmpty DEF Unread, Cat
  <2>4. QED
    BY <2>1, <2>3 DEF Incoming!Init
<1>2. TypeOK /\ IncomingInv => Incoming!Ascending(Unread)
  BY UnreadAscends
<1>3. /\ TypeOK /\ TypeOK' /\ IncomingInv /\ Incoming!Ascending(Unread)' /\ [Next]_vars
      => [Incoming!Next]_Incoming!vars
  <2> SUFFICES ASSUME TypeOK, TypeOK', IncomingInv, Incoming!Ascending(Unread)', [Next]_vars
               PROVE  [Incoming!Next]_Incoming!vars
    OBVIOUS
  <2>1. Taken \/ Came \/ LeftoverLost \/ Exit
    BY UnsharedStep
  <2>2. QED
    BY <2>1, TakenIsGet, CameIsPut, LeftoverIsLost, ExitIsLose DEF Incoming!Next
<1>4. QED
  BY <1>1, <1>2, <1>3, IncomingInit, IncomingStep, TypeCorrect, PTL
     DEF Spec, IncomingStream, Incoming!Spec
-----------------------------------------------------------------------------
(* What is left of the background task once the last handle is dropped.    *)

\* The steps send_loop has before it: three a message, to take it off the
\* queue, to send it and to check the flag again.
SendsLeft == IF TaskDone THEN 0
             ELSE 3 * Len(sendq) + (CASE spc = "check" -> 2 [] spc = "recv" -> 1 [] OTHER -> 3)

SendsBounded == /\ SendsLeft \in 0..(3 * Capacity + 3)
                /\ SendsLeft = 0 => TaskDone

\* Without a handle nothing adds to them and each step of send_loop takes one.
DropDrains ==
  [][live = {} => /\ live' = {}
                  /\ SendsLeft' <= SendsLeft
                  /\ SendLoop => SendsLeft' < SendsLeft]_vars

LEMMA SendsLeftBounded == TypeOK => SendsBounded
<1> SUFFICES ASSUME TypeOK PROVE SendsBounded
  OBVIOUS
<1>1. Len(sendq) \in Nat /\ Len(sendq) <= Capacity /\ Capacity \in Nat
  BY PipeAssumption DEF TypeOK
<1>2. CASE TaskDone
  <2>1. SendsLeft = 0
    BY <1>2 DEF SendsLeft
  <2>2. QED
    BY <1>1, <1>2, <2>1 DEF SendsBounded
<1>3. CASE ~TaskDone
  <2>1. PICK k \in 1..3 : SendsLeft = 3 * Len(sendq) + k
    BY <1>3 DEF SendsLeft
  <2>2. QED
    BY <1>1, <2>1 DEF SendsBounded
<1>4. QED
  BY <1>2, <1>3

LEMMA ExitLeavesNothing == ASSUME TypeOK, ~TaskDone, Exit PROVE SendsLeft' < SendsLeft
<1>1. SendsLeft' = 0
  BY DEF Exit, SendsLeft, TaskDone
<1>2. SendsLeft \in Nat /\ SendsLeft # 0
  BY SendsLeftBounded, PipeAssumption DEF SendsBounded
<1>3. QED
  BY <1>1, <1>2

LEMMA SendLoopAdvances == ASSUME TypeOK, SendLoop PROVE live' = live /\ SendsLeft' < SendsLeft
<1>1. ASSUME Exit, ~TaskDone PROVE live' = live /\ SendsLeft' < SendsLeft
  BY <1>1, ExitLeavesNothing DEF Exit, handleVars
<1>2. Len(sendq) \in Nat
  BY DEF TypeOK
<1>3. CASE SendCheck
  <2>1. CASE LoopGuard /\ spc' = "recv" /\ UNCHANGED <<live, sendq>>
    <3>1. spc = "check" /\ spc' = "recv" /\ sendq' = sendq
      BY <1>3, <2>1 DEF SendCheck
    <3>2. SendsLeft = 3 * Len(sendq) + 2 /\ SendsLeft' = 3 * Len(sendq) + 1
      BY <3>1 DEF SendsLeft, TaskDone
    <3>3. QED
      BY <1>2, <2>1, <3>2
  <2>2. QED
    BY <1>1, <1>3, <2>1 DEF SendCheck, TaskDone, handleVars
<1>4. CASE SendRecv
  <2>1. spc = "recv" /\ spc' = "send" /\ sendq' = Tail(sendq) /\ live' = live
    BY <1>4 DEF SendRecv, handleVars
  <2>2. Len(sendq') = Len(sendq) - 1
    BY <1>4, <2>1, TailType DEF SendRecv, TypeOK
  <2>3. SendsLeft = 3 * Len(sendq) + 1 /\ SendsLeft' = 3 * Len(sendq') + 3
    BY <2>1 DEF SendsLeft, TaskDone
  <2>4. QED
    BY <1>2, <2>1, <2>2, <2>3
<1>5. CASE SendDone
  <2>1. spc = "send" /\ spc' = "check" /\ sendq' = sendq /\ live' = live
    BY <1>5 DEF SendDone, handleVars
  <2>2. SendsLeft = 3 * Len(sendq) + 3 /\ SendsLeft' = 3 * Len(sendq) + 2
    BY <2>1 DEF SendsLeft, TaskDone
  <2>3. QED
    BY <1>2, <2>1, <2>2
<1>6. CASE SendRecvClosed \/ SendError
  BY <1>1, <1>6 DEF SendRecvClosed, SendError, TaskDone
<1>7. QED
  BY <1>3, <1>4, <1>5, <1>6 DEF SendLoop

(* Dropping the last handle leaves send_loop a bounded number of steps: at *)
(* most three for each message that fits in the queue and one round more,  *)
(* none of which recv_loop or the connection adds to, and when they are    *)
(* used up the task has ended.  So whether a dropped pipe's task ends only *)
(* depends on its sends returning.                                         *)
THEOREM DropDrainsCorrect == Spec => []SendsBounded /\ DropDrains
<1>1. TypeOK /\ TypeOK' /\ [Next]_vars
        => [live = {} => /\ live' = {}
                         /\ SendsLeft' <= SendsLeft
                         /\ SendLoop => SendsLeft' < SendsLeft]_vars
  <2> SUFFICES ASSUME TypeOK, TypeOK', Next, live = {}
               PROVE  /\ live' = {}
                      /\ SendsLeft' <= SendsLeft
                      /\ SendLoop => SendsLeft' < SendsLeft
    OBVIOUS
  <2>1. SendsLeft \in Nat
    BY SendsLeftBounded, PipeAssumption DEF SendsBounded
  <2>2. CASE SendLoop
    <3>1. live' = live /\ SendsLeft' < SendsLeft
      BY <2>2, SendLoopAdvances
    <3>2. SendsLeft' \in Int
      <4>1. Len(sendq') \in Nat
        BY DEF TypeOK
      <4>2. QED
        BY <4>1 DEF SendsLeft
    <3>3. QED
      BY <2>1, <3>1, <3>2
  <2>3. CASE RecvLoop \/ LinkDown
    <3>1. live' = live /\ (UNCHANGED <<sendq, spc>> \/ (Exit /\ ~TaskDone) \/ (Exit /\ TaskDone))
      BY <2>3 DEF RecvLoop, LinkDown, RecvCheck, RecvOther, RecvErr, RecvEnd, RecvPush,
                  RecvPushClosed, RecvBinary, Exit, handleVars, outVars
    <3>2. CASE UNCHANGED <<sendq, spc>>
      <4>1. SendsLeft' = SendsLeft
        BY <3>2 DEF SendsLeft, TaskDone
      <4>2. CASE ~SendLoop
        BY <2>1, <3>1, <4>1, <4>2
      <4>3. QED
        BY <2>2, <4>2
    <3>3. CASE Exit /\ ~TaskDone
      <4>1. SendsLeft' < SendsLeft /\ SendsLeft' = 0
        BY <3>3, ExitLeavesNothing DEF Exit, SendsLeft, TaskDone
      <4>2. QED
        BY <2>1, <3>1, <4>1
    <3>4. CASE Exit /\ TaskDone
      <4>1. SendsLeft' = 0 /\ SendsLeft = 0
        BY <3>4 DEF Exit, SendsLeft, TaskDone
      <4>2. CASE ~SendLoop
        BY <3>1, <4>1, <4>2
      <4>3. QED
        BY <2>2, <4>2
    <3>5. QED
      BY <3>1, <3>2, <3>3, <3>4
  <2>4. ASSUME NEW h \in Handle PROVE ~Application(h)
    BY DEF Application, PollWrite, TrySend, PollClose, DropHandle, PollRead, ReadLeftover,
           ReadPending, ReadMessage, Reading, Repoll, CloneHandle, Idle, TypeOK
  <2>5. QED
    BY <2>2, <2>3, <2>4 DEF Next
<1>2. QED
  BY <1>1, SendsLeftBounded, TypeCorrect, PTL DEF Spec, DropDrains
=============================================================================
