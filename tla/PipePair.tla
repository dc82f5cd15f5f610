------------------------------ MODULE PipePair ------------------------------
(***************************************************************************)
(* Two ObfsWsPipes (src/src/pipe.rs) over one websocket: the near one made *)
(* by connect at a client, the far one by the listener.  The near end      *)
(* writes and the far end reads; either end may be dropped.                *)
(*                                                                         *)
(* What ObfsWsPipe leaves open is decided here by the other end.  A send   *)
(* completes only if the connection has room, and room is made only by the *)
(* far recv_loop, which waits while its queue is full; a message arrives   *)
(* if it was sent; and an end's connection is lost when the other end's    *)
(* task ends, as race drops both halves of its websocket.                  *)
(*                                                                         *)
(* Left to ObfsWsPipe, which has them in every order: poll_close, clones,  *)
(* the error a websocket's reader may yield before its end, which          *)
(* recv_loop skips, and messages of more than one byte, whose leftovers    *)
(* poll_read may lose.                                                     *)
(***************************************************************************)
EXTENDS ObfsWsPipe

CONSTANT WireRoom   \* messages that the connection holds, in the two sockets

ASSUME PairAssumption == WireRoom \in Nat \ {0} /\ 1 \in MsgLens

VARIABLES
  wire,      \* messages on the connection, oldest first
  arrived,   \* history: messages the far recv_loop has taken, in order
  \* The far end.
  f_live, f_writing, f_recv_buf, f_parked, f_closed, f_sendq, f_recvq,
  f_spc, f_sending, f_rpc, f_pushing, f_link,
  f_accepted, f_refused, f_sent, f_incoming, f_got, f_lateSent, f_lateQueued

Far == INSTANCE ObfsWsPipe
         WITH live <- f_live, writing <- f_writing, recv_buf <- f_recv_buf,
              parked <- f_parked, closed <- f_closed, sendq <- f_sendq,
              recvq <- f_recvq, spc <- f_spc, sending <- f_sending, rpc <- f_rpc,
              pushing <- f_pushing, link <- f_link, accepted <- f_accepted,
              refused <- f_refused, sent <- f_sent, incoming <- f_incoming,
              got <- f_got, lateSent <- f_lateSent, lateQueued <- f_lateQueued

nearVars == vars
farVars  == <<f_live, f_writing, f_recv_buf, f_parked, f_closed, f_sendq, f_recvq,
              f_spc, f_sending, f_rpc, f_pushing, f_link, f_accepted, f_refused,
              f_sent, f_incoming, f_got, f_lateSent, f_lateQueued>>
wireVars == <<wire, arrived>>
pairVars == <<nearVars, farVars, wireVars>>

PairInit == Init /\ Far!Init /\ wire = <<>> /\ arrived = <<>>

-----------------------------------------------------------------------------
(* Steps of one end that leave the connection alone.                       *)

NearOnly(A) == A /\ UNCHANGED <<farVars, wireVars>>
FarOnly(A)  == A /\ UNCHANGED <<nearVars, wireVars>>

NearApplication(h) ==
  NearOnly(PollWrite(h) \/ TrySend(h) \/ DropHandle(h))

FarApplication(h) ==
  FarOnly(Far!PollRead(h) \/ Far!Repoll(h) \/ Far!DropHandle(h))

-----------------------------------------------------------------------------
(* The connection.                                                         *)

\* inner_writer.send completes at the near end.  On a connection known to be
\* lost the message goes nowhere.
Transmit == /\ SendDone
            /\ link = "up" => Len(wire) < WireRoom
            /\ wire' = IF link = "up" THEN Append(wire, sending) ELSE wire
            /\ UNCHANGED <<arrived, farVars>>

\* inner_reader.next yields the oldest message at the far end.
Deliver == /\ wire # <<>>
           /\ Far!RecvBinary(1)
           /\ arrived' = Append(arrived, Head(wire))
           /\ wire' = Tail(wire)
           /\ UNCHANGED nearVars

\* Either end learns that the connection is lost: the network has failed, or
\* the other end's task has ended and has dropped its socket.
NearLosesLink == NearOnly(LinkDown)
FarLosesLink  == FarOnly(Far!LinkDown)

\* An end whose peer's task is gone hears of it.  (At the far end, messages
\* that were sent first still arrive first, unless the connection breaks.)
PeerGone == \/ Far!TaskDone /\ NearLosesLink
            \/ TaskDone /\ FarLosesLink

-----------------------------------------------------------------------------
NearSendWait == NearOnly(SendRecv \/ SendRecvClosed)
NearSend     == Transmit \/ NearOnly(SendError)
NearRecv     == NearOnly(RecvEnd)

FarSendWait == FarOnly(Far!SendRecvClosed)
FarRecv     == Deliver \/ FarOnly(Far!RecvEnd)
FarPush     == FarOnly(Far!RecvPush \/ Far!RecvPushClosed)

NearTask == NearOnly(SendCheck) \/ NearSendWait \/ NearSend
            \/ NearOnly(RecvCheck) \/ NearRecv
FarTask  == FarOnly(Far!SendCheck) \/ FarSendWait
            \/ FarOnly(Far!RecvCheck) \/ FarRecv \/ FarPush

PairNext == \/ \E h \in Handle : NearApplication(h) \/ FarApplication(h)
            \/ NearTask \/ FarTask
            \/ NearLosesLink \/ FarLosesLink \/ PeerGone

(* Fairness.  Both executors poll the loops that can make progress; a send *)
(* completes once there is room, or fails; what is on the connection       *)
(* arrives; the end of one side's socket is heard of at the other.  A far  *)
(* reader that exists keeps polling, from a timer if it is not woken.      *)
PairFairness ==
  /\ WF_pairVars(NearOnly(SendCheck)) /\ WF_pairVars(NearSendWait)
  /\ WF_pairVars(NearSend)
  /\ WF_pairVars(NearOnly(RecvCheck)) /\ WF_pairVars(NearOnly(RecvEnd))
  /\ WF_pairVars(FarOnly(Far!SendCheck)) /\ WF_pairVars(FarSendWait)
  /\ WF_pairVars(FarOnly(Far!RecvCheck))
  /\ WF_pairVars(Deliver \/ FarOnly(Far!RecvEnd)) /\ WF_pairVars(FarPush)
  /\ WF_pairVars(PeerGone)
  /\ \A h \in Handle : WF_pairVars(NearOnly(TrySend(h)))
  /\ WF_pairVars(\E h \in Handle : FarOnly(Far!PollRead(h)))
  /\ WF_pairVars(\E h \in Handle : FarOnly(Far!Repoll(h)))

PairSpec == PairInit /\ [][PairNext]_pairVars /\ PairFairness

-----------------------------------------------------------------------------
(* Properties.                                                             *)

\* The far end numbers bytes as they arrive; s in the near end's numbers.
AsAccepted(s) == [i \in DOMAIN s |-> arrived[s[i]]]

(* From poll_write at one end to poll_read at the other, over both tasks,  *)
(* their queues and the connection: messages may be lost, but none is      *)
(* repeated, reordered or made up, whatever is dropped or breaks.          *)
EndToEnd == INSTANCE LossyStream
              WITH input <- accepted,
                   output <- AsAccepted(f_got[Reader]),
                   chan <- AsAccepted(Far!Unread) \o wire
                           \o (IF spc = "send" THEN <<sending>> ELSE <<>>) \o sendq
EndToEndStream == EndToEnd!Spec

(* Dropping either end's last handle ends both tasks, and so the websocket *)
(* at both ends: a near send_loop stuck in a send that the far end's full  *)
(* queue holds up, and a far recv_loop stuck behind that queue, included.  *)
DropEndsBoth == (live = {} \/ f_live = {}) ~> (TaskDone /\ Far!TaskDone)

(* As long as neither end is dropped and the connection holds, a message   *)
(* that poll_write accepted and did not silently refuse is given to the    *)
(* far reader, whose buffers it fits: full queues and a full connection    *)
(* only hold up what is behind them.                                       *)
AcceptedIsRead ==
  \A m \in 1..MaxOut :
    (m <= accepted /\ m \notin refused)
      ~> (\/ m \in Range(AsAccepted(f_got[Reader]))
          \/ live = {} \/ f_live = {}
          \/ link # "up" \/ f_link # "up")
=============================================================================
