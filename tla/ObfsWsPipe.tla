----------------------------- MODULE ObfsWsPipe -----------------------------
(***************************************************************************)
(* One ObfsWsPipe (src/src/pipe.rs): the handles an application holds, the *)
(* two bounded channels behind them, the closed flag, and the background   *)
(* task that races send_loop against recv_loop over one websocket.         *)
(*                                                                         *)
(* Handles run on any thread, concurrently with the task, so every access  *)
(* to shared state (the flag, a channel) is a step of its own: poll_write  *)
(* loads the flag in one step and enqueues in another.  The two loops are  *)
(* halves of one task: when either returns, race drops the other.          *)
(*                                                                         *)
(* Outgoing messages are numbered in the order poll_write accepts them.    *)
(* Incoming messages are sequences of bytes, and a byte is its position in *)
(* the stream of bytes the websocket has presented.                        *)
(***************************************************************************)
EXTENDS Integers, Sequences, SequencesExt

CONSTANTS Handle,     \* names for handles: the pipe returned by new, and its clones
          Capacity,   \* of both channels (100000 in the code)
          ReadLens,   \* lengths of the buffers passed to poll_read
          MsgLens,    \* lengths of incoming messages
          MaxOut,     \* bound: messages written
          MaxIn       \* bound: bytes presented by the websocket

ASSUME PipeAssumption == /\ Capacity \in Nat \ {0}
                         /\ ReadLens \subseteq Nat
                         /\ MsgLens \subseteq Nat
                         /\ MaxOut \in Nat
                         /\ MaxIn \in Nat

VARIABLES
  \* The handles.
  live,       \* handles that exist
  writing,    \* handles inside poll_write, past its load of closed
  recv_buf,   \* each handle's own recv_buf
  parked,     \* handles whose reader got Poll::Pending and has not polled since
  \* What the handles and the task share.
  closed, sendq, recvq,
  \* The background task.
  spc,        \* send_loop: "check" the flag, "recv" a message, "send" it; "done"
  sending,    \* the message send_loop holds (0: none)
  rpc,        \* recv_loop: "check" the flag, "next" item, "push" it; "done"
  pushing,    \* the message recv_loop holds
  link,       \* the websocket: "up", "down" (the connection is gone), "ended"
              \* (its reader has reported an error)
  \* History.
  accepted,   \* messages for which poll_write has returned Ok
  refused,    \* those among them that try_send refused
  sent,       \* messages handed to the websocket, in order
  incoming,   \* bytes the websocket has handed to recv_loop
  got,        \* bytes each handle's reader has been given
  lateSent,   \* messages send_loop has sent since closed was set
  lateQueued  \* messages recv_loop has queued since closed was set

handleVars == <<live, writing, recv_buf, parked, got>>
outVars    == <<sendq, spc, sending, accepted, refused, sent>>
inVars     == <<recvq, rpc, pushing, incoming>>
late       == <<lateSent, lateQueued>>
vars       == <<handleVars, outVars, inVars, closed, link, late>>

TaskDone == spc = "done"

-----------------------------------------------------------------------------
(* The bounded channels of smol::channel: first in, first out.             *)

FullOffByOne(q) == Len(q) > Capacity
Full(q) == Len(q) >= Capacity

PushFront(q, m) == <<m>> \o q
Push(q, m) == Append(q, m)

\* A channel is closed to its receiver once every sender is dropped, and to
\* its sender once every receiver is: both are fields of every handle.
HandlesGoneUnseen == FALSE
HandlesGone == live = {}

-----------------------------------------------------------------------------
(* ObfsWsPipe::new                                                         *)

Init == /\ \E h \in Handle : live = {h}
        /\ writing = {} /\ parked = {}
        /\ recv_buf = [h \in Handle |-> <<>>]
        /\ closed = FALSE /\ sendq = <<>> /\ recvq = <<>>
        /\ spc = "check" /\ sending = 0
        /\ rpc = "check" /\ pushing = <<>>
        /\ link = "up"
        /\ accepted = 0 /\ refused = {} /\ sent = <<>>
        /\ incoming = 0 /\ got = [h \in Handle |-> <<>>]
        /\ lateSent = 0 /\ lateQueued = 0

-----------------------------------------------------------------------------
(* The handles.  poll_write and poll_close take the handle by &mut, so     *)
(* nothing else is done with a handle that is inside poll_write.           *)

Idle(h) == h \in live \ writing

\* poll_write, up to its load of closed.  (A closed pipe returns BrokenPipe
\* and changes nothing.)
PollWrite(h) == /\ Idle(h) /\ ~closed
                /\ accepted < MaxOut
                /\ writing' = writing \cup {h}
                /\ UNCHANGED <<live, recv_buf, parked, got, outVars, inVars, closed, link, late>>

\* poll_write, from its try_send on: the result is Ok whether or not try_send
\* took the message.
TrySend(h) == /\ h \in writing
              /\ writing' = writing \ {h}
              /\ accepted' = accepted + 1
              /\ IF Full(sendq) \/ TaskDone
                 THEN /\ refused' = refused \cup {accepted'}
                      /\ UNCHANGED sendq
                 ELSE /\ sendq' = Push(sendq, accepted')
                      /\ UNCHANGED refused
              /\ UNCHANGED <<live, recv_buf, parked, got, spc, sending, sent,
                             inVars, closed, link, late>>

PollClose(h) == /\ Idle(h)
                /\ closed' = TRUE
                /\ UNCHANGED <<handleVars, outVars, inVars, link, late>>

\* The derived Clone: shares the channels and the flag, copies recv_buf.
CloneHandle(h, g) == /\ Idle(h) /\ g \in Handle \ live
                     /\ live' = live \cup {g}
                     /\ recv_buf' = [recv_buf EXCEPT ![g] = recv_buf[h]]
                     /\ got' = [got EXCEPT ![g] = <<>>]
                     /\ UNCHANGED <<writing, parked, outVars, inVars, closed, link, late>>

DropHandle(h) == /\ Idle(h)
                 /\ live' = live \ {h}
                 /\ parked' = parked \ {h}
                 /\ recv_buf' = [recv_buf EXCEPT ![h] = <<>>]
                 /\ UNCHANGED <<writing, got, outVars, inVars, closed, link, late>>

-----------------------------------------------------------------------------
(* poll_read with a buffer of length n, in the order of its branches.      *)

FirstOf(s, n) == SubSeq(s, 1, IF n < Len(s) THEN n ELSE Len(s))

AfterRepeating(s, n) == SubSeq(s, n, Len(s))
After(s, n) == SubSeq(s, n + 1, Len(s))

Reading(h) == Idle(h) /\ h \notin parked

\* recv_buf holds more than the buffer: fill the buffer from it.
ReadLeftover(h, n) == /\ Reading(h) /\ Len(recv_buf[h]) > n
                      /\ got' = [got EXCEPT ![h] = @ \o FirstOf(recv_buf[h], n)]
                      /\ recv_buf' = [recv_buf EXCEPT ![h] = After(@, n)]
                      /\ UNCHANGED <<live, writing, parked, outVars, inVars, closed, link, late>>

\* Otherwise recv_buf is copied and cleared before try_recv; with nothing to
\* receive the result is Pending, and no waker is registered.
ReadPending(h, n) == /\ Reading(h) /\ Len(recv_buf[h]) <= n
                     /\ recvq = <<>>
                     /\ recv_buf' = [recv_buf EXCEPT ![h] = <<>>]
                     /\ parked' = parked \cup {h}
                     /\ UNCHANGED <<live, writing, got, outVars, inVars, closed, link, late>>

\* recv_buf and then the next message fill the buffer; the rest of the
\* message becomes recv_buf.
ReadMessageUnlessLeftover(h, n) ==
  /\ Reading(h) /\ recv_buf[h] = <<>> /\ recvq # <<>>
  /\ got' = [got EXCEPT ![h] = @ \o FirstOf(Head(recvq), n)]
  /\ recv_buf' = [recv_buf EXCEPT ![h] = After(Head(recvq), n)]
  /\ recvq' = Tail(recvq)
  /\ UNCHANGED <<live, writing, parked, outVars, rpc, pushing, incoming, closed, link, late>>
ReadMessage(h, n) ==
  /\ Reading(h) /\ Len(recv_buf[h]) <= n
  /\ recvq # <<>>
  /\ LET room == n - Len(recv_buf[h])
     IN  /\ got' = [got EXCEPT ![h] = @ \o recv_buf[h] \o FirstOf(Head(recvq), room)]
         /\ recv_buf' = [recv_buf EXCEPT ![h] = After(Head(recvq), room)]
  /\ recvq' = Tail(recvq)
  /\ UNCHANGED <<live, writing, parked, outVars, rpc, pushing, incoming, closed, link, late>>

PollRead(h) == \E n \in ReadLens :
                 ReadLeftover(h, n) \/ ReadPending(h, n) \/ ReadMessage(h, n)

\* A parked reader is polled again for a reason of its application's own (a
\* timer, another future of the same task): the pipe never wakes it.
Repoll(h) == /\ h \in parked
             /\ parked' = parked \ {h}
             /\ UNCHANGED <<live, writing, recv_buf, got, outVars, inVars, closed, link, late>>

-----------------------------------------------------------------------------
(* The background task.                                                    *)

\* One loop returns: race drops the other with what it holds, both halves of
\* the websocket, and the task's ends of the channels.
Exit == /\ spc' = "done" /\ sending' = 0 /\ sendq' = <<>>
        /\ rpc' = "done" /\ pushing' = <<>>
        /\ UNCHANGED <<handleVars, accepted, refused, sent, recvq, incoming, link, late>>

StoreClosedForgotten == UNCHANGED closed
StoreClosed == closed' = TRUE

OneIfClosed == IF closed THEN 1 ELSE 0

LoopGuardIgnored == TRUE
LoopGuard == ~closed

SendCheck == /\ spc = "check"
             /\ \/ LoopGuard /\ spc' = "recv"
                   /\ UNCHANGED <<handleVars, sendq, sending, accepted, refused, sent,
                                  inVars, closed, link, late>>
                \/ ~LoopGuard /\ Exit /\ UNCHANGED closed

SendRecv == /\ spc = "recv" /\ sendq # <<>>
            /\ sending' = Head(sendq)
            /\ sendq' = Tail(sendq)
            /\ spc' = "send"
            /\ UNCHANGED <<handleVars, accepted, refused, sent, inVars, closed, link, late>>

\* recv().await fails: the queue is empty and no handle is left to fill it.
SendRecvClosed == /\ spc = "recv" /\ sendq = <<>> /\ HandlesGone
                  /\ Exit /\ UNCHANGED closed

\* inner_writer.send succeeds; on a lost connection it may still do so, for a
\* message that goes nowhere.
SendDone == /\ spc = "send"
            /\ sent' = Append(sent, sending)
            /\ sending' = 0
            /\ spc' = "check"
            /\ lateSent' = lateSent + OneIfClosed
            /\ UNCHANGED <<handleVars, sendq, accepted, refused, inVars, closed, link,
                           lateQueued>>

SendErrorIgnored == /\ spc = "send" /\ link # "up"
                    /\ spc' = "check" /\ sending' = 0
                    /\ UNCHANGED <<handleVars, sendq, accepted, refused, sent, inVars,
                                   closed, link, late>>
SendError == /\ spc = "send" /\ link # "up"
             /\ StoreClosed /\ Exit

RecvCheck == /\ rpc = "check"
             /\ \/ LoopGuard /\ rpc' = "next"
                   /\ UNCHANGED <<handleVars, outVars, recvq, pushing, incoming,
                                  closed, link, late>>
                \/ ~LoopGuard /\ Exit /\ UNCHANGED closed

\* A Binary message of n bytes; one may still be buffered on a lost connection.
RecvBinary(n) == /\ rpc = "next" /\ link # "ended"
                 /\ incoming + n <= MaxIn
                 /\ pushing' = [i \in 1..n |-> incoming + i]
                 /\ incoming' = incoming + n
                 /\ rpc' = "push"
                 /\ UNCHANGED <<handleVars, outVars, recvq, closed, link, late>>

\* Any other kind of message: a warning, nothing else.
RecvOther == /\ rpc = "next" /\ link = "up"
             /\ rpc' = "check"
             /\ UNCHANGED <<handleVars, outVars, recvq, pushing, incoming, closed, link, late>>

\* Some(Err(_)) is skipped; the websocket's reader yields None ever after.
RecvErr == /\ rpc = "next" /\ link # "ended"
           /\ link' = "ended"
           /\ rpc' = "check"
           /\ UNCHANGED <<handleVars, outVars, recvq, pushing, incoming, closed, late>>

RecvEndIgnored == /\ rpc = "next" /\ link # "up"
                  /\ rpc' = "check"
                  /\ UNCHANGED <<handleVars, outVars, recvq, pushing, incoming,
                                 closed, link, late>>
RecvEnd == /\ rpc = "next" /\ link # "up"
           /\ StoreClosed /\ Exit

RecvPushOrDrop == /\ rpc = "push" /\ ~HandlesGone
                  /\ recvq' = IF Full(recvq) THEN recvq ELSE Push(recvq, pushing)
                  /\ pushing' = <<>> /\ rpc' = "check"
                  /\ lateQueued' = lateQueued + OneIfClosed
                  /\ UNCHANGED <<handleVars, outVars, incoming, closed, link, lateSent>>
RecvPush == /\ rpc = "push" /\ ~HandlesGone /\ ~Full(recvq)
            /\ recvq' = Push(recvq, pushing)
            /\ pushing' = <<>>
            /\ rpc' = "check"
            /\ lateQueued' = lateQueued + OneIfClosed
            /\ UNCHANGED <<handleVars, outVars, incoming, closed, link, lateSent>>

RecvPushClosed == /\ rpc = "push" /\ HandlesGone
                  /\ Exit /\ UNCHANGED closed

-----------------------------------------------------------------------------
\* The connection under the websocket is lost.
LinkDown == /\ link = "up"
            /\ link' = "down"
            /\ UNCHANGED <<handleVars, outVars, inVars, closed, late>>

Application(h) == \/ PollWrite(h) \/ TrySend(h) \/ PollClose(h) \/ DropHandle(h)
                  \/ PollRead(h) \/ Repoll(h)
                  \/ \E g \in Handle : CloneHandle(h, g)

SendLoop == SendCheck \/ SendRecv \/ SendRecvClosed \/ SendDone \/ SendError

RecvLoop == \/ RecvCheck \/ RecvOther \/ RecvErr \/ RecvEnd \/ RecvPush \/ RecvPushClosed
            \/ \E n \in MsgLens : RecvBinary(n)

Next == (\E h \in Handle : Application(h)) \/ SendLoop \/ RecvLoop \/ LinkDown

Spec == Init /\ [][Next]_vars

-----------------------------------------------------------------------------
(* Fairness.  The executor keeps polling a task that can make progress, so *)
(* both loops are weakly fair; a send on a websocket completes or fails    *)
(* (the peer drains it, or TCP gives up), and the reader of a lost         *)
(* connection reports its end.  A call of poll_write runs to its return,   *)
(* and as long as some reader is not parked, some handle is read.          *)

Fairness == /\ WF_vars(SendCheck) /\ WF_vars(SendRecv \/ SendRecvClosed)
            /\ WF_vars(SendDone \/ SendError)
            /\ WF_vars(RecvCheck) /\ WF_vars(RecvEnd)
            /\ WF_vars(RecvPush \/ RecvPushClosed)
            /\ \A h \in Handle : WF_vars(TrySend(h))
            /\ WF_vars(\E h \in Handle : PollRead(h))

\* Readers poll again only when woken, as the executor does.
WakerSpec == Spec /\ Fairness

\* Readers poll again on their own account, for instance from a timer.
PollingSpec == Spec /\ Fairness /\ WF_vars(\E h \in Handle : Repoll(h))

-----------------------------------------------------------------------------
(* Properties.                                                             *)

TypeOK == /\ live \subseteq Handle /\ writing \subseteq live /\ parked \subseteq live
          /\ recv_buf \in [Handle -> Seq(Nat)]
          /\ got \in [Handle -> Seq(Nat)]
          /\ closed \in BOOLEAN
          /\ sendq \in Seq(Nat) /\ Len(sendq) <= Capacity
          /\ recvq \in Seq(Seq(Nat)) /\ Len(recvq) <= Capacity
          /\ spc \in {"check", "recv", "send", "done"} /\ sending \in Nat
          /\ rpc \in {"check", "next", "push", "done"} /\ pushing \in Seq(Nat)
          /\ link \in {"up", "down", "ended"}
          /\ accepted \in Nat /\ refused \subseteq 1..accepted /\ sent \in Seq(Nat)
          /\ incoming \in Nat
          /\ lateSent \in Nat /\ lateQueued \in Nat

(* A pipe whose background task is gone shows it: whichever way the race   *)
(* between the loops ends, closed is set if anybody still holds a handle.  *)
(* poll_write's only check, and every user's is_closed and remote_addr,    *)
(* rest on this.                                                           *)
DeadTaskIsClosed == TaskDone /\ live # {} => closed

(* While a pipe is open and held, the only messages poll_write accepted    *)
(* and lost are those try_send refused (at a full queue, since the task is *)
(* alive): every other one was handed to the websocket or still will be.   *)
OpenLosesOnlyRefused ==
  ~closed /\ live # {} =>
    (1..accepted) \ refused =
      Range(sent) \cup Range(sendq) \cup (IF spc = "send" THEN {sending} ELSE {})

(* However many messages are queued, once closed is set each loop moves at *)
(* most the one it already holds or is already waiting for: poll_close     *)
(* discards the rest of the queue.                                         *)
AtMostOneLate == lateSent <= 1 /\ lateQueued <= 1

(* Through any mix of handles, clones and buffer sizes, what one handle's  *)
(* reader has got, what its recv_buf holds and what is queued behind are   *)
(* bytes of the stream in order, none twice.                               *)
IncomingOrder ==
  \A h \in live :
    LET s == got[h] \o recv_buf[h] \o FlattenSeq(recvq) \o pushing
    IN  \A i, j \in DOMAIN s : i < j => s[i] < s[j]

\* Where the bytes of a pipe with one handle are, oldest first.
Reader == CHOOSE h \in Handle : TRUE
Unread == recv_buf[Reader] \o FlattenSeq(recvq) \o pushing
Stream == got[Reader] \o Unread

(* The reader of an unshared pipe misses nothing: got, recv_buf, queue and *)
(* recv_loop together hold every byte the websocket presented, in order.   *)
(* It is what "reliable" means for a pipe that a multiplexer is told not   *)
(* to retransmit over.                                                     *)
StreamIntact ==
  Reader \in live /\ ~TaskDone => Stream = [i \in 1..incoming |-> i]

(* What it does miss is only what recv_buf held when a read found nothing  *)
(* queued: no other step of a pipe whose task is alive loses a byte.       *)
LosesOnlyLeftover ==
  [][spc' # "done" /\ Reader \in live' =>
       \/ Stream' = Stream \o [i \in 1..(incoming' - incoming) |-> incoming + i]
       \/ recvq = <<>> /\ Stream' = got[Reader] \o pushing]_vars

(* Outgoing: numbered messages, from poll_write to the websocket.          *)
Outgoing == INSTANCE LossyStream
              WITH input <- accepted, output <- sent,
                   chan <- (IF spc = "send" THEN <<sending>> ELSE <<>>) \o sendq
OutgoingStream == Outgoing!Spec

(* Incoming: bytes, from the websocket to the reader of a pipe with one    *)
(* handle.                                                                 *)
Incoming == INSTANCE LossyStream
              WITH input <- incoming, output <- got[Reader],
                   chan <- Unread
IncomingStream == Incoming!Spec

(* Dropping the last handle ends the background task, and with it the      *)
(* websocket, even with a connection that never fails and a silent peer.   *)
DropEndsTask == (live = {}) ~> TaskDone

(* A lost connection ends the task, if readers keep draining the queue     *)
(* that recv_loop may be waiting on.                                       *)
LinkDownEndsTask == (link # "up") ~> TaskDone

(* Data that has arrived is read, for as long as a handle exists.          *)
QueuedDataIsRead == (recvq # <<>>) ~> (recvq = <<>> \/ live = {})

(* A reader that was told Pending is polled again once data has arrived on *)
(* its open pipe: the stream does not stall with data in the queue.        *)
ArrivalWakesReader ==
  \A h \in Handle : (h \in parked /\ recvq # <<>>) ~> (h \notin parked \/ closed)
=============================================================================
