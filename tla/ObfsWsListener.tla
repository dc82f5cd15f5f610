--------------------------- MODULE ObfsWsListener ---------------------------
(***************************************************************************)
(* ObfsWsListener (src/src/listener.rs): the accept loop over a TCP        *)
(* socket, one detached handler per connection that performs the websocket *)
(* handshake and makes a pipe, and the bounded queue of pipes from which   *)
(* accept serves the application.                                          *)
(*                                                                         *)
(* The loop and every handler hold a sender of the queue, so the queue     *)
(* ends for accept only when all of them are gone; the listener holds its  *)
(* only receiver.  Clients are part of the environment: a connection is    *)
(* identified with its client, which may stall or vanish at any point of   *)
(* the handshake.                                                          *)
(***************************************************************************)
EXTENDS Integers, Sequences, SequencesExt

CONSTANTS Conn,      \* connections clients may open
          Keyed,     \* those whose request has a Sec-Websocket-Key that is the
                     \* base64 of 16 bytes
          Capacity   \* of the queue of pipes (1000 in the code)

ASSUME ListenerAssumption == /\ Keyed \subseteq Conn
                             /\ Capacity \in Nat \ {0}

VARIABLES
  held,      \* the application holds the ObfsWsListener
  loop,      \* pipe_accept_loop: "accept", "ended"
  handler,   \* each connection: "new"; "backlog" of the socket; in its handler
             \* at "nodelay", "handshake", "metadata" or "send"; "done"
  pipeq,     \* connections whose pipes are in the queue
  reply,     \* the answer of the handshake that was written to each client:
             \* "none", "101", "400"
  served,    \* connections whose pipes accept has returned
  broken     \* accept has returned BrokenPipe

vars == <<held, loop, handler, pipeq, reply, served, broken>>

Goes(c, stage) == handler' = [handler EXCEPT ![c] = stage]

FullOffByOne == Len(pipeq) > Capacity
FullTooSoon == Len(pipeq) + 1 >= Capacity
Full == Len(pipeq) >= Capacity

InHandler == {c \in Conn : handler[c] \in {"nodelay", "handshake", "metadata", "send"}}

\* No sender of the queue is left.
LoopGone == loop = "ended"
SendersLeaked == loop = "ended" /\ \A c \in Conn : reply[c] # "400"
SendersGone == loop = "ended" /\ InHandler = {}

\* bind and From<TcpListener>.
Init == /\ held = TRUE /\ loop = "accept"
        /\ handler = [c \in Conn |-> "new"]
        /\ reply = [c \in Conn |-> "none"]
        /\ pipeq = <<>> /\ served = {} /\ broken = FALSE

-----------------------------------------------------------------------------
(* pipe_accept_loop, and what ends it.                                     *)

Connect(c) == /\ loop = "accept" /\ handler[c] = "new"
              /\ Goes(c, "backlog")
              /\ UNCHANGED <<held, loop, pipeq, reply, served, broken>>

AcceptConn(c) == /\ loop = "accept" /\ handler[c] = "backlog"
                 /\ Goes(c, "nodelay")
                 /\ UNCHANGED <<held, loop, pipeq, reply, served, broken>>

\* The loop's end closes the socket, and with it the connections in its backlog.
LoopEnds == /\ loop = "accept"
            /\ loop' = "ended"
            /\ handler' = [c \in Conn |-> IF handler[c] = "backlog" THEN "done" ELSE handler[c]]
            /\ UNCHANGED <<held, pipeq, reply, served, broken>>

\* Any error of socket.accept(), even of one connection, ends the loop.
AcceptError == held /\ LoopEnds

\* The executor drops the loop some time after its Task was dropped.
CancelLoop == ~held /\ LoopEnds

-----------------------------------------------------------------------------
(* The handler of connection c.                                            *)

SetNodelay(c) == /\ handler[c] = "nodelay"
                 /\ Goes(c, "handshake") \/ Goes(c, "done")
                 /\ UNCHANGED <<held, loop, pipeq, reply, served, broken>>

\* The client's request arrives, pipe_get_metadata looks at its key, and the
\* answer it decides on is written.
RequestUnchecked(c) == /\ handler[c] = "handshake"
                       /\ Goes(c, "metadata") /\ reply' = [reply EXCEPT ![c] = "101"]
                       /\ UNCHANGED <<held, loop, pipeq, served, broken>>
Request(c) == /\ handler[c] = "handshake"
              /\ \/ /\ c \in Keyed
                    /\ Goes(c, "metadata")
                    /\ reply' = [reply EXCEPT ![c] = "101"]
                 \/ /\ c \notin Keyed
                    /\ Goes(c, "done")
                    /\ reply' = [reply EXCEPT ![c] = "400"]
              /\ UNCHANGED <<held, loop, pipeq, served, broken>>

\* The client is gone, its request is not a websocket handshake, or the answer
\* cannot be written, of which the metadata the callback has sent says nothing:
\* the handler ends before it looks for it.
HandshakeError(c) == /\ handler[c] = "handshake"
                     /\ Goes(c, "done")
                     /\ UNCHANGED <<held, loop, pipeq, reply, served, broken>>

\* The metadata is received from the callback, and ObfsWsPipe::new.
NewPipe(c) == /\ handler[c] = "metadata"
              /\ Goes(c, "send")
              /\ UNCHANGED <<held, loop, pipeq, reply, served, broken>>

SendPipeOrDrop(c) == /\ handler[c] = "send" /\ held
                     /\ pipeq' = IF Full THEN pipeq ELSE Append(pipeq, c)
                     /\ Goes(c, "done")
                     /\ UNCHANGED <<held, loop, reply, served, broken>>
SendPipe(c) == /\ handler[c] = "send" /\ held /\ ~Full
               /\ pipeq' = Append(pipeq, c)
               /\ Goes(c, "done")
               /\ UNCHANGED <<held, loop, reply, served, broken>>

\* With no receiver the send fails, and the pipe is dropped.
SendPipeClosedUnseen(c) == handler[c] = "send" /\ ~held /\ UNCHANGED vars
SendPipeClosed(c) == /\ handler[c] = "send" /\ ~held
                     /\ Goes(c, "done")
                     /\ UNCHANGED <<held, loop, pipeq, reply, served, broken>>

Handler(c) == \/ SetNodelay(c) \/ Request(c) \/ HandshakeError(c)
              \/ NewPipe(c) \/ SendPipe(c) \/ SendPipeClosed(c)

-----------------------------------------------------------------------------
(* The application.                                                        *)

Accept == /\ held /\ pipeq # <<>>
          /\ served' = served \cup {Head(pipeq)}
          /\ pipeq' = Tail(pipeq)
          /\ UNCHANGED <<held, loop, handler, reply, broken>>

AcceptBroken == /\ held /\ pipeq = <<>> /\ SendersGone /\ ~broken
                /\ broken' = TRUE
                /\ UNCHANGED <<held, loop, handler, pipeq, reply, served>>

DropListener == /\ held
                /\ held' = FALSE
                /\ UNCHANGED <<loop, handler, pipeq, reply, served, broken>>

Next == \/ \E c \in Conn : Connect(c) \/ AcceptConn(c) \/ Handler(c)
        \/ AcceptError \/ CancelLoop
        \/ Accept \/ AcceptBroken \/ DropListener

Spec == Init /\ [][Next]_vars

(* Tasks run when they can, and the application calls accept again and     *)
(* again; a client need not say anything, so a handshake may last for ever.*)
Fairness == /\ WF_vars(CancelLoop) /\ WF_vars(Accept \/ AcceptBroken)
            /\ \A c \in Conn : /\ WF_vars(AcceptConn(c)) /\ WF_vars(SetNodelay(c))
                               /\ WF_vars(NewPipe(c))
                               /\ WF_vars(SendPipe(c) \/ SendPipeClosed(c))

FairSpec == Spec /\ Fairness

-----------------------------------------------------------------------------
(* Properties.                                                             *)

TypeOK == /\ held \in BOOLEAN /\ broken \in BOOLEAN
          /\ loop \in {"accept", "ended"}
          /\ handler \in [Conn -> {"new", "backlog", "nodelay", "handshake",
                                   "metadata", "send", "done"}]
          /\ reply \in [Conn -> {"none", "101", "400"}]
          /\ pipeq \in Seq(Conn) /\ Len(pipeq) <= Capacity
          /\ served \subseteq Conn

(* The clients told 101, by an answer completely written, are the clients  *)
(* of pipes: for as long as the listener is held each of them has its pipe *)
(* made, waiting in its handler, queued or served, whatever ends the       *)
(* accept loop and however long the queue is full; and nobody else's       *)
(* connection becomes a pipe.                                              *)
EstablishedIsKept ==
  held => {c \in Conn : reply[c] = "101"}
            = {c \in Conn : handler[c] \in {"metadata", "send"}} \cup Range(pipeq) \cup served

(* The key of every pipe that reaches the application decodes to 16 bytes; *)
(* the wsocks server's own decoding of it, whose failure would end that    *)
(* server's accept loop for all clients, cannot fail.                      *)
KeysDecode == Range(pipeq) \cup served \subseteq Keyed

(* accept's BrokenPipe is the end: no pipe is queued or returned after it. *)
BrokenIsFinal == [][broken => UNCHANGED <<pipeq, served>>]_vars

(* A client told 101 gets its pipe served, if the listener is kept.        *)
EstablishedIsServed ==
  \A c \in Conn : (reply[c] = "101") ~> (c \in served \/ ~held)

(* Once the accept loop is gone accept says so, except while a client      *)
(* stalls in its handshake: nothing limits how long that takes.            *)
EndIsReported ==
  (loop = "ended") ~> (broken \/ ~held \/ \E c \in Conn : handler[c] = "handshake")

\* Pipes nobody can accept any more, in a queue kept alive by its senders.
Orphans == IF ~held /\ ~SendersGone THEN Range(pipeq) ELSE {}
Unsent  == {c \in Conn : handler[c] \in {"metadata", "send"}}

(* Dropping the listener ends the pipes it has not served, again except    *)
(* while a client stalls in its handshake.                                 *)
DropReleasesPipes ==
  ~held ~> (\/ Orphans \cup Unsent = {}
            \/ \E c \in Conn : handler[c] = "handshake")
=============================================================================
