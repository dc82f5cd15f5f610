---------------------------- MODULE WsocksForward ----------------------------
(***************************************************************************)
(* One proxied connection of wsocks (src/src/bin.todo/wsocks.rs), end to   *)
(* end: a TCP connection of an application at the client, one of the       *)
(* remote at the server, a relconn (a stream of the multiplexer) between   *)
(* the two ends, and tcp_forward_loop at both of them.                     *)
(*                                                                         *)
(* tcp_forward_loop races two loops.  The up loop reads conn and sends     *)
(* what it got as a frame; the down loop receives a frame and writes its   *)
(* payload to conn.  When one returns, the other is dropped at its await,  *)
(* perhaps with half a frame or half a payload written, and with them both *)
(* connections.  A relconn carries one connection, whose id is in every    *)
(* frame; so frames here do without it.                                    *)
(*                                                                         *)
(* A byte is its position in what its end's conn has given to read.        *)
(***************************************************************************)
EXTENDS Integers, Sequences, SequencesExt

Side == {"client", "server"}

CONSTANTS Window,    \* frames a relconn holds before its writer has to wait
          ReadLens,  \* how many bytes a read returns
          MaxIn      \* bound: bytes read from the conn of each end

ASSUME ForwardAssumption == /\ Window \in Nat \ {0}
                            /\ ReadLens \subseteq Nat \ {0}
                            /\ MaxIn \in [Side -> Nat]

Other(s) == IF s = "client" THEN "server" ELSE "client"

VARIABLES
  phase,     \* client: "ask", "reply", "forward"; server: "connect", "forward";
             \* and over, with conn and relconn dropped: "done", or the end's task
             \* has panicked, on an Err it unwraps ("unwrap") or on a frame its
             \* down loop has no case for ("todo")
  up,        \* each up loop: about to "check", "read", "send"; "sending" (part of
             \* the frame is written)
  chunk,     \* what it has read
  down,      \* each down loop: about to "check", "recv", "write"
  payload,   \* what it has yet to write
  wire,      \* the frames each end has sent that the other has not received
  broken,    \* whether the multiplexer has lost the relconn
  deadline,  \* of the server's session: "ahead"; "sent", a message in its
             \* channel; "received"
  reads,     \* whether the peer of each conn reads what is written to it
  eof,       \* whether the peer of each conn has ended its own stream
  \* History.
  input,     \* how many bytes read has returned at each end
  output     \* the bytes written to each end's conn

loops == <<up, chunk, down, payload>>
world == <<broken, deadline, reads, eof>>
vars  == <<phase, loops, wire, world, input, output>>

Frame(kind, data) == [kind |-> kind, data |-> data]

Init == /\ phase = [s \in Side |-> IF s = "client" THEN "ask" ELSE "connect"]
        /\ up = [s \in Side |-> "check"] /\ chunk = [s \in Side |-> <<>>]
        /\ down = [s \in Side |-> "check"] /\ payload = [s \in Side |-> <<>>]
        /\ wire = [s \in Side |-> <<>>]
        /\ broken = FALSE /\ deadline = "ahead"
        /\ reads \in [Side -> BOOLEAN]
        /\ eof = [s \in Side |-> FALSE]
        /\ input = [s \in Side |-> 0] /\ output = [s \in Side |-> <<>>]

-----------------------------------------------------------------------------
(* The relconn.                                                            *)

Over(s) == phase[s] \in {"done", "unwrap", "todo"}

\* The relconn does not reach the end s any more.
Gone(s) == broken \/ Over(s)

RoomOffByOne(s) == Len(wire[s]) <= Window
Room(s) == Len(wire[s]) < Window

\* The frames from s that are completely written.  What a dropped up loop has
\* left half written stays incomplete.
Complete(s) == IF up[s] = "sending" THEN Front(wire[s]) ELSE wire[s]

\* What becomes of the task of s on an error: the client's handler passes it on
\* by `?`; the server's task unwraps the result of every send and of
\* tcp_forward_loop, which never returns anything but an error.
OnError(s) == IF s = "client" THEN "done" ELSE "unwrap"

\* One of the loops of s returns, or what precedes them does.  The other loop
\* is dropped where it is, with what it holds, and so are conn and relconn,
\* with what has arrived for s.
Drop(s) == /\ phase' = [phase EXCEPT ![s] = OnError(s)]
           /\ up' = [up EXCEPT ![s] = IF @ = "sending" THEN @ ELSE "check"]
           /\ chunk' = [chunk EXCEPT ![s] = <<>>]
           /\ down' = [down EXCEPT ![s] = "check"]
           /\ payload' = [payload EXCEPT ![s] = <<>>]
           /\ wire' = [wire EXCEPT ![Other(s)] = <<>>]
           /\ UNCHANGED <<broken, reads, eof, input, output>>

End(s) == Drop(s) /\ UNCHANGED deadline

\* The multiplexer gives up the relconn: its session or its process ends.
Break == /\ ~broken
         /\ broken' = TRUE
         /\ UNCHANGED <<phase, loops, wire, deadline, reads, eof, input, output>>

\* What an end has sent before it went, or before the relconn broke, may or
\* may not arrive: its last complete frame does not.
LoseFrame(s) == /\ Gone(s) /\ Complete(s) # <<>>
                /\ wire' = [wire EXCEPT ![s] = RemoveAt(@, Len(Complete(s)))]
                /\ UNCHANGED <<phase, loops, world, input, output>>

-----------------------------------------------------------------------------
(* The handshake.                                                          *)

\* The server's task has received TcpConnect; it reaches the remote, sends
\* the offer and starts to forward.
Connect == /\ phase["server"] = "connect" /\ ~Gone("client")
           /\ wire' = [wire EXCEPT !["server"] = Append(@, Frame("offer", <<>>))]
           /\ phase' = [phase EXCEPT !["server"] = "forward"]
           /\ UNCHANGED <<loops, world, input, output>>

\* It does not reach the remote: the offer is an error.
ConnectRefused ==
  /\ phase["server"] = "connect" /\ ~Gone("client")
  /\ wire' = [wire EXCEPT !["server"] = Append(@, Frame("refusal", <<>>))]
  /\ phase' = [phase EXCEPT !["server"] = "done"]
  /\ UNCHANGED <<loops, world, input, output>>

\* The offer cannot be sent.
ConnectFails == phase["server"] = "connect" /\ Gone("client") /\ End("server")

\* The client's task receives the answer; any other frame is an error.  (The HTTP
\* proxy's handler panics on a refusal, which ends it as well.)
TakeOfferLeft ==
  /\ phase["client"] = "ask" /\ Complete("server") # <<>>
  /\ phase' = [phase EXCEPT !["client"] =
                 IF Head(wire["server"]).kind = "offer" THEN "reply" ELSE "done"]
  /\ UNCHANGED <<loops, wire, world, input, output>>
TakeOffer ==
  /\ phase["client"] = "ask" /\ Complete("server") # <<>>
  /\ wire' = [wire EXCEPT !["server"] = Tail(@)]
  /\ phase' = [phase EXCEPT !["client"] =
                 IF Head(wire["server"]).kind = "offer" THEN "reply" ELSE "done"]
  /\ UNCHANGED <<loops, world, input, output>>

AskFails == /\ phase["client"] = "ask"
            /\ Gone("server") /\ Complete("server") = <<>>
            /\ End("client")

\* The proxy's answer to the application, which may be gone.
Reply == /\ phase["client"] = "reply"
         /\ phase' = [phase EXCEPT !["client"] = "forward"]
         /\ UNCHANGED <<loops, wire, world, input, output>>

ReplyFails == phase["client"] = "reply" /\ End("client")

-----------------------------------------------------------------------------
(* tcp_forward_loop at the end s: the deadline, which only the server has. *)

Forwarding(s) == phase[s] = "forward"

DeadlineSeen(s) == s = "server" /\ deadline = "sent"

Bail(s) == /\ Forwarding(s) /\ DeadlineSeen(s)
           /\ up[s] = "check" \/ down[s] = "check"
           /\ deadline' = "received"
           /\ Drop(s)

-----------------------------------------------------------------------------
(* Its up loop.                                                            *)

UpCheck(s) == /\ Forwarding(s) /\ up[s] = "check" /\ ~DeadlineSeen(s)
              /\ up' = [up EXCEPT ![s] = "read"]
              /\ UNCHANGED <<phase, chunk, down, payload, wire, world, input, output>>

\* read returns k bytes.
Read(s, k) ==
  /\ Forwarding(s) /\ up[s] = "read"
  /\ ~eof[s] /\ input[s] + k <= MaxIn[s]
  /\ chunk' = [chunk EXCEPT ![s] = [i \in 1..k |-> input[s] + i]]
  /\ input' = [input EXCEPT ![s] = @ + k]
  /\ up' = [up EXCEPT ![s] = "send"]
  /\ UNCHANGED <<phase, down, payload, wire, world, output>>

\* read returns 0 at the end of conn's stream, every time: an empty payload.
ReadEof(s) == /\ Forwarding(s) /\ up[s] = "read" /\ eof[s]
              /\ up' = [up EXCEPT ![s] = "send"]
              /\ UNCHANGED <<phase, chunk, down, payload, wire, world, input, output>>

\* Frame::send writes the whole frame, which may take a while.
SendStartInTurn(s) ==
  /\ Forwarding(s) /\ up[s] = "send" /\ down[s] # "write" /\ Room(s) /\ ~Gone(Other(s))
  /\ wire' = [wire EXCEPT ![s] = Append(@, Frame("data", chunk[s]))]
  /\ up' = [up EXCEPT ![s] = "sending"]
  /\ UNCHANGED <<phase, chunk, down, payload, world, input, output>>
SendStart(s) ==
  /\ Forwarding(s) /\ up[s] = "send" /\ Room(s) /\ ~Gone(Other(s))
  /\ wire' = [wire EXCEPT ![s] = Append(@, Frame("data", chunk[s]))]
  /\ up' = [up EXCEPT ![s] = "sending"]
  /\ UNCHANGED <<phase, chunk, down, payload, world, input, output>>

SendFinish(s) ==
  /\ Forwarding(s) /\ up[s] = "sending" /\ ~Gone(Other(s))
  /\ up' = [up EXCEPT ![s] = "check"]
  /\ chunk' = [chunk EXCEPT ![s] = <<>>]
  /\ UNCHANGED <<phase, down, payload, wire, world, input, output>>

\* With nobody at the other end it fails, or writes a frame that goes nowhere.
SendFails(s) == /\ Forwarding(s) /\ up[s] \in {"send", "sending"} /\ Gone(Other(s))
                /\ End(s)

SendVanishes(s) ==
  /\ Forwarding(s) /\ up[s] \in {"send", "sending"} /\ Gone(Other(s))
  /\ wire' = [wire EXCEPT ![s] = Complete(s)]
  /\ up' = [up EXCEPT ![s] = "check"]
  /\ chunk' = [chunk EXCEPT ![s] = <<>>]
  /\ UNCHANGED <<phase, down, payload, world, input, output>>

-----------------------------------------------------------------------------
(* Its down loop.                                                          *)

DownCheck(s) == /\ Forwarding(s) /\ down[s] = "check" /\ ~DeadlineSeen(s)
                /\ down' = [down EXCEPT ![s] = "recv"]
                /\ UNCHANGED <<phase, up, chunk, payload, wire, world, input, output>>

\* A TcpData frame, whose payload is written (at once if it is empty), or any
\* other: todo!().
RecvTorn(s) ==
  /\ Forwarding(s) /\ down[s] = "recv" /\ wire[Other(s)] # <<>>
  /\ LET frame == Head(wire[Other(s)])
     IN  /\ phase' = IF frame.kind = "data" THEN phase ELSE [phase EXCEPT ![s] = "todo"]
         /\ payload' = [payload EXCEPT ![s] = frame.data]
         /\ down' = [down EXCEPT ![s] = IF frame.data = <<>> THEN "check" ELSE "write"]
  /\ wire' = [wire EXCEPT ![Other(s)] = Tail(@)]
  /\ UNCHANGED <<up, chunk, world, input, output>>
Recv(s) ==
  /\ Forwarding(s) /\ down[s] = "recv" /\ Complete(Other(s)) # <<>>
  /\ LET frame == Head(wire[Other(s)])
     IN  /\ phase' = IF frame.kind = "data" THEN phase ELSE [phase EXCEPT ![s] = "todo"]
         /\ payload' = [payload EXCEPT ![s] = frame.data]
         /\ down' = [down EXCEPT ![s] = IF frame.data = <<>> THEN "check" ELSE "write"]
  /\ wire' = [wire EXCEPT ![Other(s)] = Tail(@)]
  /\ UNCHANGED <<up, chunk, world, input, output>>

\* The relconn ends, perhaps within a frame.
RecvFailsIgnored(s) ==
  /\ Forwarding(s) /\ down[s] = "recv"
  /\ Gone(Other(s)) /\ Complete(Other(s)) = <<>>
  /\ down' = [down EXCEPT ![s] = "check"]
  /\ UNCHANGED <<phase, up, chunk, payload, wire, world, input, output>>
RecvFails(s) == /\ Forwarding(s) /\ down[s] = "recv"
                /\ Gone(Other(s)) /\ Complete(Other(s)) = <<>>
                /\ End(s)

\* conn.write_all(&payload) writes it in parts, as fast as conn's peer reads.
WriteOnce(s, k) ==
  /\ Forwarding(s) /\ down[s] = "write" /\ reads[s]
  /\ output' = [output EXCEPT ![s] = @ \o SubSeq(payload[s], 1, k)]
  /\ payload' = [payload EXCEPT ![s] = <<>>]
  /\ down' = [down EXCEPT ![s] = "check"]
  /\ UNCHANGED <<phase, up, chunk, wire, world, input>>
Write(s, k) ==
  /\ Forwarding(s) /\ down[s] = "write" /\ reads[s]
  /\ output' = [output EXCEPT ![s] = @ \o SubSeq(payload[s], 1, k)]
  /\ payload' = [payload EXCEPT ![s] = SubSeq(@, k + 1, Len(@))]
  /\ down' = [down EXCEPT ![s] = IF payload'[s] = <<>> THEN "check" ELSE "write"]
  /\ UNCHANGED <<phase, up, chunk, wire, world, input>>

-----------------------------------------------------------------------------
(* The world outside.                                                      *)

\* conn fails under a read or a write.
ConnFails(s) == /\ Forwarding(s)
                /\ up[s] = "read" \/ down[s] = "write"
                /\ End(s)

\* conn's peer ends its own stream.
Eof(s) == /\ ~eof[s] /\ ~Over(s)
          /\ eof' = [eof EXCEPT ![s] = TRUE]
          /\ UNCHANGED <<phase, loops, wire, broken, deadline, reads, input, output>>

\* The pipe manager of the server's session declares it dead, and somebody
\* else may receive that.
DeclareDead == /\ deadline = "ahead" /\ ~Over("server")
               /\ deadline' = "sent"
               /\ UNCHANGED <<phase, loops, wire, broken, reads, eof, input, output>>
OthersReceive == /\ deadline = "sent"
                 /\ deadline' = "received"
                 /\ UNCHANGED <<phase, loops, wire, broken, reads, eof, input, output>>

-----------------------------------------------------------------------------
Handshake == \/ Connect \/ ConnectRefused \/ ConnectFails
             \/ TakeOffer \/ AskFails \/ Reply \/ ReplyFails

Writes(s) == \E k \in 1..Len(payload[s]) : Write(s, k)

UpLoop(s) == \/ UpCheck(s) \/ ReadEof(s) \/ SendStart(s) \/ SendFinish(s)
             \/ SendFails(s) \/ SendVanishes(s)
             \/ \E k \in ReadLens : Read(s, k)

DownLoop(s) == DownCheck(s) \/ Recv(s) \/ RecvFails(s) \/ Writes(s)

World(s) == ConnFails(s) \/ Eof(s) \/ LoseFrame(s)

Next == \/ Handshake
        \/ \E s \in Side : Bail(s) \/ UpLoop(s) \/ DownLoop(s) \/ World(s)
        \/ Break \/ DeclareDead \/ OthersReceive

Spec == Init /\ [][Next]_vars

(* The executor runs both loops of an end: one that waits does not hold up *)
(* the other.  The relconn delivers, and reports its end; a conn whose     *)
(* peer reads takes what is written to it.  Nothing is assumed of what     *)
(* conn gives to read, or of a peer that does not read.                    *)
Fairness ==
  /\ WF_vars(TakeOffer \/ AskFails)
  /\ WF_vars(Connect \/ ConnectRefused \/ ConnectFails)
  /\ WF_vars(Reply \/ ReplyFails)
  /\ \A s \in Side : /\ WF_vars(Bail(s) \/ UpCheck(s)) /\ WF_vars(Bail(s) \/ DownCheck(s))
                     /\ WF_vars(SendStart(s) \/ SendFinish(s) \/ SendFails(s))
                     /\ WF_vars(Recv(s) \/ RecvFails(s))
                     /\ WF_vars(Writes(s))

FairSpec == Spec /\ Fairness

-----------------------------------------------------------------------------
(* Properties.                                                             *)

TypeOK == /\ phase \in [Side -> {"ask", "reply", "connect", "forward", "done",
                             "unwrap", "todo"}]
          /\ up \in [Side -> {"check", "read", "send", "sending"}]
          /\ down \in [Side -> {"check", "recv", "write"}]
          /\ chunk \in [Side -> Seq(Nat)] /\ payload \in [Side -> Seq(Nat)]
          /\ wire \in [Side -> Seq([kind : {"offer", "refusal", "data"}, data : Seq(Nat)])]
          /\ \A s \in Side : Len(wire[s]) <= Window
          /\ broken \in BOOLEAN /\ deadline \in {"ahead", "sent", "received"}
          /\ reads \in [Side -> BOOLEAN] /\ eof \in [Side -> BOOLEAN]
          /\ input \in [Side -> Nat] /\ \A s \in Side : input[s] \in 0..MaxIn[s]
          /\ output \in [Side -> Seq(Nat)]

(* The down loops' assert_eq! and todo!() are never reached: once an end   *)
(* forwards, the relconn brings it TcpData frames of its connection alone, *)
(* although the offer travels on the same relconn and the server forwards  *)
(* before the client has taken it.  (It says nothing of the unwraps on     *)
(* which the server's task panics at every end of a connection.)           *)
OnlyDataIsReceived == \A s \in Side : phase[s] # "todo"

\* The bytes of a direction, from what s reads to what Other(s) writes.
Stopped == broken \/ \E s \in Side : Over(s)
Bytes(frames) == FlattenSeq([i \in DOMAIN frames |-> frames[i].data])
OnTheWay(s) ==
  payload[Other(s)] \o Bytes(Complete(s)) \o (IF Stopped THEN <<>> ELSE chunk[s])

(* Either direction of a proxied connection is a stream that is intact as  *)
(* long as both ends forward, and of which only an end can be lost: with   *)
(* the loops dropped in the middle of a frame or of a payload, with frames *)
(* lost on the way and with half-open connections.                         *)
Upstream   == INSTANCE CutStream
                WITH input <- input["client"], output <- output["server"],
                     chan <- OnTheWay("client"), cut <- Stopped
Downstream == INSTANCE CutStream
                WITH input <- input["server"], output <- output["client"],
                     chan <- OnTheWay("server"), cut <- Stopped
UpstreamIsCutStream   == Upstream!Spec
DownstreamIsCutStream == Downstream!Spec

(* The two directions do not wait for each other: what one end reads is    *)
(* written at the other if the peer there reads, although the peer here    *)
(* may not read and either may have ended its own stream.                  *)
BothWaysFlow ==
  \A s \in Side : \A n \in 1..MaxIn[s] :
    (input[s] = n /\ reads[Other(s)]) ~> (Len(output[Other(s)]) >= n \/ Stopped)

(* One end's return ends the other: a connection that is over at one end   *)
(* does not stay open at the other if the peer there reads.                *)
EndsTogether == \A s \in Side : (Over(s) /\ reads[Other(s)]) ~> Over(Other(s))
=============================================================================
