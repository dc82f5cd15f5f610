------------------------ MODULE WsocksForward_proofs ------------------------
(***************************************************************************)
(* That the down loops of a proxied connection get data frames alone, and  *)
(* that each direction is a CutStream, for any window of the relconn, any  *)
(* lengths of reads and any amount of data.                                *)
(***************************************************************************)
EXTENDS WsocksForward, SequenceFacts

AnyFrame == [kind : {"offer", "refusal", "data"}, data : Seq(Nat)]
Frames   == Seq(AnyFrame)

-----------------------------------------------------------------------------
(* Sequences of frames.                                                    *)

\* v is w with some frames taken out.
Shrinks(w, v) == /\ v \in Frames
                 /\ Len(v) <= Len(w)
                 /\ \A i \in 1..Len(v) : \E j \in 1..Len(w) : i <= j /\ v[i] = w[j]

\* What the relconn does to the frames on their way: it leaves them, it gives
\* the first one away, it drops a half-written last one, it drops them all.
LEMMA ShrinkSimply ==
  ASSUME NEW w \in Frames
  PROVE  /\ Shrinks(w, w)
         /\ Shrinks(w, <<>>)
         /\ w # <<>> => Shrinks(w, Tail(w))
         /\ Shrinks(w, Front(w))
<1>1. Len(w) \in Nat
  BY DEF Frames
<1>2. Shrinks(w, w)
  BY <1>1 DEF Shrinks
<1>3. Shrinks(w, <<>>)
  BY <1>1 DEF Shrinks, Frames
<1>4. w # <<>> => Shrinks(w, Tail(w))
  <2> SUFFICES ASSUME w # <<>> PROVE Shrinks(w, Tail(w))
    OBVIOUS
  <2>1. Tail(w) \in Frames /\ Len(Tail(w)) = Len(w) - 1
    BY DEF Frames
  <2>2. \A i \in 1..Len(Tail(w)) : Tail(w)[i] = w[i + 1]
    BY DEF Frames
  <2>3. \A i \in 1..Len(Tail(w)) : i + 1 \in 1..Len(w) /\ i <= i + 1
    BY <1>1, <2>1
  <2>4. QED
    BY <1>1, <2>1, <2>2, <2>3 DEF Shrinks
<1>5. Shrinks(w, Front(w))
  <2>1. Len(w) - 1 \in Int /\ \A i \in 1..(Len(w) - 1) : w[i] \in AnyFrame
    BY <1>1, LenProperties DEF Frames
  <2>2. /\ Front(w) \in Frames
        /\ Len(Front(w)) = IF 1 <= Len(w) - 1 THEN Len(w) - 1 - 1 + 1 ELSE 0
        /\ \A i \in 1..(Len(w) - 1 - 1 + 1) : Front(w)[i] = w[1 + i - 1]
    BY <2>1, SubSeqProperties DEF Front, Frames
  <2>3. Len(Front(w)) <= Len(w) /\ \A i \in 1..Len(Front(w)) : i \in 1..Len(w) /\ Front(w)[i] = w[i]
    BY <1>1, <2>2
  <2>4. \A i \in 1..Len(Front(w)) : i <= i
    BY <1>1, <2>2
  <2>5. QED
    BY <2>2, <2>3, <2>4 DEF Shrinks
<1>6. QED
  BY <1>2, <1>3, <1>4, <1>5

\* It loses one of them.
LEMMA RemoveOne ==
  ASSUME NEW w \in Frames, NEW n \in 1..Len(w)
  PROVE  /\ RemoveAt(w, n) \in Frames /\ Len(RemoveAt(w, n)) = Len(w) - 1
         /\ \A i \in 1..(Len(w) - 1) : RemoveAt(w, n)[i] = IF i < n THEN w[i] ELSE w[i + 1]
<1> DEFINE before == SubSeq(w, 1, n - 1)
           after  == SubSeq(w, n + 1, Len(w))
<1>1. Len(w) \in Nat /\ n \in Nat /\ 1 <= n /\ n <= Len(w)
  BY LenProperties DEF Frames
<1>2. /\ before \in Frames /\ Len(before) = n - 1
      /\ \A i \in 1..(n - 1) : before[i] = w[i]
  <2>1. n - 1 \in Int /\ \A i \in 1..(n - 1) : w[i] \in AnyFrame
    BY <1>1, LenProperties DEF Frames
  <2>2. /\ before \in Frames
        /\ Len(before) = IF 1 <= n - 1 THEN n - 1 - 1 + 1 ELSE 0
        /\ \A i \in 1..(n - 1 - 1 + 1) : before[i] = w[1 + i - 1]
    BY <2>1, SubSeqProperties DEF Frames
  <2> HIDE DEF before
  <2>3. QED
    BY <1>1, <2>2
<1>3. /\ after \in Frames /\ Len(after) = Len(w) - n
      /\ \A i \in 1..(Len(w) - n) : after[i] = w[n + i]
  <2>1. n + 1 \in Int /\ Len(w) \in Int /\ \A i \in (n + 1)..Len(w) : w[i] \in AnyFrame
    BY <1>1, LenProperties DEF Frames
  <2>2. /\ after \in Frames
        /\ Len(after) = IF n + 1 <= Len(w) THEN Len(w) - (n + 1) + 1 ELSE 0
        /\ \A i \in 1..(Len(w) - (n + 1) + 1) : after[i] = w[n + 1 + i - 1]
    BY <2>1, SubSeqProperties DEF Frames
  <2> HIDE DEF after
  <2>3. QED
    BY <1>1, <2>2
<1> HIDE DEF before, after
<1> DEFINE v == before \o after
<1>4. /\ v \in Frames /\ Len(v) = Len(before) + Len(after)
      /\ \A i \in 1..(Len(before) + Len(after)) :
            v[i] = IF i <= Len(before) THEN before[i] ELSE after[i - Len(before)]
  BY <1>2, <1>3, ConcatProperties DEF Frames
<1> HIDE DEF v
<1>5. ASSUME NEW i \in 1..(Len(w) - 1) PROVE v[i] = IF i < n THEN w[i] ELSE w[i + 1]
  <2>1. i \in 1..(Len(before) + Len(after))
    BY <1>1, <1>2, <1>3
  <2>2. CASE i < n
    BY <1>1, <1>2, <1>4, <2>1, <2>2
  <2>3. CASE ~(i < n)
    <3> DEFINE k == i - (n - 1)
    <3>1. k \in 1..(Len(w) - n) /\ n + k = i + 1
      BY <1>1, <2>3
    <3>2. v[i] = after[k]
      BY <1>1, <1>2, <1>4, <2>1, <2>3
    <3> HIDE DEF k
    <3>3. v[i] = w[i + 1]
      BY <1>3, <3>1, <3>2
    <3>4. QED
      BY <2>3, <3>3
  <2>4. QED
    BY <2>2, <2>3
<1>6. Len(v) = Len(w) - 1
  BY <1>1, <1>2, <1>3, <1>4
<1>7. QED
  BY <1>4, <1>5, <1>6 DEF RemoveAt, v, before, after

LEMMA ShrinkByOne ==
  ASSUME NEW w \in Frames, NEW n \in 1..Len(w)
  PROVE  Shrinks(w, RemoveAt(w, n))
<1> DEFINE v == RemoveAt(w, n)
<1>1. /\ v \in Frames /\ Len(v) = Len(w) - 1
      /\ \A i \in 1..(Len(w) - 1) : v[i] = IF i < n THEN w[i] ELSE w[i + 1]
  BY RemoveOne
<1> HIDE DEF v
<1>2. Len(w) \in Nat
  BY LenProperties DEF Frames
<1>3. ASSUME NEW i \in 1..Len(v) PROVE \E j \in 1..Len(w) : i <= j /\ v[i] = w[j]
  <2>1. i \in 1..Len(w) /\ i + 1 \in 1..Len(w) /\ i <= i /\ i <= i + 1 /\ i \in 1..(Len(w) - 1)
    BY <1>1, <1>2
  <2>2. QED
    BY <1>1, <2>1
<1>4. Len(v) <= Len(w)
  BY <1>1, <1>2
<1>5. QED
  BY <1>1, <1>3, <1>4 DEF Shrinks, v

\* The complete frames are among the frames, and the first of them is the first.
LEMMA CompleteFrames ==
  ASSUME TypeOK, NEW s \in Side
  PROVE  /\ wire[s] \in Frames
         /\ Shrinks(wire[s], Complete(s))
         /\ Complete(s) # <<>> => wire[s] # <<>> /\ Len(Complete(s)) \in 1..Len(wire[s])
<1>1. wire[s] \in Frames
  BY DEF TypeOK, Frames, AnyFrame
<1>2. Shrinks(wire[s], Complete(s))
  BY <1>1, ShrinkSimply DEF Complete
<1>3. Complete(s) # <<>> => Len(Complete(s)) \in 1..Len(wire[s])
  BY <1>1, <1>2 DEF Shrinks, Frames
<1>4. QED
  BY <1>1, <1>2, <1>3

-----------------------------------------------------------------------------
(* The invariant.                                                          *)

DataOnly(s) == \A j \in 1..Len(wire[s]) : wire[s][j].kind = "data"

\* The client only ever sends data, and the server sends one other frame, as
\* its first, which the client has taken when it forwards.
OneAnswer == /\ DataOnly("client")
             /\ phase["client"] \in {"reply", "forward"} => DataOnly("server")
             /\ phase["server"] = "connect" => /\ wire["server"] = <<>>
                                               /\ phase["client"] \notin {"reply", "forward"}
             /\ \A j \in 2..Len(wire["server"]) : wire["server"][j].kind = "data"

ForwardInv == TypeOK /\ OnlyDataIsReceived /\ OneAnswer

\* It holds when the connection is asked for.
LEMMA ForwardInit == ASSUME Init PROVE ForwardInv
<1>1. /\ \A s \in Side : wire[s] = <<>>
      /\ \A s \in Side : phase[s] \in {"ask", "connect"}
  BY DEF Init
<1>2. OnlyDataIsReceived /\ OneAnswer
  BY <1>1 DEF OnlyDataIsReceived, OneAnswer, DataOnly, Side
<1>3. TypeOK
  <2>1. input \in [Side -> Nat] /\ \A s \in Side : input[s] \in 0..MaxIn[s]
    BY ForwardAssumption DEF Init
  <2>2. \A s \in Side : Len(wire[s]) <= Window
    BY <1>1, ForwardAssumption
  <2>3. /\ wire \in [Side -> Frames]
        /\ chunk \in [Side -> Seq(Nat)] /\ payload \in [Side -> Seq(Nat)]
        /\ output \in [Side -> Seq(Nat)]
    BY DEF Init, Frames
  <2>4. /\ phase \in [Side -> {"ask", "reply", "connect", "forward", "done", "unwrap", "todo"}]
        /\ up \in [Side -> {"check", "read", "send", "sending"}]
        /\ down \in [Side -> {"check", "recv", "write"}]
    BY DEF Init
  <2>5. /\ broken \in BOOLEAN /\ deadline \in {"ahead", "sent", "received"}
        /\ reads \in [Side -> BOOLEAN] /\ eof \in [Side -> BOOLEAN]
    BY DEF Init
  <2>6. QED
    BY <2>1, <2>2, <2>3, <2>4, <2>5 DEF TypeOK, Frames, AnyFrame
<1>4. QED
  BY <1>2, <1>3 DEF ForwardInv

\* Taking frames out of a wire.
LEMMA WireShrinks ==
  ASSUME TypeOK, NEW s \in Side, NEW v, Shrinks(wire[s], v),
         wire' = [wire EXCEPT ![s] = v]
  PROVE  /\ wire' \in [Side -> Frames]
         /\ \A t \in Side : Len(wire'[t]) <= Window /\ Shrinks(wire[t], wire'[t])
<1>1. wire \in [Side -> Frames] /\ v \in Frames /\ wire'[s] = v
  BY DEF TypeOK, Frames, AnyFrame, Shrinks
<1>2. wire' \in [Side -> Frames] /\ \A t \in Side \ {s} : wire'[t] = wire[t]
  BY <1>1
<1>3. \A t \in Side : Shrinks(wire[t], wire'[t])
  BY <1>1, <1>2, ShrinkSimply
<1>4. Len(v) <= Window
  <2>1. Len(v) \in Nat /\ Len(wire[s]) \in Nat /\ Window \in Nat
    BY <1>1, ForwardAssumption DEF Frames
  <2>2. QED
    BY <2>1 DEF Shrinks, TypeOK
<1>5. QED
  BY <1>1, <1>2, <1>3, <1>4 DEF TypeOK

\* A step that puts no frame into a wire keeps the answer where it is; the
\* only thing to see is that no down loop gets anything else.
LEMMA ShrinkKeeps ==
  ASSUME ForwardInv, \A s \in Side : Shrinks(wire[s], wire'[s]),
         phase'["server"] = "connect" => phase["server"] = "connect",
         phase'["client"] \in {"reply", "forward"} => phase["client"] \in {"reply", "forward"}
  PROVE  OneAnswer'
<1>0. "client" \in Side /\ "server" \in Side
  BY DEF Side
<1>1. \A s \in Side : /\ wire[s] \in Frames /\ wire'[s] \in Frames
                      /\ Len(wire[s]) \in Nat /\ Len(wire'[s]) \in Nat
  <2>1. \A s \in Side : wire[s] \in Frames /\ wire'[s] \in Frames
    BY CompleteFrames DEF ForwardInv, Shrinks
  <2>2. QED
    BY <2>1, LenProperties DEF Frames
<1>2. ASSUME NEW s \in Side, DataOnly(s) PROVE DataOnly(s)'
  BY <1>2 DEF Shrinks, DataOnly
<1>3. wire["server"] = <<>> => wire'["server"] = <<>>
  BY <1>0, <1>1 DEF Shrinks, Frames
<1>4. (\A j \in 2..Len(wire["server"]) : wire["server"][j].kind = "data")
         => \A j \in 2..Len(wire'["server"]) : wire'["server"][j].kind = "data"
  <2> SUFFICES ASSUME \A j \in 2..Len(wire["server"]) : wire["server"][j].kind = "data",
                      NEW i \in 2..Len(wire'["server"])
               PROVE  wire'["server"][i].kind = "data"
    OBVIOUS
  <2>1. i \in 1..Len(wire'["server"])
    BY <1>0, <1>1
  <2>2. PICK j \in 1..Len(wire["server"]) : i <= j /\ wire'["server"][i] = wire["server"][j]
    BY <1>0, <2>1 DEF Shrinks
  <2>3. j \in 2..Len(wire["server"])
    BY <1>0, <1>1, <2>1, <2>2
  <2>4. QED
    BY <2>2, <2>3
<1>5. QED
  BY <1>0, <1>2, <1>3, <1>4 DEF ForwardInv, OneAnswer


\* A step that leaves wire and phase alone keeps the invariant if it keeps types.
LEMMA QuietKeeps ==
  ASSUME ForwardInv, TypeOK', UNCHANGED <<phase, wire>>
  PROVE  ForwardInv'
BY DEF ForwardInv, OnlyDataIsReceived, OneAnswer, DataOnly

\* So does one that only takes frames out of a wire.
LEMMA TakeKeeps ==
  ASSUME ForwardInv, TypeOK', UNCHANGED phase,
         NEW s \in Side, NEW v, Shrinks(wire[s], v), wire' = [wire EXCEPT ![s] = v]
  PROVE  ForwardInv'
<1>1. \A t \in Side : Shrinks(wire[t], wire'[t])
  BY WireShrinks DEF ForwardInv
<1>2. OneAnswer'
  BY <1>1, ShrinkKeeps
<1>3. QED
  BY <1>2 DEF ForwardInv, OnlyDataIsReceived

\* The end of an end: it forgets what it holds and what has arrived.
LEMMA DropKeeps ==
  ASSUME ForwardInv, NEW s \in Side, Drop(s), deadline' \in {deadline, "received"}
  PROVE  ForwardInv'
<1>1. Other(s) \in Side
  BY DEF Side, Other
<1>2. wire[Other(s)] \in Frames /\ TypeOK
  BY <1>1, CompleteFrames DEF ForwardInv
<1>3. wire' = [wire EXCEPT ![Other(s)] = <<>>] /\ Shrinks(wire[Other(s)], <<>>)
  BY <1>2, ShrinkSimply DEF Drop
<1>4. wire' \in [Side -> Frames] /\ \A t \in Side : Len(wire'[t]) <= Window /\ Shrinks(wire[t], wire'[t])
  BY <1>1, <1>2, <1>3, WireShrinks
<1>5. TypeOK'
  <2>1. /\ phase' \in [Side -> {"ask", "reply", "connect", "forward", "done", "unwrap", "todo"}]
        /\ up' \in [Side -> {"check", "read", "send", "sending"}]
        /\ down' \in [Side -> {"check", "recv", "write"}]
    BY <1>2 DEF Drop, OnError, TypeOK
  <2>2. chunk' \in [Side -> Seq(Nat)] /\ payload' \in [Side -> Seq(Nat)]
    BY <1>2 DEF Drop, OnError, TypeOK
  <2>3. /\ broken' \in BOOLEAN /\ deadline' \in {"ahead", "sent", "received"}
        /\ reads' \in [Side -> BOOLEAN] /\ eof' \in [Side -> BOOLEAN]
        /\ input' \in [Side -> Nat] /\ \A t \in Side : input'[t] \in 0..MaxIn[t]
        /\ output' \in [Side -> Seq(Nat)]
    BY <1>2 DEF Drop, OnError, TypeOK
  <2>4. QED
    BY <1>4, <2>1, <2>2, <2>3 DEF TypeOK, Frames, AnyFrame
<1>6. \A t \in Side : phase'[t] \in {phase[t], "done", "unwrap"}
  BY <1>2 DEF Drop, OnError, TypeOK
<1>7. OnlyDataIsReceived'
  BY <1>6 DEF ForwardInv, OnlyDataIsReceived
<1>8. OneAnswer'
  BY <1>4, <1>6, ShrinkKeeps DEF Side
<1>9. QED
  BY <1>5, <1>7, <1>8 DEF ForwardInv

-----------------------------------------------------------------------------
(* The handshake.                                                          *)

\* Putting a frame into a wire that has room for it.
LEMMA WireGrows ==
  ASSUME TypeOK, NEW s \in Side, Len(wire[s]) < Window, NEW f \in AnyFrame,
         wire' = [wire EXCEPT ![s] = Append(@, f)]
  PROVE  /\ wire' \in [Side -> Frames]
         /\ \A t \in Side : Len(wire'[t]) <= Window
         /\ \A t \in Side \ {s} : wire'[t] = wire[t]
         /\ Len(wire'[s]) = Len(wire[s]) + 1
         /\ \A j \in 1..Len(wire[s]) : wire'[s][j] = wire[s][j]
         /\ wire'[s][Len(wire[s]) + 1] = f
<1>1. wire \in [Side -> Frames] /\ wire[s] \in Frames
  BY DEF TypeOK, Frames, AnyFrame
<1> DEFINE v == Append(wire[s], f)
<1>2. /\ v \in Frames /\ Len(v) = Len(wire[s]) + 1
      /\ \A j \in 1..Len(wire[s]) : v[j] = wire[s][j]
      /\ v[Len(wire[s]) + 1] = f
  BY <1>1, AppendProperties DEF Frames
<1>3. wire' = [wire EXCEPT ![s] = v]
  OBVIOUS
<1> HIDE DEF v
<1>4. wire'[s] = v /\ \A t \in Side \ {s} : wire'[t] = wire[t]
  BY <1>1, <1>3
<1>5. wire' \in [Side -> Frames]
  BY <1>1, <1>2, <1>3
<1>6. Len(v) <= Window
  <2>1. Len(wire[s]) \in Nat /\ Window \in Nat
    BY <1>1, LenProperties, ForwardAssumption DEF Frames
  <2>2. QED
    BY <1>2, <2>1
<1>7. QED
  BY <1>2, <1>4, <1>5, <1>6 DEF TypeOK

\* The server answers: its first frame, and never again.
LEMMA AnswerKeeps ==
  ASSUME ForwardInv, Connect \/ ConnectRefused
  PROVE  ForwardInv'
<1>0. "client" \in Side /\ "server" \in Side /\ "client" # "server"
  BY DEF Side
<1>1. PICK f \in AnyFrame, q \in {"forward", "done"} :
        /\ phase["server"] = "connect"
        /\ wire' = [wire EXCEPT !["server"] = Append(@, f)]
        /\ phase' = [phase EXCEPT !["server"] = q]
        /\ UNCHANGED <<loops, world, input, output>>
  <2>1. <<>> \in Seq(Nat)
    OBVIOUS
  <2>2. Frame("offer", <<>>) \in AnyFrame /\ Frame("refusal", <<>>) \in AnyFrame
    BY <2>1 DEF Frame, AnyFrame
  <2>3. QED
    BY <2>2 DEF Connect, ConnectRefused
<1>2. wire["server"] = <<>> /\ Len(wire["server"]) = 0 /\ Len(wire["server"]) < Window /\ TypeOK
  BY <1>1, ForwardAssumption DEF ForwardInv, OneAnswer
<1>3. /\ wire' \in [Side -> Frames]
      /\ \A t \in Side : Len(wire'[t]) <= Window
      /\ wire'["client"] = wire["client"]
      /\ Len(wire'["server"]) = 1
  <2>1. /\ wire' \in [Side -> Frames]
        /\ \A t \in Side : Len(wire'[t]) <= Window
        /\ \A t \in Side \ {"server"} : wire'[t] = wire[t]
        /\ Len(wire'["server"]) = Len(wire["server"]) + 1
    BY <1>0, <1>1, <1>2, WireGrows
  <2>2. QED
    BY <1>0, <1>2, <2>1
<1>4. /\ phase' \in [Side -> {"ask", "reply", "connect", "forward", "done", "unwrap", "todo"}]
      /\ phase'["server"] = q /\ phase'["client"] = phase["client"]
  BY <1>0, <1>1, <1>2 DEF TypeOK
<1>5. TypeOK'
  BY <1>1, <1>2, <1>3, <1>4 DEF TypeOK, Frames, AnyFrame, loops, world
<1>6. OnlyDataIsReceived'
  BY <1>4 DEF ForwardInv, OnlyDataIsReceived, Side
<1>7. phase["client"] \notin {"reply", "forward"}
  BY <1>1 DEF ForwardInv, OneAnswer
<1>8. OneAnswer'
  BY <1>3, <1>4, <1>7 DEF ForwardInv, OneAnswer, DataOnly
<1>9. QED
  BY <1>5, <1>6, <1>8 DEF ForwardInv

\* The client takes the answer: what follows is data.
LEMMA TakeOfferKeeps == ASSUME ForwardInv, TakeOffer PROVE ForwardInv'
<1>0. "client" \in Side /\ "server" \in Side /\ "client" # "server"
  BY DEF Side
<1>1. PICK q \in {"reply", "done"} :
        /\ phase["client"] = "ask" /\ Complete("server") # <<>>
        /\ wire' = [wire EXCEPT !["server"] = Tail(@)]
        /\ phase' = [phase EXCEPT !["client"] = q]
        /\ UNCHANGED <<loops, world, input, output>>
  BY DEF TakeOffer
<1>2. wire["server"] \in Frames /\ wire["server"] # <<>> /\ TypeOK
  BY <1>0, <1>1, CompleteFrames DEF ForwardInv
<1>3. Shrinks(wire["server"], Tail(wire["server"]))
  BY <1>2, ShrinkSimply
<1>4. /\ wire' \in [Side -> Frames]
      /\ \A t \in Side : Len(wire'[t]) <= Window /\ Shrinks(wire[t], wire'[t])
  BY <1>0, <1>1, <1>2, <1>3, WireShrinks
<1>5. /\ phase' \in [Side -> {"ask", "reply", "connect", "forward", "done", "unwrap", "todo"}]
      /\ phase'["client"] = q /\ phase'["server"] = phase["server"]
  BY <1>0, <1>1, <1>2 DEF TypeOK
<1>6. TypeOK'
  BY <1>1, <1>2, <1>4, <1>5 DEF TypeOK, Frames, AnyFrame, loops, world
<1>7. OnlyDataIsReceived'
  BY <1>5 DEF ForwardInv, OnlyDataIsReceived, Side
<1>8. \A j \in 1..Len(wire'["server"]) : wire'["server"][j].kind = "data"
  <2>1. wire'["server"] = Tail(wire["server"])
    BY <1>0, <1>1, <1>2 DEF TypeOK
  <2>2. /\ Len(Tail(wire["server"])) = Len(wire["server"]) - 1
        /\ \A j \in 1..Len(Tail(wire["server"])) : Tail(wire["server"])[j] = wire["server"][j + 1]
        /\ Len(wire["server"]) \in Nat
    BY <1>2, HeadTailProperties, LenProperties DEF Frames
  <2>3. \A j \in 1..Len(Tail(wire["server"])) : j + 1 \in 2..Len(wire["server"])
    BY <2>2
  <2>4. QED
    BY <2>1, <2>2, <2>3 DEF ForwardInv, OneAnswer
<1>9. DataOnly("client")'
  BY <1>0, <1>1, <1>2 DEF ForwardInv, OneAnswer, DataOnly, TypeOK
<1>10. phase'["server"] # "connect"
  BY <1>2, <1>5 DEF ForwardInv, OneAnswer
<1>11. \A j \in 2..Len(wire'["server"]) : j \in 1..Len(wire'["server"])
  <2>1. Len(wire'["server"]) \in Nat
    BY <1>0, <1>4, LenProperties DEF Frames
  <2>2. QED
    BY <2>1
<1>12. OneAnswer'
  BY <1>8, <1>9, <1>10, <1>11 DEF OneAnswer, DataOnly
<1>13. QED
  BY <1>6, <1>7, <1>12 DEF ForwardInv

\* The client's answer to the application.
LEMMA ReplyKeeps == ASSUME ForwardInv, Reply PROVE ForwardInv'
<1>1. /\ phase["client"] = "reply"
      /\ phase' = [phase EXCEPT !["client"] = "forward"]
      /\ UNCHANGED <<loops, wire, world, input, output>>
  BY DEF Reply
<1>2. TypeOK
  BY DEF ForwardInv
<1>3. /\ phase' \in [Side -> {"ask", "reply", "connect", "forward", "done", "unwrap", "todo"}]
      /\ phase'["client"] = "forward" /\ phase'["server"] = phase["server"]
  BY <1>1, <1>2 DEF TypeOK, Side
<1>4. TypeOK'
  BY <1>1, <1>2, <1>3 DEF TypeOK, loops, world
<1>5. OnlyDataIsReceived' /\ OneAnswer'
  BY <1>1, <1>3 DEF ForwardInv, OnlyDataIsReceived, OneAnswer, DataOnly, Side
<1>6. QED
  BY <1>4, <1>5 DEF ForwardInv

-----------------------------------------------------------------------------
(* The loops.                                                              *)

\* The up loop sends data and nothing else.
LEMMA SendStartKeeps ==
  ASSUME ForwardInv, NEW s \in Side, SendStart(s)
  PROVE  ForwardInv'
<1>0. "client" \in Side /\ "server" \in Side /\ "client" # "server" /\ TypeOK
  BY DEF Side, ForwardInv
<1> DEFINE f == Frame("data", chunk[s])
<1>1. f \in AnyFrame /\ f.kind = "data"
  BY <1>0 DEF Frame, AnyFrame, TypeOK
<1>2. /\ phase[s] = "forward" /\ Len(wire[s]) < Window
      /\ wire' = [wire EXCEPT ![s] = Append(@, f)]
      /\ up' = [up EXCEPT ![s] = "sending"]
      /\ UNCHANGED <<phase, chunk, down, payload, world, input, output>>
  BY DEF SendStart, Forwarding, Room
<1> HIDE DEF f
<1>3. /\ wire' \in [Side -> Frames]
      /\ \A t \in Side : Len(wire'[t]) <= Window
      /\ \A t \in Side \ {s} : wire'[t] = wire[t]
      /\ Len(wire'[s]) = Len(wire[s]) + 1
      /\ \A j \in 1..Len(wire[s]) : wire'[s][j] = wire[s][j]
      /\ wire'[s][Len(wire[s]) + 1] = f
  BY <1>0, <1>1, <1>2, WireGrows
<1>4. TypeOK'
  BY <1>0, <1>2, <1>3 DEF TypeOK, Frames, AnyFrame, world
<1>5. Len(wire[s]) \in Nat
  BY <1>0, CompleteFrames, LenProperties DEF Frames
<1>6. \A j \in 1..Len(wire'[s]) : j \in 1..Len(wire[s]) \/ j = Len(wire[s]) + 1
  BY <1>3, <1>5
<1>7. DataOnly(s) => DataOnly(s)'
  BY <1>1, <1>3, <1>6 DEF DataOnly
<1>8. \A t \in Side : t # s => (DataOnly(t)' <=> DataOnly(t))
  BY <1>3 DEF DataOnly
<1>9. \A j \in 2..Len(wire'["server"]) : wire'["server"][j].kind = "data"
  <2>1. CASE s = "server"
    <3>1. \A j \in 2..Len(wire'[s]) : j \in 2..Len(wire[s]) \/ j = Len(wire[s]) + 1
      BY <1>3, <1>5
    <3>2. \A j \in 2..Len(wire[s]) : j \in 1..Len(wire[s])
      BY <1>5
    <3>3. QED
      BY <1>1, <1>3, <2>1, <3>1, <3>2 DEF ForwardInv, OneAnswer
  <2>2. CASE s # "server"
    BY <1>0, <1>3, <2>2 DEF ForwardInv, OneAnswer
  <2>3. QED
    BY <2>1, <2>2
<1>10. OneAnswer'
  BY <1>0, <1>2, <1>3, <1>7, <1>8, <1>9 DEF ForwardInv, OneAnswer
<1>11. QED
  BY <1>2, <1>4, <1>10 DEF ForwardInv, OnlyDataIsReceived

\* The rest of the up loop.
LEMMA UpLoopKeeps == ASSUME ForwardInv, NEW s \in Side, UpLoop(s) PROVE ForwardInv'
<1>0. TypeOK
  BY DEF ForwardInv
<1>1. CASE UpCheck(s) \/ ReadEof(s)
  <2>1. /\ UNCHANGED <<phase, chunk, down, payload, wire, world, input, output>>
        /\ \E u \in {"read", "send"} : up' = [up EXCEPT ![s] = u]
    BY <1>1 DEF UpCheck, ReadEof
  <2>2. TypeOK'
    BY <1>0, <2>1 DEF TypeOK, world
  <2>3. QED
    BY <2>1, <2>2, QuietKeeps
<1>2. ASSUME NEW k \in ReadLens, Read(s, k) PROVE ForwardInv'
  <2> DEFINE c == [j \in 1..k |-> input[s] + j]
  <2>1. /\ input[s] + k <= MaxIn[s]
        /\ chunk' = [chunk EXCEPT ![s] = c]
        /\ input' = [input EXCEPT ![s] = @ + k]
        /\ up' = [up EXCEPT ![s] = "send"]
        /\ UNCHANGED <<phase, down, payload, wire, world, output>>
    BY <1>2 DEF Read
  <2>2. k \in Nat /\ input[s] \in Nat /\ MaxIn[s] \in Nat
    <3>1. input[s] \in 0..MaxIn[s]
      BY <1>0 DEF TypeOK
    <3>2. QED
      BY <3>1, ForwardAssumption
  <2>3. c \in Seq(Nat)
    <3>1. \A j \in 1..k : input[s] + j \in Nat
      BY <2>2
    <3>2. c \in [1..k -> Nat]
      BY <3>1
    <3>3. QED
      BY <2>2, <3>2, SeqDef
  <2> HIDE DEF c
  <2>4. chunk' \in [Side -> Seq(Nat)] /\ up' \in [Side -> {"check", "read", "send", "sending"}]
    BY <1>0, <2>1, <2>3 DEF TypeOK
  <2>5. input' \in [Side -> Nat] /\ \A t \in Side : input'[t] \in 0..MaxIn[t]
    <3>0. input' \in [Side -> Nat]
      BY <1>0, <2>1, <2>2 DEF TypeOK
    <3>1. input[s] + k \in 0..MaxIn[s]
      BY <2>1, <2>2
    <3>2. \A t \in Side : input'[t] \in {input[t], input[s] + k} /\ (t # s => input'[t] = input[t])
      BY <2>1
    <3>3. QED
      BY <1>0, <3>0, <3>1, <3>2 DEF TypeOK
  <2>6. TypeOK'
    BY <1>0, <2>1, <2>4, <2>5 DEF TypeOK, world
  <2>7. QED
    BY <2>1, <2>6, QuietKeeps
<1>3. CASE SendFinish(s)
  <2>1. /\ UNCHANGED <<phase, down, payload, wire, world, input, output>>
        /\ up' = [up EXCEPT ![s] = "check"] /\ chunk' = [chunk EXCEPT ![s] = <<>>]
    BY <1>3 DEF SendFinish
  <2>2. TypeOK'
    BY <1>0, <2>1 DEF TypeOK, world
  <2>3. QED
    BY <2>1, <2>2, QuietKeeps
<1>4. CASE SendFails(s)
  BY <1>4, DropKeeps DEF SendFails, End
<1>5. CASE SendVanishes(s)
  <2>1. /\ UNCHANGED <<phase, down, payload, world, input, output>>
        /\ wire' = [wire EXCEPT ![s] = Complete(s)]
        /\ up' = [up EXCEPT ![s] = "check"] /\ chunk' = [chunk EXCEPT ![s] = <<>>]
    BY <1>5 DEF SendVanishes
  <2>2. Shrinks(wire[s], Complete(s))
    BY <1>0, CompleteFrames
  <2>3. wire' \in [Side -> Frames] /\ \A t \in Side : Len(wire'[t]) <= Window
    BY <1>0, <2>1, <2>2, WireShrinks
  <2>4. TypeOK'
    BY <1>0, <2>1, <2>3 DEF TypeOK, Frames, AnyFrame, world
  <2>5. QED
    BY <2>1, <2>2, <2>4, TakeKeeps
<1>6. QED
  BY <1>1, <1>2, <1>3, <1>4, <1>5, SendStartKeeps DEF UpLoop

\* The down loop finds data and nothing else.
LEMMA DownLoopKeeps == ASSUME ForwardInv, NEW s \in Side, DownLoop(s) PROVE ForwardInv'
<1>0. TypeOK /\ Other(s) \in Side
  BY DEF ForwardInv, Side, Other
<1>1. CASE DownCheck(s)
  <2>1. /\ UNCHANGED <<phase, up, chunk, payload, wire, world, input, output>>
        /\ down' = [down EXCEPT ![s] = "recv"]
    BY <1>1 DEF DownCheck
  <2>2. TypeOK'
    BY <1>0, <2>1 DEF TypeOK, world
  <2>3. QED
    BY <2>1, <2>2, QuietKeeps
<1>2. CASE Recv(s)
  <2> DEFINE w == wire[Other(s)]
  <2>1. w \in Frames /\ w # <<>>
    BY <1>0, <1>2, CompleteFrames DEF Recv
  <2>2. Head(w).data \in Seq(Nat) /\ Head(w).kind = "data"
    <3>1. Head(w) \in AnyFrame
      BY <2>1, HeadTailProperties DEF Frames
    <3>2. DataOnly(Other(s))
      BY <1>2 DEF ForwardInv, OneAnswer, Recv, Forwarding, Side, Other
    <3>3. 1 \in 1..Len(w) /\ Head(w) = w[1]
      BY <2>1 DEF Frames
    <3>4. QED
      BY <3>1, <3>2, <3>3 DEF AnyFrame, DataOnly
  <2>3. Shrinks(w, Tail(w)) /\ wire' = [wire EXCEPT ![Other(s)] = Tail(w)]
    BY <1>2, <2>1, ShrinkSimply DEF Recv
  <2>4. wire' \in [Side -> Frames] /\ \A t \in Side : Len(wire'[t]) <= Window
    BY <1>0, <2>3, WireShrinks
  <2>5. /\ UNCHANGED <<phase, up, chunk, world, input, output>>
        /\ payload' = [payload EXCEPT ![s] = Head(w).data]
        /\ \E d \in {"check", "write"} : down' = [down EXCEPT ![s] = d]
    BY <1>2, <2>2 DEF Recv
  <2> HIDE DEF w
  <2>6. TypeOK'
    BY <1>0, <2>2, <2>4, <2>5 DEF TypeOK, Frames, AnyFrame, world
  <2>7. QED
    BY <1>0, <2>3, <2>5, <2>6, TakeKeeps DEF w
<1>3. CASE RecvFails(s)
  BY <1>3, DropKeeps DEF RecvFails, End
<1>4. ASSUME NEW k \in 1..Len(payload[s]), Write(s, k) PROVE ForwardInv'
  <2>1. /\ UNCHANGED <<phase, up, chunk, wire, world, input>>
        /\ output' = [output EXCEPT ![s] = @ \o SubSeq(payload[s], 1, k)]
        /\ payload' = [payload EXCEPT ![s] = SubSeq(@, k + 1, Len(@))]
        /\ \E d \in {"check", "write"} : down' = [down EXCEPT ![s] = d]
    BY <1>4 DEF Write
  <2>2. payload[s] \in Seq(Nat) /\ output[s] \in Seq(Nat)
    BY <1>0 DEF TypeOK
  <2>3. /\ SubSeq(payload[s], 1, k) \in Seq(Nat)
        /\ SubSeq(payload[s], k + 1, Len(payload[s])) \in Seq(Nat)
    BY <2>2
  <2>4. output[s] \o SubSeq(payload[s], 1, k) \in Seq(Nat)
    BY <2>2, <2>3, ConcatProperties
  <2>5. output' \in [Side -> Seq(Nat)] /\ payload' \in [Side -> Seq(Nat)]
    BY <1>0, <2>1, <2>3, <2>4 DEF TypeOK
  <2>6. TypeOK'
    BY <1>0, <2>1, <2>5 DEF TypeOK, world
  <2>7. QED
    BY <2>1, <2>6, QuietKeeps
<1>5. QED
  BY <1>1, <1>2, <1>3, <1>4 DEF DownLoop, Writes

-----------------------------------------------------------------------------
(* The world outside, and every step.                                      *)

\* The relconn breaks, a conn's peer ends its stream, the deadline passes.
LEMMA OutsideKeeps ==
  ASSUME ForwardInv, Break \/ DeclareDead \/ OthersReceive \/ \E s \in Side : Eof(s)
  PROVE  ForwardInv'
<1>1. UNCHANGED <<phase, up, chunk, down, payload, wire, reads, input, output>>
  BY DEF Break, DeclareDead, OthersReceive, Eof, loops
<1>2. /\ broken' \in {broken, TRUE} /\ deadline' \in {deadline, "sent", "received"}
      /\ eof' = eof \/ \E s \in Side : eof' = [eof EXCEPT ![s] = TRUE]
  BY DEF Break, DeclareDead, OthersReceive, Eof
<1>3. TypeOK'
  BY <1>1, <1>2 DEF ForwardInv, TypeOK
<1>4. QED
  BY <1>1, <1>3, QuietKeeps

\* A frame is lost on the way.
LEMMA LoseKeeps == ASSUME ForwardInv, NEW s \in Side, LoseFrame(s) PROVE ForwardInv'
<1> DEFINE v == RemoveAt(wire[s], Len(Complete(s)))
<1>1. /\ wire' = [wire EXCEPT ![s] = v] /\ Complete(s) # <<>>
      /\ UNCHANGED <<phase, loops, world, input, output>>
  BY DEF LoseFrame
<1>2. TypeOK /\ Shrinks(wire[s], v)
  BY <1>1, CompleteFrames, ShrinkByOne DEF ForwardInv
<1> HIDE DEF v
<1>3. wire' \in [Side -> Frames] /\ \A t \in Side : Len(wire'[t]) <= Window
  BY <1>1, <1>2, WireShrinks
<1>4. TypeOK'
  BY <1>1, <1>2, <1>3 DEF TypeOK, Frames, AnyFrame, loops, world
<1>5. QED
  BY <1>1, <1>2, <1>4, TakeKeeps

\* Every step keeps the invariant.
LEMMA ForwardStep == ASSUME ForwardInv, [Next]_vars PROVE ForwardInv'
<1>1. CASE UNCHANGED vars
  BY <1>1 DEF vars, loops, world, ForwardInv, TypeOK, OnlyDataIsReceived, OneAnswer, DataOnly
<1>2. CASE Handshake
  <2>1. CASE ConnectFails \/ AskFails \/ ReplyFails
    BY <2>1, DropKeeps DEF ConnectFails, AskFails, ReplyFails, End, Side
  <2>2. QED
    BY <1>2, <2>1, AnswerKeeps, TakeOfferKeeps, ReplyKeeps DEF Handshake
<1>3. ASSUME NEW s \in Side, Bail(s) PROVE ForwardInv'
  BY <1>3, DropKeeps DEF Bail
<1>4. ASSUME NEW s \in Side, World(s) PROVE ForwardInv'
  <2>1. CASE ConnFails(s)
    BY <2>1, DropKeeps DEF ConnFails, End
  <2>2. QED
    BY <1>4, <2>1, OutsideKeeps, LoseKeeps DEF World
<1>5. QED
  BY <1>1, <1>2, <1>3, <1>4, UpLoopKeeps, DownLoopKeeps, OutsideKeeps DEF Next

\* So it always holds.
LEMMA ForwardAlways == Spec => []ForwardInv
<1>1. Init => ForwardInv
  BY ForwardInit
<1>2. ForwardInv /\ [Next]_vars => ForwardInv'
  BY ForwardStep
<1>3. QED
  BY <1>1, <1>2, PTL DEF Spec

-----------------------------------------------------------------------------
(* Of the variables' types, the one that takes an argument: the relconn    *)
(* never holds more frames than its window, the unasked answer included.   *)
THEOREM ForwardTypeCorrect == Spec => []TypeOK
<1>1. ForwardInv => TypeOK
  BY DEF ForwardInv
<1>2. QED
  BY <1>1, ForwardAlways, PTL

(* The assert_eq! and the todo!() of the down loops are never reached, for *)
(* any window and any data, whatever is lost on the way.                   *)
THEOREM OnlyDataIsReceivedCorrect == Spec => []OnlyDataIsReceived
<1>1. ForwardInv => OnlyDataIsReceived
  BY DEF ForwardInv
<1>2. QED
  BY <1>1, ForwardAlways, PTL

-----------------------------------------------------------------------------
(* The frames of a direction, and the bytes in them.                       *)

\* All frames but the last one.
LEMMA FrontIs ==
  ASSUME NEW w \in Frames, w # <<>>
  PROVE  /\ Len(w) \in Nat \ {0}
         /\ Front(w) \in Frames /\ Len(Front(w)) = Len(w) - 1
         /\ \A i \in 1..(Len(w) - 1) : Front(w)[i] = w[i]
         /\ w[Len(w)] \in AnyFrame
         /\ w = Append(Front(w), w[Len(w)])
<1> DEFINE v == Front(w)
           n == Len(w) - 1
<1>1. Len(w) \in Nat \ {0} /\ n \in Nat /\ n + 1 = Len(w)
  BY EmptySeq DEF Frames
<1>2. \A i \in 1..Len(w) : w[i] \in AnyFrame
  BY DEF Frames
<1>3. v \in Frames /\ Len(v) = n /\ \A i \in 1..n : v[i] = w[i]
  <2>1. v = SubSeq(w, 1, n)
    BY DEF Front
  <2> HIDE DEF v, n
  <2>2. 1 \in Int /\ n \in Int /\ \A i \in 1..n : w[i] \in AnyFrame /\ 1 + i - 1 = i
    BY <1>1, <1>2
  <2>3. (IF 1 <= n THEN n - 1 + 1 ELSE 0) = n /\ n - 1 + 1 = n
    BY <1>1
  <2>4. QED
    BY <2>1, <2>2, <2>3, SubSeqProperties DEF Frames
<1>4. w[Len(w)] \in AnyFrame
  BY <1>1, <1>2
<1> DEFINE f == w[Len(w)]
           u == Append(v, f)
<1>5. /\ u \in Frames /\ Len(u) = n + 1 /\ u[n + 1] = f
      /\ \A i \in 1..n : u[i] = v[i]
  <2> HIDE DEF v, f, n
  <2>1. f \in AnyFrame
    BY <1>4 DEF f
  <2>2. QED
    BY <1>3, <2>1, AppendProperties DEF Frames
<1> HIDE DEF u, v, f, n
<1>6. \A i \in 1..Len(w) : u[i] = w[i]
  <2>1. f = w[n + 1]
    BY <1>1 DEF f
  <2>2. \A i \in 1..Len(w) : i \in 1..n \/ i = n + 1
    BY <1>1
  <2>3. QED
    BY <1>3, <1>5, <2>1, <2>2
<1>7. u = w
  BY <1>1, <1>5, <1>6, SeqEqual DEF Frames
<1>8. QED
  BY <1>1, <1>3, <1>4, <1>7 DEF u, v, f, n

\* What an append adds, all but the last take away again.
LEMMA FrontOfAppend ==
  ASSUME NEW w \in Frames, NEW f \in AnyFrame
  PROVE  /\ Append(w, f) \in Frames /\ Append(w, f) # <<>>
         /\ Front(Append(w, f)) = w
         /\ Append(w, f)[Len(Append(w, f))] = f
<1> DEFINE v == Append(w, f)
<1>1. /\ v \in Frames /\ v # <<>> /\ Len(v) = Len(w) + 1 /\ Len(w) \in Nat
      /\ v[Len(w) + 1] = f /\ \A i \in 1..Len(w) : v[i] = w[i]
  BY AppendProperties, EmptySeq, LenProperties DEF Frames
<1> HIDE DEF v
<1>2. /\ Front(v) \in Frames /\ Len(Front(v)) = Len(v) - 1
      /\ \A i \in 1..(Len(v) - 1) : Front(v)[i] = v[i]
  BY <1>1, FrontIs
<1>3. Len(v) - 1 = Len(w)
  BY <1>1
<1>4. Front(v) = w
  BY <1>1, <1>2, <1>3, SeqEqual DEF Frames
<1>5. QED
  BY <1>1, <1>4 DEF v

\* The first frame is taken from in front of a last one.
LEMMA FrontOfTail ==
  ASSUME NEW w \in Frames, w # <<>>, Front(w) # <<>>
  PROVE  /\ Tail(w) \in Frames /\ Tail(w) # <<>> /\ Head(w) = Head(Front(w))
         /\ Front(Tail(w)) = Tail(Front(w))
         /\ Tail(w)[Len(Tail(w))] = w[Len(w)]
<1> DEFINE v == Front(w)
           t == Tail(w)
<1>1. /\ v \in Frames /\ Len(v) = Len(w) - 1 /\ Len(w) \in Nat \ {0}
      /\ \A i \in 1..(Len(w) - 1) : v[i] = w[i]
  BY FrontIs
<1>2. /\ t \in Frames /\ Len(t) = Len(w) - 1 /\ Head(w) = w[1]
      /\ \A i \in 1..(Len(w) - 1) : t[i] = w[i + 1]
  <2>1. t \in Frames /\ Len(t) = Len(w) - 1 /\ \A i \in 1..Len(t) : t[i] = w[i + 1]
    BY HeadTailProperties DEF Frames
  <2>2. Head(w) = w[1]
    BY DEF Frames
  <2>3. QED
    BY <2>1, <2>2
<1>3. Len(v) # 0 /\ Len(w) - 1 \in Nat \ {0}
  <2>1. Len(v) # 0
    BY <1>1, EmptySeq DEF Frames
  <2>2. QED
    BY <1>1, <2>1
<1>4. t # <<>>
  BY <1>2, <1>3, EmptySeq
<1> DEFINE vt == Tail(v)
           ft == Front(t)
<1>5. /\ vt \in Frames /\ Len(vt) = Len(v) - 1 /\ Head(v) = v[1]
      /\ \A i \in 1..(Len(v) - 1) : vt[i] = v[i + 1]
  <2> HIDE DEF v
  <2>1. v # <<>>
    BY DEF v
  <2>2. vt \in Frames /\ Len(vt) = Len(v) - 1 /\ \A i \in 1..Len(vt) : vt[i] = v[i + 1]
    BY <1>1, <2>1, HeadTailProperties DEF Frames
  <2>3. Head(v) = v[1]
    BY <1>1, <2>1 DEF Frames
  <2>4. QED
    BY <2>2, <2>3
<1>6. /\ ft \in Frames /\ Len(ft) = Len(t) - 1
      /\ \A i \in 1..(Len(t) - 1) : ft[i] = t[i]
  <2> HIDE DEF t
  <2>1. QED
    BY <1>2, <1>4, FrontIs
<1> HIDE DEF v, t, vt, ft
<1>7. Len(ft) = Len(vt) /\ \A i \in 1..Len(ft) : ft[i] = vt[i]
  <2>1. Len(ft) = Len(w) - 1 - 1 /\ Len(vt) = Len(w) - 1 - 1
    BY <1>1, <1>2, <1>5, <1>6
  <2>2. \A i \in 1..(Len(w) - 1 - 1) : i \in 1..(Len(w) - 1) /\ i + 1 \in 1..(Len(w) - 1)
    BY <1>3
  <2>3. ASSUME NEW i \in 1..(Len(w) - 1 - 1) PROVE ft[i] = vt[i]
    <3>1. ft[i] = t[i] /\ t[i] = w[i + 1]
      BY <1>2, <1>6, <2>2
    <3>2. vt[i] = v[i + 1] /\ v[i + 1] = w[i + 1]
      BY <1>1, <1>5, <2>2
    <3>3. QED
      BY <3>1, <3>2
  <2>4. QED
    BY <2>1, <2>3
<1>8. ft = vt
  BY <1>5, <1>6, <1>7, SeqEqual DEF Frames
<1>9. t[Len(t)] = w[Len(w)]
  <2>1. Len(t) \in 1..(Len(w) - 1) /\ Len(t) + 1 = Len(w)
    BY <1>1, <1>2, <1>3
  <2>2. QED
    BY <1>2, <2>1
<1>10. Head(v) = w[1]
  <2>1. 1 \in 1..(Len(w) - 1)
    BY <1>3
  <2>2. QED
    BY <1>1, <1>5, <2>1
<1>11. QED
  BY <1>2, <1>4, <1>8, <1>9, <1>10 DEF v, t, ft, vt

\* A frame is lost: the last one, or the last but one.
LEMMA FrontOfRemoved ==
  ASSUME NEW w \in Frames, w # <<>>
  PROVE  /\ RemoveAt(w, Len(w)) = Front(w)
         /\ Front(w) # <<>> => /\ RemoveAt(w, Len(Front(w))) # <<>>
                               /\ Front(RemoveAt(w, Len(Front(w)))) = Front(Front(w))
<1> DEFINE n == Len(w)
           v == Front(w)
<1>1. /\ n \in Nat \ {0} /\ v \in Frames /\ Len(v) = n - 1
      /\ \A i \in 1..(n - 1) : v[i] = w[i]
  BY FrontIs
<1>2. RemoveAt(w, n) = v
  <2> DEFINE r == RemoveAt(w, n)
  <2>1. /\ r \in Frames /\ Len(r) = n - 1
        /\ \A i \in 1..(n - 1) : r[i] = IF i < n THEN w[i] ELSE w[i + 1]
    <3>1. n \in 1..Len(w)
      BY <1>1
    <3>2. QED
      BY <3>1, RemoveOne
  <2> HIDE DEF r, n, v
  <2>2. \A i \in 1..(n - 1) : r[i] = v[i]
    <3>1. \A i \in 1..(n - 1) : i < n
      BY <1>1
    <3>2. QED
      BY <1>1, <2>1, <3>1
  <2>3. QED
    BY <1>1, <2>1, <2>2, SeqEqual DEF r, Frames
<1>3. ASSUME v # <<>>
      PROVE  RemoveAt(w, Len(v)) # <<>> /\ Front(RemoveAt(w, Len(v))) = Front(v)
  <2> DEFINE m == Len(v)
             r == RemoveAt(w, m)
             fr == Front(r)
             fv == Front(v)
  <2> HIDE DEF v
  <2>1. /\ m \in Nat \ {0} /\ fv \in Frames /\ Len(fv) = m - 1
        /\ \A i \in 1..(m - 1) : fv[i] = v[i]
    BY <1>1, <1>3, FrontIs
  <2> HIDE DEF n, m, fv
  <2>2. m = n - 1 /\ n = Len(w) /\ m \in 1..Len(w)
    BY <1>1, <2>1 DEF m, n
  <2>3. /\ r \in Frames /\ Len(r) = n - 1
        /\ \A i \in 1..(n - 1) : r[i] = IF i < m THEN w[i] ELSE w[i + 1]
    BY <2>2, RemoveOne
  <2> HIDE DEF r
  <2>4. r # <<>>
    BY <2>1, <2>2, <2>3, EmptySeq
  <2>5. fr \in Frames /\ Len(fr) = m - 1 /\ \A i \in 1..(m - 1) : fr[i] = r[i]
    BY <2>2, <2>3, <2>4, FrontIs
  <2> HIDE DEF fr
  <2>6. \A i \in 1..(m - 1) : fr[i] = fv[i]
    <3>1. \A i \in 1..(m - 1) : i \in 1..(n - 1) /\ i < m
      BY <2>1, <2>2
    <3>2. QED
      BY <1>1, <2>1, <2>3, <2>5, <3>1
  <2>7. fr = fv
    BY <2>1, <2>5, <2>6, SeqEqual DEF Frames
  <2>8. QED
    BY <2>4, <2>7 DEF r, m, fr, fv
<1>4. QED
  BY <1>2, <1>3 DEF n, v

\* The payloads of frames, as messages to flatten.
Payloads(w) == [i \in DOMAIN w |-> w[i].data]

LEMMA PayloadsAre ==
  ASSUME NEW w \in Frames
  PROVE  /\ Payloads(w) \in Seq(Seq(Nat)) /\ Len(Payloads(w)) = Len(w)
         /\ \A i \in 1..Len(w) : Payloads(w)[i] = w[i].data
         /\ Bytes(w) = FlattenSeq(Payloads(w)) /\ Bytes(w) \in Seq(Nat)
<1>1. DOMAIN w = 1..Len(w) /\ Len(w) \in Nat /\ \A i \in 1..Len(w) : w[i] \in AnyFrame
  BY DEF Frames
<1>2. \A i \in 1..Len(w) : w[i].data \in Seq(Nat)
  BY <1>1 DEF AnyFrame
<1>3. Payloads(w) = [i \in 1..Len(w) |-> w[i].data]
  BY <1>1 DEF Payloads
<1>4. /\ Payloads(w) \in [1..Len(w) -> Seq(Nat)]
      /\ \A i \in 1..Len(w) : Payloads(w)[i] = w[i].data
  BY <1>2, <1>3
<1>5. Payloads(w) \in Seq(Seq(Nat)) /\ Len(Payloads(w)) = Len(w)
  <2> DEFINE d == Payloads(w)
  <2>1. d \in [1..Len(w) -> Seq(Nat)] /\ Len(w) \in Nat
    BY <1>1, <1>4
  <2> HIDE DEF d
  <2>2. d \in Seq(Seq(Nat))
    BY <2>1, SeqDef
  <2>3. DOMAIN d = 1..Len(w) /\ DOMAIN d = 1..Len(d) /\ Len(d) \in Nat
    BY <2>1, <2>2, LenProperties
  <2>4. Len(d) = Len(w)
    BY <2>1, <2>3
  <2>5. QED
    BY <2>2, <2>4 DEF d
<1>6. Bytes(w) = FlattenSeq(Payloads(w))
  BY DEF Bytes, Payloads
<1>7. QED
  BY <1>4, <1>5, <1>6, FlattenType

LEMMA BytesOfAppend ==
  ASSUME NEW w \in Frames, NEW f \in AnyFrame
  PROVE  Bytes(Append(w, f)) = Cat(Bytes(w), f.data)
<1> DEFINE v == Append(w, f)
           p == Payloads(w)
<1>0. f.data \in Seq(Nat)
  BY DEF AnyFrame
<1>1. /\ v \in Frames /\ Len(v) = Len(w) + 1 /\ Len(w) \in Nat
      /\ v[Len(w) + 1] = f /\ \A i \in 1..Len(w) : v[i] = w[i]
  BY AppendProperties, LenProperties DEF Frames
<1>2. /\ p \in Seq(Seq(Nat)) /\ Len(p) = Len(w) /\ \A i \in 1..Len(w) : p[i] = w[i].data
      /\ Bytes(w) = FlattenSeq(p)
  BY PayloadsAre
<1> HIDE DEF v, p
<1> DEFINE q == Payloads(v)
           r == Append(p, f.data)
<1>3. /\ q \in Seq(Seq(Nat)) /\ Len(q) = Len(v) /\ \A i \in 1..Len(v) : q[i] = v[i].data
      /\ Bytes(v) = FlattenSeq(q)
  BY <1>1, PayloadsAre
<1>4. /\ r \in Seq(Seq(Nat)) /\ Len(r) = Len(p) + 1
      /\ r[Len(p) + 1] = f.data /\ \A i \in 1..Len(p) : r[i] = p[i]
  BY <1>0, <1>2, AppendProperties
<1> HIDE DEF q, r
<1>5. \A i \in 1..Len(v) : i \in 1..Len(w) \/ i = Len(w) + 1
  BY <1>1
<1>6. \A i \in 1..Len(v) : q[i] = r[i]
  <2> SUFFICES ASSUME NEW i \in 1..Len(v) PROVE q[i] = r[i]
    OBVIOUS
  <2>1. CASE i \in 1..Len(w)
    BY <1>1, <1>2, <1>3, <1>4, <2>1
  <2>2. CASE i = Len(w) + 1
    BY <1>1, <1>2, <1>3, <1>4, <2>2
  <2>3. QED
    BY <1>5, <2>1, <2>2
<1>7. q = r
  BY <1>1, <1>2, <1>3, <1>4, <1>6, SeqEqual
<1>8. FlattenSeq(r) = FlattenSeq(p) \o f.data
  BY <1>0, <1>2, FlattenAppend DEF r
<1>9. QED
  BY <1>2, <1>3, <1>7, <1>8 DEF v, Cat

LEMMA BytesOfFirst ==
  ASSUME NEW w \in Frames, w # <<>>
  PROVE  /\ Head(w) \in AnyFrame /\ Tail(w) \in Frames
         /\ Bytes(w) = Cat(Head(w).data, Bytes(Tail(w)))
<1> DEFINE t == Tail(w)
           p == Payloads(w)
<1>1. /\ t \in Frames /\ Len(t) = Len(w) - 1 /\ Head(w) = w[1] /\ Head(w) \in AnyFrame
      /\ \A i \in 1..Len(t) : t[i] = w[i + 1]
  <2>1. t \in Frames /\ Len(t) = Len(w) - 1 /\ \A i \in 1..Len(t) : t[i] = w[i + 1]
    BY HeadTailProperties DEF Frames
  <2>2. Head(w) = w[1] /\ Head(w) \in AnyFrame
    BY DEF Frames
  <2>3. QED
    BY <2>1, <2>2
<1>2. /\ p \in Seq(Seq(Nat)) /\ Len(p) = Len(w) /\ \A i \in 1..Len(w) : p[i] = w[i].data
      /\ Bytes(w) = FlattenSeq(p) /\ Len(w) \in Nat \ {0}
  BY PayloadsAre, FrontIs
<1>3. p # <<>>
  BY <1>2, EmptySeq
<1> HIDE DEF t, p
<1> DEFINE q == Payloads(t)
           r == Tail(p)
<1>4. /\ q \in Seq(Seq(Nat)) /\ Len(q) = Len(t) /\ \A i \in 1..Len(t) : q[i] = t[i].data
      /\ Bytes(t) = FlattenSeq(q)
  BY <1>1, PayloadsAre
<1>5. /\ r \in Seq(Seq(Nat)) /\ Len(r) = Len(p) - 1 /\ Head(p) = p[1]
      /\ \A i \in 1..Len(r) : r[i] = p[i + 1]
  <2>1. r \in Seq(Seq(Nat)) /\ Len(r) = Len(p) - 1 /\ \A i \in 1..Len(r) : r[i] = p[i + 1]
    BY <1>2, <1>3, HeadTailProperties
  <2>2. Head(p) = p[1]
    BY <1>2, <1>3
  <2>3. QED
    BY <2>1, <2>2
<1> HIDE DEF q, r
<1>6. \A i \in 1..Len(t) : i + 1 \in 1..Len(w)
  BY <1>1, <1>2
<1>7. q = r
  <2>1. Len(q) = Len(r) /\ \A i \in 1..Len(q) : i \in 1..Len(t) /\ i \in 1..Len(r)
    BY <1>1, <1>2, <1>4, <1>5
  <2>2. ASSUME NEW i \in 1..Len(q) PROVE q[i] = r[i]
    <3>1. q[i] = t[i].data /\ t[i] = w[i + 1]
      BY <1>1, <1>4, <2>1
    <3>2. r[i] = p[i + 1] /\ p[i + 1] = w[i + 1].data
      BY <1>2, <1>5, <1>6, <2>1
    <3>3. QED
      BY <3>1, <3>2
  <2>3. QED
    BY <1>4, <1>5, <2>1, <2>2, SeqEqual
<1>8. Head(p) = Head(w).data
  <2>1. 1 \in 1..Len(w)
    BY <1>2
  <2>2. QED
    BY <1>1, <1>2, <1>5, <2>1
<1>9. FlattenSeq(p) = Head(p) \o FlattenSeq(r)
  BY <1>2, <1>3, FlattenHead DEF r
<1>10. QED
  BY <1>1, <1>2, <1>4, <1>7, <1>8, <1>9 DEF t, Cat

LEMMA BytesOfNone == Bytes(<<>>) = <<>> /\ <<>> \in Frames /\ Front(<<>>) = <<>>
<1>1. <<>> \in Frames /\ Len(<<>>) = 0
  BY DEF Frames
<1>2. Payloads(<<>>) \in Seq(Seq(Nat)) /\ Len(Payloads(<<>>)) = 0 /\ Bytes(<<>>) = FlattenSeq(Payloads(<<>>))
  BY <1>1, PayloadsAre
<1>3. Payloads(<<>>) = <<>>
  BY <1>2, EmptySeq
<1>4. Front(<<>>) = <<>>
  <2>1. Len(<<>>) - 1 \in Int /\ 1 \in Int /\ Len(<<>>) - 1 < 1
    BY <1>1
  <2>2. QED
    BY <2>1, SubSeqEmpty DEF Front
<1>5. QED
  BY <1>1, <1>2, <1>3, <1>4, FlattenEmpty

LEMMA BytesOfLast ==
  ASSUME NEW w \in Frames, w # <<>>
  PROVE  w[Len(w)].data \in Seq(Nat) /\ Bytes(w) = Cat(Bytes(Front(w)), w[Len(w)].data)
<1>1. Front(w) \in Frames /\ w[Len(w)] \in AnyFrame /\ w = Append(Front(w), w[Len(w)])
  BY FrontIs
<1> DEFINE v == Front(w)
           f == w[Len(w)]
<1>2. v \in Frames /\ f \in AnyFrame /\ w = Append(v, f)
  BY <1>1
<1> HIDE DEF v, f
<1>3. Bytes(Append(v, f)) = Cat(Bytes(v), f.data) /\ f.data \in Seq(Nat)
  BY <1>2, BytesOfAppend DEF AnyFrame
<1>4. QED
  BY <1>2, <1>3 DEF v, f

-----------------------------------------------------------------------------
(* A direction of the connection, from s to Other(s), and its steps.       *)

Held(s) == IF Stopped THEN <<>> ELSE chunk[s]

\* OnTheWay(s), with an opaque concatenation.
Way(s) == Cat(Cat(payload[Other(s)], Bytes(Complete(s))), Held(s))

LEMMA WayTypes ==
  ASSUME TypeOK, NEW s \in Side
  PROVE  /\ Other(s) \in Side /\ Complete(s) \in Frames /\ Bytes(Complete(s)) \in Seq(Nat)
         /\ payload[Other(s)] \in Seq(Nat) /\ chunk[s] \in Seq(Nat) /\ Held(s) \in Seq(Nat)
         /\ output[Other(s)] \in Seq(Nat) /\ input[s] \in Nat
         /\ Way(s) \in Seq(Nat)
<1>1. Other(s) \in Side
  BY DEF Side, Other
<1>2. Complete(s) \in Frames
  BY CompleteFrames DEF Shrinks
<1>3. Bytes(Complete(s)) \in Seq(Nat)
  BY <1>2, PayloadsAre
<1>4. /\ payload[Other(s)] \in Seq(Nat) /\ chunk[s] \in Seq(Nat)
      /\ output[Other(s)] \in Seq(Nat)
  BY <1>1 DEF TypeOK
<1>5. input[s] \in Nat
  <2>1. input[s] \in 0..MaxIn[s] /\ MaxIn[s] \in Nat
    BY ForwardAssumption DEF TypeOK
  <2>2. QED
    BY <2>1
<1>6. Held(s) \in Seq(Nat)
  BY <1>4, EmptySeq DEF Held
<1>7. QED
  BY <1>1, <1>2, <1>3, <1>4, <1>5, <1>6, CatAssociative DEF Way

Ends(s) == input'[s] = input[s] /\ output'[Other(s)] = output[Other(s)]

SameD(s) == Way(s)' = Way(s) /\ Ends(s) /\ (Stopped' <=> Stopped)

PutD(s) == /\ input'[s] \in Nat /\ input'[s] > input[s]
           /\ Way(s)' = IF Stopped THEN Way(s)
                        ELSE Cat(Way(s), [i \in 1..(input'[s] - input[s]) |-> input[s] + i])
           /\ output'[Other(s)] = output[Other(s)] /\ (Stopped' <=> Stopped)

GetD(s) == /\ \E k \in 1..Len(Way(s)) :
                 /\ output'[Other(s)] = output[Other(s)] \o SubSeq(Way(s), 1, k)
                 /\ Way(s)' = SubSeq(Way(s), k + 1, Len(Way(s)))
           /\ input'[s] = input[s] /\ (Stopped' <=> Stopped)

CutD(s) == /\ Way(s)' \in Seq(Nat)
           /\ \E v \in Seq(Nat) : Way(s) = Cat(Way(s)', v)
           /\ Ends(s) /\ Stopped'

Step(s) == SameD(s) \/ PutD(s) \/ GetD(s) \/ CutD(s)

\* A step that leaves the direction alone.
LEMMA SameBytes ==
  ASSUME NEW s \in Side, payload'[Other(s)] = payload[Other(s)],
         Bytes(Complete(s))' = Bytes(Complete(s)), chunk'[s] = chunk[s], Ends(s),
         Stopped' <=> Stopped
  PROVE  Step(s)
BY DEF Step, SameD, Way, Held

\* A step that stops the connection, or finds it stopped, and loses the last
\* of the complete frames or none.
LEMMA LostBehind ==
  ASSUME TypeOK, NEW s \in Side, payload'[Other(s)] = payload[Other(s)],
         NEW v \in Seq(Nat), Bytes(Complete(s))' \in Seq(Nat),
         Bytes(Complete(s)) = Cat(Bytes(Complete(s))', v), Ends(s), Stopped'
  PROVE  Step(s)
<1> DEFINE p == payload[Other(s)]
           b == Bytes(Complete(s))'
           h == Held(s)
<1>1. p \in Seq(Nat) /\ b \in Seq(Nat) /\ h \in Seq(Nat)
  BY WayTypes
<1>2. Way(s) = Cat(Cat(p, Cat(b, v)), h)
  BY DEF Way
<1>3. Way(s)' = Cat(Cat(p, b), <<>>)
  BY DEF Way, Held
<1> HIDE DEF p, b, h
<1>4. /\ Way(s) = Cat(Way(s)', Cat(v, h)) /\ Cat(v, h) \in Seq(Nat)
      /\ Way(s)' \in Seq(Nat)
  <2>1. <<>> \in Seq(Nat)
    BY EmptySeq
  <2>2. QED
    BY <1>1, <1>2, <1>3, <2>1, CatAssociative
<1>5. QED
  BY <1>4 DEF Step, CutD

\* A step that leaves the direction's bytes alone, and may stop the connection.
LEMMA KeepsBytes ==
  ASSUME TypeOK, NEW s \in Side, payload'[Other(s)] = payload[Other(s)],
         Bytes(Complete(s))' = Bytes(Complete(s)), chunk'[s] = chunk[s], Ends(s),
         Stopped => Stopped'
  PROVE  Step(s)
<1>1. CASE Stopped' <=> Stopped
  BY <1>1, SameBytes
<1>2. CASE Stopped'
  <2>1. Bytes(Complete(s)) \in Seq(Nat) /\ <<>> \in Seq(Nat)
    BY WayTypes, EmptySeq
  <2>2. Bytes(Complete(s)) = Cat(Bytes(Complete(s))', <<>>) /\ Bytes(Complete(s))' \in Seq(Nat)
    BY <2>1, CatAssociative
  <2>3. QED
    BY <1>2, <2>1, <2>2, LostBehind
<1>3. QED
  BY <1>1, <1>2

\* The end of an end stops its own direction, and empties the other one.
LEMMA DropCuts ==
  ASSUME TypeOK, NEW s \in Side, Drop(s), NEW t \in Side
  PROVE  Step(t)
<1>1. /\ Other(s) \in Side /\ Other(s) # s /\ Other(Other(s)) = s /\ t \in {s, Other(s)}
  BY DEF Side, Other
<1>2. /\ phase'[s] \in {"done", "unwrap"} /\ UNCHANGED <<input, output>>
      /\ payload'[s] = <<>> /\ payload'[Other(s)] = payload[Other(s)]
      /\ wire'[Other(s)] = <<>> /\ wire'[s] = wire[s]
      /\ up'[s] = "sending" <=> up[s] = "sending"
  BY <1>1 DEF Drop, OnError, TypeOK
<1>3. Stopped' /\ Ends(t)
  BY <1>2 DEF Stopped, Over, Ends
<1>4. CASE t = s
  <2>1. Complete(s)' = Complete(s)
    BY <1>2 DEF Complete
  <2>2. Bytes(Complete(s)) \in Seq(Nat) /\ <<>> \in Seq(Nat)
    BY WayTypes, EmptySeq
  <2>3. Bytes(Complete(s)) = Cat(Bytes(Complete(s))', <<>>)
    BY <2>1, <2>2, CatAssociative
  <2>4. QED
    BY <1>2, <1>3, <1>4, <2>1, <2>2, <2>3, LostBehind
<1>5. CASE t = Other(s)
  <2>1. Complete(t)' = <<>>
    BY <1>2, <1>5, BytesOfNone DEF Complete
  <2>2. Way(t)' = Cat(Cat(<<>>, <<>>), <<>>)
    BY <1>1, <1>2, <1>3, <1>5, <2>1, BytesOfNone DEF Way, Held
  <2>3. Way(t) \in Seq(Nat) /\ <<>> \in Seq(Nat)
    BY WayTypes, EmptySeq
  <2>4. Way(t) = Cat(Way(t)', Way(t)) /\ Way(t)' \in Seq(Nat)
    <3> DEFINE o == Way(t)
               n == Way(t)'
    <3>1. n = Cat(Cat(<<>>, <<>>), <<>>) /\ o \in Seq(Nat) /\ <<>> \in Seq(Nat)
      BY <2>2, <2>3
    <3> HIDE DEF o, n
    <3>2. o = Cat(n, o) /\ n \in Seq(Nat)
      BY <3>1, CatAssociative
    <3>3. QED
      BY <3>2 DEF o, n
  <2>5. QED
    BY <1>3, <2>3, <2>4 DEF Step, CutD
<1>6. QED
  BY <1>1, <1>4, <1>5

-----------------------------------------------------------------------------
(* What the loops of an end hold, and where the answer is.                 *)

\* A loop holds bytes only while it has to pass them on.
Idle(s) == /\ down[s] # "write" => payload[s] = <<>>
           /\ up[s] \in {"check", "read"} => chunk[s] = <<>>

\* The frame half written is what the up loop holds, and the last one.
HalfWritten(s) == up[s] = "sending" /\ ~Stopped
                    => wire[s] # <<>> /\ wire[s][Len(wire[s])].data = chunk[s]

\* An answer brings no bytes.
Bare(s) == \A i \in 1..Len(wire[s]) : wire[s][i].kind # "data" => wire[s][i].data = <<>>

\* Until the client has taken the answer, it is the first frame from the server.
AnswerFirst ==
  /\ phase["server"] = "connect" => up["server"] = "check"
  /\ phase["client"] = "ask" /\ Complete("server") # <<>>
       => wire["server"][1].kind # "data"
  /\ phase["client"] = "ask" /\ phase["server"] = "forward" /\ ~broken
       => Complete("server") # <<>>

HoldInv == (\A s \in Side : Idle(s) /\ HalfWritten(s) /\ Bare(s)) /\ AnswerFirst

LEMMA HoldInit == ASSUME Init PROVE HoldInv
<1>1. \A s \in Side : /\ up[s] = "check" /\ chunk[s] = <<>> /\ payload[s] = <<>>
                      /\ wire[s] = <<>> /\ Len(wire[s]) = 0
  BY DEF Init
<1>2. phase["server"] = "connect" /\ Complete("server") = <<>>
  BY <1>1 DEF Init, Complete, Side
<1>3. QED
  BY <1>1, <1>2 DEF HoldInv, Idle, HalfWritten, Bare, AnswerFirst, Side

\* Frames that are taken out of a wire leave no answer with bytes.
LEMMA BareShrinks ==
  ASSUME NEW s \in Side, Bare(s), Shrinks(wire[s], wire'[s])
  PROVE  Bare(s)'
BY DEF Bare, Shrinks

LEMMA DropHolds ==
  ASSUME ForwardInv, HoldInv, NEW s \in Side, Drop(s)
  PROVE  HoldInv'
<1>0. TypeOK /\ Other(s) \in Side /\ Other(s) # s /\ "client" \in Side /\ "server" \in Side
  BY DEF ForwardInv, Side, Other
<1>1. /\ phase'[s] \in {"done", "unwrap"} /\ down'[s] = "check" /\ payload'[s] = <<>>
      /\ chunk'[s] = <<>> /\ (up'[s] = up[s] \/ up'[s] = "check")
      /\ (up'[s] = "sending" <=> up[s] = "sending")
      /\ wire'[Other(s)] = <<>> /\ wire'[s] = wire[s] /\ broken' = broken
      /\ \A t \in Side \ {s} : /\ phase'[t] = phase[t] /\ up'[t] = up[t] /\ chunk'[t] = chunk[t]
                               /\ down'[t] = down[t] /\ payload'[t] = payload[t]
  BY <1>0 DEF Drop, OnError, TypeOK
<1>2. Stopped'
  BY <1>1 DEF Stopped, Over
<1>3. ASSUME NEW t \in Side PROVE Idle(t)' /\ HalfWritten(t)' /\ Bare(t)'
  <2>1. Idle(t)'
    BY <1>1 DEF HoldInv, Idle
  <2>2. Shrinks(wire[t], wire'[t])
    <3>1. t \in {s, Other(s)} /\ wire[t] \in Frames
      BY <1>0, CompleteFrames DEF Side, Other
    <3>2. QED
      BY <1>1, <3>1, ShrinkSimply
  <2>3. QED
    BY <1>2, <2>1, <2>2, BareShrinks DEF HoldInv, HalfWritten
<1>4. AnswerFirst'
  <2>1. CASE s = "client"
    BY <1>1, <2>1 DEF HoldInv, AnswerFirst, Side
  <2>2. CASE s = "server"
    <3>1. Complete("server")' = Complete("server")
      BY <1>1, <2>2 DEF Complete
    <3>2. QED
      BY <1>0, <1>1, <2>2, <3>1 DEF HoldInv, AnswerFirst
  <2>3. QED
    BY <2>1, <2>2 DEF Side
<1>5. QED
  BY <1>3, <1>4 DEF HoldInv

\* A step that moves neither frames nor bytes.
LEMMA OutsideHolds ==
  ASSUME ForwardInv, HoldInv, Break \/ DeclareDead \/ OthersReceive \/ \E s \in Side : Eof(s)
  PROVE  HoldInv' /\ \A t \in Side : Step(t)
<1>1. UNCHANGED <<phase, up, chunk, down, payload, wire, input, output>>
  BY DEF Break, DeclareDead, OthersReceive, Eof, loops
<1>2. broken' \in BOOLEAN /\ broken \in BOOLEAN /\ (broken => broken')
  BY DEF Break, DeclareDead, OthersReceive, Eof, ForwardInv, TypeOK
<1>3. Stopped => Stopped'
  BY <1>1, <1>2 DEF Stopped, Over
<1>4. Complete("server")' = Complete("server")
  BY <1>1 DEF Complete
<1>5. HoldInv'
  BY <1>1, <1>2, <1>3, <1>4 DEF HoldInv, Idle, HalfWritten, Bare, AnswerFirst
<1>6. ASSUME NEW t \in Side PROVE Step(t)
  <2>1. Complete(t)' = Complete(t) /\ Ends(t)
    BY <1>1 DEF Complete, Ends
  <2>2. QED
    BY <1>1, <1>3, <2>1, KeepsBytes DEF ForwardInv
<1>7. QED
  BY <1>5, <1>6

\* The last complete frame is lost.
LEMMA LosesLast ==
  ASSUME TypeOK, NEW s \in Side, Complete(s) # <<>>,
         wire' = [wire EXCEPT ![s] = RemoveAt(@, Len(Complete(s)))], up' = up
  PROVE  /\ Complete(s)' = Front(Complete(s))
         /\ Complete(s)' # <<>> => wire'[s][1] = wire[s][1]
         /\ Shrinks(wire[s], wire'[s]) /\ \A t \in Side \ {s} : wire'[t] = wire[t]
<1> DEFINE w == wire[s]
           n == Len(Complete(s))
           v == RemoveAt(w, n)
<1>1. /\ w \in Frames /\ w # <<>> /\ n \in 1..Len(w) /\ Len(w) \in Nat
      /\ wire'[s] = v /\ \A t \in Side \ {s} : wire'[t] = wire[t]
  <2>1. w \in Frames /\ w # <<>> /\ n \in 1..Len(w)
    BY CompleteFrames
  <2>2. wire'[s] = v /\ \A t \in Side \ {s} : wire'[t] = wire[t]
    BY DEF TypeOK
  <2>3. QED
    BY <2>1, <2>2, LenProperties DEF Frames
<1>2. Complete(s)' = Front(Complete(s))
  <2>1. CASE up[s] = "sending"
    <3>1. Complete(s) = Front(w) /\ Complete(s)' = Front(v)
      BY <1>1, <2>1 DEF Complete
    <3>2. Front(v) = Front(Front(w))
      BY <1>1, <3>1, FrontOfRemoved
    <3>3. QED
      BY <3>1, <3>2
  <2>2. CASE up[s] # "sending"
    <3>1. Complete(s) = w /\ Complete(s)' = v
      BY <1>1, <2>2 DEF Complete
    <3>2. v = Front(w)
      BY <1>1, <3>1, FrontOfRemoved
    <3>3. QED
      BY <3>1, <3>2
  <2>3. QED
    BY <2>1, <2>2
<1>3. Shrinks(w, v)
  BY <1>1, ShrinkByOne
<1>4. ASSUME Complete(s)' # <<>> PROVE v[1] = w[1]
  <2> DEFINE c == Complete(s)
  <2>1. c \in Frames
    BY WayTypes
  <2> HIDE DEF c
  <2>2. /\ Len(c) \in Nat \ {0} /\ Front(c) \in Frames /\ Len(Front(c)) = Len(c) - 1
        /\ Front(c) # <<>>
    BY <1>2, <1>4, <2>1, FrontIs DEF c
  <2>3. Len(Front(c)) # 0
    BY <2>2, EmptySeq DEF Frames
  <2>4. n = Len(c)
    BY DEF c
  <2> HIDE DEF n
  <2>5. 1 < n /\ 1 \in 1..(Len(w) - 1)
    BY <1>1, <2>2, <2>3, <2>4
  <2> HIDE DEF w
  <2>6. v[1] = IF 1 < n THEN w[1] ELSE w[1 + 1]
    BY <1>1, <2>5, RemoveOne
  <2>7. QED
    BY <2>5, <2>6
<1>5. QED
  BY <1>1, <1>2, <1>3, <1>4

LEMMA LoseHolds ==
  ASSUME ForwardInv, HoldInv, NEW s \in Side, LoseFrame(s)
  PROVE  HoldInv' /\ \A t \in Side : Step(t)
<1>1. /\ Gone(s) /\ Complete(s) # <<>>
      /\ wire' = [wire EXCEPT ![s] = RemoveAt(@, Len(Complete(s)))]
      /\ UNCHANGED <<phase, up, chunk, down, payload, broken, input, output>>
      /\ TypeOK
  BY DEF LoseFrame, loops, world, ForwardInv
<1>2. /\ Complete(s)' = Front(Complete(s))
      /\ Complete(s)' # <<>> => wire'[s][1] = wire[s][1]
      /\ Shrinks(wire[s], wire'[s]) /\ \A t \in Side \ {s} : wire'[t] = wire[t]
  BY <1>1, LosesLast
<1>3. Stopped /\ Stopped'
  BY <1>1 DEF Gone, Stopped, Over
<1>4. ASSUME NEW t \in Side PROVE Idle(t)' /\ HalfWritten(t)' /\ Bare(t)'
  <2>1. Shrinks(wire[t], wire'[t])
    <3>1. wire[t] \in Frames
      BY <1>1, CompleteFrames
    <3>2. QED
      BY <1>2, <3>1, ShrinkSimply
  <2>2. QED
    BY <1>1, <1>3, <2>1, BareShrinks DEF HoldInv, Idle, HalfWritten
<1>5. AnswerFirst'
  <2>1. CASE s = "server"
    BY <1>1, <1>2, <2>1 DEF HoldInv, AnswerFirst, Gone, Over
  <2>2. CASE s # "server"
    <3>1. "server" \in Side \ {s}
      BY <2>2 DEF Side
    <3>2. wire'["server"] = wire["server"] /\ Complete("server")' = Complete("server")
      BY <1>1, <1>2, <3>1 DEF Complete
    <3>3. QED
      BY <1>1, <3>2 DEF HoldInv, AnswerFirst
  <2>3. QED
    BY <2>1, <2>2
<1>6. ASSUME NEW t \in Side PROVE Step(t)
  <2>1. Ends(t) /\ payload'[Other(t)] = payload[Other(t)]
    BY <1>1 DEF Ends
  <2>2. CASE t = s
    <3> DEFINE c == Complete(s)
    <3>1. c \in Frames /\ c # <<>> /\ Complete(s)' = Front(c)
      BY <1>1, <1>2, WayTypes
    <3> HIDE DEF c
    <3>2. c[Len(c)].data \in Seq(Nat) /\ Bytes(c) = Cat(Bytes(Front(c)), c[Len(c)].data)
      BY <3>1, BytesOfLast
    <3>3. Bytes(Front(c)) \in Seq(Nat)
      BY <3>1, FrontIs, PayloadsAre
    <3> DEFINE d == c[Len(c)].data
    <3>4. d \in Seq(Nat) /\ Bytes(Complete(s)) = Cat(Bytes(Complete(s))', d) /\ Bytes(Complete(s))' \in Seq(Nat)
      BY <3>1, <3>2, <3>3 DEF c
    <3> HIDE DEF d
    <3>5. QED
      BY <1>1, <1>3, <2>1, <2>2, <3>4, LostBehind
  <2>3. CASE t # s
    <3>1. Complete(t)' = Complete(t)
      BY <1>1, <1>2, <2>3 DEF Complete
    <3>2. QED
      BY <1>1, <1>3, <2>1, <3>1, SameBytes
  <2>4. QED
    BY <2>2, <2>3
<1>7. QED
  BY <1>4, <1>5, <1>6 DEF HoldInv

\* The first complete frame is taken.
LEMMA TakesFirst ==
  ASSUME TypeOK, NEW s \in Side, Complete(s) # <<>>,
         wire' = [wire EXCEPT ![s] = Tail(@)], up' = up
  PROVE  /\ Head(wire[s]) = wire[s][1] /\ Head(wire[s]).data \in Seq(Nat) /\ wire[s] # <<>>
         /\ Len(wire[s]) \in Nat \ {0}
         /\ Bytes(Complete(s)) = Cat(Head(wire[s]).data, Bytes(Complete(s))')
         /\ Bytes(Complete(s))' \in Seq(Nat)
         /\ up[s] = "sending" => /\ wire'[s] # <<>>
                                 /\ wire'[s][Len(wire'[s])] = wire[s][Len(wire[s])]
         /\ Shrinks(wire[s], wire'[s]) /\ \A t \in Side \ {s} : wire'[t] = wire[t]
<1> DEFINE w == wire[s]
           c == Complete(s)
<1>1. w \in Frames /\ w # <<>> /\ wire'[s] = Tail(w) /\ c \in Frames
  BY CompleteFrames, WayTypes DEF TypeOK
<1>2. Shrinks(w, wire'[s]) /\ \A t \in Side \ {s} : wire'[t] = wire[t]
  BY <1>1, ShrinkSimply DEF TypeOK
<1>3. Head(w) = w[1] /\ Head(w) \in AnyFrame /\ Len(w) \in Nat \ {0}
  <2> HIDE DEF w
  <2>1. Head(w) = w[1] /\ Head(w) \in AnyFrame
    BY <1>1 DEF Frames
  <2>2. QED
    BY <1>1, <2>1, FrontIs
<1>4. /\ Complete(s)' = Tail(c) /\ Head(c) = Head(w)
      /\ up[s] = "sending" => /\ wire'[s] # <<>>
                              /\ wire'[s][Len(wire'[s])] = w[Len(w)]
  <2>1. CASE up[s] = "sending"
    <3>1. c = Front(w) /\ Complete(s)' = Front(Tail(w))
      BY <1>1, <2>1 DEF Complete
    <3>2. /\ Tail(w) # <<>> /\ Head(w) = Head(Front(w)) /\ Front(Tail(w)) = Tail(Front(w))
          /\ Tail(w)[Len(Tail(w))] = w[Len(w)]
      BY <1>1, <3>1, FrontOfTail
    <3>3. QED
      BY <1>1, <3>1, <3>2
  <2>2. CASE up[s] # "sending"
    BY <1>1, <2>2 DEF Complete
  <2>3. QED
    BY <2>1, <2>2
<1>5. Bytes(c) = Cat(Head(w).data, Bytes(Tail(c))) /\ Bytes(Tail(c)) \in Seq(Nat)
  <2> HIDE DEF c
  <2>1. c # <<>>
    BY DEF c
  <2>2. Tail(c) \in Frames /\ Bytes(c) = Cat(Head(c).data, Bytes(Tail(c)))
    BY <1>1, <2>1, BytesOfFirst
  <2>3. QED
    BY <1>4, <2>2, PayloadsAre
<1>6. QED
  BY <1>1, <1>2, <1>3, <1>4, <1>5 DEF AnyFrame

LEMMA RecvHolds ==
  ASSUME ForwardInv, HoldInv, NEW a \in Side, Recv(a)
  PROVE  HoldInv' /\ \A t \in Side : Step(t)
<1> DEFINE s == Other(a)
<1>1. s \in Side /\ s # a /\ Other(s) = a /\ TypeOK /\ Side = {s, a}
  BY DEF Side, Other, ForwardInv
<1>2. /\ phase[a] = "forward" /\ down[a] = "recv" /\ Complete(s) # <<>>
      /\ wire' = [wire EXCEPT ![s] = Tail(@)]
      /\ payload' = [payload EXCEPT ![a] = Head(wire[s]).data]
      /\ down' = [down EXCEPT ![a] = IF Head(wire[s]).data = <<>> THEN "check" ELSE "write"]
      /\ UNCHANGED <<up, chunk, broken, input, output>>
  BY DEF Recv, Forwarding, world
<1>3. /\ Head(wire[s]) = wire[s][1] /\ Head(wire[s]).data \in Seq(Nat) /\ wire[s] # <<>>
      /\ Len(wire[s]) \in Nat \ {0}
      /\ Bytes(Complete(s)) = Cat(Head(wire[s]).data, Bytes(Complete(s))')
      /\ Bytes(Complete(s))' \in Seq(Nat)
      /\ up[s] = "sending" => /\ wire'[s] # <<>>
                              /\ wire'[s][Len(wire'[s])] = wire[s][Len(wire[s])]
      /\ Shrinks(wire[s], wire'[s]) /\ \A t \in Side \ {s} : wire'[t] = wire[t]
  BY <1>1, <1>2, TakesFirst
<1>4. UNCHANGED phase
  <2>1. DataOnly(s)
    BY <1>2 DEF ForwardInv, OneAnswer, Side, Other
  <2>2. Head(wire[s]).kind = "data"
    <3> HIDE DEF s
    <3>1. 1 \in 1..Len(wire[s])
      BY <1>3
    <3>2. QED
      BY <1>3, <2>1, <3>1 DEF DataOnly
  <2>3. QED
    BY <2>2 DEF Recv
<1> HIDE DEF s
<1>5. Stopped' <=> Stopped
  BY <1>2, <1>4 DEF Stopped, Over
<1>6. /\ payload'[a] = Head(wire[s]).data /\ payload'[s] = payload[s] /\ down'[s] = down[s]
      /\ down'[a] # "write" => payload'[a] = <<>>
  BY <1>1, <1>2 DEF TypeOK
<1>7. ASSUME NEW t \in Side PROVE Idle(t)' /\ HalfWritten(t)' /\ Bare(t)'
  <2>1. Idle(t)'
    BY <1>1, <1>2, <1>6 DEF HoldInv, Idle
  <2>2. HalfWritten(t)'
    <3>1. CASE t = s
      BY <1>2, <1>3, <1>5, <3>1 DEF HoldInv, HalfWritten
    <3>2. CASE t # s
      BY <1>2, <1>3, <1>5, <3>2 DEF HoldInv, HalfWritten
    <3>3. QED
      BY <3>1, <3>2
  <2>3. Bare(t)'
    <3>1. CASE t = s
      <4>1. Bare(s) /\ s \in Side /\ Shrinks(wire[s], wire'[s])
        BY <1>1, <1>3 DEF HoldInv
      <4>2. QED
        BY <3>1, <4>1, BareShrinks
    <3>2. CASE t # s
      <4>1. Bare(t) /\ wire'[t] = wire[t]
        BY <1>3, <3>2 DEF HoldInv
      <4>2. QED
        BY <4>1 DEF Bare
    <3>3. QED
      BY <3>1, <3>2
  <2>4. QED
    BY <2>1, <2>2, <2>3
<1>8. AnswerFirst'
  <2>1. CASE a = "client"
    BY <1>2, <1>4, <2>1 DEF HoldInv, AnswerFirst
  <2>2. CASE a = "server"
    <3>1. "server" \in Side \ {s}
      BY <1>1, <2>2
    <3>2. wire'["server"] = wire["server"] /\ Complete("server")' = Complete("server")
      BY <1>2, <1>3, <3>1 DEF Complete
    <3>3. QED
      BY <1>2, <1>4, <3>2 DEF HoldInv, AnswerFirst
  <2>3. QED
    BY <2>1, <2>2 DEF Side
<1>9. Step(s)
  <2> DEFINE d == Head(wire[s]).data
             b == Bytes(Complete(s))'
             h == Held(s)
  <2>1. d \in Seq(Nat) /\ b \in Seq(Nat) /\ h \in Seq(Nat) /\ <<>> \in Seq(Nat)
    BY <1>1, <1>3, WayTypes, EmptySeq
  <2>2. payload[a] = <<>>
    BY <1>2 DEF HoldInv, Idle
  <2>3. Way(s) = Cat(Cat(<<>>, Cat(d, b)), h)
    BY <1>1, <1>3, <2>2 DEF Way
  <2>4. Way(s)' = Cat(Cat(d, b), h)
    BY <1>1, <1>2, <1>5, <1>6 DEF Way, Held
  <2> HIDE DEF d, b, h
  <2>5. Cat(Cat(<<>>, Cat(d, b)), h) = Cat(Cat(d, b), h)
    BY <2>1, CatAssociative
  <2>6. QED
    BY <1>2, <1>5, <2>3, <2>4, <2>5 DEF Step, SameD, Ends
<1>10. Step(a)
  <2>1. Other(a) = s /\ Complete(a)' = Complete(a)
    BY <1>1, <1>2, <1>3 DEF Complete, s
  <2>2. QED
    BY <1>2, <1>5, <1>6, <2>1, SameBytes DEF Ends
<1>11. QED
  BY <1>1, <1>7, <1>8, <1>9, <1>10 DEF HoldInv

\* The answer brings nothing to the client.
LEMMA TakeOfferHolds ==
  ASSUME ForwardInv, HoldInv, TakeOffer
  PROVE  HoldInv' /\ \A t \in Side : Step(t)
<1>1. "client" \in Side /\ "server" \in Side /\ TypeOK /\ "server" # "client"
  BY DEF Side, ForwardInv
<1>2. PICK q \in {"reply", "done"} :
        /\ phase["client"] = "ask" /\ Complete("server") # <<>>
        /\ wire' = [wire EXCEPT !["server"] = Tail(@)]
        /\ phase' = [phase EXCEPT !["client"] = q]
        /\ UNCHANGED <<up, down, chunk, payload, broken, input, output>>
  BY DEF TakeOffer, loops, world
<1> DEFINE w == wire["server"]
<1>3. /\ Head(w) = w[1] /\ Head(w).data \in Seq(Nat) /\ w # <<>>
      /\ Len(w) \in Nat \ {0}
      /\ Bytes(Complete("server")) = Cat(Head(w).data, Bytes(Complete("server"))')
      /\ Bytes(Complete("server"))' \in Seq(Nat)
      /\ up["server"] = "sending" => /\ wire'["server"] # <<>>
                                     /\ wire'["server"][Len(wire'["server"])] = w[Len(w)]
      /\ Shrinks(w, wire'["server"]) /\ \A t \in Side \ {"server"} : wire'[t] = wire[t]
  BY <1>1, <1>2, TakesFirst
<1>4. /\ phase'["client"] = q /\ phase'["server"] = phase["server"]
      /\ wire'["client"] = wire["client"]
  BY <1>1, <1>2, <1>3 DEF TypeOK
<1>5. Stopped => Stopped'
  BY <1>2, <1>4 DEF Stopped, Over, Side
<1>6. Bytes(Complete("server"))' = Bytes(Complete("server"))
  <2>1. w[1].kind # "data" /\ 1 \in 1..Len(w)
    BY <1>2, <1>3 DEF HoldInv, AnswerFirst
  <2>2. Head(w).data = <<>>
    BY <1>1, <1>3, <2>1 DEF HoldInv, Bare
  <2> DEFINE b == Bytes(Complete("server"))'
  <2>3. Bytes(Complete("server")) = Cat(<<>>, b) /\ b \in Seq(Nat)
    BY <1>3, <2>2
  <2> HIDE DEF b
  <2>4. Cat(<<>>, b) = b
    BY <2>3, CatAssociative
  <2>5. QED
    BY <2>3, <2>4 DEF b
<1> HIDE DEF w
<1>7. ASSUME NEW t \in Side PROVE Idle(t)' /\ HalfWritten(t)' /\ Bare(t)'
  <2>1. Idle(t)'
    BY <1>2 DEF HoldInv, Idle
  <2>2. HalfWritten(t)'
    <3>1. CASE t = "server"
      BY <1>2, <1>3, <1>5, <3>1 DEF HoldInv, HalfWritten, w
    <3>2. CASE t = "client"
      BY <1>2, <1>4, <1>5, <3>2 DEF HoldInv, HalfWritten
    <3>3. QED
      BY <3>1, <3>2 DEF Side
  <2>3. Bare(t)'
    <3>1. CASE t = "server"
      BY <1>1, <1>3, <3>1, BareShrinks DEF HoldInv, w
    <3>2. CASE t = "client"
      BY <1>4, <3>2 DEF HoldInv, Bare
    <3>3. QED
      BY <3>1, <3>2 DEF Side
  <2>4. QED
    BY <2>1, <2>2, <2>3
<1>8. AnswerFirst'
  BY <1>2, <1>4 DEF HoldInv, AnswerFirst
<1>9. ASSUME NEW t \in Side PROVE Step(t)
  <2>1. /\ Ends(t) /\ payload'[Other(t)] = payload[Other(t)] /\ chunk'[t] = chunk[t]
    BY <1>2 DEF Ends
  <2>2. Bytes(Complete(t))' = Bytes(Complete(t))
    <3>1. CASE t = "server"
      BY <1>6, <3>1
    <3>2. CASE t = "client"
      BY <1>2, <1>4, <3>2 DEF Complete
    <3>3. QED
      BY <3>1, <3>2 DEF Side
  <2>3. QED
    BY <1>1, <1>5, <2>1, <2>2, KeepsBytes
<1>10. QED
  BY <1>7, <1>8, <1>9 DEF HoldInv

\* The server answers.
LEMMA AnswerHolds ==
  ASSUME ForwardInv, HoldInv, Connect \/ ConnectRefused
  PROVE  HoldInv' /\ \A t \in Side : Step(t)
<1>1. "client" \in Side /\ "server" \in Side /\ TypeOK /\ "server" # "client"
  BY DEF Side, ForwardInv
<1>2. PICK f \in AnyFrame, q \in {"forward", "done"} :
        /\ f.kind # "data" /\ f.data = <<>>
        /\ phase["server"] = "connect"
        /\ wire' = [wire EXCEPT !["server"] = Append(@, f)]
        /\ phase' = [phase EXCEPT !["server"] = q]
        /\ UNCHANGED <<up, down, chunk, payload, broken, input, output>>
  <2>1. <<>> \in Seq(Nat)
    OBVIOUS
  <2>2. ASSUME NEW k \in {"offer", "refusal"}
        PROVE  Frame(k, <<>>) \in AnyFrame /\ Frame(k, <<>>).kind = k /\ Frame(k, <<>>).data = <<>>
    BY <2>1 DEF Frame, AnyFrame
  <2>3. CASE Connect
    BY <2>2, <2>3 DEF Connect, loops, world
  <2>4. CASE ConnectRefused
    BY <2>2, <2>4 DEF ConnectRefused, loops, world
  <2>5. QED
    BY <2>3, <2>4
<1>3. wire["server"] = <<>> /\ up["server"] = "check"
  BY <1>2 DEF ForwardInv, OneAnswer, HoldInv, AnswerFirst
<1>4. /\ wire'["server"] = Append(<<>>, f) /\ wire'["client"] = wire["client"]
      /\ phase'["server"] = q /\ phase'["client"] = phase["client"]
  BY <1>1, <1>2, <1>3 DEF TypeOK
<1>5. Stopped => Stopped'
  BY <1>2, <1>4 DEF Stopped, Over, Side
<1>6. /\ Complete("server") = <<>> /\ Complete("server")' = Append(<<>>, f)
      /\ Complete("client")' = Complete("client")
  BY <1>2, <1>3, <1>4 DEF Complete
<1>7. Append(<<>>, f) # <<>> /\ Len(Append(<<>>, f)) = 1 /\ Append(<<>>, f)[1] = f
  OBVIOUS
<1>8. ASSUME NEW t \in Side PROVE Idle(t)' /\ HalfWritten(t)' /\ Bare(t)'
  <2>1. Idle(t)'
    BY <1>2 DEF HoldInv, Idle
  <2>2. HalfWritten(t)'
    BY <1>2, <1>3, <1>4, <1>5 DEF HoldInv, HalfWritten, Side
  <2>3. Bare(t)'
    <3>1. CASE t = "server"
      BY <1>2, <1>4, <1>7, <3>1 DEF Bare
    <3>2. CASE t = "client"
      BY <1>4, <3>2 DEF HoldInv, Bare
    <3>3. QED
      BY <3>1, <3>2 DEF Side
  <2>4. QED
    BY <2>1, <2>2, <2>3
<1>9. AnswerFirst'
  BY <1>2, <1>4, <1>6, <1>7 DEF AnswerFirst
<1>10. Bytes(Append(<<>>, f)) = Bytes(<<>>)
  <2>1. Bytes(Append(<<>>, f)) = Cat(<<>>, <<>>) /\ <<>> \in Seq(Nat)
    BY <1>2, BytesOfAppend, BytesOfNone, EmptySeq
  <2>2. QED
    BY <2>1, BytesOfNone, CatAssociative
<1>11. ASSUME NEW t \in Side PROVE Step(t)
  <2>1. Bytes(Complete(t))' = Bytes(Complete(t))
    BY <1>6, <1>10 DEF Side
  <2>2. /\ Ends(t) /\ payload'[Other(t)] = payload[Other(t)] /\ chunk'[t] = chunk[t]
    BY <1>2 DEF Ends
  <2>3. QED
    BY <1>1, <1>5, <2>1, <2>2, KeepsBytes
<1>12. QED
  BY <1>8, <1>9, <1>11 DEF HoldInv

\* The client's answer to the application.
LEMMA ReplyHolds ==
  ASSUME ForwardInv, HoldInv, Reply
  PROVE  HoldInv' /\ \A t \in Side : Step(t)
<1>1. /\ phase["client"] = "reply"
      /\ phase' = [phase EXCEPT !["client"] = "forward"]
      /\ UNCHANGED <<up, chunk, down, payload, wire, broken, input, output>>
      /\ TypeOK
  BY DEF Reply, loops, world, ForwardInv
<1>2. phase'["client"] = "forward" /\ phase'["server"] = phase["server"]
  BY <1>1 DEF TypeOK, Side
<1>3. Stopped' <=> Stopped
  BY <1>1, <1>2 DEF Stopped, Over, Side
<1>4. \A t \in Side : Complete(t)' = Complete(t)
  BY <1>1 DEF Complete
<1>5. HoldInv'
  BY <1>1, <1>2, <1>3 DEF HoldInv, Idle, HalfWritten, Bare, AnswerFirst
<1>6. ASSUME NEW t \in Side PROVE Step(t)
  BY <1>1, <1>3, <1>4, SameBytes DEF Ends
<1>7. QED
  BY <1>5, <1>6

-----------------------------------------------------------------------------
(* The loops.                                                              *)

\* A loop goes on to read or to receive, or has read nothing.
LEMMA TurnHolds ==
  ASSUME ForwardInv, HoldInv, NEW s \in Side, UpCheck(s) \/ ReadEof(s) \/ DownCheck(s)
  PROVE  HoldInv' /\ \A t \in Side : Step(t)
<1>1. /\ UNCHANGED <<phase, chunk, payload, wire, broken, input, output>>
      /\ phase[s] = "forward" /\ TypeOK
      /\ \/ up[s] \in {"check", "read"} /\ UNCHANGED down
            /\ \E u \in {"read", "send"} : up' = [up EXCEPT ![s] = u]
         \/ down[s] = "check" /\ UNCHANGED up /\ down' = [down EXCEPT ![s] = "recv"]
  BY DEF UpCheck, ReadEof, DownCheck, Forwarding, world, ForwardInv
<1>2. /\ \A t \in Side : /\ up'[t] \in {"check", "read"} => up[t] \in {"check", "read"}
                         /\ up'[t] = "sending" <=> up[t] = "sending"
                         /\ down'[t] # "write" => down[t] # "write"
      /\ up'["server"] # "check" => up["server"] # "check" \/ s = "server"
  BY <1>1 DEF TypeOK, Side
<1>3. Stopped' <=> Stopped
  BY <1>1 DEF Stopped, Over
<1>4. \A t \in Side : Complete(t)' = Complete(t)
  BY <1>1, <1>2 DEF Complete
<1>5. HoldInv'
  <2>1. \A t \in Side : Idle(t)'
    BY <1>1, <1>2 DEF HoldInv, Idle
  <2>2. \A t \in Side : HalfWritten(t)' /\ Bare(t)'
    BY <1>1, <1>2, <1>3 DEF HoldInv, HalfWritten, Bare
  <2>3. AnswerFirst'
    BY <1>1, <1>2, <1>4 DEF HoldInv, AnswerFirst, Side
  <2>4. QED
    BY <2>1, <2>2, <2>3 DEF HoldInv
<1>6. ASSUME NEW t \in Side PROVE Step(t)
  BY <1>1, <1>3, <1>4, SameBytes DEF Ends
<1>7. QED
  BY <1>5, <1>6

\* The up loop reads.
LEMMA ReadHolds ==
  ASSUME ForwardInv, HoldInv, NEW s \in Side, NEW k \in ReadLens, Read(s, k)
  PROVE  HoldInv' /\ \A t \in Side : Step(t)
<1>1. TypeOK /\ k \in Nat \ {0} /\ input[s] \in Nat /\ Way(s) \in Seq(Nat)
  BY ForwardAssumption, WayTypes DEF ForwardInv
<1>2. /\ UNCHANGED <<phase, down, payload, wire, broken, output>>
      /\ phase[s] = "forward" /\ up[s] = "read"
      /\ chunk' = [chunk EXCEPT ![s] = [i \in 1..k |-> input[s] + i]]
      /\ up' = [up EXCEPT ![s] = "send"]
      /\ input' = [input EXCEPT ![s] = @ + k]
  BY DEF Read, Forwarding, world
<1>3. /\ up'[s] = "send" /\ chunk'[s] = [i \in 1..k |-> input[s] + i]
      /\ \A t \in Side \ {s} : up'[t] = up[t] /\ chunk'[t] = chunk[t]
      /\ \A t \in Side \ {s} : input'[t] = input[t]
  BY <1>1, <1>2 DEF TypeOK
<1>4. input'[s] = input[s] + k
  BY <1>1, <1>2 DEF TypeOK
<1>5. Stopped' <=> Stopped
  BY <1>2 DEF Stopped, Over
<1>6. \A t \in Side : Complete(t)' = Complete(t)
  BY <1>2, <1>3 DEF Complete
<1>7. HoldInv'
  <2>1. \A t \in Side : Idle(t)' /\ HalfWritten(t)' /\ Bare(t)'
    BY <1>2, <1>3, <1>5 DEF HoldInv, Idle, HalfWritten, Bare
  <2>2. AnswerFirst'
    BY <1>2, <1>3, <1>6 DEF HoldInv, AnswerFirst, Side
  <2>3. QED
    BY <2>1, <2>2 DEF HoldInv
<1>8. Step(s)
  <2> DEFINE c == [i \in 1..k |-> input[s] + i]
             p == payload[Other(s)]
             b == Bytes(Complete(s))
  <2>1. chunk[s] = <<>>
    BY <1>2 DEF HoldInv, Idle
  <2>2. /\ Way(s) = Cat(Cat(p, b), <<>>)
        /\ Way(s)' = Cat(Cat(p, b), IF Stopped THEN <<>> ELSE c)
    BY <1>2, <1>3, <1>5, <1>6, <2>1 DEF Way, Held
  <2>3. p \in Seq(Nat) /\ b \in Seq(Nat) /\ <<>> \in Seq(Nat)
    BY <1>1, WayTypes, EmptySeq
  <2>4. c \in Seq(Nat)
    <3>1. \A j \in 1..k : input[s] + j \in Nat
      BY <1>1
    <3>2. c \in [1..k -> Nat]
      BY <3>1
    <3>3. QED
      BY <1>1, <3>2, SeqDef
  <2>5. input'[s] \in Nat /\ input'[s] > input[s] /\ input'[s] - input[s] = k
    BY <1>1, <1>4
  <2>6. c = [i \in 1..(input'[s] - input[s]) |-> input[s] + i]
    BY <2>5
  <2> HIDE DEF p, b, c
  <2>7. Way(s)' = IF Stopped THEN Way(s) ELSE Cat(Way(s), c)
    <3>1. Cat(Cat(Cat(p, b), <<>>), c) = Cat(Cat(p, b), c)
      BY <2>3, <2>4, CatAssociative
    <3>2. QED
      BY <2>2, <3>1
  <2>8. QED
    BY <1>2, <1>5, <2>5, <2>6, <2>7 DEF Step, PutD
<1>9. ASSUME NEW t \in Side \ {s} PROVE Step(t)
  BY <1>2, <1>3, <1>5, <1>6, SameBytes DEF Ends
<1>10. QED
  BY <1>7, <1>8, <1>9

\* It starts to write a frame, which is not complete yet.
LEMMA SendStartHolds ==
  ASSUME ForwardInv, HoldInv, NEW s \in Side, SendStart(s)
  PROVE  HoldInv' /\ \A t \in Side : Step(t)
<1> DEFINE w == wire[s]
           f == Frame("data", chunk[s])
           v == Append(w, f)
<1>1. /\ TypeOK /\ w \in Frames /\ chunk[s] \in Seq(Nat)
      /\ Other(s) \in Side
  BY CompleteFrames, WayTypes DEF ForwardInv
<1>2. /\ UNCHANGED <<phase, chunk, down, payload, broken, input, output>>
      /\ phase[s] = "forward" /\ up[s] = "send" /\ ~broken
      /\ wire' = [wire EXCEPT ![s] = v] /\ up' = [up EXCEPT ![s] = "sending"]
  BY DEF SendStart, Forwarding, Gone, world
<1>3. /\ wire'[s] = v /\ up'[s] = "sending"
      /\ \A t \in Side \ {s} : wire'[t] = wire[t] /\ up'[t] = up[t]
  BY <1>1, <1>2 DEF TypeOK
<1>4. f \in AnyFrame /\ f.data = chunk[s] /\ f.kind = "data"
  BY <1>1 DEF Frame, AnyFrame
<1> HIDE DEF f
<1>5. v \in Frames /\ v # <<>> /\ Front(v) = w /\ v[Len(v)] = f
  BY <1>1, <1>4, FrontOfAppend
<1>6. /\ Len(v) = Len(w) + 1 /\ Len(w) \in Nat /\ v[Len(w) + 1] = f
      /\ \A i \in 1..Len(w) : v[i] = w[i]
  BY <1>1, <1>4, AppendProperties, LenProperties DEF Frames
<1> HIDE DEF v
<1>7. Complete(s) = w /\ \A t \in Side : Complete(t)' = Complete(t)
  <2>1. Complete(s) = w /\ Complete(s)' = w
    BY <1>2, <1>3, <1>5 DEF Complete
  <2>2. ASSUME NEW t \in Side \ {s} PROVE Complete(t)' = Complete(t)
    BY <1>3 DEF Complete
  <2>3. QED
    BY <2>1, <2>2
<1>8. Stopped' <=> Stopped
  BY <1>2 DEF Stopped, Over
<1>9. ASSUME NEW t \in Side PROVE Idle(t)' /\ HalfWritten(t)' /\ Bare(t)'
  <2>1. Idle(t)'
    BY <1>2, <1>3 DEF HoldInv, Idle
  <2>2. CASE t = s
    <3>1. HalfWritten(s)'
      BY <1>2, <1>3, <1>4, <1>5 DEF HalfWritten
    <3>2. ASSUME NEW i \in 1..Len(v), v[i].kind # "data" PROVE v[i].data = <<>>
      <4>1. i \in 1..Len(w) \/ i = Len(w) + 1
        BY <1>6
      <4>2. i \in 1..Len(w) /\ v[i] = w[i]
        BY <1>4, <1>6, <3>2, <4>1
      <4>3. QED
        BY <3>2, <4>2 DEF HoldInv, Bare
    <3>3. QED
      BY <1>3, <2>1, <2>2, <3>1, <3>2 DEF Bare
  <2>3. CASE t # s
    BY <1>2, <1>3, <1>8, <2>1, <2>3 DEF HoldInv, HalfWritten, Bare
  <2>4. QED
    BY <2>2, <2>3
<1>10. AnswerFirst'
  <2>1. CASE s = "server"
    <3>1. phase["client"] = "ask" => Complete("server") # <<>> /\ w # <<>> /\ w[1].kind # "data"
      BY <1>2, <1>7, <2>1 DEF HoldInv, AnswerFirst
    <3>2. w # <<>> => v[1] = w[1]
      <4>1. w # <<>> => 1 \in 1..Len(w)
        BY <1>1, FrontIs
      <4>2. QED
        BY <1>6, <4>1
    <3>3. QED
      BY <1>2, <1>3, <1>7, <2>1, <3>1, <3>2 DEF AnswerFirst
  <2>2. CASE s = "client"
    BY <1>2, <1>3, <1>7, <2>2 DEF HoldInv, AnswerFirst, Side
  <2>3. QED
    BY <2>1, <2>2 DEF Side
<1>11. ASSUME NEW t \in Side PROVE Step(t)
  BY <1>2, <1>7, <1>8, SameBytes DEF Ends
<1>12. QED
  BY <1>9, <1>10, <1>11 DEF HoldInv

\* The frame is written: its bytes are where the up loop held them.
LEMMA SendFinishHolds ==
  ASSUME ForwardInv, HoldInv, NEW s \in Side, SendFinish(s)
  PROVE  HoldInv' /\ \A t \in Side : Step(t)
<1> DEFINE w == wire[s]
<1>1. TypeOK /\ w \in Frames /\ Other(s) \in Side /\ Side = {s, Other(s)}
  BY CompleteFrames DEF ForwardInv, Side, Other
<1>2. /\ UNCHANGED <<phase, down, payload, wire, broken, input, output>>
      /\ phase[s] = "forward" /\ up[s] = "sending" /\ ~Gone(Other(s))
      /\ up' = [up EXCEPT ![s] = "check"] /\ chunk' = [chunk EXCEPT ![s] = <<>>]
  BY DEF SendFinish, Forwarding, world
<1>3. /\ up'[s] = "check" /\ chunk'[s] = <<>>
      /\ \A t \in Side \ {s} : up'[t] = up[t] /\ chunk'[t] = chunk[t]
  BY <1>1, <1>2 DEF TypeOK
<1>4. ~Stopped /\ ~Stopped' /\ ~broken
  BY <1>1, <1>2 DEF Stopped, Over, Gone
<1>5. w # <<>> /\ w[Len(w)].data = chunk[s]
  BY <1>2, <1>4 DEF HoldInv, HalfWritten
<1>6. /\ Complete(s) = Front(w) /\ Complete(s)' = w
      /\ \A t \in Side \ {s} : Complete(t)' = Complete(t)
  BY <1>2, <1>3 DEF Complete
<1>7. \A t \in Side : Idle(t)' /\ HalfWritten(t)' /\ Bare(t)'
  BY <1>2, <1>3, <1>4 DEF HoldInv, Idle, HalfWritten, Bare
<1>8. AnswerFirst'
  <2>1. CASE s = "server"
    BY <1>2, <1>3, <1>4, <1>5, <1>6, <2>1 DEF HoldInv, AnswerFirst
  <2>2. CASE s = "client"
    BY <1>2, <1>3, <1>6, <2>2 DEF HoldInv, AnswerFirst, Side
  <2>3. QED
    BY <2>1, <2>2 DEF Side
<1>9. Step(s)
  <2> DEFINE p == payload[Other(s)]
             b == Bytes(Front(w))
             c == chunk[s]
  <2>1. p \in Seq(Nat) /\ b \in Seq(Nat) /\ c \in Seq(Nat) /\ <<>> \in Seq(Nat)
    BY <1>1, <1>6, WayTypes, EmptySeq
  <2>2. Bytes(w) = Cat(b, c)
    BY <1>1, <1>5, BytesOfLast
  <2>3. Way(s) = Cat(Cat(p, b), c) /\ Way(s)' = Cat(Cat(p, Cat(b, c)), <<>>)
    BY <1>2, <1>3, <1>4, <1>6, <2>2 DEF Way, Held
  <2> HIDE DEF p, b, c
  <2>4. Cat(Cat(p, Cat(b, c)), <<>>) = Cat(Cat(p, b), c)
    BY <2>1, CatAssociative
  <2>5. QED
    BY <1>2, <1>4, <2>3, <2>4 DEF Step, SameD, Ends
<1>10. ASSUME NEW t \in Side \ {s} PROVE Step(t)
  BY <1>2, <1>3, <1>4, <1>6, SameBytes DEF Ends
<1>11. QED
  BY <1>7, <1>8, <1>9, <1>10 DEF HoldInv

\* It goes nowhere: the relconn has ended, and what the up loop held is lost.
LEMMA SendVanishesHolds ==
  ASSUME ForwardInv, HoldInv, NEW s \in Side, SendVanishes(s)
  PROVE  HoldInv' /\ \A t \in Side : Step(t)
<1>1. TypeOK /\ wire[s] \in Frames /\ Other(s) \in Side
  BY CompleteFrames DEF ForwardInv, Side, Other
<1>2. /\ UNCHANGED <<phase, down, payload, broken, input, output>>
      /\ phase[s] = "forward" /\ Gone(Other(s)) /\ wire' = [wire EXCEPT ![s] = Complete(s)]
      /\ up' = [up EXCEPT ![s] = "check"] /\ chunk' = [chunk EXCEPT ![s] = <<>>]
  BY DEF SendVanishes, Forwarding, world
<1>3. /\ up'[s] = "check" /\ chunk'[s] = <<>> /\ wire'[s] = Complete(s)
      /\ \A t \in Side \ {s} : up'[t] = up[t] /\ chunk'[t] = chunk[t] /\ wire'[t] = wire[t]
  BY <1>1, <1>2 DEF TypeOK
<1>4. Stopped /\ Stopped'
  BY <1>1, <1>2 DEF Stopped, Over, Gone
<1>5. \A t \in Side : Complete(t)' = Complete(t)
  BY <1>3 DEF Complete
<1>6. ASSUME NEW t \in Side PROVE Idle(t)' /\ HalfWritten(t)' /\ Bare(t)'
  <2>1. Shrinks(wire[t], wire'[t])
    <3>1. wire[t] \in Frames
      BY <1>1, CompleteFrames
    <3>2. QED
      BY <1>1, <1>3, <3>1, ShrinkSimply, CompleteFrames
  <2>2. QED
    BY <1>2, <1>3, <1>4, <2>1, BareShrinks DEF HoldInv, Idle, HalfWritten
<1>7. AnswerFirst'
  <2>1. CASE s = "server"
    <3>1. Complete(s) # <<>> => Complete(s)[1] = wire[s][1]
      <4>1. CASE up[s] = "sending"
        <5>1. Complete(s) = Front(wire[s])
          BY <4>1 DEF Complete
        <5> DEFINE w == wire[s]
                   v == Front(w)
        <5>2. SUFFICES ASSUME v # <<>> PROVE v[1] = w[1]
          BY <5>1
        <5>3. w # <<>>
          BY <5>2, BytesOfNone
        <5>4. /\ Len(w) \in Nat \ {0} /\ v \in Frames /\ Len(v) = Len(w) - 1
              /\ \A i \in 1..(Len(w) - 1) : v[i] = w[i]
          BY <1>1, <5>3, FrontIs
        <5> HIDE DEF v, w
        <5>5. Len(v) # 0
          BY <5>2, <5>4, EmptySeq DEF Frames
        <5>6. 1 \in 1..(Len(w) - 1)
          BY <5>4, <5>5
        <5>7. QED
          BY <5>4, <5>6
      <4>2. CASE up[s] # "sending"
        BY <4>2 DEF Complete
      <4>3. QED
        BY <4>1, <4>2
    <3>2. phase["client"] = "ask" => broken
      BY <1>2, <2>1 DEF Gone, Over, Other
    <3>3. QED
      BY <1>2, <1>3, <1>5, <2>1, <3>1, <3>2 DEF HoldInv, AnswerFirst
  <2>2. CASE s = "client"
    BY <1>2, <1>3, <1>5, <2>2 DEF HoldInv, AnswerFirst, Side
  <2>3. QED
    BY <2>1, <2>2 DEF Side
<1>8. ASSUME NEW t \in Side PROVE Step(t)
  BY <1>2, <1>4, <1>5 DEF Step, SameD, Way, Held, Ends
<1>9. QED
  BY <1>6, <1>7, <1>8 DEF HoldInv

\* The down loop writes the first k bytes it holds.
LEMMA WriteHolds ==
  ASSUME ForwardInv, HoldInv, NEW a \in Side, NEW k \in 1..Len(payload[a]), Write(a, k)
  PROVE  HoldInv' /\ \A t \in Side : Step(t)
<1> DEFINE s == Other(a)
           p == payload[a]
           first == SubSeq(p, 1, k)
           rest  == SubSeq(p, k + 1, Len(p))
<1>1. /\ s \in Side /\ s # a /\ Other(s) = a /\ Side = {s, a} /\ TypeOK
      /\ p \in Seq(Nat) /\ output[a] \in Seq(Nat)
  BY DEF Side, Other, ForwardInv, TypeOK
<1>2. /\ UNCHANGED <<phase, up, chunk, wire, broken, input>>
      /\ output' = [output EXCEPT ![a] = @ \o first]
      /\ payload' = [payload EXCEPT ![a] = rest]
      /\ down' = [down EXCEPT ![a] = IF payload'[a] = <<>> THEN "check" ELSE "write"]
  BY DEF Write, world
<1>3. /\ first \in Seq(Nat) /\ Len(first) = k /\ rest \in Seq(Nat) /\ p = Cat(first, rest)
      /\ k \in Nat /\ k >= 1
  <2> HIDE DEF p
  <2>1. k \in Nat /\ k >= 1 /\ Len(p) \in Nat /\ k <= Len(p)
    BY <1>1, LenProperties DEF p
  <2>2. first \in Seq(Nat) /\ rest \in Seq(Nat) /\ Len(first) = k
    BY <1>1, <2>1
  <2>3. first \o rest = p
    <3>1. first \o rest = SubSeq(p, 1, Len(p))
      BY <1>1, <2>1, ConcatAdjacentSubSeq
    <3>2. QED
      BY <1>1, <3>1, SubSeqFull
  <2>4. QED
    BY <2>1, <2>2, <2>3 DEF Cat
<1> HIDE DEF s, first, rest
<1>4. /\ output'[a] = output[a] \o first /\ payload'[a] = rest
      /\ down'[a] # "write" => payload'[a] = <<>>
      /\ output'[s] = output[s] /\ payload'[s] = payload[s] /\ down'[s] = down[s]
  BY <1>1, <1>2 DEF TypeOK
<1>5. Stopped' <=> Stopped
  BY <1>2 DEF Stopped, Over
<1>6. \A t \in Side : Complete(t)' = Complete(t)
  BY <1>2 DEF Complete
<1>7. HoldInv'
  <2>1. \A t \in Side : Idle(t)'
    BY <1>1, <1>2, <1>4 DEF HoldInv, Idle
  <2>2. \A t \in Side : HalfWritten(t)' /\ Bare(t)'
    BY <1>2, <1>5 DEF HoldInv, HalfWritten, Bare
  <2>3. AnswerFirst'
    BY <1>2, <1>6 DEF HoldInv, AnswerFirst, Side
  <2>4. QED
    BY <2>1, <2>2, <2>3 DEF HoldInv
<1>8. Step(s)
  <2> DEFINE b == Bytes(Complete(s))
             h == Held(s)
             behind == Cat(Cat(rest, b), h)
             o == Way(s)
             n == Way(s)'
  <2>1. b \in Seq(Nat) /\ h \in Seq(Nat) /\ o \in Seq(Nat)
    BY <1>1, WayTypes
  <2>2. o = Cat(Cat(Cat(first, rest), b), h)
    BY <1>1, <1>3 DEF Way
  <2>3. n = behind
    BY <1>1, <1>2, <1>4, <1>5, <1>6 DEF Way, Held
  <2> HIDE DEF b, h, o, n
  <2>4. o = Cat(first, behind) /\ behind \in Seq(Nat)
    BY <1>3, <2>1, <2>2, CatAssociative
  <2> HIDE DEF behind
  <2>5. k \in 0..Len(o) /\ SubSeq(o, 1, k) = first /\ SubSeq(o, k + 1, Len(o)) = n
    BY <1>3, <2>3, <2>4, FrontTaken
  <2>6. k \in 1..Len(o)
    BY <1>3, <2>1, <2>5, LenProperties
  <2>7. output'[Other(s)] = output[Other(s)] \o SubSeq(o, 1, k)
    BY <1>1, <1>4, <2>5
  <2>8. QED
    BY <1>2, <1>5, <2>5, <2>6, <2>7 DEF Step, GetD, o, n
<1>9. Step(a)
  <2>1. Other(a) = s
    BY DEF s
  <2>2. QED
    BY <1>2, <1>4, <1>5, <1>6, <2>1, SameBytes DEF Ends
<1>10. QED
  BY <1>1, <1>7, <1>8, <1>9

-----------------------------------------------------------------------------
(* Every step, and the streams.                                            *)

\* An end is over.
LEMMA EndHolds ==
  ASSUME ForwardInv, HoldInv, NEW s \in Side, Drop(s)
  PROVE  HoldInv' /\ \A t \in Side : Step(t)
BY DropHolds, DropCuts DEF ForwardInv

LEMMA DirectionStep ==
  ASSUME ForwardInv, HoldInv, [Next]_vars
  PROVE  HoldInv' /\ \A t \in Side : Step(t)
<1>0. "client" \in Side /\ "server" \in Side
  BY DEF Side
<1>1. CASE UNCHANGED vars
  <2>1. UNCHANGED <<phase, up, chunk, down, payload, wire, broken, input, output>>
    BY <1>1 DEF vars, loops, world
  <2>2. (Stopped' <=> Stopped) /\ \A t \in Side : Complete(t)' = Complete(t)
    BY <2>1 DEF Stopped, Over, Complete
  <2>3. HoldInv'
    BY <1>0, <2>1, <2>2 DEF HoldInv, Idle, HalfWritten, Bare, AnswerFirst
  <2>4. QED
    BY <2>1, <2>2, <2>3, SameBytes DEF Ends
<1>2. CASE Handshake
  <2>1. CASE ConnectFails \/ AskFails \/ ReplyFails
    BY <1>0, <2>1, EndHolds DEF ConnectFails, AskFails, ReplyFails, End
  <2>2. QED
    BY <1>2, <2>1, AnswerHolds, TakeOfferHolds, ReplyHolds DEF Handshake
<1>3. ASSUME NEW s \in Side, Bail(s) PROVE HoldInv' /\ \A t \in Side : Step(t)
  BY <1>3, EndHolds DEF Bail
<1>4. ASSUME NEW s \in Side, UpLoop(s) PROVE HoldInv' /\ \A t \in Side : Step(t)
  <2>1. CASE SendFails(s)
    BY <2>1, EndHolds DEF SendFails, End
  <2>2. QED
    BY <1>4, <2>1, TurnHolds, ReadHolds, SendStartHolds, SendFinishHolds, SendVanishesHolds
       DEF UpLoop
<1>5. ASSUME NEW s \in Side, DownLoop(s) PROVE HoldInv' /\ \A t \in Side : Step(t)
  <2>1. CASE RecvFails(s)
    BY <2>1, EndHolds DEF RecvFails, End
  <2>2. QED
    BY <1>5, <2>1, TurnHolds, RecvHolds, WriteHolds DEF DownLoop, Writes
<1>6. ASSUME NEW s \in Side, World(s) PROVE HoldInv' /\ \A t \in Side : Step(t)
  <2>1. CASE ConnFails(s)
    BY <2>1, EndHolds DEF ConnFails, End
  <2>2. QED
    BY <1>6, <2>1, OutsideHolds, LoseHolds DEF World
<1>7. QED
  BY <1>1, <1>2, <1>3, <1>4, <1>5, <1>6, OutsideHolds DEF Next

LEMMA WayIs == \A s \in Side : Way(s) = OnTheWay(s)
BY DEF Way, Held, OnTheWay, Cat

LEMMA WayStays == \A s \in Side : Way(s)' = OnTheWay(s)'
BY DEF Way, Held, OnTheWay, Cat

\* A step of a direction is one of the stream that gets cut.
LEMMA StreamStep ==
  ASSUME TypeOK, NEW s \in Side, Step(s)
  PROVE  \/ UNCHANGED <<input[s], OnTheWay(s), output[Other(s)], Stopped>>
         \/ /\ input[s]' \in Nat
            /\ input[s]' > input[s]
            /\ OnTheWay(s)' = IF Stopped THEN OnTheWay(s)
                              ELSE OnTheWay(s) \o [i \in 1..(input[s]' - input[s]) |-> input[s] + i]
            /\ UNCHANGED <<output[Other(s)], Stopped>>
         \/ /\ \E k \in 1..Len(OnTheWay(s)) :
                 /\ output[Other(s)]' = output[Other(s)] \o SubSeq(OnTheWay(s), 1, k)
                 /\ OnTheWay(s)' = SubSeq(OnTheWay(s), k + 1, Len(OnTheWay(s)))
            /\ UNCHANGED <<input[s], Stopped>>
         \/ /\ Stopped' = TRUE
            /\ \E k \in 0..Len(OnTheWay(s)) : OnTheWay(s)' = SubSeq(OnTheWay(s), 1, k)
            /\ UNCHANGED <<input[s], output[Other(s)]>>
<1> DEFINE o == OnTheWay(s)
           n == OnTheWay(s)'
<1>1. /\ Way(s) = o /\ Way(s)' = n /\ o \in Seq(Nat)
      /\ Stopped \in BOOLEAN /\ Stopped' \in BOOLEAN
  BY WayTypes, WayIs, WayStays DEF Stopped
<1>2. CASE SameD(s)
  BY <1>1, <1>2 DEF SameD, Ends
<1>3. CASE PutD(s)
  BY <1>1, <1>3 DEF PutD, Cat
<1>4. CASE GetD(s)
  BY <1>1, <1>4 DEF GetD
<1>5. CASE CutD(s)
  <2> HIDE DEF o, n
  <2>1. PICK v \in Seq(Nat) : o = Cat(n, v)
    BY <1>1, <1>5 DEF CutD
  <2>2. n \in Seq(Nat)
    BY <1>1, <1>5 DEF CutD
  <2>3. Len(n) \in 0..Len(o) /\ SubSeq(o, 1, Len(n)) = n
    BY <2>1, <2>2, FrontTaken
  <2>4. Stopped' = TRUE /\ UNCHANGED <<input[s], output[Other(s)]>>
    BY <1>1, <1>5 DEF CutD, Ends
  <2>5. QED
    BY <2>3, <2>4 DEF o, n
<1>6. QED
  BY <1>2, <1>3, <1>4, <1>5 DEF Step

LEMMA StreamInit ==
  ASSUME Init
  PROVE  Upstream!Init /\ Downstream!Init
<1>1. ASSUME NEW s \in Side
      PROVE  input[s] = 0 /\ OnTheWay(s) = <<>> /\ output[Other(s)] = <<>> /\ Stopped = FALSE
  <2>1. /\ Other(s) \in Side /\ input[s] = 0 /\ output[Other(s)] = <<>>
        /\ payload[Other(s)] = <<>> /\ Complete(s) = <<>> /\ chunk[s] = <<>>
    BY DEF Init, Complete, Side, Other
  <2>2. Stopped = FALSE
    BY DEF Init, Stopped, Over, Side
  <2>3. Way(s) = Cat(Cat(<<>>, <<>>), <<>>) /\ <<>> \in Seq(Nat)
    BY <2>1, <2>2, BytesOfNone, EmptySeq DEF Way, Held
  <2>4. Way(s) = <<>>
    BY <2>3, CatAssociative
  <2>5. QED
    BY <2>1, <2>2, <2>4, WayIs
<1>2. /\ "client" \in Side /\ Other("client") = "server"
      /\ "server" \in Side /\ Other("server") = "client"
  BY DEF Side, Other
<1>3. QED
  BY <1>1, <1>2 DEF Upstream!Init, Downstream!Init

LEMMA StreamsStep ==
  ASSUME TypeOK, \A s \in Side : Step(s)
  PROVE  [Upstream!Next]_(Upstream!vars) /\ [Downstream!Next]_(Downstream!vars)
<1>1. "client" \in Side /\ Other("client") = "server" /\ Step("client")
  BY DEF Side, Other
<1>2. "server" \in Side /\ Other("server") = "client" /\ Step("server")
  BY DEF Side, Other
<1>3. [Upstream!Next]_(Upstream!vars)
  BY <1>1, StreamStep
     DEF Upstream!Next, Upstream!Put, Upstream!Get, Upstream!Cut, Upstream!vars
<1>4. [Downstream!Next]_(Downstream!vars)
  BY <1>2, StreamStep
     DEF Downstream!Next, Downstream!Put, Downstream!Get, Downstream!Cut, Downstream!vars
<1>5. QED
  BY <1>3, <1>4

\* What the loops hold, always.
LEMMA HoldAlways == Spec => [](ForwardInv /\ HoldInv)
<1>1. Init => HoldInv
  BY HoldInit
<1>2. ForwardInv /\ HoldInv /\ [Next]_vars => HoldInv'
  BY DirectionStep
<1>3. QED
  BY <1>1, <1>2, ForwardAlways, PTL DEF Spec

(* What an application sends is a stream that is intact as long as both    *)
(* ends forward and loses nothing but an end of it, whatever the relconn   *)
(* loses and wherever the loops are dropped: no byte is repeated, changed, *)
(* overtaken or left out before one that is written.                       *)
THEOREM UpstreamCorrect == Spec => UpstreamIsCutStream
<1>1. Init => Upstream!Init
  BY StreamInit
<1>2. ForwardInv /\ HoldInv /\ [Next]_vars => [Upstream!Next]_(Upstream!vars)
  BY DirectionStep, StreamsStep DEF ForwardInv
<1>3. QED
  BY <1>1, <1>2, HoldAlways, PTL DEF Spec, UpstreamIsCutStream, Upstream!Spec

(* And so is what the remote sends, behind the answer that the server puts *)
(* in front of it on the same relconn.                                     *)
THEOREM DownstreamCorrect == Spec => DownstreamIsCutStream
<1>1. Init => Downstream!Init
  BY StreamInit
<1>2. ForwardInv /\ HoldInv /\ [Next]_vars => [Downstream!Next]_(Downstream!vars)
  BY DirectionStep, StreamsStep DEF ForwardInv
<1>3. QED
  BY <1>1, <1>2, HoldAlways, PTL DEF Spec, DownstreamIsCutStream, Downstream!Spec
-----------------------------------------------------------------------------
(* What is left of the other end once one is over.                         *)

\* The other end is over; or it has fewer frames to take from s, or as many
\* and fewer bytes of the last one it took to write, or the same and has come
\* from its check to recv.
Nearer(s) ==
  LET o == Other(s)
  IN  \/ Over(o)'
      \/ Len(wire[s])' < Len(wire[s])
      \/ Len(wire[s])' = Len(wire[s]) /\ Len(payload[o])' < Len(payload[o])
      \/ UNCHANGED <<wire[s], payload[o]>> /\ down[o] = "check" /\ down[o]' = "recv"

\* The end that is over adds nothing to that, nor does the world, and each
\* step of the other's down loop takes of it.
EndDrains ==
  [][\A s \in Side : Over(s) =>
       /\ Over(s)'
       /\ Nearer(s) \/ UNCHANGED <<wire[s], payload[Other(s)], down[Other(s)]>>
       /\ DownLoop(Other(s)) => Nearer(s)]_vars

LEMMA TwoSides ==
  ASSUME NEW s \in Side
  PROVE  /\ Other(s) \in Side /\ Other(s) # s /\ Other(Other(s)) = s
         /\ \A t \in Side : t = s \/ t = Other(s)
BY DEF Side, Other

LEMMA DropIsOver ==
  ASSUME TypeOK, NEW t \in Side, Drop(t)
  PROVE  Over(t)' /\ \A s \in Side : Over(s) => Over(s)'
BY DEF Drop, OnError, Over, TypeOK

\* Each step of the down loop of the end o.
LEMMA DownLoopNearer ==
  ASSUME TypeOK, NEW s \in Side, DownLoop(Other(s))
  PROVE  Nearer(s) /\ (Over(s) => Over(s)')
<1> DEFINE o == Other(s)
<1>1. o \in Side /\ o # s /\ Other(o) = s
  BY TwoSides
<1> HIDE DEF o
<1>2. CASE DownCheck(o)
  <2>1. /\ down[o] = "check" /\ down'[o] = "recv"
        /\ UNCHANGED <<wire, payload, phase>>
    BY <1>1, <1>2 DEF DownCheck, TypeOK
  <2>2. QED
    BY <2>1 DEF Nearer, Over, o
<1>3. CASE Recv(o)
  <2>1. wire[s] \in Frames /\ wire[s] # <<>> /\ wire'[s] = Tail(wire[s])
    BY <1>1, <1>3, CompleteFrames DEF Recv, TypeOK
  <2>2. Len(wire'[s]) < Len(wire[s])
    <3>1. Len(Tail(wire[s])) = Len(wire[s]) - 1 /\ Len(wire[s]) \in Nat
      BY <2>1, HeadTailProperties, LenProperties DEF Frames
    <3>2. QED
      BY <2>1, <3>1
  <2>3. phase'[s] = phase[s]
    BY <1>1, <1>3 DEF Recv, TypeOK
  <2>4. QED
    BY <2>2, <2>3 DEF Nearer, Over
<1>4. CASE RecvFails(o)
  <2>1. Over(o)' /\ (Over(s) => Over(s)')
    BY <1>1, <1>4, DropIsOver DEF RecvFails, End
  <2>2. QED
    BY <2>1 DEF Nearer, o
<1>5. CASE Writes(o)
  <2>1. PICK k \in 1..Len(payload[o]) : Write(o, k)
    BY <1>5 DEF Writes
  <2>2. /\ payload' = [payload EXCEPT ![o] = SubSeq(@, k + 1, Len(@))]
        /\ UNCHANGED <<wire, phase>>
    BY <2>1 DEF Write
  <2>3. payload \in [Side -> Seq(Nat)] /\ payload[o] \in Seq(Nat) /\ Len(payload[o]) \in Nat
    BY <1>1, LenProperties DEF TypeOK
  <2>4. payload'[o] = SubSeq(payload[o], k + 1, Len(payload[o]))
    BY <1>1, <2>2, <2>3
  <2>5. Len(payload'[o]) = Len(payload[o]) - k
    BY <2>1, <2>3, <2>4
  <2>6. Len(payload'[o]) < Len(payload[o])
    BY <2>3, <2>5
  <2>7. QED
    BY <2>2, <2>6 DEF Nearer, Over, o
<1>6. QED
  BY <1>2, <1>3, <1>4, <1>5 DEF DownLoop, o

\* Neither the handshake nor the up loop of the end o touches what is on its
\* way to o, other than by taking of it or by ending.
LEMMA OthersStepAside ==
  ASSUME TypeOK, NEW s \in Side, Over(s),
         Handshake \/ Bail(Other(s)) \/ UpLoop(Other(s)) \/ ConnFails(Other(s))
  PROVE  /\ Over(s)'
         /\ Nearer(s) \/ UNCHANGED <<wire[s], payload[Other(s)], down[Other(s)]>>
<1> DEFINE o == Other(s)
<1>1. o \in Side /\ o # s /\ Other(o) = s
  BY TwoSides
<1> HIDE DEF o
<1>2. phase[s] \in {"done", "unwrap", "todo"}
  BY DEF Over
<1>3. ASSUME Drop(o) PROVE Over(s)' /\ Nearer(s)
  BY <1>1, <1>3, DropIsOver DEF Nearer, o
<1>4. CASE Bail(o) \/ ConnFails(o)
  BY <1>3, <1>4 DEF Bail, ConnFails, End, o
<1>5. CASE UpLoop(o)
  <2>1. CASE SendFails(o)
    BY <1>3, <2>1 DEF SendFails, End, o
  <2>2. CASE ~SendFails(o)
    <3>1. UNCHANGED <<phase, payload, down>>
      BY <1>5, <2>2 DEF UpLoop, UpCheck, ReadEof, SendStart, SendFinish, SendVanishes, Read
    <3>2. wire'[s] = wire[s]
      BY <1>1, <1>5, <2>2
         DEF UpLoop, UpCheck, ReadEof, SendStart, SendFinish, SendVanishes, Read, TypeOK
    <3>3. QED
      BY <1>2, <3>1, <3>2 DEF Over, o
  <2>3. QED
    BY <2>1, <2>2
<1>6. CASE Handshake
  <2>2. CASE Connect \/ ConnectRefused
    <3>1. phase["server"] = "connect" /\ ~Over("client")
      BY <2>2 DEF Connect, ConnectRefused, Gone
    <3>2. QED
      BY <1>2, <3>1 DEF Side, Over
  <2>3. CASE ConnectFails \/ AskFails \/ ReplyFails
    <3>1. \E t \in Side : Drop(t) /\ phase[t] \notin {"done", "unwrap", "todo"}
      BY <2>3 DEF ConnectFails, AskFails, ReplyFails, End, Side
    <3>2. Drop(o)
      BY <1>2, <3>1, TwoSides DEF o
    <3>3. QED
      BY <1>3, <3>2
  <2>4. CASE TakeOffer
    <3>1. s = "server" /\ o = "client"
      BY <1>1, <1>2, <2>4 DEF TakeOffer, Side, Other, o
    <3>2. wire[s] \in Frames /\ wire[s] # <<>> /\ wire'[s] = Tail(wire[s])
      BY <2>4, <3>1, CompleteFrames DEF TakeOffer, TypeOK
    <3>3. Len(wire'[s]) < Len(wire[s])
      <4>1. Len(Tail(wire[s])) = Len(wire[s]) - 1 /\ Len(wire[s]) \in Nat
        BY <3>2, HeadTailProperties, LenProperties DEF Frames
      <4>2. QED
        BY <3>2, <4>1
    <3>4. phase'[s] = phase[s]
      BY <2>4, <3>1 DEF TakeOffer, TypeOK
    <3>5. QED
      BY <1>2, <3>3, <3>4 DEF Nearer, Over
  <2>5. CASE Reply
    <3>1. s = "server" /\ phase'[s] = phase[s] /\ UNCHANGED <<wire, payload, down>>
      BY <1>1, <1>2, <2>5 DEF Reply, Side, TypeOK, loops
    <3>2. QED
      BY <1>2, <3>1 DEF Over
  <2>6. QED
    BY <1>6, <2>2, <2>3, <2>4, <2>5 DEF Handshake
<1>7. QED
  BY <1>4, <1>5, <1>6 DEF o

\* The world: it loses frames, of this end's or of the other's.
LEMMA WorldStepsAside ==
  ASSUME TypeOK, NEW s \in Side, Over(s),
         Break \/ DeclareDead \/ OthersReceive
           \/ \E t \in Side : Eof(t) \/ LoseFrame(t)
  PROVE  /\ Over(s)'
         /\ Nearer(s) \/ UNCHANGED <<wire[s], payload[Other(s)], down[Other(s)]>>
<1>1. UNCHANGED <<phase, payload, down>>
  BY DEF Break, DeclareDead, OthersReceive, Eof, LoseFrame, loops
<1>2. Over(s)'
  BY <1>1 DEF Over
<1>3. CASE wire' = wire
  BY <1>1, <1>2, <1>3
<1>4. ASSUME NEW t \in Side, LoseFrame(t)
      PROVE  Nearer(s) \/ wire'[s] = wire[s]
  <2>1. wire' = [wire EXCEPT ![t] = RemoveAt(wire[t], Len(Complete(t)))] /\ Complete(t) # <<>>
    BY <1>4 DEF LoseFrame
  <2>2. CASE t = s
    <3>1. wire'[s] = RemoveAt(wire[s], Len(Complete(s)))
      BY <2>1, <2>2 DEF TypeOK
    <3>2. wire[s] \in Frames /\ Len(Complete(s)) \in 1..Len(wire[s])
      BY <2>1, <2>2, CompleteFrames
    <3>3. Len(wire'[s]) = Len(wire[s]) - 1
      BY <3>1, <3>2, RemoveOne
    <3>4. Len(wire[s]) \in Nat
      BY <3>2, LenProperties DEF Frames
    <3>5. Len(wire'[s]) < Len(wire[s])
      BY <3>3, <3>4
    <3>6. QED
      BY <3>5 DEF Nearer
  <2>3. CASE t # s
    BY <2>1, <2>3 DEF TypeOK
  <2>4. QED
    BY <2>2, <2>3
<1>5. QED
  BY <1>1, <1>2, <1>3, <1>4 DEF Break, DeclareDead, OthersReceive, Eof

(* Once one end of a proxied connection is over, every step of the other's *)
(* down loop brings it nearer to its own end, and no other step of anybody *)
(* takes it further away: frames still on the way, a payload half written, *)
(* frames that get lost and the deadline included.  A connection that is   *)
(* half over is never handed new work; what keeps it is only a conn whose  *)
(* peer does not read.                                                     *)
THEOREM EndDrainsCorrect == Spec => EndDrains
<1>1. ForwardInv /\ [Next]_vars
        => [\A s \in Side : Over(s) =>
              /\ Over(s)'
              /\ Nearer(s) \/ UNCHANGED <<wire[s], payload[Other(s)], down[Other(s)]>>
              /\ DownLoop(Other(s)) => Nearer(s)]_vars
  <2> SUFFICES ASSUME ForwardInv, Next, NEW s \in Side, Over(s)
               PROVE  /\ Over(s)'
                      /\ Nearer(s) \/ UNCHANGED <<wire[s], payload[Other(s)], down[Other(s)]>>
                      /\ DownLoop(Other(s)) => Nearer(s)
    OBVIOUS
  <2>1. TypeOK
    BY DEF ForwardInv
  <2>2. \A t \in Side : t = s \/ t = Other(s)
    BY TwoSides
  <2>3. DownLoop(Other(s)) => Nearer(s) /\ Over(s)'
    BY <2>1, DownLoopNearer
  <2>4. ~Bail(s) /\ ~UpLoop(s) /\ ~DownLoop(s) /\ ~ConnFails(s)
    BY DEF Over, Forwarding, Bail, UpLoop, DownLoop, ConnFails, UpCheck, ReadEof, SendStart,
           SendFinish, SendFails, SendVanishes, Read, DownCheck, Recv, RecvFails, Writes, Write
  <2>5. \/ Handshake \/ Bail(Other(s)) \/ UpLoop(Other(s)) \/ ConnFails(Other(s))
        \/ DownLoop(Other(s))
        \/ Break \/ DeclareDead \/ OthersReceive
        \/ \E t \in Side : Eof(t) \/ LoseFrame(t)
    BY <2>2, <2>4 DEF Next, World
  <2>6. QED
    BY <2>1, <2>3, <2>5, OthersStepAside, WorldStepsAside
<1>2. QED
  BY <1>1, ForwardAlways, PTL DEF Spec, EndDrains
=============================================================================
