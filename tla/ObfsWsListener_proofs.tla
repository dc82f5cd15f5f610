----------------------- MODULE ObfsWsListener_proofs -----------------------
(***************************************************************************)
(* Theorems about ObfsWsListener, for every set of clients and capacity of *)
(* the queue.                                                              *)
(***************************************************************************)
EXTENDS ObfsWsListener, TLAPS

-----------------------------------------------------------------------------
(* The members of a queue.                                                 *)

LEMMA RangeOfAppend ==
  ASSUME NEW q \in Seq(Conn), NEW c \in Conn
  PROVE  /\ Append(q, c) \in Seq(Conn)
         /\ Len(Append(q, c)) = Len(q) + 1
         /\ Range(Append(q, c)) = Range(q) \cup {c}
<1>1. \A i \in 1..Len(q) : Append(q, c)[i] = q[i]
  OBVIOUS
<1>2. DOMAIN Append(q, c) = 1..(Len(q) + 1) /\ DOMAIN q = 1..Len(q)
  OBVIOUS
<1>3. Append(q, c)[Len(q) + 1] = c /\ 1..(Len(q) + 1) = 1..Len(q) \cup {Len(q) + 1}
  OBVIOUS
<1>4. Range(Append(q, c)) = Range(q) \cup {c}
  BY <1>1, <1>2, <1>3 DEF Range
<1>5. QED
  BY <1>4

LEMMA RangeOfRest ==
  ASSUME NEW q \in Seq(Conn), q # <<>>
  PROVE  /\ Head(q) \in Conn /\ Tail(q) \in Seq(Conn)
         /\ Len(Tail(q)) = Len(q) - 1
         /\ Range(q) = {Head(q)} \cup Range(Tail(q))
<1>1. Len(q) \in Nat \ {0} /\ Head(q) = q[1]
  OBVIOUS
<1>2. DOMAIN q = 1..Len(q) /\ DOMAIN Tail(q) = 1..(Len(q) - 1)
  OBVIOUS
<1>3. \A i \in 1..(Len(q) - 1) : Tail(q)[i] = q[i + 1]
  OBVIOUS
<1>4. \A i \in 1..Len(q) : i = 1 \/ (i - 1 \in 1..(Len(q) - 1) /\ Tail(q)[i - 1] = q[i])
  BY <1>1, <1>3
<1>5. Range(q) \subseteq {Head(q)} \cup Range(Tail(q))
  <2> SUFFICES ASSUME NEW i \in 1..Len(q) PROVE q[i] \in {Head(q)} \cup Range(Tail(q))
    BY <1>2 DEF Range
  <2>1. CASE i = 1
    BY <1>1, <2>1
  <2>2. CASE i # 1
    <3>1. i - 1 \in DOMAIN Tail(q) /\ Tail(q)[i - 1] = q[i]
      BY <1>2, <1>4, <2>2
    <3>2. QED
      BY <3>1 DEF Range
  <2>3. QED
    BY <2>1, <2>2
<1>6. {Head(q)} \cup Range(Tail(q)) \subseteq Range(q)
  BY <1>1, <1>2, <1>3 DEF Range
<1>7. QED
  BY <1>5, <1>6

-----------------------------------------------------------------------------
(* Types, and the account of the clients told 101.  One more conjunct is   *)
(* needed: a client is answered in its handshake and never before it.      *)
Unanswered == {"new", "backlog", "nodelay", "handshake"}
Inv == /\ TypeOK
       /\ EstablishedIsKept
       /\ \A c \in Conn : handler[c] \in Unanswered => reply[c] = "none"

LEMMA InvInit == Init => Inv
<1> SUFFICES ASSUME Init PROVE Inv
  OBVIOUS
<1>1. TypeOK
  <2>1. pipeq \in Seq(Conn) /\ Len(pipeq) = 0
    BY DEF Init
  <2>2. held \in BOOLEAN /\ broken \in BOOLEAN /\ loop \in {"accept", "ended"} /\ served \subseteq Conn
    BY DEF Init
  <2>3. /\ handler \in [Conn -> {"new", "backlog", "nodelay", "handshake",
                                "metadata", "send", "done"}]
        /\ reply \in [Conn -> {"none", "101", "400"}]
    BY DEF Init
  <2>4. Len(pipeq) <= Capacity
    BY <2>1, ListenerAssumption
  <2>5. QED
    BY <2>1, <2>2, <2>3, <2>4 DEF TypeOK
<1>2. Range(pipeq) = {}
  BY DEF Init, Range
<1>3. QED
  BY <1>1, <1>2 DEF Init, Inv, EstablishedIsKept, Unanswered

\* A connection goes on within its handler, or ends, without having been
\* answered, or the loop's end closes the backlog.
LEMMA InvStep == Inv /\ [Next]_vars => Inv'
<1> SUFFICES ASSUME Inv, [Next]_vars PROVE Inv'
  OBVIOUS
<1> USE ListenerAssumption DEF Inv, TypeOK, Unanswered
<1>1. ASSUME NEW c \in Conn, Connect(c) PROVE Inv'
  BY <1>1 DEF Connect, Goes, EstablishedIsKept
<1>2. ASSUME NEW c \in Conn, AcceptConn(c) PROVE Inv'
  BY <1>2 DEF AcceptConn, Goes, EstablishedIsKept
<1>3. CASE LoopEnds
  BY <1>3 DEF LoopEnds, EstablishedIsKept
<1>4. ASSUME NEW c \in Conn, SetNodelay(c) PROVE Inv'
  BY <1>4 DEF SetNodelay, Goes, EstablishedIsKept
<1>5. ASSUME NEW c \in Conn, Request(c) PROVE Inv'
  BY <1>5 DEF Request, Goes, EstablishedIsKept
<1>6. ASSUME NEW c \in Conn, HandshakeError(c) PROVE Inv'
  BY <1>6 DEF HandshakeError, Goes, EstablishedIsKept
<1>7. ASSUME NEW c \in Conn, NewPipe(c) PROVE Inv'
  BY <1>7 DEF NewPipe, Goes, EstablishedIsKept
<1>8. ASSUME NEW c \in Conn, SendPipe(c) PROVE Inv'
  <2>1. /\ pipeq' \in Seq(Conn) /\ Len(pipeq') = Len(pipeq) + 1
        /\ Range(pipeq') = Range(pipeq) \cup {c}
    BY <1>8, RangeOfAppend DEF SendPipe
  <2>2. Len(pipeq') <= Capacity
    BY <1>8, <2>1 DEF SendPipe, Full
  <2>3. handler' = [handler EXCEPT ![c] = "done"] /\ handler[c] = "send"
        /\ UNCHANGED <<held, loop, reply, served, broken>>
    BY <1>8 DEF SendPipe, Goes
  <2>4. {d \in Conn : handler[d] \in {"metadata", "send"}}
          = {d \in Conn : handler'[d] \in {"metadata", "send"}} \cup {c}
    BY <2>3
  <2>5. EstablishedIsKept'
    BY <2>1, <2>3, <2>4 DEF EstablishedIsKept
  <2>6. TypeOK'
    BY <2>1, <2>2, <2>3
  <2>7. QED
    BY <2>3, <2>5, <2>6
<1>9. ASSUME NEW c \in Conn, SendPipeClosed(c) PROVE Inv'
  BY <1>9 DEF SendPipeClosed, Goes, EstablishedIsKept
<1>10. CASE Accept
  <2>1. /\ Head(pipeq) \in Conn /\ pipeq' \in Seq(Conn) /\ Len(pipeq') = Len(pipeq) - 1
        /\ Range(pipeq) = {Head(pipeq)} \cup Range(pipeq')
    BY <1>10, RangeOfRest DEF Accept
  <2>2. QED
    BY <1>10, <2>1 DEF Accept, EstablishedIsKept
<1>11. CASE AcceptBroken \/ DropListener \/ UNCHANGED vars
  <2>1. CASE AcceptBroken
    BY <2>1 DEF AcceptBroken, EstablishedIsKept
  <2>2. CASE DropListener
    BY <2>2 DEF DropListener, EstablishedIsKept
  <2>3. CASE UNCHANGED vars
    BY <2>3 DEF vars, EstablishedIsKept
  <2>4. QED
    BY <1>11, <2>1, <2>2, <2>3
<1>12. QED
  BY <1>1, <1>2, <1>3, <1>4, <1>5, <1>6, <1>7, <1>8, <1>9, <1>10, <1>11
     DEF Next, Handler, AcceptError, CancelLoop

(* While the listener is held, the clients told 101 are exactly those with *)
(* a pipe being made, waiting, queued or served.                           *)
THEOREM EstablishedCorrect == Spec => []EstablishedIsKept
<1>1. Inv => EstablishedIsKept
  BY DEF Inv
<1>2. QED
  BY <1>1, InvInit, InvStep, PTL DEF Spec

(* The types of every variable, the bound on the queue among them: the     *)
(* handlers wait with their pipes rather than go over it.                  *)
THEOREM ListenerTypeCorrect == Spec => []TypeOK
<1>1. Inv => TypeOK
  BY DEF Inv
<1>2. QED
  BY <1>1, InvInit, InvStep, PTL DEF Spec

-----------------------------------------------------------------------------
(* Why every key decodes: nobody else gets past the handshake, and a pipe  *)
(* reaches the application only from there.                                *)
KeyedInv == /\ KeysDecode
            /\ \A c \in Conn : handler[c] \in {"metadata", "send"} => c \in Keyed

\* Every step keeps pipes to the clients with a key.
LEMMA KeyedStep == TypeOK /\ KeyedInv /\ [Next]_vars => KeyedInv'
<1> SUFFICES ASSUME TypeOK, KeyedInv, [Next]_vars PROVE KeyedInv'
  OBVIOUS
<1>1. ASSUME NEW c \in Conn,
             \/ Connect(c) \/ AcceptConn(c) \/ SetNodelay(c) \/ Request(c)
             \/ HandshakeError(c) \/ NewPipe(c) \/ SendPipeClosed(c)
      PROVE  KeyedInv'
  <2>1. UNCHANGED <<pipeq, served>>
    BY <1>1 DEF Connect, AcceptConn, SetNodelay, Request, HandshakeError, NewPipe, SendPipeClosed
  <2>2. \E h : /\ handler' = [handler EXCEPT ![c] = h]
               /\ h \in {"metadata", "send"} => c \in Keyed
    BY <1>1 DEF Connect, AcceptConn, SetNodelay, Request, HandshakeError, NewPipe, SendPipeClosed,
                Goes, KeyedInv
  <2>3. QED
    BY <2>1, <2>2 DEF TypeOK, KeyedInv, KeysDecode
<1>2. ASSUME NEW c \in Conn, SendPipe(c) PROVE KeyedInv'
  <2>1. Range(pipeq') = Range(pipeq) \cup {c} /\ c \in Keyed /\ served' = served
    BY <1>2, RangeOfAppend DEF SendPipe, TypeOK, KeyedInv
  <2>2. handler' = [handler EXCEPT ![c] = "done"]
    BY <1>2 DEF SendPipe, Goes
  <2>3. QED
    BY <2>1, <2>2 DEF TypeOK, KeyedInv, KeysDecode
<1>3. CASE Accept
  <2>1. /\ Range(pipeq) = {Head(pipeq)} \cup Range(pipeq')
        /\ served' = served \cup {Head(pipeq)} /\ handler' = handler
    BY <1>3, RangeOfRest DEF Accept, TypeOK
  <2>2. QED
    BY <2>1 DEF KeyedInv, KeysDecode
<1>4. CASE LoopEnds
  BY <1>4 DEF LoopEnds, TypeOK, KeyedInv, KeysDecode
<1>5. CASE AcceptBroken \/ DropListener \/ UNCHANGED vars
  BY <1>5 DEF AcceptBroken, DropListener, vars, KeyedInv, KeysDecode
<1>6. QED
  BY <1>1, <1>2, <1>3, <1>4, <1>5 DEF Next, Handler, AcceptError, CancelLoop

(* The key of a pipe that reaches the application decodes, for any set of  *)
(* clients: the decoding in the wsocks server never fails.                 *)
THEOREM KeysCorrect == Spec => []KeysDecode
<1>1. Init => KeyedInv
  BY DEF Init, KeyedInv, KeysDecode, Range
<1>2. Inv => TypeOK
  BY DEF Inv
<1>3. KeyedInv => KeysDecode
  BY DEF KeyedInv
<1>4. QED
  BY <1>1, <1>2, <1>3, InvInit, InvStep, KeyedStep, PTL DEF Spec

-----------------------------------------------------------------------------
(* Why BrokenPipe is final: accept returns it with an empty queue and no   *)
(* sender, and only a sender could make another one or fill the queue.     *)
Ended == broken => pipeq = <<>> /\ SendersGone

LEMMA SendersStayGone ==
  ASSUME SendersGone, TypeOK, Next
  PROVE  SendersGone' /\ (pipeq = <<>> => UNCHANGED <<pipeq, served>>)
<1> USE DEF SendersGone, InHandler, TypeOK
<1>1. ASSUME NEW c \in Conn, Handler(c) PROVE FALSE
  BY <1>1 DEF Handler, SetNodelay, Request, HandshakeError, NewPipe, SendPipe, SendPipeClosed
<1>2. ASSUME NEW c \in Conn, Connect(c) \/ AcceptConn(c) PROVE FALSE
  BY <1>2 DEF Connect, AcceptConn
<1>3. CASE AcceptError \/ CancelLoop
  BY <1>3 DEF AcceptError, CancelLoop, LoopEnds
<1>4. CASE Accept
  BY <1>4 DEF Accept
<1>5. CASE AcceptBroken \/ DropListener
  BY <1>5 DEF AcceptBroken, DropListener
<1>6. QED
  BY <1>1, <1>2, <1>3, <1>4, <1>5 DEF Next

LEMMA EndedStep ==
  ASSUME TypeOK, Ended, [Next]_vars
  PROVE  Ended' /\ (broken => UNCHANGED <<pipeq, served>>)
<1>1. CASE broken
  <2>1. CASE Next
    BY <1>1, <2>1, SendersStayGone DEF Ended
  <2>2. CASE UNCHANGED vars
    BY <1>1, <2>2 DEF Ended, vars, SendersGone, InHandler
  <2>3. QED
    BY <2>1, <2>2
<1>2. CASE ~broken /\ ~broken'
  BY <1>2 DEF Ended
<1>3. CASE ~broken /\ broken'
  <2>1. AcceptBroken
    BY <1>3 DEF Next, Handler, Connect, AcceptConn, SetNodelay, Request, HandshakeError,
                NewPipe, SendPipe, SendPipeClosed, AcceptError, CancelLoop, LoopEnds,
                Accept, DropListener, vars
  <2>2. QED
    BY <1>3, <2>1 DEF AcceptBroken, Ended, SendersGone, InHandler
<1>4. QED
  BY <1>1, <1>2, <1>3

(* After accept has returned BrokenPipe nothing is queued and nothing      *)
(* served ever again.                                                      *)
THEOREM BrokenIsFinalCorrect == Spec => BrokenIsFinal
<1>1. Init => Ended
  BY DEF Init, Ended
<1>2. Inv => TypeOK
  BY DEF Inv
<1>3. TypeOK /\ Ended /\ [Next]_vars => Ended' /\ (broken => UNCHANGED <<pipeq, served>>)
  BY EndedStep
<1>4. QED
  BY <1>1, <1>2, <1>3, InvInit, InvStep, PTL DEF Spec, BrokenIsFinal

\* After BrokenPipe the clients told 101 are those that accept has returned.
BrokenSettles == broken /\ held => {c \in Conn : reply[c] = "101"} = served

(* BrokenPipe settles every client's account: what the listener's owner    *)
(* gets it for is that each client told 101 has had its pipe returned by   *)
(* accept.  Neither the loop's end nor the queue's loses one.              *)
THEOREM BrokenSettlesCorrect == Spec => []BrokenSettles
<1>1. Init => Ended
  BY DEF Init, Ended
<1>2. Inv => TypeOK
  BY DEF Inv
<1>3. TypeOK /\ Ended /\ [Next]_vars => Ended'
  BY EndedStep
<1>4. Inv /\ Ended => BrokenSettles
  <2> SUFFICES ASSUME Inv, Ended, broken, held
               PROVE  {c \in Conn : reply[c] = "101"} = served
    BY DEF BrokenSettles
  <2>1. Range(pipeq) = {}
    BY DEF Ended, Range
  <2>2. {c \in Conn : handler[c] \in {"metadata", "send"}} = {}
    BY DEF Ended, SendersGone, InHandler
  <2>3. QED
    BY <2>1, <2>2 DEF Inv, EstablishedIsKept
<1>5. QED
  BY <1>1, <1>2, <1>3, <1>4, InvInit, InvStep, PTL DEF Spec

-----------------------------------------------------------------------------
(* A connection's pipe is queued once and returned once.                   *)

Unique(q) == \A i, j \in DOMAIN q : q[i] = q[j] => i = j

\* No pipe is queued twice, or queued and already returned, and the handler
\* of a pipe that is queued or returned has nothing left to send.
NoPipeTwice == /\ Unique(pipeq)
               /\ Range(pipeq) \cap served = {}
               /\ \A c \in Range(pipeq) \cup served : handler[c] = "done"

\* Queueing what is not queued yet, and taking the first.
LEMMA UniqueAppend ==
  ASSUME NEW q \in Seq(Conn), NEW c \in Conn, Unique(q), c \notin Range(q)
  PROVE  Unique(Append(q, c))
<1> DEFINE a == Append(q, c)
<1>1. /\ DOMAIN q = 1..Len(q) /\ Len(q) \in Nat /\ DOMAIN a = 1..(Len(q) + 1)
      /\ (\A i \in 1..Len(q) : a[i] = q[i]) /\ a[Len(q) + 1] = c
  OBVIOUS
<1> HIDE DEF a
<1>2. \A i \in 1..(Len(q) + 1) : i \in 1..Len(q) \/ i = Len(q) + 1
  BY <1>1
<1>3. \A i \in 1..Len(q) : a[i] # c
  BY <1>1 DEF Range
<1>4. ASSUME NEW i \in 1..(Len(q) + 1), NEW j \in 1..(Len(q) + 1), a[i] = a[j] PROVE i = j
  <2>1. CASE i \in 1..Len(q) /\ j \in 1..Len(q)
    BY <1>1, <1>4, <2>1 DEF Unique
  <2>2. CASE i = Len(q) + 1 \/ j = Len(q) + 1
    BY <1>1, <1>2, <1>3, <1>4, <2>2
  <2>3. QED
    BY <1>2, <2>1, <2>2
<1>5. QED
  BY <1>1, <1>4 DEF Unique, a

LEMMA UniqueRest ==
  ASSUME NEW q \in Seq(Conn), q # <<>>, Unique(q)
  PROVE  Unique(Tail(q)) /\ Head(q) \notin Range(Tail(q))
<1> DEFINE t == Tail(q)
<1>1. /\ DOMAIN q = 1..Len(q) /\ Len(q) \in Nat \ {0} /\ DOMAIN t = 1..(Len(q) - 1)
      /\ (\A i \in 1..(Len(q) - 1) : t[i] = q[i + 1]) /\ Head(q) = q[1]
  OBVIOUS
<1> HIDE DEF t
<1>2. \A i \in DOMAIN t : i \in Int /\ i + 1 \in DOMAIN q /\ i + 1 # 1 /\ t[i] = q[i + 1]
  BY <1>1
<1>3. 1 \in DOMAIN q
  BY <1>1
<1>4. ASSUME NEW i \in DOMAIN t, NEW j \in DOMAIN t, t[i] = t[j] PROVE i = j
  <2>1. i + 1 = j + 1
    BY <1>2, <1>4 DEF Unique
  <2>2. QED
    BY <1>2, <2>1
<1>5. \A i \in DOMAIN t : t[i] # q[1]
  BY <1>2, <1>3 DEF Unique
<1>6. QED
  BY <1>1, <1>4, <1>5 DEF Unique, Range, t

LEMMA NoPipeTwiceStep == TypeOK /\ NoPipeTwice /\ [Next]_vars => NoPipeTwice'
<1> SUFFICES ASSUME TypeOK, NoPipeTwice, [Next]_vars PROVE NoPipeTwice'
  OBVIOUS
<1>1. Range(pipeq) \subseteq Conn
  BY DEF TypeOK, Range
<1>2. ASSUME UNCHANGED <<pipeq, served>>,
             \A c \in Conn : handler[c] = "done" => handler'[c] = "done"
      PROVE  NoPipeTwice'
  BY <1>1, <1>2 DEF NoPipeTwice, Unique, TypeOK
<1>3. ASSUME NEW c \in Conn, Connect(c) \/ AcceptConn(c) PROVE NoPipeTwice'
  BY <1>2, <1>3 DEF Connect, AcceptConn, Goes, TypeOK
<1>4. ASSUME NEW c \in Conn, SetNodelay(c) \/ Request(c) \/ HandshakeError(c) \/ NewPipe(c)
                               \/ SendPipeClosed(c)
      PROVE  NoPipeTwice'
  BY <1>2, <1>4 DEF SetNodelay, Request, HandshakeError, NewPipe, SendPipeClosed, Goes, TypeOK
<1>5. ASSUME NEW c \in Conn, SendPipe(c) PROVE NoPipeTwice'
  <2>1. /\ handler[c] = "send" /\ handler' = [handler EXCEPT ![c] = "done"]
        /\ pipeq' = Append(pipeq, c) /\ served' = served
    BY <1>5 DEF SendPipe, Goes
  <2>2. c \notin Range(pipeq) \cup served
    BY <2>1 DEF NoPipeTwice
  <2>3. Range(pipeq') = Range(pipeq) \cup {c} /\ Unique(pipeq')
    BY <2>1, <2>2, RangeOfAppend, UniqueAppend DEF TypeOK, NoPipeTwice
  <2>4. \A d \in Conn : handler'[d] = IF d = c THEN "done" ELSE handler[d]
    BY <2>1 DEF TypeOK
  <2>5. QED
    BY <1>1, <2>1, <2>2, <2>3, <2>4 DEF NoPipeTwice, TypeOK
<1>6. CASE Accept
  <2>1. /\ pipeq # <<>> /\ pipeq' = Tail(pipeq) /\ handler' = handler
        /\ served' = served \cup {Head(pipeq)}
    BY <1>6 DEF Accept
  <2>2. Range(pipeq) = {Head(pipeq)} \cup Range(pipeq')
    BY <2>1, RangeOfRest DEF TypeOK
  <2>3. Unique(pipeq') /\ Head(pipeq) \notin Range(pipeq')
    BY <2>1, UniqueRest DEF TypeOK, NoPipeTwice
  <2>4. QED
    BY <2>1, <2>2, <2>3 DEF NoPipeTwice
<1>7. CASE LoopEnds
  BY <1>2, <1>7 DEF LoopEnds, TypeOK
<1>8. CASE AcceptBroken \/ DropListener \/ UNCHANGED vars
  BY <1>2, <1>8 DEF AcceptBroken, DropListener, vars
<1>9. QED
  BY <1>3, <1>4, <1>5, <1>6, <1>7, <1>8 DEF Next, Handler, AcceptError, CancelLoop

(* accept never returns the pipe of one connection twice: a handler sends  *)
(* once, although it holds its connection until its send has room, and the *)
(* queue gives each pipe to one call.                                      *)
THEOREM NoPipeTwiceCorrect == Spec => []NoPipeTwice
<1>1. Init => NoPipeTwice
  BY DEF Init, NoPipeTwice, Unique, Range
<1>2. Inv => TypeOK
  BY DEF Inv
<1>3. QED
  BY <1>1, <1>2, InvInit, InvStep, NoPipeTwiceStep, PTL DEF Spec
=============================================================================
