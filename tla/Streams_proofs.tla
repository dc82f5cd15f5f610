--------------------------- MODULE Streams_proofs ---------------------------
(***************************************************************************)
(* What the abstract streams promise, and the longest one there is.        *)
(*                                                                         *)
(* The two abstract streams keep their promises, whatever their            *)
(* environment puts into them: a LossyStream, which either direction of a  *)
(* pipe is shown to implement, gives what it gives in order, without       *)
(* repetition or invention; a CutStream, which either direction of a       *)
(* proxied connection implements, gives the first bytes, all of them and   *)
(* each once.  The second is a case of the first.                          *)
(*                                                                         *)
(* Two pipes over one websocket, from poll_write at one end to poll_read   *)
(* at the other, are a LossyStream again, for any capacity of the          *)
(* channels, room on the connection and buffers of the reader.  What is    *)
(* known of one pipe (ObfsWsPipe_proofs) is used for each end.             *)
(***************************************************************************)
EXTENDS PipePair, ObfsWsPipe_proofs

\* An abstract stream, by itself.
VARIABLES input, chan, output, cut

Lossy == INSTANCE LossyStream
Short == INSTANCE CutStream

-----------------------------------------------------------------------------
(* The LossyStream.                                                        *)

\* What Put adds: a sequence in order, above everything put before.
LEMMA NewElements ==
  ASSUME NEW a \in Nat, NEW b \in Nat, b > a
  PROVE  LET new == [i \in 1..(b - a) |-> a + i]
         IN  /\ new \in Seq(1..b) /\ new \in Seq(Nat)
             /\ Increasing(new)
             /\ \A j \in DOMAIN new : new[j] > a
<1> DEFINE new == [i \in 1..(b - a) |-> a + i]
<1>1. b - a \in Nat
  OBVIOUS
<1>2. \A i \in 1..(b - a) : i \in Nat /\ i > 0 /\ a + i \in 1..b /\ a + i \in Nat /\ a + i > a
  OBVIOUS
<1>3. new \in [1..(b - a) -> 1..b] /\ new \in [1..(b - a) -> Nat]
  BY <1>2
<1>4. new \in Seq(1..b) /\ new \in Seq(Nat)
  BY <1>1, <1>3, SeqDef
<1>5. Increasing(new)
  BY <1>2 DEF Increasing
<1>6. QED
  BY <1>2, <1>4, <1>5

\* What has been taken, what is taken now and what is left may be grouped
\* either way.
LEMMA Associative ==
  ASSUME NEW n \in Nat, NEW r \in Seq(1..n), NEW s \in Seq(1..n), NEW t \in Seq(1..n)
  PROVE  (r \o s) \o t = r \o (s \o t)
OBVIOUS

\* What Get does: moving a prefix across leaves the whole as it is.
LEMMA MoveFront ==
  ASSUME NEW n \in Nat, NEW o \in Seq(1..n), NEW c \in Seq(1..n), NEW k \in 1..Len(c)
  PROVE  /\ o \o SubSeq(c, 1, k) \in Seq(1..n) /\ SubSeq(c, k + 1, Len(c)) \in Seq(1..n)
         /\ (o \o SubSeq(c, 1, k)) \o SubSeq(c, k + 1, Len(c)) = o \o c
<1> DEFINE S == 1..n
<1>0. o \in Seq(S) /\ c \in Seq(S)
  OBVIOUS
<1> HIDE DEF S
<1> DEFINE front == SubSeq(c, 1, k)
           back  == SubSeq(c, k + 1, Len(c))
<1>1. Len(c) \in Nat /\ \A i \in 1..Len(c) : c[i] \in S
  BY <1>0, LenProperties
<1>2. /\ 1 \in Int /\ k \in Int /\ k + 1 \in Int
      /\ 1..k \subseteq 1..Len(c) /\ (k + 1)..Len(c) \subseteq 1..Len(c)
      /\ 1 \in 1..(Len(c) + 1) /\ k \in (1 - 1)..Len(c) /\ Len(c) \in k..Len(c)
  BY <1>1
<1>3. front \in Seq(S)
  BY <1>1, <1>2, SubSeqProperties
<1>4. back \in Seq(S)
  BY <1>1, <1>2, SubSeqProperties
<1>5. front \o back = c
  BY <1>0, <1>2, ConcatAdjacentSubSeq, SubSeqFull
<1> HIDE DEF front, back
<1>6. o \o front \in Seq(S)
  BY <1>0, <1>3, ConcatProperties
<1>7. (o \o front) \o back = o \o (front \o back)
  <2>1. o \in Seq(1..n) /\ front \in Seq(1..n) /\ back \in Seq(1..n)
    BY <1>3, <1>4 DEF S
  <2>2. QED
    BY <2>1, Associative
<1>8. QED
  BY <1>4, <1>5, <1>6, <1>7 DEF front, back, S

\* InOrder, with the facts about increasing sequences applicable.
OrderInv == /\ input \in Nat
            /\ output \in Seq(1..input) /\ chan \in Seq(1..input)
            /\ Increasing(output \o chan)

LEMMA OrderStep ==
  ASSUME OrderInv, [Lossy!Next]_Lossy!vars
  PROVE  OrderInv'
<1>0. /\ input \in Nat
      /\ output \in Seq(1..input) /\ chan \in Seq(1..input)
  BY DEF OrderInv
<1>1. output \in Seq(Nat) /\ chan \in Seq(Nat)
  BY <1>0
<1>2. Increasing(output) /\ Increasing(chan) /\ Below(output, chan)
  BY <1>1, IncreasingParts DEF OrderInv
<1>3. CASE Lossy!Put
  <2> DEFINE new == [i \in 1..(input' - input) |-> input + i]
  <2>1. input' \in Nat /\ input' > input /\ output' = output
    BY <1>3 DEF Lossy!Put
  <2>2. new \in Seq(Nat) /\ new \in Seq(1..input') /\ Increasing(new)
    BY <1>0, <2>1, NewElements
  <2>3. output' \in Seq(1..input') /\ chan \in Seq(1..input')
    BY <1>0, <2>1
  <2>4. CASE chan' = chan
    BY <2>1, <2>3, <2>4 DEF OrderInv
  <2>5. CASE chan' = chan \o new
    <3>1. \A j \in DOMAIN new : new[j] > input
      BY <1>0, <2>1, NewElements
    <3>2. (\A i \in DOMAIN chan : chan[i] <= input) /\ (\A i \in DOMAIN output : output[i] <= input)
      <4>1. /\ DOMAIN chan = 1..Len(chan) /\ chan \in [1..Len(chan) -> 1..input]
            /\ DOMAIN output = 1..Len(output) /\ output \in [1..Len(output) -> 1..input]
        BY <1>0, LenProperties
      <4>2. \A n \in 1..input : n <= input
        BY <1>0
      <4>3. QED
        BY <4>1, <4>2
    <3>3. Below(chan, new) /\ Below(output, new)
      <4> HIDE DEF new
      <4>1. /\ \A j \in DOMAIN new : new[j] \in Nat
            /\ \A i \in DOMAIN chan : chan[i] \in Nat
            /\ \A i \in DOMAIN output : output[i] \in Nat
        BY <1>1, <2>2
      <4>2. QED
        BY <1>0, <3>1, <3>2, <4>1 DEF Below
    <3>4. chan' \in Seq(Nat) /\ chan' \in Seq(1..input')
      BY <1>1, <2>2, <2>3, <2>5
    <3>5. Increasing(chan')
      BY <1>1, <1>2, <2>2, <2>5, <3>3, IncreasingParts
    <3>6. Below(output, chan')
      <4> SUFFICES ASSUME NEW i \in DOMAIN output, NEW j \in DOMAIN chan'
                   PROVE  output[i] < chan'[j]
        BY DEF Below
      <4>1. CASE j \in DOMAIN chan
        <5>1. chan'[j] = chan[j]
          BY <1>1, <2>2, <2>5, <4>1
        <5>2. QED
          BY <1>2, <4>1, <5>1 DEF Below
      <4>2. CASE j \notin DOMAIN chan
        <5>1. j - Len(chan) \in DOMAIN new /\ chan'[j] = new[j - Len(chan)]
          <6> HIDE DEF new
          <6>1. /\ DOMAIN chan' = 1..(Len(chan) + Len(new))
                /\ DOMAIN chan = 1..Len(chan) /\ DOMAIN new = 1..Len(new)
                /\ Len(chan) \in Nat /\ Len(new) \in Nat
            BY <1>1, <2>2, <2>5
          <6>2. j - Len(chan) \in DOMAIN new /\ j \in 1..(Len(chan) + Len(new)) /\ ~(j <= Len(chan))
            BY <4>2, <6>1
          <6>3. QED
            BY <1>1, <2>2, <2>5, <6>2, ConcatProperties
        <5>2. QED
          BY <3>3, <5>1 DEF Below
      <4>3. QED
        BY <4>1, <4>2
    <3>7. Increasing(output' \o chan')
      BY <1>1, <1>2, <2>1, <3>4, <3>5, <3>6, IncreasingParts
    <3>8. QED
      BY <2>1, <2>3, <3>4, <3>7 DEF OrderInv
  <2>6. QED
    BY <1>3, <2>4, <2>5 DEF Lossy!Put
<1>4. CASE Lossy!Lose
  <2>1. chan' \in Seq(Lossy!Elements(chan)) /\ Increasing(chan') /\ UNCHANGED <<input, output>>
    BY <1>4 DEF Lossy!Lose, Lossy!Ascending, Increasing
  <2>2. \A j \in DOMAIN chan' : \E k \in DOMAIN chan : chan'[j] = chan[k]
    BY <2>1 DEF Lossy!Elements
  <2>3. Lossy!Elements(chan) \subseteq 1..input
    BY <1>0 DEF Lossy!Elements
  <2>4. chan' \in Seq(1..input) /\ chan' \in Seq(Nat)
    BY <1>0, <2>1, <2>3
  <2>5. Below(output, chan')
    BY <1>2, <2>2 DEF Below
  <2>6. QED
    BY <1>0, <1>1, <1>2, <2>1, <2>4, <2>5, IncreasingParts DEF OrderInv
<1>5. CASE Lossy!Get
  <2>1. PICK k \in 1..Len(chan) : /\ output' = output \o SubSeq(chan, 1, k)
                                  /\ chan' = SubSeq(chan, k + 1, Len(chan))
    BY <1>5 DEF Lossy!Get
  <2>2. input' = input
    BY <1>5 DEF Lossy!Get
  <2>3. chan' \in Seq(1..input) /\ output' \in Seq(1..input) /\ output' \o chan' = output \o chan
    <3>1. /\ output \o SubSeq(chan, 1, k) \in Seq(1..input)
          /\ SubSeq(chan, k + 1, Len(chan)) \in Seq(1..input)
          /\ (output \o SubSeq(chan, 1, k)) \o SubSeq(chan, k + 1, Len(chan)) = output \o chan
      BY <1>0, MoveFront
    <3>2. QED
      BY <2>1, <3>1
  <2>4. Increasing(output' \o chan')
    BY <2>3 DEF OrderInv
  <2>5. QED
    BY <1>0, <2>2, <2>3, <2>4 DEF OrderInv
<1>6. CASE UNCHANGED Lossy!vars
  BY <1>6 DEF Lossy!vars, OrderInv
<1>7. QED
  BY <1>3, <1>4, <1>5, <1>6 DEF Lossy!Next

(* Elements leave the stream in the order in which they were put, without  *)
(* repetition: messages of poll_write reaching the websocket, bytes of the *)
(* websocket reaching a reader.                                            *)
THEOREM StreamInOrder == Lossy!Spec => []Lossy!InOrder
<1>1. Lossy!Init => OrderInv
  BY DEF Lossy!Init, OrderInv, Increasing
<1>2. OrderInv => Lossy!InOrder
  BY DEF Lossy!InOrder, Lossy!Ascending, OrderInv, Increasing
<1>3. QED
  BY <1>1, <1>2, OrderStep, PTL DEF Lossy!Spec

-----------------------------------------------------------------------------
(* The CutStream.                                                          *)

\* UpTo(n) is a sequence.
LEMMA UpToType == ASSUME NEW n \in Nat PROVE Short!UpTo(n) \in Seq(Nat) /\ Len(Short!UpTo(n)) = n
<1>1. \A j \in 1..n : j \in Nat
  OBVIOUS
<1>2. Short!UpTo(n) \in [1..n -> Nat]
  BY <1>1 DEF Short!UpTo
<1>3. QED
  BY <1>2, SeqDef DEF Short!UpTo

\* The first n bytes and the m after them are the first n + m.
LEMMA UpToExtends ==
  ASSUME NEW n \in Nat, NEW m \in Nat
  PROVE  /\ [i \in 1..m |-> n + i] \in Seq(Nat)
         /\ Short!UpTo(n) \o [i \in 1..m |-> n + i] = Short!UpTo(n + m)
<1> DEFINE more == [i \in 1..m |-> n + i]
<1>1. more \in Seq(Nat) /\ Len(more) = m
  <2>1. \A j \in 1..m : n + j \in Nat
    OBVIOUS
  <2>2. more \in [1..m -> Nat]
    BY <2>1
  <2>3. QED
    BY <2>2, SeqDef
<1>0. \A j \in 1..m : more[j] = n + j
  OBVIOUS
<1> HIDE DEF more
<1>2. /\ Short!UpTo(n) \in Seq(Nat) /\ Len(Short!UpTo(n)) = n
      /\ Short!UpTo(n + m) \in Seq(Nat) /\ Len(Short!UpTo(n + m)) = n + m
  BY UpToType
<1>3. Short!UpTo(n) \o more \in Seq(Nat) /\ Len(Short!UpTo(n) \o more) = n + m
  BY <1>1, <1>2, ConcatProperties
<1>4. ASSUME NEW j \in 1..(n + m) PROVE (Short!UpTo(n) \o more)[j] = Short!UpTo(n + m)[j]
  <2>1. Short!UpTo(n + m)[j] = j
    BY DEF Short!UpTo
  <2>4. /\ j \in 1..(Len(Short!UpTo(n)) + Len(more))
        /\ j <= n => j \in 1..n
        /\ ~(j <= n) => j - n \in 1..m /\ n + (j - n) = j
    BY <1>1, <1>2
  <2>2. CASE j <= n
    <3>1. (Short!UpTo(n) \o more)[j] = Short!UpTo(n)[j] /\ j \in 1..n
      BY <1>1, <1>2, <2>2, <2>4, ConcatProperties
    <3>2. QED
      BY <2>1, <3>1 DEF Short!UpTo
  <2>3. CASE ~(j <= n)
    <3>1. (Short!UpTo(n) \o more)[j] = more[j - n] /\ j - n \in 1..m
      BY <1>1, <1>2, <2>3, <2>4, ConcatProperties
    <3>2. QED
      BY <1>0, <2>1, <2>4, <3>1, <2>3
  <2>5. QED
    BY <2>2, <2>3
<1>5. Short!UpTo(n) \o more = Short!UpTo(n + m)
  BY <1>2, <1>3, <1>4, SeqEqual
<1>6. QED
  BY <1>1, <1>5 DEF more

\* Numbers below another.
LEMMA Difference ==
  ASSUME NEW a \in Nat, NEW b \in Nat, b > a
  PROVE  b - a \in Nat /\ a + (b - a) = b
OBVIOUS

\* Concatenation is associative.
LEMMA Grouping ==
  ASSUME NEW r \in Seq(Nat), NEW s \in Seq(Nat), NEW t \in Seq(Nat)
  PROVE  (r \o s) \o t = r \o (s \o t)
OBVIOUS

\* A sequence is what any of its beginnings and the rest make together.
LEMMA Split ==
  ASSUME NEW s \in Seq(Nat), NEW k \in 0..Len(s)
  PROVE  /\ SubSeq(s, 1, k) \in Seq(Nat) /\ Len(SubSeq(s, 1, k)) = k
         /\ SubSeq(s, k + 1, Len(s)) \in Seq(Nat)
         /\ SubSeq(s, 1, k) \o SubSeq(s, k + 1, Len(s)) = s
<1>1. /\ Len(s) \in Nat /\ k \in Nat /\ k <= Len(s)
      /\ \A i \in 1..Len(s) : s[i] \in Nat
  BY LenProperties
<1>2. /\ 1..k \subseteq 1..Len(s) /\ (k + 1)..Len(s) \subseteq 1..Len(s)
      /\ 1 \in 1..(Len(s) + 1) /\ k \in (1 - 1)..Len(s) /\ Len(s) \in k..Len(s)
  BY <1>1
<1>3. SubSeq(s, 1, k) \in Seq(Nat) /\ Len(SubSeq(s, 1, k)) = k
  BY <1>1, <1>2, SubSeqProperties
<1>4. SubSeq(s, k + 1, Len(s)) \in Seq(Nat)
  BY <1>1, <1>2, SubSeqProperties
<1>5. SubSeq(s, 1, k) \o SubSeq(s, k + 1, Len(s)) = s
  BY <1>2, ConcatAdjacentSubSeq, SubSeqFull
<1>6. QED
  BY <1>3, <1>4, <1>5

-----------------------------------------------------------------------------
CutInv == /\ input \in Nat /\ cut \in BOOLEAN
             /\ output \in Seq(Nat) /\ chan \in Seq(Nat)
             /\ Short!FirstBytes

\* A stream into which nothing has gone.
LEMMA CutInit == ASSUME Short!Init PROVE CutInv
<1>1. <<>> \o <<>> = Short!UpTo(0)
  <2>1. Short!UpTo(0) \in Seq(Nat) /\ Len(Short!UpTo(0)) = 0
    BY UpToType
  <2>2. Short!UpTo(0) = <<>>
    BY <2>1, EmptySeq
  <2>3. QED
    BY <2>2
<1>2. input = 0 /\ chan = <<>> /\ output = <<>> /\ cut = FALSE /\ 0 \in 0..0
  BY DEF Short!Init
<1>3. Short!FirstBytes
  BY <1>1, <1>2 DEF Short!FirstBytes
<1>4. input \in Nat /\ cut \in BOOLEAN /\ output \in Seq(Nat) /\ chan \in Seq(Nat)
  BY <1>2, EmptySeq
<1>5. QED
  BY <1>3, <1>4 DEF CutInv

\* What goes in goes to the end, or nowhere.
LEMMA PutKeeps == ASSUME CutInv, Short!Put PROVE CutInv'
<1>1. PICK n \in 0..input : output \o chan = Short!UpTo(n) /\ (~cut => n = input)
  BY DEF CutInv, Short!FirstBytes
<1>2. input' \in Nat /\ input' > input /\ UNCHANGED <<output, cut>>
  BY DEF Short!Put
<1>3. CASE cut
  <2>1. chan' = chan
    BY <1>3 DEF Short!Put
  <2>2. n \in 0..input'
    BY <1>2 DEF CutInv
  <2>3. QED
    BY <1>1, <1>2, <1>3, <2>1, <2>2 DEF CutInv, Short!FirstBytes
<1>4. CASE ~cut
  <2> DEFINE m    == input' - input
             more == [i \in 1..m |-> input + i]
  <2>1. /\ chan' = chan \o more /\ input \in Nat
        /\ m \in Nat /\ input + m = input'
    <3>1. chan' = chan \o more /\ input \in Nat
      BY <1>4 DEF Short!Put, CutInv
    <3>2. input \in Nat /\ input' \in Nat /\ input' > input
      BY <1>2, <3>1
    <3>3. m \in Nat /\ input + m = input'
      BY <3>2, Difference
    <3>4. QED
      BY <3>1, <3>3
  <2> HIDE DEF m
  <2>2. more \in Seq(Nat) /\ Short!UpTo(input) \o more = Short!UpTo(input')
    BY <2>1, UpToExtends
  <2> HIDE DEF more
  <2>3. chan' \in Seq(Nat) /\ output' \o chan' = (output \o chan) \o more
    BY <1>2, <2>1, <2>2, Grouping, ConcatProperties DEF CutInv
  <2>4. output' \o chan' = Short!UpTo(input') /\ input' \in 0..input'
    BY <1>1, <1>2, <1>4, <2>2, <2>3
  <2>5. QED
    BY <1>2, <2>3, <2>4 DEF CutInv, Short!FirstBytes
<1>5. QED
  BY <1>3, <1>4 DEF CutInv

\* Moving the front of chan to the end of output changes nothing of the whole.
LEMMA GetKeeps == ASSUME CutInv, Short!Get PROVE CutInv'
<1>1. PICK k \in 1..Len(chan) : /\ output' = output \o SubSeq(chan, 1, k)
                                /\ chan' = SubSeq(chan, k + 1, Len(chan))
  BY DEF Short!Get
<1>2. UNCHANGED <<input, cut>> /\ chan \in Seq(Nat) /\ output \in Seq(Nat)
  BY DEF Short!Get, CutInv
<1>3. k \in 0..Len(chan)
  BY <1>2, LenProperties
<1> DEFINE front == SubSeq(chan, 1, k)
<1>4. front \in Seq(Nat) /\ chan' \in Seq(Nat) /\ front \o chan' = chan
  BY <1>1, <1>2, <1>3, Split
<1> HIDE DEF front
<1>5. output' = output \o front
  BY <1>1 DEF front
<1>6. output' \in Seq(Nat) /\ output' \o chan' = output \o chan
  BY <1>2, <1>4, <1>5, Grouping, ConcatProperties
<1>7. QED
  BY <1>2, <1>4, <1>6 DEF CutInv, Short!FirstBytes

\* Cutting takes an end away.
LEMMA CutKeeps == ASSUME CutInv, Short!Cut PROVE CutInv'
<1>1. PICK n \in 0..input : output \o chan = Short!UpTo(n)
  BY DEF CutInv, Short!FirstBytes
<1>2. PICK k \in 0..Len(chan) : chan' = SubSeq(chan, 1, k)
  BY DEF Short!Cut
<1>3. /\ cut' = TRUE /\ UNCHANGED <<input, output>>
      /\ input \in Nat /\ n \in Nat /\ output \in Seq(Nat) /\ chan \in Seq(Nat)
  BY <1>1 DEF Short!Cut, CutInv
<1>4. chan' \in Seq(Nat) /\ Len(chan') = k
  BY <1>2, <1>3, Split
<1> DEFINE m == Len(output) + k
<1>5. /\ Len(output) \in Nat /\ Len(chan) \in Nat /\ k \in Nat /\ k <= Len(chan)
      /\ Len(output) + Len(chan) = n
  <2>1. Len(output) \in Nat /\ Len(chan) \in Nat
    BY <1>3, LenProperties
  <2>2. Len(output \o chan) = n
    BY <1>1, <1>3, UpToType
  <2>3. QED
    BY <1>3, <2>1, <2>2, ConcatProperties
<1>6. m \in Nat /\ m <= n
  BY <1>5
<1>7. output \o chan' = Short!UpTo(m)
  <2>1. output \o chan' \in Seq(Nat) /\ Len(output \o chan') = m
    BY <1>3, <1>4, ConcatProperties
  <2>2. ASSUME NEW j \in 1..m PROVE (output \o chan')[j] = Short!UpTo(m)[j]
    <3>1. j \in 1..n /\ j \in 1..m /\ j \in 1..(Len(output) + Len(chan'))
                     /\ j \in 1..(Len(output) + Len(chan))
      BY <1>3, <1>4, <1>5, <1>6
    <3>2. (output \o chan)[j] = j /\ Short!UpTo(m)[j] = j
      BY <1>1, <3>1 DEF Short!UpTo
    <3>3. CASE j <= Len(output)
      <4>1. (output \o chan')[j] = output[j] /\ (output \o chan)[j] = output[j]
        BY <1>3, <1>4, <3>1, <3>3, ConcatProperties
      <4>2. QED
        BY <3>2, <4>1
    <3>4. CASE ~(j <= Len(output))
      <4>1. /\ (output \o chan')[j] = chan'[j - Len(output)]
            /\ (output \o chan)[j] = chan[j - Len(output)]
            /\ j - Len(output) \in 1..k
        BY <1>3, <1>4, <1>5, <3>1, <3>4, ConcatProperties
      <4>2. chan'[j - Len(output)] = chan[j - Len(output)]
        BY <1>2, <1>3, <1>5, <4>1
      <4>3. QED
        BY <3>2, <4>1, <4>2
    <3>5. QED
      BY <3>3, <3>4
  <2>3. Short!UpTo(m) \in Seq(Nat) /\ Len(Short!UpTo(m)) = m
    BY <1>6, UpToType
  <2> HIDE DEF m
  <2>4. QED
    BY <2>1, <2>2, <2>3, SeqEqual
<1>8. m \in 0..input'
  BY <1>3, <1>5
<1> HIDE DEF m
<1>9. Short!FirstBytes'
  BY <1>3, <1>7, <1>8 DEF Short!FirstBytes
<1>10. QED
  BY <1>3, <1>4, <1>9 DEF CutInv

\* Each step keeps the invariant.
LEMMA CutInvStep == ASSUME CutInv, [Short!Next]_Short!vars PROVE CutInv'
<1>1. CASE UNCHANGED Short!vars
  BY <1>1 DEF Short!vars, CutInv, Short!FirstBytes
<1>2. QED
  BY <1>1, PutKeeps, GetKeeps, CutKeeps DEF Short!Next

(* The bytes of either direction of a proxied connection come out in order *)
(* and without a gap: those that came out and those on their way are the   *)
(* first bytes read, and all of them as long as the stream is not cut.     *)
THEOREM FirstBytesFirst == Short!Spec => []Short!FirstBytes
<1>1. CutInv => Short!FirstBytes
  BY DEF CutInv
<1>2. QED
  BY <1>1, CutInit, CutInvStep, PTL DEF Short!Spec

\* What is cut off was a part, and what is left keeps its order.
LEMMA CutIsLose == ASSUME CutInv, Short!Cut PROVE Lossy!Lose
<1>1. PICK k \in 0..Len(chan) : chan' = SubSeq(chan, 1, k)
  BY DEF Short!Cut
<1>2. /\ UNCHANGED <<input, output>> /\ input \in Nat
      /\ output \in Seq(Nat) /\ chan \in Seq(Nat) /\ DOMAIN chan = 1..Len(chan)
      /\ Len(chan) \in Nat /\ k \in Nat /\ k <= Len(chan)
  BY LenProperties DEF Short!Cut, CutInv
<1>3. /\ chan' \in Seq(Lossy!Elements(chan)) /\ DOMAIN chan' = 1..k
      /\ \A i \in 1..k : chan'[i] = chan[i]
  <2>1. \A i \in 1..k : chan[i] \in Lossy!Elements(chan)
    <3>1. \A i \in 1..k : i \in DOMAIN chan
      BY <1>2
    <3>2. \A i \in DOMAIN chan : chan[i] \in Lossy!Elements(chan)
      BY DEF Lossy!Elements
    <3>3. QED
      BY <3>1, <3>2
  <2>2. /\ chan' \in Seq(Lossy!Elements(chan)) /\ Len(chan') = k
        /\ \A i \in 1..k : chan'[i] = chan[i]
    BY <1>1, <1>2, <2>1, SubSeqProperties
  <2>3. QED
    BY <2>2, LenProperties
<1>4. Increasing(chan)
  <2>1. PICK n \in 0..input : output \o chan = Short!UpTo(n)
    BY DEF CutInv, Short!FirstBytes
  <2>2. Increasing(Short!UpTo(n))
    BY <1>2 DEF Increasing, Short!UpTo
  <2>3. QED
    BY <1>2, <2>1, <2>2, IncreasingParts
<1>5. Increasing(chan')
  BY <1>2, <1>3, <1>4 DEF Increasing
<1>6. Lossy!Ascending(chan')
  BY <1>5 DEF Lossy!Ascending, Increasing
<1>7. QED
  BY <1>2, <1>3, <1>6 DEF Lossy!Lose

(* A CutStream is a LossyStream: the forwarding of a connection promises   *)
(* all that the pipes below it do, and that nothing is missing in between. *)
THEOREM CutStreamIsLossy == Short!Spec => Lossy!Spec
<1>1. Short!Init => Lossy!Init
  BY DEF Short!Init, Lossy!Init
<1>2. CutInv /\ [Short!Next]_Short!vars => [Lossy!Next]_Lossy!vars
  <2> SUFFICES ASSUME CutInv, [Short!Next]_Short!vars PROVE [Lossy!Next]_Lossy!vars
    OBVIOUS
  <2>1. CASE Short!Put
    BY <2>1 DEF Short!Put, Lossy!Put, Lossy!Next
  <2>2. CASE Short!Get
    BY <2>2 DEF Short!Get, Lossy!Get, Lossy!Next
  <2>3. CASE Short!Cut
    BY <2>3, CutIsLose DEF Lossy!Next
  <2>4. CASE UNCHANGED Short!vars
    BY <2>4 DEF Short!vars, Lossy!vars
  <2>5. QED
    BY <2>1, <2>2, <2>3, <2>4 DEF Short!Next
<1>3. Short!Spec => []CutInv
  BY CutInit, CutInvStep, PTL DEF Short!Spec
<1>4. QED
  BY <1>1, <1>2, <1>3, PTL DEF Short!Spec, Lossy!Spec

-----------------------------------------------------------------------------
(* Two pipes over one websocket.                                           *)

\* What is known of the far end.
FarFacts == INSTANCE ObfsWsPipe_proofs
              WITH live <- f_live, writing <- f_writing, recv_buf <- f_recv_buf,
                   parked <- f_parked, closed <- f_closed, sendq <- f_sendq,
                   recvq <- f_recvq, spc <- f_spc, sending <- f_sending, rpc <- f_rpc,
                   pushing <- f_pushing, link <- f_link, accepted <- f_accepted,
                   refused <- f_refused, sent <- f_sent, incoming <- f_incoming,
                   got <- f_got, lateSent <- f_lateSent, lateQueued <- f_lateQueued

-----------------------------------------------------------------------------
(* A step of the pair is one of the near end, one of the far end or one of *)
(* the connection; either end by itself is a pipe.                         *)

NearMoves == /\ UNCHANGED <<farVars, wireVars>>
             /\ [Next]_vars /\ ~SendDone

FarMoves == /\ UNCHANGED <<nearVars, wireVars, f_incoming>>
            /\ [Far!Next]_Far!vars

LEMMA PairStep ==
  ASSUME [PairNext]_pairVars
  PROVE  NearMoves \/ Transmit \/ Deliver \/ FarMoves
<1>1. ASSUME NEW h \in Handle, NearApplication(h) PROVE NearMoves
  <2>1. Application(h) /\ spc' = spc
    BY <1>1 DEF NearApplication, NearOnly, Application, PollWrite, TrySend, DropHandle, outVars
  <2>2. ~SendDone
    BY <2>1 DEF SendDone
  <2>3. QED
    BY <1>1, <2>1, <2>2 DEF NearApplication, NearOnly, NearMoves, Next
<1>2. ASSUME NEW h \in Handle, FarApplication(h) PROVE FarMoves
  <2>1. Far!Application(h)
    BY <1>2 DEF FarApplication, FarOnly, Far!Application
  <2>2. f_incoming' = f_incoming
    BY <1>2 DEF FarApplication, FarOnly, Far!PollRead, Far!Repoll, Far!DropHandle,
                Far!ReadLeftover, Far!ReadPending, Far!ReadMessage, Far!inVars
  <2>3. QED
    BY <1>2, <2>1, <2>2 DEF FarApplication, FarOnly, FarMoves, Far!Next
<1>3. CASE NearTask
  <2>1. CASE Transmit
    BY <2>1
  <2>2. ASSUME NearOnly(SendCheck \/ SendRecv \/ SendRecvClosed \/ SendError \/ RecvCheck \/ RecvEnd)
        PROVE  NearMoves
    <3>1. ~SendDone
      BY <2>2 DEF NearOnly, SendDone, SendCheck, SendRecv, SendRecvClosed, SendError,
                  RecvCheck, RecvEnd, Exit, outVars
    <3>2. QED
      BY <2>2, <3>1 DEF NearOnly, NearMoves, Next, SendLoop, RecvLoop
  <2>3. QED
    BY <1>3, <2>1, <2>2 DEF NearTask, NearSendWait, NearSend, NearRecv, NearOnly
<1>4. CASE FarTask
  <2>1. CASE Deliver
    BY <2>1
  <2>2. ASSUME FarOnly(\/ Far!SendCheck \/ Far!SendRecvClosed \/ Far!RecvCheck
                       \/ Far!RecvEnd \/ Far!RecvPush \/ Far!RecvPushClosed)
        PROVE  FarMoves
    <3>1. f_incoming' = f_incoming
      BY <2>2 DEF FarOnly, Far!SendCheck, Far!SendRecvClosed, Far!RecvCheck, Far!RecvEnd,
                  Far!RecvPush, Far!RecvPushClosed, Far!Exit, Far!inVars
    <3>2. QED
      BY <2>2, <3>1 DEF FarOnly, FarMoves, Far!Next, Far!SendLoop, Far!RecvLoop
  <2>3. QED
    BY <1>4, <2>1, <2>2 DEF FarTask, FarSendWait, FarRecv, FarPush, FarOnly
<1>5. ASSUME NearLosesLink PROVE NearMoves
  BY <1>5 DEF NearLosesLink, NearOnly, LinkDown, SendDone, NearMoves, Next, outVars
<1>6. ASSUME FarLosesLink PROVE FarMoves
  BY <1>6 DEF FarLosesLink, FarOnly, Far!LinkDown, FarMoves, Far!Next, Far!inVars
<1>7. ASSUME UNCHANGED pairVars PROVE FarMoves
  BY <1>7 DEF pairVars, farVars, nearVars, wireVars, FarMoves, Far!vars, Far!handleVars,
              Far!outVars, Far!inVars, Far!late
<1>8. QED
  BY <1>1, <1>2, <1>3, <1>4, <1>5, <1>6, <1>7 DEF PairNext, PeerGone

LEMMA NearIsPipe == ASSUME [PairNext]_pairVars PROVE [Next]_vars
<1>1. NearMoves \/ Transmit => [Next]_vars
  BY DEF NearMoves, Transmit, Next, SendLoop
<1>2. Deliver \/ FarMoves => UNCHANGED vars
  BY DEF Deliver, FarMoves, nearVars
<1>3. QED
  BY <1>1, <1>2, PairStep

LEMMA FarIsPipe == ASSUME [PairNext]_pairVars PROVE [Far!Next]_Far!vars
<1>1. NearMoves \/ Transmit => UNCHANGED Far!vars
  BY DEF NearMoves, Transmit, farVars, Far!vars, Far!handleVars, Far!outVars, Far!inVars, Far!late
<1>2. Deliver => Far!Next
  BY PairAssumption DEF Deliver, Far!Next, Far!RecvLoop
<1>3. FarMoves => [Far!Next]_Far!vars
  BY DEF FarMoves
<1>4. QED
  BY <1>1, <1>2, <1>3, PairStep

\* PipePair's instance of the far pipe is the one these facts are about.
LEMMA FarSame ==
  /\ Far!Init => FarFacts!Init
  /\ [Far!Next]_Far!vars => [FarFacts!Next]_FarFacts!vars
  /\ Far!Unread = FarFacts!Unread /\ Far!Unread' = FarFacts!Unread'
BY DEF Far!Init, FarFacts!Init, Far!Next, FarFacts!Next, Far!Application,
       FarFacts!Application, Far!SendLoop, FarFacts!SendLoop, Far!RecvLoop,
       FarFacts!RecvLoop, Far!LinkDown, FarFacts!LinkDown, Far!PollWrite,
       FarFacts!PollWrite, Far!TrySend, FarFacts!TrySend, Far!PollClose,
       FarFacts!PollClose, Far!CloneHandle, FarFacts!CloneHandle, Far!DropHandle,
       FarFacts!DropHandle, Far!PollRead, FarFacts!PollRead, Far!ReadLeftover,
       FarFacts!ReadLeftover, Far!ReadPending, FarFacts!ReadPending, Far!ReadMessage,
       FarFacts!ReadMessage, Far!Repoll, FarFacts!Repoll, Far!SendCheck,
       FarFacts!SendCheck, Far!SendRecv, FarFacts!SendRecv, Far!SendRecvClosed,
       FarFacts!SendRecvClosed, Far!SendDone, FarFacts!SendDone, Far!SendError,
       FarFacts!SendError, Far!RecvCheck, FarFacts!RecvCheck, Far!RecvBinary,
       FarFacts!RecvBinary, Far!RecvOther, FarFacts!RecvOther, Far!RecvErr,
       FarFacts!RecvErr, Far!RecvEnd, FarFacts!RecvEnd, Far!RecvPush, FarFacts!RecvPush,
       Far!RecvPushClosed, FarFacts!RecvPushClosed, Far!Exit, FarFacts!Exit,
       Far!StoreClosed, FarFacts!StoreClosed, Far!OneIfClosed, FarFacts!OneIfClosed,
       Far!LoopGuard, FarFacts!LoopGuard, Far!TaskDone, FarFacts!TaskDone,
       Far!HandlesGone, FarFacts!HandlesGone, Far!Full, FarFacts!Full, Far!Push,
       FarFacts!Push, Far!Idle, FarFacts!Idle, Far!Reading, FarFacts!Reading,
       Far!FirstOf, FarFacts!FirstOf, Far!After, FarFacts!After, Far!vars,
       FarFacts!vars, Far!handleVars, FarFacts!handleVars, Far!outVars,
       FarFacts!outVars, Far!inVars, FarFacts!inVars, Far!late, FarFacts!late,
       Far!Unread, FarFacts!Unread, Far!Reader, FarFacts!Reader, Far!FlattenSeq,
       FarFacts!FlattenSeq

LEMMA FarAlways == PairSpec => []FarFacts!TypeOK /\ []FarFacts!IncomingInv /\ []TypeOK
<1>1. PairInit => FarFacts!Init /\ Init
  BY FarSame DEF PairInit
<1>2. [PairNext]_pairVars => [FarFacts!Next]_FarFacts!vars /\ [Next]_vars
  BY FarSame, NearIsPipe, FarIsPipe
<1>3. FarFacts!Spec => []FarFacts!TypeOK
  BY PipeAssumption, FarFacts!TypeCorrect
<1>4. FarFacts!Init => FarFacts!IncomingInv
  BY PipeAssumption, FarFacts!IncomingInit
<1>5. FarFacts!TypeOK /\ FarFacts!IncomingInv /\ [FarFacts!Next]_FarFacts!vars
      => FarFacts!IncomingInv'
  BY PipeAssumption, FarFacts!IncomingStep
<1>6. QED
  BY <1>1, <1>2, <1>3, <1>4, <1>5, TypeCorrect, PTL DEF PairSpec, FarFacts!Spec, Spec

-----------------------------------------------------------------------------
(* The far end numbers messages as they arrive.  What AsAccepted makes of  *)
(* them, with the arrivals as a parameter.                                 *)
Named(a, s) == [i \in DOMAIN s |-> a[s[i]]]

Numbers(a, s) == s \in Seq(Nat) /\ \A i \in DOMAIN s : s[i] \in 1..Len(a)

LEMMA NamedType ==
  ASSUME NEW a \in Seq(Nat), NEW s, Numbers(a, s)
  PROVE  /\ Named(a, s) \in Seq(Nat) /\ Len(Named(a, s)) = Len(s)
         /\ DOMAIN Named(a, s) = 1..Len(s) /\ Len(s) \in Nat
         /\ \A i \in 1..Len(s) : Named(a, s)[i] = a[s[i]] /\ s[i] \in 1..Len(a)
<1>1. s \in Seq(Nat) /\ DOMAIN s = 1..Len(s) /\ Len(s) \in Nat
  BY DEF Numbers
<1>2. \A i \in 1..Len(s) : s[i] \in 1..Len(a) /\ a[s[i]] \in Nat
  BY <1>1 DEF Numbers
<1>3. QED
  BY <1>1, <1>2 DEF Named

LEMMA NumbersCat ==
  ASSUME NEW a \in Seq(Nat), NEW s \in Seq(Nat), NEW t \in Seq(Nat)
  PROVE  Numbers(a, Cat(s, t)) <=> Numbers(a, s) /\ Numbers(a, t)
<1> DEFINE w == Cat(s, t)
<1>1. /\ w \in Seq(Nat) /\ DOMAIN s = 1..Len(s) /\ DOMAIN t = 1..Len(t)
      /\ DOMAIN w = 1..(Len(s) + Len(t)) /\ Len(s) \in Nat /\ Len(t) \in Nat
      /\ \A i \in 1..Len(s) : w[i] = s[i]
      /\ \A i \in 1..Len(t) : w[Len(s) + i] = t[i]
  BY ConcatParts DEF Cat
<1> HIDE DEF w
<1>2. \A i \in 1..Len(s) : i \in DOMAIN w
  BY <1>1
<1>3. \A i \in 1..Len(t) : Len(s) + i \in DOMAIN w
  BY <1>1
<1>4. \A i \in DOMAIN w : i \in 1..Len(s) \/ \E j \in 1..Len(t) : i = Len(s) + j
  <2> SUFFICES ASSUME NEW i \in DOMAIN w, i \notin 1..Len(s)
               PROVE  \E j \in 1..Len(t) : i = Len(s) + j
    OBVIOUS
  <2>1. i - Len(s) \in 1..Len(t) /\ i = Len(s) + (i - Len(s))
    BY <1>1
  <2>2. QED
    BY <2>1
<1>5. QED
  BY <1>1, <1>2, <1>3, <1>4 DEF Numbers, w

LEMMA NamedCat ==
  ASSUME NEW a \in Seq(Nat), NEW s, NEW t, Numbers(a, s), Numbers(a, t)
  PROVE  Named(a, Cat(s, t)) = Cat(Named(a, s), Named(a, t))
<1> DEFINE w == Cat(s, t)
           ns == Named(a, s)
           nt == Named(a, t)
           nw == Named(a, w)
           v == Cat(ns, nt)
<1>1. s \in Seq(Nat) /\ t \in Seq(Nat)
  BY DEF Numbers
<1>2. Numbers(a, w)
  BY <1>1, NumbersCat
<1>3. /\ w \in Seq(Nat) /\ Len(w) = Len(s) + Len(t) /\ Len(s) \in Nat /\ Len(t) \in Nat
      /\ \A i \in 1..Len(s) : w[i] = s[i]
      /\ \A i \in 1..Len(t) : w[Len(s) + i] = t[i]
  BY <1>1, ConcatParts DEF Cat
<1>4. /\ ns \in Seq(Nat) /\ Len(ns) = Len(s) /\ \A i \in 1..Len(s) : ns[i] = a[s[i]]
      /\ nt \in Seq(Nat) /\ Len(nt) = Len(t) /\ \A i \in 1..Len(t) : nt[i] = a[t[i]]
      /\ nw \in Seq(Nat) /\ Len(nw) = Len(w) /\ \A i \in 1..Len(w) : nw[i] = a[w[i]]
  <2>1. ns \in Seq(Nat) /\ Len(ns) = Len(s) /\ \A i \in 1..Len(s) : ns[i] = a[s[i]]
    BY NamedType
  <2>2. nt \in Seq(Nat) /\ Len(nt) = Len(t) /\ \A i \in 1..Len(t) : nt[i] = a[t[i]]
    BY NamedType
  <2> HIDE DEF w
  <2>3. nw \in Seq(Nat) /\ Len(nw) = Len(w) /\ \A i \in 1..Len(w) : nw[i] = a[w[i]]
    BY <1>2, NamedType
  <2>4. QED
    BY <2>1, <2>2, <2>3
<1>5. /\ v \in Seq(Nat) /\ Len(v) = Len(ns) + Len(nt)
      /\ \A i \in 1..Len(ns) : v[i] = ns[i]
      /\ \A i \in 1..Len(nt) : v[Len(ns) + i] = nt[i]
  <2> HIDE DEF w, ns, nt, nw
  <2>1. ns \in Seq(Nat) /\ nt \in Seq(Nat)
    BY <1>4
  <2>2. QED
    BY <2>1, ConcatParts DEF Cat
<1> HIDE DEF w, ns, nt, nw, v
<1>6. Len(nw) = Len(v)
  BY <1>3, <1>4, <1>5
<1>7. ASSUME NEW i \in 1..Len(nw) PROVE nw[i] = v[i]
  <2>1. CASE i \in 1..Len(s)
    <3>1. w[i] = s[i] /\ v[i] = ns[i] /\ ns[i] = a[s[i]]
      BY <1>3, <1>4, <1>5, <2>1
    <3>2. QED
      BY <1>4, <3>1
  <2>2. CASE i \notin 1..Len(s)
    <3> DEFINE j == i - Len(s)
    <3>1. j \in 1..Len(t) /\ i = Len(s) + j
      BY <1>3, <1>4, <2>2
    <3> HIDE DEF j
    <3>2. w[i] = t[j] /\ nt[j] = a[t[j]]
      BY <1>3, <1>4, <3>1
    <3>3. v[i] = nt[j]
      BY <1>4, <1>5, <3>1
    <3>4. QED
      BY <1>4, <3>2, <3>3
  <2>3. QED
    BY <2>1, <2>2
<1>8. nw = v
  BY <1>4, <1>5, <1>6, <1>7, SeqEqual
<1>9. QED
  BY <1>8 DEF w, ns, nt, nw, v

\* Another arrival renames nothing, and is the next number's name.
LEMMA NamedGrows ==
  ASSUME NEW a \in Seq(Nat), NEW m \in Nat, NEW s, Numbers(a, s)
  PROVE  /\ Named(Append(a, m), s) = Named(a, s) /\ Numbers(Append(a, m), s)
         /\ Numbers(Append(a, m), <<Len(a) + 1>>)
         /\ Named(Append(a, m), <<Len(a) + 1>>) = <<m>>
<1> DEFINE b == Append(a, m)
           k == Len(a) + 1
<1>1. /\ b \in Seq(Nat) /\ Len(b) = k /\ b[k] = m /\ k \in 1..Len(b) /\ Len(a) \in Nat
      /\ \A i \in 1..Len(a) : b[i] = a[i] /\ i \in 1..Len(b)
  OBVIOUS
<1> HIDE DEF b
<1>2. Named(b, s) = Named(a, s)
  BY <1>1 DEF Named, Numbers
<1>3. Numbers(b, s)
  BY <1>1 DEF Numbers
<1>4. k \in Nat
  BY <1>1
<1> HIDE DEF k
<1>5. Numbers(b, <<k>>)
  BY <1>1, <1>4 DEF Numbers
<1>6. Named(b, <<k>>) = <<m>>
  BY <1>1, <1>4 DEF Named
<1>7. QED
  BY <1>2, <1>3, <1>5, <1>6 DEF b, k

\* Names come in the order of the numbers, and from among the arrivals.
LEMMA NamedIncreasing ==
  ASSUME NEW a \in Seq(Nat), NEW s, NEW t \in Seq(Nat), Numbers(a, s),
         Increasing(s), Increasing(Cat(a, t))
  PROVE  Increasing(Cat(Named(a, s), t))
<1> DEFINE n == Named(a, s)
<1>1. /\ n \in Seq(Nat) /\ DOMAIN n = 1..Len(s) /\ DOMAIN s = 1..Len(s) /\ DOMAIN a = 1..Len(a)
      /\ \A i \in 1..Len(s) : n[i] = a[s[i]] /\ s[i] \in 1..Len(a)
  BY NamedType DEF Numbers
<1>2. Increasing(a) /\ Increasing(t) /\ Below(a, t)
  BY IncreasingParts DEF Cat
<1> HIDE DEF n
<1>3. Increasing(n)
  BY <1>1, <1>2 DEF Increasing
<1>4. Below(n, t)
  BY <1>1, <1>2 DEF Below
<1>5. Increasing(Cat(n, t))
  BY <1>1, <1>2, <1>3, <1>4, IncreasingParts DEF Cat
<1>6. QED
  BY <1>5 DEF n

-----------------------------------------------------------------------------
(* Where the messages are: given to the reader, unread at the far end, and *)
(* on their way to it.                                                     *)
OnWay    == Cat(wire, OutChan)
WasRead  == AsAccepted(f_got[Reader])
Unfolded == AsAccepted(Far!Unread) \o wire
              \o (IF spc = "send" THEN <<sending>> ELSE <<>>) \o sendq

(* The far end has counted the arrivals, and these, what is on the         *)
(* connection and what the near end has not sent are in the order in which *)
(* the messages were accepted.                                             *)
PairInv == /\ wire \in Seq(Nat) /\ arrived \in Seq(Nat)
           /\ f_incoming = Len(arrived)
           /\ UpTo(Cat(arrived, OnWay), accepted)

EndsInv == TypeOK /\ FarFacts!TypeOK /\ FarFacts!IncomingInv

\* What follows of these in a state.
PairFacts ==
  /\ accepted \in Nat /\ sending \in Nat /\ sendq \in Seq(Nat) /\ OutChan \in Seq(Nat)
  /\ OnWay \in Seq(Nat)
  /\ Numbers(arrived, f_got[Reader]) /\ Numbers(arrived, Far!Unread)
  /\ WasRead = Named(arrived, f_got[Reader]) /\ WasRead \in Seq(Nat)
  /\ Named(arrived, Far!Unread) \in Seq(Nat)
  /\ Unfolded = Cat(Named(arrived, Far!Unread), OnWay) /\ Unfolded \in Seq(Nat)
  /\ Increasing(Unfolded)

LEMMA FactsFollow ==
  ASSUME FarFacts!Unshared, PairInv, EndsInv
  PROVE  PairFacts
<1>1. /\ accepted \in Nat /\ sending \in Nat /\ sendq \in Seq(Nat) /\ OutChan \in Seq(Nat)
      /\ wire \in Seq(Nat) /\ arrived \in Seq(Nat)
  BY DEF EndsInv, PairInv, TypeOK, OutChan
<1>2. OnWay \in Seq(Nat)
  BY <1>1, CatAssociative DEF OnWay
<1>3. /\ f_got[FarFacts!Reader] \in Seq(Nat) /\ FarFacts!Unread \in Seq(Nat)
      /\ FarFacts!Cat(f_got[FarFacts!Reader], FarFacts!Unread) = FarFacts!InSeq(FarFacts!Reader)
      /\ FarFacts!Reader \in Handle
  BY PipeAssumption, FarFacts!UnsharedTypes DEF EndsInv
<1>4. FarFacts!Reader = Reader /\ FarFacts!Unread = Far!Unread
  BY FarSame DEF Reader, FarFacts!Reader
<1> DEFINE g == f_got[Reader]
           u == Far!Unread
<1>5. g \in Seq(Nat) /\ u \in Seq(Nat) /\ Numbers(arrived, Cat(g, u)) /\ Increasing(Cat(g, u))
  <2>1. FarFacts!UpTo(FarFacts!Cat(g, u), Len(arrived))
    BY <1>3, <1>4 DEF EndsInv, PairInv, FarFacts!IncomingInv
  <2>2. g \in Seq(Nat) /\ u \in Seq(Nat)
    BY <1>3, <1>4
  <2> HIDE DEF g, u
  <2>3. Cat(g, u) \in Seq(Nat)
    BY <2>2, CatAssociative
  <2>4. QED
    BY <2>1, <2>2, <2>3
       DEF Numbers, FarFacts!UpTo, FarFacts!Cat, FarFacts!Increasing, Cat, Increasing
<1>6. Numbers(arrived, g) /\ Numbers(arrived, u) /\ Increasing(u)
  <2> HIDE DEF g, u
  <2>1. QED
    BY <1>1, <1>5, NumbersCat, IncreasingParts DEF Cat
<1> DEFINE n == Named(arrived, u)
<1>7. WasRead = Named(arrived, g) /\ WasRead \in Seq(Nat) /\ n \in Seq(Nat)
  <2>1. WasRead = Named(arrived, g)
    BY DEF WasRead, AsAccepted, Named
  <2> HIDE DEF g, u
  <2>2. QED
    BY <1>1, <1>6, <2>1, NamedType
<1>8. Increasing(Cat(n, OnWay))
  <2>1. Increasing(Cat(arrived, OnWay))
    BY DEF PairInv, UpTo
  <2> HIDE DEF u
  <2>2. QED
    BY <1>1, <1>2, <1>6, <2>1, NamedIncreasing
<1>9. Unfolded = Cat(n, OnWay) /\ Unfolded \in Seq(Nat)
  <2> DEFINE o == IF spc = "send" THEN <<sending>> ELSE <<>>
  <2>1. o \in Seq(Nat) /\ OutChan = Cat(o, sendq)
    BY <1>1 DEF OutChan, Cat
  <2>2. Unfolded = Cat(Cat(Cat(n, wire), o), sendq)
    BY DEF Unfolded, Cat, AsAccepted, Named
  <2> HIDE DEF n, o
  <2>3. Cat(n, wire) \in Seq(Nat) /\ Cat(n, Cat(wire, Cat(o, sendq))) \in Seq(Nat)
    BY <1>1, <1>2, <1>7, <2>1, CatAssociative DEF OnWay
  <2>4. Cat(Cat(Cat(n, wire), o), sendq) = Cat(Cat(n, wire), Cat(o, sendq))
    BY <1>1, <2>1, <2>3, CatAssociative
  <2>5. Cat(Cat(n, wire), Cat(o, sendq)) = Cat(n, Cat(wire, Cat(o, sendq)))
    BY <1>1, <1>7, <2>1, CatAssociative
  <2>6. QED
    BY <2>1, <2>2, <2>3, <2>4, <2>5 DEF OnWay
<1>10. QED
  BY <1>1, <1>2, <1>6, <1>7, <1>8, <1>9 DEF PairFacts

-----------------------------------------------------------------------------
(* What each kind of step does to them.                                    *)
LEMMA DeliverMoves ==
  ASSUME FarFacts!Unshared, PairInv, EndsInv, Deliver
  PROVE  /\ Head(wire) \in Nat /\ wire' \in Seq(Nat) /\ wire = Cat(<<Head(wire)>>, wire')
         /\ arrived' = Append(arrived, Head(wire)) /\ f_incoming' = Len(arrived')
         /\ f_got' = f_got /\ Far!Unread' = Cat(Far!Unread, <<Len(arrived) + 1>>)
         /\ UNCHANGED <<accepted, OutChan>>
<1>1. /\ wire \in Seq(Nat) /\ wire # <<>> /\ wire' = Tail(wire) /\ arrived \in Seq(Nat)
      /\ arrived' = Append(arrived, Head(wire)) /\ f_incoming = Len(arrived)
  BY DEF PairInv, Deliver
<1>2. /\ Head(wire) \in Nat /\ wire' \in Seq(Nat) /\ wire = Cat(<<Head(wire)>>, wire')
      /\ Len(arrived') = Len(arrived) + 1 /\ Len(arrived) \in Nat
  BY <1>1 DEF Cat
<1>3. /\ UNCHANGED <<f_got, f_recv_buf, f_recvq>> /\ f_incoming' = f_incoming + 1
      /\ f_pushing' = [i \in 1..1 |-> f_incoming + i] /\ f_rpc = "next"
  BY DEF Deliver, Far!RecvBinary, Far!handleVars
<1>4. f_pushing = <<>>
  BY <1>3 DEF EndsInv, FarFacts!IncomingInv
<1>5. f_pushing' = <<Len(arrived) + 1>>
  BY <1>1, <1>2, <1>3
<1> DEFINE front == f_recv_buf[Far!Reader] \o Far!FlattenSeq(f_recvq)
<1>6. Far!Unread = front \o f_pushing /\ Far!Unread' = front \o f_pushing'
  BY <1>3 DEF Far!Unread
<1>7. front \in Seq(Nat)
  <2>1. /\ f_recv_buf[FarFacts!Reader] \in Seq(Nat) /\ FarFacts!FlattenSeq(f_recvq) \in Seq(Nat)
    BY PipeAssumption, FarFacts!UnsharedTypes DEF EndsInv
  <2>2. front = f_recv_buf[FarFacts!Reader] \o FarFacts!FlattenSeq(f_recvq)
    BY DEF Far!Reader, FarFacts!Reader, Far!FlattenSeq, FarFacts!FlattenSeq
  <2> HIDE DEF front
  <2>3. QED
    BY <2>1, <2>2
<1> HIDE DEF front
<1>8. Far!Unread = front
  BY <1>4, <1>6, <1>7
<1>9. UNCHANGED <<accepted, OutChan>>
  BY DEF Deliver, nearVars, vars, outVars, OutChan
<1>10. QED
  BY <1>1, <1>2, <1>3, <1>5, <1>6, <1>8, <1>9 DEF Cat

LEMMA TransmitMoves ==
  ASSUME PairInv, EndsInv, Transmit
  PROVE  /\ accepted' = accepted /\ UNCHANGED <<arrived, farVars>>
         /\ sending \in Nat /\ sendq \in Seq(Nat)
         /\ OutChan = Cat(<<sending>>, sendq) /\ OutChan' = sendq
         /\ wire' = wire \/ wire' = Cat(wire, <<sending>>)
<1>1. OutSent /\ sending \in Nat /\ sendq \in Seq(Nat) /\ wire \in Seq(Nat)
  BY DoneSends DEF Transmit, EndsInv, TypeOK, PairInv
<1>2. Append(wire, sending) = Cat(wire, <<sending>>)
  BY <1>1 DEF Cat
<1>3. QED
  BY <1>1, <1>2 DEF Transmit, OutSent, Cat

\* A step of the far end that is not an arrival gives messages to the reader,
\* or loses those at one end of what is unread.
FarTakes == \E f \in Seq(Nat) : /\ f_got'[Reader] = Cat(f_got[Reader], f)
                                /\ Far!Unread = Cat(f, Far!Unread')
FarLoses == /\ f_got'[Reader] = f_got[Reader]
            /\ \E m \in Seq(Nat) : \/ Far!Unread = Cat(m, Far!Unread')
                                   \/ Far!Unread = Cat(Far!Unread', m)

LEMMA FarStep ==
  ASSUME FarFacts!Unshared, EndsInv, EndsInv', FarMoves
  PROVE  FarTakes \/ FarLoses
<1>1. \/ FarFacts!Taken \/ FarFacts!Came \/ FarFacts!LeftoverLost \/ FarFacts!Exit
  BY PipeAssumption, FarSame, FarFacts!UnsharedStep DEF EndsInv, FarMoves
<1>2. /\ Far!Unread = FarFacts!Unread /\ Far!Unread' = FarFacts!Unread'
      /\ FarFacts!Reader = Reader /\ f_incoming' = f_incoming
  BY FarSame DEF Reader, FarFacts!Reader, FarMoves
<1>3. f_got[Reader] \in Seq(Nat) /\ Far!Unread \in Seq(Nat) /\ f_incoming \in Nat
  BY PipeAssumption, FarFacts!UnsharedTypes, <1>2 DEF EndsInv
<1>4. CASE FarFacts!Taken
  BY <1>2, <1>4 DEF FarFacts!Taken, FarFacts!Cat, FarTakes, Cat
<1>5. CASE FarFacts!Came
  <2>1. PICK k \in Nat : /\ f_incoming' = f_incoming + k /\ f_got'[Reader] = f_got[Reader]
                         /\ Far!Unread' = Cat(Far!Unread, [i \in 1..k |-> f_incoming + i])
    BY <1>2, <1>5 DEF FarFacts!Came, FarFacts!Cat, Cat
  <2>2. k = 0
    BY <1>2, <1>3, <2>1
  <2>3. [i \in 1..0 |-> f_incoming + i] = <<>>
    OBVIOUS
  <2>4. Far!Unread' = Far!Unread /\ Far!Unread = Cat(<<>>, Far!Unread) /\ <<>> \in Seq(Nat)
    BY <1>3, <2>1, <2>2, <2>3, CatAssociative
  <2>5. QED
    BY <2>1, <2>4 DEF FarLoses
<1>6. CASE FarFacts!LeftoverLost
  <2>1. f_got' = f_got /\ \E b \in Seq(Nat) : Far!Unread = Cat(b, Far!Unread')
    BY PipeAssumption, FarFacts!LeftoverInFront, <1>2, <1>6 DEF EndsInv, FarFacts!Cat, Cat
  <2>2. QED
    BY <2>1 DEF FarLoses
<1>7. CASE FarFacts!Exit
  <2>1. f_got' = f_got /\ \E m \in Seq(Nat) : Far!Unread = Cat(Far!Unread', m)
    BY PipeAssumption, FarFacts!PushingBehind, <1>2, <1>7 DEF EndsInv, FarFacts!Cat, Cat
  <2>2. QED
    BY <2>1 DEF FarLoses
<1>8. QED
  BY <1>1, <1>4, <1>5, <1>6, <1>7

-----------------------------------------------------------------------------
(* The invariant.                                                          *)
LEMMA PairInvInit == ASSUME PairInit PROVE PairInv
<1>1. wire = <<>> /\ arrived = <<>> /\ sendq = <<>> /\ spc = "check" /\ accepted = 0
      /\ f_incoming = 0
  BY DEF PairInit, Init, Far!Init
<1>2. OutChan = <<>> /\ Cat(<<>>, <<>>) = <<>> /\ <<>> \in Seq(Nat) /\ Len(<<>>) = 0
  BY <1>1 DEF OutChan, Cat
<1>3. Cat(arrived, OnWay) = <<>>
  BY <1>1, <1>2 DEF OnWay
<1>4. UpTo(<<>>, 0)
  BY DEF UpTo, Increasing
<1>5. QED
  BY <1>1, <1>2, <1>3, <1>4 DEF PairInv

LEMMA PairInvStep ==
  ASSUME FarFacts!Unshared, PairInv, EndsInv, [PairNext]_pairVars
  PROVE  PairInv'
<1> DEFINE a == arrived
           w == wire
           o == OutChan
           n == accepted
<1>1. /\ a \in Seq(Nat) /\ w \in Seq(Nat) /\ o \in Seq(Nat) /\ n \in Nat
      /\ f_incoming = Len(a) /\ UpTo(Cat(a, Cat(w, o)), n)
      /\ <<>> \in Seq(Nat)
  BY DEF PairInv, EndsInv, TypeOK, OutChan, OnWay
<1>2. SUFFICES /\ a' \in Seq(Nat) /\ w' \in Seq(Nat) /\ f_incoming' = Len(a')
               /\ UpTo(Cat(a', Cat(w', o')), n')
  BY DEF PairInv, OnWay
<1> HIDE DEF a, w, o, n
<1>3. Cat(a, w) \in Seq(Nat) /\ Cat(w, o) \in Seq(Nat) /\ Cat(a, Cat(w, o)) = Cat(Cat(a, w), o)
  BY <1>1, CatAssociative
<1>4. CASE NearMoves
  <2>1. a' = a /\ w' = w /\ f_incoming' = f_incoming
    BY <1>4 DEF NearMoves, wireVars, farVars, a, w
  <2>2. CASE OutKept
    BY <1>1, <2>1, <2>2 DEF OutKept, o, n
  <2>3. CASE OutPut
    <3>1. n' = n + 1 /\ (o' = o \/ o' = Cat(o, <<n + 1>>))
      BY <2>3 DEF OutPut, Cat, o, n
    <3>2. n + 1 \in Nat /\ [i \in 1..1 |-> n + i] = <<n + 1>> /\ <<n + 1>> \in Seq(Nat)
      BY <1>1
    <3> DEFINE s == Cat(a, Cat(w, o))
               m == <<n + 1>>
    <3>3. UpTo(s \o [i \in 1..1 |-> n + i], n + 1)
      <4>1. s \in Seq(Nat) /\ UpTo(s, n) /\ 1 \in Nat
        BY <1>1, <1>3, CatAssociative
      <4> HIDE DEF s
      <4>2. QED
        BY <1>1, <4>1, NewBytes
    <3>4. s \in Seq(Nat) /\ m \in Seq(Nat) /\ UpTo(Cat(s, m), n + 1)
      BY <1>1, <1>3, <3>2, <3>3, CatAssociative DEF Cat
    <3>5. UpTo(s, n + 1)
      <4> HIDE DEF s, m
      <4>1. QED
        BY <3>2, <3>4, BackLeftOut DEF Cat
    <3>6. Cat(s, m) = Cat(a, Cat(w, Cat(o, m)))
      <4>1. m \in Seq(Nat)
        BY <3>4
      <4> HIDE DEF m
      <4>2. Cat(Cat(Cat(a, w), o), m) = Cat(Cat(a, w), Cat(o, m)) /\ Cat(o, m) \in Seq(Nat)
        BY <1>1, <1>3, <4>1, CatAssociative
      <4>3. Cat(Cat(a, w), Cat(o, m)) = Cat(a, Cat(w, Cat(o, m)))
        BY <1>1, <4>2, CatAssociative
      <4>4. QED
        BY <1>3, <4>2, <4>3
    <3>7. QED
      BY <1>1, <2>1, <3>1, <3>4, <3>5, <3>6
  <2>4. CASE OutEnded
    <3>1. n' = n /\ o' = <<>>
      BY <2>4 DEF OutEnded, o, n
    <3>2. UpTo(Cat(a, w), n)
      BY <1>1, <1>3, BackLeftOut DEF Cat
    <3>3. Cat(a, Cat(w, <<>>)) = Cat(a, w)
      BY <1>1, CatAssociative
    <3>4. QED
      BY <1>1, <2>1, <3>1, <3>2, <3>3
  <2>5. QED
    BY <1>4, <2>2, <2>3, <2>4, OutMoves DEF NearMoves, EndsInv
<1>5. CASE Transmit
  <2> DEFINE x == <<sending>>
             q == sendq
  <2>1. /\ n' = n /\ a' = a /\ f_incoming' = f_incoming /\ x \in Seq(Nat) /\ q \in Seq(Nat)
        /\ o = Cat(x, q) /\ o' = q /\ (w' = w \/ w' = Cat(w, x))
    BY <1>5, TransmitMoves DEF farVars, a, w, o, n
  <2> HIDE DEF x, q
  <2>2. Cat(w, x) \in Seq(Nat) /\ Cat(Cat(a, w), x) \in Seq(Nat)
    BY <1>1, <1>3, <2>1, CatAssociative
  <2>3. Cat(w, o) = Cat(Cat(w, x), q)
    BY <1>1, <2>1, CatAssociative
  <2>4. UpTo(Cat(Cat(a, w), q), n)
    <3> DEFINE aw == Cat(a, w)
    <3>1. aw \in Seq(Nat) /\ UpTo(Cat(aw, Cat(x, q)), n)
      BY <1>1, <1>3, <2>1
    <3> HIDE DEF aw
    <3>2. Cat(aw, Cat(x, q)) = Cat(Cat(aw, x), q)
      BY <2>1, <3>1, CatAssociative
    <3>3. UpTo(Cat(aw, q), n)
      BY <1>1, <2>1, <3>1, <3>2, LeftOut DEF Cat
    <3>4. QED
      BY <3>3 DEF aw
  <2>5. Cat(Cat(a, w), q) = Cat(a, Cat(w, q))
    BY <1>1, <2>1, CatAssociative
  <2>6. QED
    BY <1>1, <2>1, <2>2, <2>3, <2>4, <2>5
<1>6. CASE Deliver
  <2> DEFINE m == <<Head(wire)>>
  <2>1. /\ n' = n /\ o' = o /\ w' \in Seq(Nat) /\ m \in Seq(Nat) /\ w = Cat(m, w')
        /\ a' = Cat(a, m) /\ f_incoming' = Len(a')
    <3>1. /\ Head(wire) \in Nat /\ arrived' = Append(arrived, Head(wire))
          /\ w' \in Seq(Nat) /\ w = Cat(m, w') /\ n' = n /\ o' = o
          /\ f_incoming' = Len(a')
      BY <1>6, DeliverMoves DEF a, w, o, n
    <3>2. a' = Cat(a, m)
      BY <1>1, <3>1 DEF a, Cat
    <3>3. QED
      BY <3>1, <3>2
  <2> DEFINE v == w'
  <2> HIDE DEF m, v
  <2>2. v \in Seq(Nat) /\ w = Cat(m, v) /\ Cat(v, o) \in Seq(Nat) /\ Cat(a, m) \in Seq(Nat)
    BY <1>1, <2>1, CatAssociative DEF v
  <2>3. Cat(Cat(m, v), o) = Cat(m, Cat(v, o))
    BY <1>1, <2>1, <2>2, CatAssociative
  <2>4. Cat(a, Cat(m, Cat(v, o))) = Cat(Cat(a, m), Cat(v, o))
    BY <1>1, <2>1, <2>2, CatAssociative
  <2>5. QED
    BY <1>1, <2>1, <2>2, <2>3, <2>4 DEF v
<1>7. CASE FarMoves
  <2>1. a' = a /\ w' = w /\ o' = o /\ n' = n /\ f_incoming' = f_incoming
    BY <1>7 DEF FarMoves, nearVars, vars, outVars, wireVars, OutChan, a, w, o, n
  <2>2. QED
    BY <1>1, <2>1
<1>8. QED
  BY <1>4, <1>5, <1>6, <1>7, PairStep

-----------------------------------------------------------------------------
(* Each step is one of the stream from end to end.                         *)
LEMMA RestOfElements ==
  ASSUME NEW x \in Seq(Nat), NEW y \in Seq(Nat), NEW z \in Seq(Nat)
  PROVE  Cat(x, z) \in Seq(EndToEnd!Elements(Cat(x, Cat(y, z))))
<1> DEFINE yz == Cat(y, z)
           w == Cat(x, yz)
           v == Cat(x, z)
           S == EndToEnd!Elements(w)
<1>1. yz \in Seq(Nat) /\ w \in Seq(Nat)
  BY CatAssociative
<1>2. \A i \in 1..Len(x) : x[i] \in S
  <2>1. \A i \in DOMAIN x : x[i] \in Incoming!Elements(w)
    BY <1>1, ElementsOfCat
  <2>2. QED
    BY <2>1 DEF Incoming!Elements, EndToEnd!Elements
<1>3. \A i \in 1..Len(z) : z[i] \in S
  <2>1. /\ \A i \in 1..Len(z) : yz[Len(y) + i] = z[i]
        /\ Len(y) \in Nat /\ Len(z) \in Nat /\ DOMAIN yz = 1..(Len(y) + Len(z))
    BY ConcatParts DEF Cat
  <2>2. \A j \in DOMAIN yz : yz[j] \in Incoming!Elements(w)
    BY <1>1, ElementsOfCat
  <2> HIDE DEF yz, w
  <2>3. \A i \in 1..Len(z) : Len(y) + i \in DOMAIN yz
    BY <2>1
  <2>4. QED
    BY <2>1, <2>2, <2>3 DEF Incoming!Elements, EndToEnd!Elements
<1> HIDE DEF S
<1>4. x \in Seq(S) /\ z \in Seq(S)
  <2>1. DOMAIN x = 1..Len(x) /\ DOMAIN z = 1..Len(z)
    BY ConcatParts
  <2>2. x \in Seq(S)
    <3>1. \A i \in DOMAIN x : x[i] \in S
      BY <1>2, <2>1
    <3>2. QED
      BY <3>1
  <2>3. z \in Seq(S)
    <3>1. \A i \in DOMAIN z : z[i] \in S
      BY <1>3, <2>1
    <3>2. QED
      BY <3>1
  <2>4. QED
    BY <2>2, <2>3
<1>5. v \in Seq(S)
  BY <1>4, ConcatType DEF Cat
<1>6. QED
  BY <1>5 DEF S

LEMMA MiddleIsLost ==
  ASSUME NEW x \in Seq(Nat), NEW y \in Seq(Nat), NEW z \in Seq(Nat), PairFacts',
         Unfolded = Cat(x, Cat(y, z)), Unfolded' = Cat(x, z), UNCHANGED <<accepted, WasRead>>
  PROVE  EndToEnd!Lose
<1>1. Unfolded' \in Seq(EndToEnd!Elements(Unfolded))
  BY RestOfElements
<1>2. EndToEnd!Ascending(Unfolded')
  BY DEF PairFacts, Increasing, EndToEnd!Ascending
<1>3. QED
  BY <1>1, <1>2 DEF EndToEnd!Lose, Unfolded, WasRead

LEMMA FrontIsGot ==
  ASSUME NEW f \in Seq(Nat), PairFacts, PairFacts', accepted' = accepted,
         WasRead' = Cat(WasRead, f), Unfolded = Cat(f, Unfolded')
  PROVE  EndToEnd!Get \/ UNCHANGED EndToEnd!vars
<1> DEFINE u == Unfolded
           v == Unfolded'
<1>1. u \in Seq(Nat) /\ v \in Seq(Nat) /\ WasRead \in Seq(Nat)
  BY DEF PairFacts
<1>2. CASE f = <<>>
  <2>1. WasRead' = WasRead
    BY <1>1, <1>2, CatAssociative
  <2> HIDE DEF v
  <2>2. Cat(<<>>, v) = v
    BY <1>1, CatAssociative
  <2>3. u = v
    BY <1>2, <2>2 DEF v
  <2>4. QED
    BY <2>1, <2>3 DEF EndToEnd!vars, Unfolded, WasRead, v
<1>3. CASE f # <<>>
  <2> DEFINE k == Len(f)
  <2>1. k # 0
    BY <1>3, EmptySeq
  <2>2. u = Cat(f, v)
    OBVIOUS
  <2> HIDE DEF u, v
  <2>3. k \in 0..Len(u) /\ SubSeq(u, 1, k) = f /\ SubSeq(u, k + 1, Len(u)) = v
    BY <1>1, <2>2, FrontTaken
  <2>4. Len(u) \in Nat
    BY <1>1, LenProperties
  <2> HIDE DEF k
  <2>5. k \in 1..Len(u)
    BY <2>1, <2>3, <2>4
  <2>6. WasRead' = WasRead \o SubSeq(u, 1, k)
    BY <2>3 DEF Cat
  <2>7. QED
    BY <2>3, <2>5, <2>6 DEF EndToEnd!Get, u, v, Unfolded, WasRead
<1>4. QED
  BY <1>2, <1>3

LEMMA NearIsStream ==
  ASSUME EndsInv, PairInv, PairFacts, PairFacts', NearMoves
  PROVE  [EndToEnd!Next]_EndToEnd!vars
<1> DEFINE n == Named(arrived, Far!Unread)
           w == wire
           o == OutChan
           k == accepted
<1>1. /\ n \in Seq(Nat) /\ w \in Seq(Nat) /\ o \in Seq(Nat) /\ k \in Nat
      /\ Unfolded = Cat(n, Cat(w, o)) /\ Unfolded' = Cat(n', Cat(w', o'))
  BY DEF PairInv, PairFacts, OnWay
<1>2. n' = n /\ w' = w /\ WasRead' = WasRead
  <2>1. /\ UNCHANGED <<wire, arrived, f_got, f_recv_buf, f_recvq, f_pushing>>
    BY DEF NearMoves, farVars, wireVars
  <2>2. Far!Unread' = Far!Unread
    BY <2>1 DEF Far!Unread
  <2>3. QED
    BY <2>1, <2>2 DEF WasRead, AsAccepted
<1> HIDE DEF n, w, o, k
<1>3. Cat(w, o) \in Seq(Nat) /\ Cat(n, w) \in Seq(Nat) /\ Cat(n, Cat(w, o)) = Cat(Cat(n, w), o)
  BY <1>1, CatAssociative
<1>4. CASE OutKept
  BY <1>1, <1>2, <1>4 DEF OutKept, EndToEnd!vars, Unfolded, WasRead, o
<1>5. CASE OutPut
  <2> DEFINE m == <<k + 1>>
  <2>1. k' = k + 1 /\ (o' = o \/ o' = Cat(o, m)) /\ m \in Seq(Nat)
    <3>1. k' = k + 1 /\ (o' = o \/ o' = o \o m)
      BY <1>5 DEF OutPut, o, k
    <3>2. m \in Seq(Nat)
      BY <1>1
    <3>3. QED
      BY <3>1, <3>2 DEF Cat
  <2>2. k' \in Nat /\ k' > k /\ k' - k = 1 /\ [i \in 1..1 |-> k + i] = m
    BY <1>1, <2>1
  <2>3. m = [i \in 1..(k' - k) |-> k + i]
    BY <2>2
  <2> HIDE DEF m
  <2>4. Cat(n, Cat(w, Cat(o, m))) = Cat(Cat(n, Cat(w, o)), m)
    <3>1. Cat(w, Cat(o, m)) = Cat(Cat(w, o), m)
      BY <1>1, <2>1, CatAssociative
    <3>2. Cat(n, Cat(Cat(w, o), m)) = Cat(Cat(n, Cat(w, o)), m)
      BY <1>1, <1>3, <2>1, CatAssociative
    <3>3. QED
      BY <3>1, <3>2
  <2>5. Unfolded' = Unfolded \/ Unfolded' = Unfolded \o [i \in 1..(k' - k) |-> k + i]
    BY <1>1, <1>2, <2>1, <2>3, <2>4 DEF Cat
  <2>6. EndToEnd!Put
    BY <1>2, <2>2, <2>5 DEF EndToEnd!Put, Unfolded, WasRead, k
  <2>7. QED
    BY <2>6 DEF EndToEnd!Next
<1>6. CASE OutEnded
  <2>1. o' = <<>> /\ accepted' = accepted /\ <<>> \in Seq(Nat)
    BY <1>6 DEF OutEnded, o
  <2>2. Cat(n, Cat(w, <<>>)) = Cat(Cat(n, w), <<>>)
    BY <1>1, <2>1, CatAssociative
  <2>3. Cat(o, <<>>) = o
    BY <1>1, CatAssociative
  <2>4. Unfolded = Cat(Cat(n, w), Cat(o, <<>>)) /\ Unfolded' = Cat(Cat(n, w), <<>>)
    BY <1>1, <1>2, <1>3, <2>1, <2>2, <2>3
  <2>5. EndToEnd!Lose
    BY <1>1, <1>2, <1>3, <2>1, <2>4, MiddleIsLost
  <2>6. QED
    BY <2>5 DEF EndToEnd!Next
<1>7. QED
  BY <1>4, <1>5, <1>6, OutMoves DEF NearMoves, EndsInv

LEMMA TransmitIsStream ==
  ASSUME EndsInv, PairInv, PairFacts, PairFacts', Transmit
  PROVE  [EndToEnd!Next]_EndToEnd!vars
<1> DEFINE n == Named(arrived, Far!Unread)
           w == wire
           x == <<sending>>
           q == sendq
<1>1. /\ n \in Seq(Nat) /\ w \in Seq(Nat) /\ x \in Seq(Nat) /\ q \in Seq(Nat)
      /\ Unfolded = Cat(n, Cat(w, Cat(x, q))) /\ Unfolded' = Cat(n', Cat(w', q))
      /\ w' = w \/ w' = Cat(w, x)
      /\ accepted' = accepted
  BY TransmitMoves DEF PairInv, PairFacts, OnWay
<1>2. n' = n /\ WasRead' = WasRead
  <2>1. /\ UNCHANGED <<arrived, f_got, f_recv_buf, f_recvq, f_pushing>>
    BY TransmitMoves DEF farVars
  <2>2. Far!Unread' = Far!Unread
    BY <2>1 DEF Far!Unread
  <2>3. QED
    BY <2>1, <2>2 DEF WasRead, AsAccepted
<1> HIDE DEF n, w, x, q
<1>3. CASE w' = Cat(w, x)
  <2>1. Cat(Cat(w, x), q) = Cat(w, Cat(x, q))
    BY <1>1, CatAssociative
  <2>2. Unfolded' = Unfolded
    BY <1>1, <1>2, <1>3, <2>1
  <2>3. QED
    BY <1>1, <1>2, <2>2 DEF EndToEnd!vars, Unfolded, WasRead
<1>4. CASE w' = w
  <2>1. Cat(x, q) \in Seq(Nat) /\ Cat(n, w) \in Seq(Nat)
    BY <1>1, CatAssociative
  <2>2. Cat(n, Cat(w, Cat(x, q))) = Cat(Cat(n, w), Cat(x, q))
    BY <1>1, <2>1, CatAssociative
  <2>3. Cat(n, Cat(w, q)) = Cat(Cat(n, w), q)
    BY <1>1, CatAssociative
  <2>4. Unfolded = Cat(Cat(n, w), Cat(x, q)) /\ Unfolded' = Cat(Cat(n, w), q)
    BY <1>1, <1>2, <1>4, <2>2, <2>3
  <2>5. EndToEnd!Lose
    BY <1>1, <1>2, <2>1, <2>4, MiddleIsLost
  <2>6. QED
    BY <2>5 DEF EndToEnd!Next
<1>5. QED
  BY <1>1, <1>3, <1>4

\* An arrival changes nothing: the message moves from the connection to what
\* is unread.
LEMMA DeliverIsStream ==
  ASSUME FarFacts!Unshared, EndsInv, PairInv, PairFacts, PairFacts', Deliver
  PROVE  UNCHANGED EndToEnd!vars
<1> DEFINE a == arrived
           g == f_got[Reader]
           u == Far!Unread
           h == Head(wire)
           m == <<h>>
           c == <<Len(a) + 1>>
           n == Named(a, u)
           w == wire
           v == wire'
           o == OutChan
<1>1. /\ h \in Nat /\ v \in Seq(Nat) /\ w = Cat(m, v) /\ a' = Append(a, h)
      /\ g' = g /\ u' = Cat(u, c) /\ o' = o /\ accepted' = accepted
  BY DeliverMoves
<1>2. /\ a \in Seq(Nat) /\ n \in Seq(Nat) /\ o \in Seq(Nat) /\ m \in Seq(Nat)
      /\ Numbers(a, g) /\ Numbers(a, u)
      /\ Unfolded = Cat(n, Cat(w, o)) /\ Unfolded' = Cat(n', Cat(v, o))
      /\ WasRead = Named(a, g) /\ WasRead' = Named(a', g')
  BY <1>1 DEF PairInv, PairFacts, OnWay
<1>3. n' = Named(a', u')
  OBVIOUS
<1> HIDE DEF a, g, u, h, n, w, v, o
<1>4. /\ Named(Append(a, h), g) = Named(a, g)
      /\ Named(Append(a, h), u) = Named(a, u) /\ Numbers(Append(a, h), u)
      /\ Numbers(Append(a, h), c) /\ Named(Append(a, h), c) = m
  BY <1>1, <1>2, NamedGrows
<1>5. n' = Cat(n, m)
  <2> DEFINE b == Append(a, h)
  <2>1. b \in Seq(Nat)
    BY <1>1, <1>2
  <2>2. n' = Named(b, Cat(u, c)) /\ n = Named(a, u)
    BY <1>1, <1>3 DEF n
  <2> HIDE DEF b, m, c
  <2>3. Named(b, Cat(u, c)) = Cat(Named(b, u), Named(b, c))
    BY <1>4, <2>1, NamedCat DEF b
  <2>4. QED
    BY <1>4, <2>2, <2>3 DEF b
<1> HIDE DEF m, c
<1>6. Cat(v, o) \in Seq(Nat) /\ Cat(Cat(m, v), o) = Cat(m, Cat(v, o))
  BY <1>1, <1>2, CatAssociative
<1>7. Cat(Cat(n, m), Cat(v, o)) = Cat(n, Cat(m, Cat(v, o)))
  BY <1>2, <1>6, CatAssociative
<1>8. Unfolded' = Unfolded /\ WasRead' = WasRead
  BY <1>1, <1>2, <1>4, <1>5, <1>6, <1>7
<1>9. QED
  BY <1>1, <1>8 DEF EndToEnd!vars, Unfolded, WasRead

LEMMA FarIsStream ==
  ASSUME FarFacts!Unshared, EndsInv, EndsInv', PairInv, PairFacts, PairFacts', FarMoves
  PROVE  [EndToEnd!Next]_EndToEnd!vars
<1> DEFINE a == arrived
           g == f_got[Reader]
           u == Far!Unread
           v == Far!Unread'
           w == OnWay
           nu == Named(a, u)
           nv == Named(a, v)
<1>1. /\ a \in Seq(Nat) /\ Numbers(a, g) /\ Numbers(a, u) /\ Numbers(a, v) /\ w \in Seq(Nat)
      /\ nu \in Seq(Nat) /\ nv \in Seq(Nat) /\ accepted' = accepted
      /\ Unfolded = Cat(nu, w) /\ Unfolded' = Cat(nv, w)
      /\ WasRead = Named(a, g) /\ WasRead' = Named(a, g')
  <2>1. UNCHANGED <<accepted, arrived, OnWay>>
    BY DEF FarMoves, nearVars, vars, outVars, wireVars, OnWay, OutChan
  <2>2. Numbers(arrived', Far!Unread') /\ Unfolded' = Cat(Named(arrived', Far!Unread'), OnWay')
        /\ Named(arrived', Far!Unread') \in Seq(Nat) /\ WasRead' = Named(arrived', f_got'[Reader])
    BY DEF PairFacts
  <2>3. QED
    BY <2>1, <2>2 DEF PairInv, PairFacts
<1>2. CASE FarTakes
  <2>1. PICK f \in Seq(Nat) : g' = Cat(g, f) /\ u = Cat(f, v)
    BY <1>2 DEF FarTakes
  <2> HIDE DEF a, g, u, v, w
  <2> DEFINE nf == Named(a, f)
  <2>2. Numbers(a, f)
    <3>1. v \in Seq(Nat)
      BY <1>1 DEF Numbers
    <3>2. QED
      BY <1>1, <2>1, <3>1, NumbersCat
  <2>3. nf \in Seq(Nat) /\ nu = Cat(nf, nv) /\ Named(a, g') = Cat(Named(a, g), nf)
    BY <1>1, <2>1, <2>2, NamedCat, NamedType
  <2> HIDE DEF nf, nu, nv
  <2>4. Cat(Cat(nf, nv), w) = Cat(nf, Cat(nv, w))
    BY <1>1, <2>3, CatAssociative
  <2>5. Unfolded = Cat(nf, Unfolded') /\ WasRead' = Cat(WasRead, nf)
    BY <1>1, <2>3, <2>4
  <2>6. QED
    BY <1>1, <2>3, <2>5, FrontIsGot DEF EndToEnd!Next
<1>3. CASE FarLoses
  <2>1. PICK m \in Seq(Nat) : u = Cat(m, v) \/ u = Cat(v, m)
    BY <1>3 DEF FarLoses
  <2>2. g' = g
    BY <1>3 DEF FarLoses
  <2>3. WasRead' = WasRead
    BY <1>1, <2>2
  <2> HIDE DEF a, g, u, v, w
  <2> DEFINE nm == Named(a, m)
  <2>4. Numbers(a, m)
    <3>1. v \in Seq(Nat)
      BY <1>1 DEF Numbers
    <3>2. CASE u = Cat(m, v)
      BY <1>1, <3>1, <3>2, NumbersCat
    <3>3. CASE u = Cat(v, m)
      BY <1>1, <3>1, <3>3, NumbersCat
    <3>4. QED
      BY <2>1, <3>2, <3>3
  <2>5. nm \in Seq(Nat) /\ (nu = Cat(nm, nv) \/ nu = Cat(nv, nm)) /\ <<>> \in Seq(Nat)
    BY <1>1, <2>1, <2>4, NamedCat, NamedType
  <2> HIDE DEF nm, nu, nv
  <2>6. CASE nu = Cat(nv, nm)
    <3>1. Cat(Cat(nv, nm), w) = Cat(nv, Cat(nm, w))
      BY <1>1, <2>5, CatAssociative
    <3>2. Unfolded = Cat(nv, Cat(nm, w)) /\ Unfolded' = Cat(nv, w)
      BY <1>1, <2>6, <3>1
    <3>3. QED
      BY <1>1, <2>3, <2>5, <3>2, MiddleIsLost DEF EndToEnd!Next
  <2>7. CASE nu = Cat(nm, nv)
    <3> DEFINE z == Cat(nv, w)
    <3>1. z \in Seq(Nat) /\ Cat(Cat(nm, nv), w) = Cat(nm, z)
      BY <1>1, <2>5, CatAssociative
    <3> HIDE DEF z
    <3>2. Cat(nm, z) \in Seq(Nat) /\ Cat(<<>>, Cat(nm, z)) = Cat(nm, z) /\ Cat(<<>>, z) = z
      BY <2>5, <3>1, CatAssociative
    <3>3. Unfolded = Cat(<<>>, Cat(nm, z)) /\ Unfolded' = Cat(<<>>, z)
      BY <1>1, <2>7, <3>1, <3>2 DEF z
    <3>4. QED
      BY <1>1, <2>3, <2>5, <3>1, <3>3, MiddleIsLost DEF EndToEnd!Next
  <2>8. QED
    BY <2>5, <2>6, <2>7
<1>4. QED
  BY <1>2, <1>3, FarStep

LEMMA StreamStep ==
  ASSUME FarFacts!Unshared, EndsInv, EndsInv', PairInv, PairFacts, PairFacts',
         [PairNext]_pairVars
  PROVE  [EndToEnd!Next]_EndToEnd!vars
BY PairStep, NearIsStream, TransmitIsStream, DeliverIsStream, FarIsStream

LEMMA StreamInit == ASSUME Unshared, PairInit PROVE EndToEnd!Init
<1>1. /\ wire = <<>> /\ arrived = <<>> /\ sendq = <<>> /\ spc = "check" /\ accepted = 0
      /\ f_recv_buf = [h \in Handle |-> <<>>] /\ f_got = [h \in Handle |-> <<>>]
      /\ f_recvq = <<>> /\ f_pushing = <<>> /\ Reader \in Handle
  BY DEF PairInit, Init, Far!Init, Unshared
<1>2. f_got[Reader] = <<>> /\ f_recv_buf[Far!Reader] = <<>>
  BY <1>1 DEF Reader, Far!Reader
<1>3. Far!FlattenSeq(<<>>) = <<>>
  BY DEF Far!FlattenSeq
<1>4. Cat(<<>>, <<>>) = <<>>
  BY DEF Cat
<1>5. Far!Unread = <<>>
  BY <1>1, <1>2, <1>3, <1>4 DEF Far!Unread, Cat
<1>6. AsAccepted(<<>>) = <<>>
  BY DEF AsAccepted
<1>7. Unfolded = <<>>
  BY <1>1, <1>4, <1>5, <1>6 DEF Unfolded, Cat
<1>8. QED
  BY <1>1, <1>2, <1>6, <1>7 DEF EndToEnd!Init, Unfolded

(* From poll_write at one end to poll_read at the other, whatever is       *)
(* dropped or breaks and however the two tasks, their four queues and the  *)
(* connection interleave: messages may be lost, but what the reader gets   *)
(* is what was accepted, in order and without repetition.                  *)
THEOREM EndToEndCorrect == ASSUME Unshared PROVE PairSpec => EndToEndStream
<1>1. FarFacts!Unshared
  BY DEF Unshared, FarFacts!Unshared, Reader, FarFacts!Reader
<1>2. PairInit => EndToEnd!Init
  BY StreamInit
<1>3. PairInit => PairInv
  BY PairInvInit
<1>4. PairInv /\ EndsInv /\ [PairNext]_pairVars => PairInv'
  BY <1>1, PairInvStep
<1>5. PairInv /\ EndsInv => PairFacts
  BY <1>1, FactsFollow
<1>6. PairSpec => []EndsInv
  BY FarAlways, PTL DEF EndsInv
<1>7. /\ EndsInv /\ EndsInv' /\ PairInv /\ PairFacts /\ PairFacts' /\ [PairNext]_pairVars
      => [EndToEnd!Next]_EndToEnd!vars
  BY <1>1, StreamStep
<1>8. QED
  BY <1>2, <1>3, <1>4, <1>5, <1>6, <1>7, PTL DEF PairSpec, EndToEndStream, EndToEnd!Spec
-----------------------------------------------------------------------------
(* What holds while neither end is dropped and the connection stands.      *)

\* An end closes only once its connection is lost, and what has been sent over
\* one that stands has arrived or is on it.
Linked == /\ closed => link # "up"
          /\ f_closed => f_link # "up"
          /\ link = "up" => sent = arrived \o wire

LEMMA MovesAlong ==
  ASSUME NEW a \in Seq(Nat), NEW w \in Seq(Nat), NEW x \in Nat
  PROVE  /\ a \o Append(w, x) = Append(a \o w, x)
         /\ w # <<>> => Append(a, Head(w)) \o Tail(w) = a \o w
<1>1. a \o Append(w, x) = Append(a \o w, x)
  <2> DEFINE m == <<x>>
  <2>1. m \in Seq(Nat) /\ Cat(a, w) \in Seq(Nat)
    BY CatAssociative
  <2>2. ASSUME NEW s \in Seq(Nat) PROVE Append(s, x) = Cat(s, m)
    BY <2>2, AppendIsConcat DEF Cat
  <2> HIDE DEF m
  <2>3. Cat(a, Cat(w, m)) = Cat(Cat(a, w), m)
    BY <2>1, CatAssociative
  <2>4. QED
    BY <2>1, <2>2, <2>3 DEF Cat
<1>2. ASSUME w # <<>> PROVE Append(a, Head(w)) \o Tail(w) = a \o w
  <2> DEFINE m == <<Head(w)>>
             t == Tail(w)
  <2>1. Head(w) \in Nat /\ t \in Seq(Nat) /\ m \in Seq(Nat) /\ w = Cat(m, t)
    BY <1>2 DEF Cat
  <2>2. Append(a, Head(w)) = Cat(a, m)
    BY <2>1, AppendIsConcat DEF Cat
  <2> HIDE DEF m, t
  <2>3. Cat(Cat(a, m), t) = Cat(a, Cat(m, t))
    BY <2>1, CatAssociative
  <2>4. QED
    BY <2>1, <2>2, <2>3 DEF Cat, t
<1>3. QED
  BY <1>1, <1>2

LEMMA LinkedStep ==
  ASSUME PairInv, TypeOK, Linked, [PairNext]_pairVars
  PROVE  Linked'
<1>1. ASSUME UNCHANGED <<link, f_link, sent, arrived, wire>>,
             UNCHANGED closed \/ link # "up", UNCHANGED f_closed \/ f_link # "up"
      PROVE  Linked'
  BY <1>1 DEF Linked
<1>2. UNCHANGED nearVars => UNCHANGED <<closed, link, sent>>
  BY DEF nearVars, vars, outVars
<1>3. UNCHANGED farVars => UNCHANGED <<f_closed, f_link>>
  BY DEF farVars
<1>4. UNCHANGED wireVars => UNCHANGED <<arrived, wire>>
  BY DEF wireVars
<1>5. ASSUME NEW h \in Handle, NearApplication(h) PROVE Linked'
  <2>1. UNCHANGED <<closed, link, sent, farVars, wireVars>>
    BY <1>5 DEF NearApplication, NearOnly, PollWrite, TrySend, DropHandle, outVars
  <2>2. QED
    BY <1>1, <1>3, <1>4, <2>1
<1>6. ASSUME NEW h \in Handle, FarApplication(h) PROVE Linked'
  <2>1. UNCHANGED <<f_closed, f_link, nearVars, wireVars>>
    <3>1. Far!PollRead(h) => UNCHANGED <<f_closed, f_link>>
      BY DEF Far!PollRead, Far!ReadLeftover, Far!ReadPending, Far!ReadMessage
    <3>2. Far!Repoll(h) \/ Far!DropHandle(h) => UNCHANGED <<f_closed, f_link>>
      BY DEF Far!Repoll, Far!DropHandle
    <3>3. QED
      BY <1>6, <3>1, <3>2 DEF FarApplication, FarOnly
  <2>2. QED
    BY <1>1, <1>2, <1>4, <2>1
<1>7. CASE Transmit
  <2>1. /\ UNCHANGED <<closed, f_closed, link, f_link, arrived>> /\ sent' = Append(sent, sending)
        /\ link = "up" => wire' = Append(wire, sending)
    BY <1>3, <1>7 DEF Transmit, SendDone
  <2>2. arrived \o Append(wire, sending) = Append(arrived \o wire, sending)
    BY MovesAlong DEF PairInv, TypeOK
  <2>3. QED
    BY <2>1, <2>2 DEF Linked
<1>8. CASE Deliver
  <2>1. /\ UNCHANGED <<closed, f_closed, link, f_link, sent>>
        /\ arrived' = Append(arrived, Head(wire)) /\ wire' = Tail(wire) /\ wire # <<>>
    BY <1>2, <1>8 DEF Deliver, Far!RecvBinary
  <2>2. Append(arrived, Head(wire)) \o Tail(wire) = arrived \o wire
    BY <2>1, MovesAlong, 0 \in Nat DEF PairInv
  <2>3. QED
    BY <2>1, <2>2 DEF Linked
<1>9. CASE NearTask /\ ~Transmit
  <2>1. /\ UNCHANGED <<link, sent, farVars, wireVars>>
        /\ UNCHANGED closed \/ link # "up"
    BY <1>9 DEF NearTask, NearOnly, NearSendWait, NearSend, NearRecv, SendCheck, SendRecv,
                SendRecvClosed, SendError, RecvCheck, RecvEnd, Exit, StoreClosed, outVars
  <2>2. QED
    BY <1>1, <1>3, <1>4, <2>1
<1>10. CASE FarTask /\ ~Deliver
  <2>1. /\ UNCHANGED <<f_link, nearVars, wireVars>>
        /\ UNCHANGED f_closed \/ f_link # "up"
    BY <1>10 DEF FarTask, FarOnly, FarSendWait, FarRecv, FarPush, Far!SendCheck,
                 Far!SendRecvClosed, Far!RecvCheck, Far!RecvEnd, Far!RecvPush,
                 Far!RecvPushClosed, Far!Exit, Far!StoreClosed
  <2>2. QED
    BY <1>1, <1>2, <1>4, <2>1
<1>11. CASE NearLosesLink
  <2>1. UNCHANGED <<closed, sent, farVars, wireVars>> /\ link' = "down"
    BY <1>11 DEF NearLosesLink, NearOnly, LinkDown, outVars
  <2>2. QED
    BY <1>3, <1>4, <2>1 DEF Linked
<1>12. CASE FarLosesLink
  <2>1. UNCHANGED <<f_closed, nearVars, wireVars>> /\ f_link' = "down"
    BY <1>12 DEF FarLosesLink, FarOnly, Far!LinkDown
  <2>2. QED
    BY <1>2, <1>4, <2>1 DEF Linked
<1>13. CASE UNCHANGED pairVars
  BY <1>1, <1>2, <1>3, <1>4, <1>13 DEF pairVars
<1>14. QED
  BY <1>5, <1>6, <1>7, <1>8, <1>9, <1>10, <1>11, <1>12, <1>13 DEF PairNext, PeerGone

\* Named by the numbers from 1 on, the arrivals are themselves.
LEMMA NamedByAll ==
  ASSUME NEW a \in Seq(Nat)
  PROVE  Named(a, [i \in 1..Len(a) |-> i]) = a
<1>1. a = [i \in 1..Len(a) |-> a[i]]
  OBVIOUS
<1>2. QED
  BY <1>1 DEF Named

LEMMA RangeOfCat ==
  ASSUME NEW s \in Seq(Nat), NEW t \in Seq(Nat)
  PROVE  Range(Cat(s, t)) = Range(s) \cup Range(t)
<1> DEFINE w == Cat(s, t)
<1>1. /\ DOMAIN s = 1..Len(s) /\ DOMAIN t = 1..Len(t) /\ DOMAIN w = 1..(Len(s) + Len(t))
      /\ Len(s) \in Nat /\ Len(t) \in Nat
      /\ \A i \in 1..Len(s) : w[i] = s[i]
      /\ \A i \in 1..Len(t) : w[Len(s) + i] = t[i]
  BY ConcatParts DEF Cat
<1> HIDE DEF w
<1>2. ASSUME NEW i \in DOMAIN w PROVE w[i] \in Range(s) \cup Range(t)
  <2>1. CASE i \in 1..Len(s)
    BY <1>1, <2>1 DEF Range
  <2>2. CASE i \notin 1..Len(s)
    <3>1. i - Len(s) \in 1..Len(t) /\ i = Len(s) + (i - Len(s))
      BY <1>1, <2>2
    <3>2. QED
      BY <1>1, <3>1 DEF Range
  <2>3. QED
    BY <2>1, <2>2
<1>3. \A i \in DOMAIN s : i \in DOMAIN w /\ w[i] = s[i]
  BY <1>1
<1>4. \A i \in DOMAIN t : Len(s) + i \in DOMAIN w /\ w[Len(s) + i] = t[i]
  BY <1>1
<1>5. QED
  BY <1>2, <1>3, <1>4 DEF Range, w

\* Every message that was accepted and not refused was read, or is on its way.
NothingMissing ==
  live # {} /\ f_live # {} /\ link = "up" /\ f_link = "up" =>
    Range(WasRead \o Unfolded) = (1..accepted) \ refused

LEMMA NothingIsMissing ==
  ASSUME Unshared, PairInv, PairFacts, EndsInv, Linked,
         OpenLosesOnlyRefused, FarFacts!DeadTaskIsClosed, FarFacts!StreamIntact
  PROVE  NothingMissing
<1> SUFFICES ASSUME live # {}, f_live # {}, link = "up", f_link = "up"
             PROVE  Range(WasRead \o Unfolded) = (1..accepted) \ refused
  BY DEF NothingMissing
<1> DEFINE g == f_got[Reader]
           u == Far!Unread
           all == [i \in 1..Len(arrived) |-> i]
<1>1. /\ FarFacts!Reader = Reader /\ FarFacts!Unread = Far!Unread
      /\ Reader \in f_live /\ f_spc # "done"
  <2>1. FarFacts!Reader = Reader
    BY DEF Reader, FarFacts!Reader
  <2>2. f_live \subseteq Handle /\ Handle = {Reader}
    BY DEF EndsInv, FarFacts!TypeOK, Unshared
  <2>3. f_spc # "done"
    BY DEF Linked, FarFacts!DeadTaskIsClosed, FarFacts!TaskDone
  <2>4. QED
    BY <2>1, <2>2, <2>3, FarSame
<1>2. Cat(g, u) = all
  <2>1. FarFacts!Stream = [i \in 1..f_incoming |-> i]
    BY <1>1 DEF FarFacts!StreamIntact, FarFacts!TaskDone
  <2>2. QED
    BY <1>1, <2>1 DEF FarFacts!Stream, Cat, PairInv
<1>3. /\ arrived \in Seq(Nat) /\ wire \in Seq(Nat) /\ OutChan \in Seq(Nat) /\ OnWay \in Seq(Nat)
      /\ Numbers(arrived, g) /\ Numbers(arrived, u) /\ WasRead = Named(arrived, g)
      /\ WasRead \in Seq(Nat) /\ Named(arrived, u) \in Seq(Nat)
      /\ Unfolded = Cat(Named(arrived, u), OnWay)
  BY DEF PairInv, PairFacts
<1> HIDE DEF g, u
<1>4. Cat(WasRead, Named(arrived, u)) = arrived
  <2>1. Named(arrived, Cat(g, u)) = Cat(WasRead, Named(arrived, u))
    BY <1>3, NamedCat
  <2>2. QED
    BY <1>2, <1>3, <2>1, NamedByAll
<1>5. WasRead \o Unfolded = Cat(sent, OutChan)
  <2>1. Cat(WasRead, Unfolded) = Cat(arrived, OnWay)
    BY <1>3, <1>4, CatAssociative
  <2>2. Cat(arrived, OnWay) = Cat(Cat(arrived, wire), OutChan)
    BY <1>3, CatAssociative DEF OnWay
  <2>3. Cat(arrived, wire) = sent
    BY DEF Linked, Cat
  <2>4. QED
    BY <2>1, <2>2, <2>3 DEF Cat
<1> DEFINE o == IF spc = "send" THEN <<sending>> ELSE <<>>
           held == IF spc = "send" THEN {sending} ELSE {}
<1>6. sent \in Seq(Nat) /\ o \in Seq(Nat) /\ sendq \in Seq(Nat) /\ OutChan = Cat(o, sendq)
  BY DEF EndsInv, TypeOK, OutChan, Cat
<1>7. Range(o) = held
  <2>1. Range(<<>>) = {} /\ Range(<<sending>>) = {sending}
    BY DEF Range
  <2>2. QED
    BY <2>1
<1>8. (1..accepted) \ refused = (Range(sent) \cup Range(sendq)) \cup held
  BY DEF OpenLosesOnlyRefused, Linked
<1> HIDE DEF o, held
<1>9. Range(Cat(sent, OutChan)) = Range(sent) \cup Range(OutChan) /\ Range(OutChan) = Range(o) \cup Range(sendq)
  BY <1>3, <1>6, RangeOfCat
<1>10. QED
  BY <1>5, <1>7, <1>8, <1>9

(* No message is in nobody's hands: as long as both ends are held and the  *)
(* connection stands, each message that poll_write took and did not refuse *)
(* was given to the far reader or waits in a queue, in a loop or on the    *)
(* connection before it.  EndToEndCorrect has them there in order.         *)
THEOREM NothingMissingCorrect ==
  ASSUME Unshared, MessagesFit PROVE PairSpec => []NothingMissing
<1>1. FarFacts!Unshared /\ FarFacts!MessagesFit
  BY DEF Unshared, FarFacts!Unshared, Reader, FarFacts!Reader, MessagesFit, FarFacts!MessagesFit
<1>2. PairInit => PairInv /\ Linked
  <2>1. PairInit => Linked
    BY DEF PairInit, Init, Far!Init, Linked
  <2>2. QED
    BY <2>1, PairInvInit
<1>3. PairInv /\ EndsInv /\ [PairNext]_pairVars => PairInv'
  BY <1>1, PairInvStep
<1>4. PairInv /\ EndsInv /\ Linked /\ [PairNext]_pairVars => Linked'
  BY LinkedStep DEF EndsInv
<1>5. PairInit => FarFacts!Init /\ Init
  BY FarSame DEF PairInit
<1>6. [PairNext]_pairVars => [FarFacts!Next]_FarFacts!vars /\ [Next]_vars
  BY FarSame, NearIsPipe, FarIsPipe
<1>7. FarFacts!Spec => []FarFacts!StreamIntact
  BY <1>1, PipeAssumption, FarFacts!FittingIsIntactCorrect
<1>8. FarFacts!Spec => []FarFacts!DeadTaskIsClosed
  BY PipeAssumption, FarFacts!DeadTaskCorrect
<1>9. /\ PairInv /\ EndsInv /\ Linked /\ OpenLosesOnlyRefused
      /\ FarFacts!DeadTaskIsClosed /\ FarFacts!StreamIntact
      => NothingMissing
  BY <1>1, FactsFollow, NothingIsMissing
<1>10. PairSpec => []EndsInv
  BY FarAlways, PTL DEF EndsInv
<1>11. QED
  BY <1>2, <1>3, <1>4, <1>5, <1>6, <1>7, <1>8, <1>9, <1>10, OpenLosesOnlyRefusedCorrect, PTL
     DEF PairSpec, FarFacts!Spec, Spec
=============================================================================
