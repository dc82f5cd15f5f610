----------------------------- MODULE CutStream -----------------------------
(***************************************************************************)
(* What the proxy promises of one direction of a TCP connection that it    *)
(* forwards: the bytes come out as they went in, and nothing is missing in *)
(* between.  The stream may be cut, once and for all; what is lost then is *)
(* an end of it, so the bytes that come out are always the first ones.     *)
(* Bytes are numbered in the order in which they go in.                    *)
(***************************************************************************)
EXTENDS Integers, Sequences

VARIABLES input,   \* how many bytes have gone in: they are 1..input
          chan,    \* the bytes on their way, oldest first
          output,  \* the bytes that have come out, oldest first
          cut      \* whether the stream has been cut

vars == <<input, chan, output, cut>>

UpTo(n) == [i \in 1..n |-> i]

Init == input = 0 /\ chan = <<>> /\ output = <<>> /\ cut = FALSE

\* Bytes go in; those that go into a cut stream are lost.
Put == /\ input' \in Nat
       /\ input' > input
       /\ chan' = IF cut THEN chan
                  ELSE chan \o [i \in 1..(input' - input) |-> input + i]
       /\ UNCHANGED <<output, cut>>

\* The oldest bytes come out.
Get == /\ \E k \in 1..Len(chan) :
             /\ output' = output \o SubSeq(chan, 1, k)
             /\ chan' = SubSeq(chan, k + 1, Len(chan))
       /\ UNCHANGED <<input, cut>>

\* The stream is cut, or more of a cut stream is given up.
Cut == /\ cut' = TRUE
       /\ \E k \in 0..Len(chan) : chan' = SubSeq(chan, 1, k)
       /\ UNCHANGED <<input, output>>

Next == Put \/ Get \/ Cut

Spec == Init /\ [][Next]_vars

(* The bytes that have come out and those behind them on the way are the   *)
(* first bytes that went in, and all of them unless the stream is cut.     *)
FirstBytes == /\ input \in Nat
              /\ \E n \in 0..input : /\ output \o chan = UpTo(n)
                                     /\ ~cut => n = input
=============================================================================
