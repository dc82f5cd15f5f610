---------------------------- MODULE LossyStream ----------------------------
(***************************************************************************)
(* What one direction of an ObfsWsPipe promises, and all that it promises: *)
(* a stream that may lose any part of what was put into it but never       *)
(* reorders it, never duplicates it and never invents anything.  Elements  *)
(* are numbered in the order in which they are put, so that a reordered,   *)
(* repeated or invented element is visible in output.                      *)
(***************************************************************************)
EXTENDS Integers, Sequences

VARIABLES input,   \* how many elements have been put: they are 1..input
          chan,    \* the elements on their way, oldest first
          output   \* the elements taken out, oldest first

vars == <<input, chan, output>>

Elements(s) == {s[i] : i \in DOMAIN s}

Ascending(s) == \A i, j \in DOMAIN s : i < j => s[i] < s[j]

Init == input = 0 /\ chan = <<>> /\ output = <<>>

\* New elements enter at the back of chan, or are lost at once.
Put == /\ input' \in Nat
       /\ input' > input
       /\ \/ chan' = chan
          \/ chan' = chan \o [i \in 1..(input' - input) |-> input + i]
       /\ UNCHANGED output

\* Any part of chan is lost; what survives keeps its order.
Lose == /\ chan' \in Seq(Elements(chan))
        /\ Ascending(chan')
        /\ UNCHANGED <<input, output>>

\* The oldest elements are taken out.
Get == /\ \E k \in 1..Len(chan) :
             /\ output' = output \o SubSeq(chan, 1, k)
             /\ chan' = SubSeq(chan, k + 1, Len(chan))
       /\ UNCHANGED input

Next == Put \/ Lose \/ Get

Spec == Init /\ [][Next]_vars

(* Whatever is taken out, and whatever is still on its way behind it, is   *)
(* in the order in which it was put, without repetition: bytes given to    *)
(* the reader of a pipe, or messages given to the websocket by send_loop.  *)
InOrder == /\ input \in Nat
           /\ output \in Seq(1..input) /\ chan \in Seq(1..input)
           /\ Ascending(output \o chan)
=============================================================================
