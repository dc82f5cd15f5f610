-------------------------- MODULE WsocksKey_proofs --------------------------
(***************************************************************************)
(* That the key of the wsocks server is a long-term one and a whole one,   *)
(* for any number of passes and of parts in which the file is written.     *)
(***************************************************************************)
EXTENDS WsocksKey, TLAPS

\* Where the loop stands, and what it holds there.
WriteInv == /\ pc \in {"create", "write"} => pre_sk \in Random
            /\ pc = "write" => file.parts \in 0..(Whole - 1)
            /\ pc = "serve" => file # None

\* An announced key is the one in the file, and nobody is about to write over
\* it, unless the file could not be read.
KeptInv == announced # None => \/ misread
                               \/ file = announced /\ pc \notin {"create", "write"}

\* A file that is not being written is whole, unless a write has been stopped.
WholeInv == pc # "write" /\ file # None => file.parts = Whole \/ torn

KeyInv == TypeOK /\ WriteInv /\ KeptInv /\ WholeInv

\* The invariant holds on a machine where the server has never run.
LEMMA KeyInit == ASSUME Init PROVE KeyInv
<1>1. None \in Content
  BY DEF Content
<1>2. TypeOK
  <2>1. pc = "off" /\ i \in 0..(Passes - 1)
    BY KeyAssumption DEF Init
  <2>2. QED
    BY <1>1, <2>1 DEF Init, TypeOK
<1>3. WriteInv /\ KeptInv /\ WholeInv
  BY DEF Init, WriteInv, KeptInv, WholeInv
<1>4. QED
  BY <1>2, <1>3 DEF KeyInv

\* The end of the process keeps it, wherever it comes.
LEMMA StopKeeps == ASSUME KeyInv, Stop PROVE KeyInv'
<1>1. /\ pc' = "off" /\ i' = 0 /\ pre_sk' = NoRandom
      /\ torn' = (torn \/ pc = "write") /\ UNCHANGED <<file, announced, misread>>
  BY DEF Stop
<1>2. TypeOK' /\ WriteInv'
  BY <1>1, KeyAssumption DEF KeyInv, TypeOK, WriteInv
<1>3. KeptInv'
  BY <1>1 DEF KeyInv, KeptInv
<1>4. WholeInv'
  BY <1>1 DEF KeyInv, WholeInv
<1>5. QED
  BY <1>2, <1>3, <1>4 DEF KeyInv

\* Random bytes never overwrite a key that was announced and can be read.
LEMMA ReadFailsKeeps == ASSUME KeyInv, ReadFails PROVE KeyInv'
<1>1. /\ pc = "read" /\ pc' = "create" /\ pre_sk' \in Random
      /\ misread' = (misread \/ file # None)
      /\ UNCHANGED <<i, file, announced, torn>>
  BY DEF ReadFails, Generate
<1>2. TypeOK' /\ WriteInv'
  BY <1>1 DEF KeyInv, TypeOK, WriteInv
<1>3. KeptInv'
  BY <1>1 DEF KeyInv, KeptInv
<1>4. WholeInv'
  BY <1>1 DEF KeyInv, WholeInv
<1>5. QED
  BY <1>2, <1>3, <1>4 DEF KeyInv

\* Writing a part: the file is left alone once it is whole.
LEMMA WriteKeeps == ASSUME KeyInv, WritePart PROVE KeyInv'
<1>1. /\ pc = "write" /\ pre_sk \in Random /\ file.parts \in 0..(Whole - 1)
      /\ file' = [bytes |-> pre_sk, parts |-> file.parts + 1]
      /\ pc' = IF file'.parts = Whole THEN "pass" ELSE "write"
      /\ UNCHANGED <<i, pre_sk, announced, misread, torn>>
  BY DEF WritePart, KeyInv, WriteInv
<1>2. file' \in Content /\ file'.parts = file.parts + 1
  BY <1>1, KeyAssumption DEF Content
<1>3. TypeOK'
  BY <1>1, <1>2 DEF KeyInv, TypeOK
<1>4. WriteInv'
  BY <1>1, <1>2, KeyAssumption DEF WriteInv
<1>5. KeptInv' /\ WholeInv'
  BY <1>1 DEF KeyInv, KeptInv, WholeInv
<1>6. QED
  BY <1>3, <1>4, <1>5 DEF KeyInv

\* Every step keeps the invariant.
LEMMA KeyStep == ASSUME KeyInv, [Next]_vars PROVE KeyInv'
<1> USE KeyAssumption DEF KeyInv, TypeOK, WriteInv, KeptInv, WholeInv
<1>1. CASE Start
  BY <1>1 DEF Start
<1>2. CASE NextPass
  BY <1>2 DEF NextPass
<1>3. CASE ReadKey
  BY <1>3 DEF ReadKey
<1>4. CASE Create
  BY <1>4 DEF Create, Empty, None, Content
<1>5. CASE UNCHANGED vars
  BY <1>5 DEF vars
<1>6. CASE Stop
  BY <1>6, StopKeeps
<1>7. QED
  BY <1>1, <1>2, <1>3, <1>4, <1>5, <1>6, ReadFailsKeeps, WriteKeeps
     DEF Next, Boot, Kill, GiveUp, WriteFails

\* So it always holds.
LEMMA KeyAlways == Spec => []KeyInv
<1>1. Init => KeyInv
  BY KeyInit
<1>2. KeyInv /\ [Next]_vars => KeyInv'
  BY KeyStep
<1>3. QED
  BY <1>1, <1>2, PTL DEF Spec

-----------------------------------------------------------------------------
(* The pass, the content of the file and the key are what they should be,  *)
(* in particular no pass begins that the loop should have refused.         *)
THEOREM KeyTypeCorrect == Spec => []TypeOK
<1>1. KeyInv => TypeOK
  BY DEF KeyInv
<1>2. QED
  BY <1>1, KeyAlways, PTL

(* A key is served whole unless a write was stopped, however many parts a  *)
(* write takes and however many starts have failed before.                 *)
THEOREM WholeKeyCorrect == Spec => []ServedKeyIsWhole
<1>1. KeyInv => ServedKeyIsWhole
  BY DEF KeyInv, WriteInv, WholeInv, ServedKeyIsWhole
<1>2. QED
  BY <1>1, KeyAlways, PTL

(* A restart announces the key announced before, unless the file was there *)
(* and could not be read.                                                  *)
THEOREM LongTermCorrect == Spec => KeyIsLongTerm
<1>1. ASSUME KeyInv, [Next]_vars
      PROVE  [announced' # announced => announced = None \/ misread]_vars
  <2>1. SUFFICES ASSUME Next, announced' # announced
                 PROVE  announced = None \/ misread
    BY <1>1
  <2>2. ReadKey
    BY <2>1 DEF Next, Boot, Start, Kill, GiveUp, WriteFails, Stop, NextPass, ReadFails,
                Generate, Create, WritePart
  <2>3. announced' = file
    BY <2>2 DEF ReadKey
  <2>4. QED
    BY <1>1, <2>1, <2>3 DEF KeyInv, KeptInv
<1>2. QED
  BY <1>1, KeyAlways, PTL DEF Spec, KeyIsLongTerm

-----------------------------------------------------------------------------
(* Why StartEnds: what the current pass of the loop still has to do.       *)
Left == CASE pc = "read"   -> Whole + 2
          [] pc = "create" -> Whole + 1
          [] pc = "write"  -> Whole - file.parts
          [] OTHER         -> 0

StartIsBounded ==
  [][Boot => \/ pc' \in {"serve", "off"}
             \/ i' > i /\ i' < Passes
             \/ i' = i /\ Left' \in 0..(Left - 1)]_vars

\* A step of a start ends it, goes on to a pass that the counter allows, or
\* leaves less of this pass.
LEMMA BootAdvances ==
  ASSUME KeyInv, Boot
  PROVE  \/ pc' \in {"serve", "off"}
         \/ i' > i /\ i' < Passes
         \/ i' = i /\ Left' \in 0..(Left - 1)
<1>1. i \in Nat /\ Passes \in Nat /\ Whole \in Nat \ {0}
  BY KeyAssumption DEF KeyInv, TypeOK
<1>2. CASE GiveUp \/ ReadKey \/ WriteFails
  BY <1>2 DEF GiveUp, ReadKey, WriteFails, Stop
<1>3. CASE NextPass
  BY <1>1, <1>3 DEF NextPass
<1>4. CASE ReadFails
  <2>1. pc = "read" /\ pc' = "create" /\ i' = i
    BY <1>4 DEF ReadFails, Generate
  <2>2. Left = Whole + 2 /\ Left' = Whole + 1
    BY <2>1 DEF Left
  <2>3. QED
    BY <1>1, <2>1, <2>2
<1>5. CASE Create
  <2>1. pc = "create" /\ pc' = "write" /\ i' = i /\ file'.parts = 0
    BY <1>5 DEF Create, Empty
  <2>2. Left = Whole + 1 /\ Left' = Whole
    BY <1>1, <2>1 DEF Left
  <2>3. QED
    BY <1>1, <2>1, <2>2
<1>6. CASE WritePart
  <2>1. /\ pc = "write" /\ i' = i /\ file.parts \in 0..(Whole - 1)
        /\ file'.parts = file.parts + 1
        /\ pc' = IF file'.parts = Whole THEN "pass" ELSE "write"
    BY <1>6 DEF WritePart, KeyInv, WriteInv
  <2>2. Left = Whole - file.parts
    BY <2>1 DEF Left
  <2>3. Left' = Whole - file'.parts
    BY <1>1, <2>1 DEF Left
  <2>4. QED
    BY <1>1, <2>1, <2>2, <2>3
<1>7. QED
  BY <1>2, <1>3, <1>4, <1>5, <1>6 DEF Boot

(* "This is important for avoid infinity loop": with any outcome of reads  *)
(* and writes a start takes fewer than Passes passes of a bounded number   *)
(* of steps each.  (That the task runs is the rest of StartEnds.)          *)
THEOREM StartIsBoundedCorrect == Spec => StartIsBounded
<1>1. KeyInv /\ [Next]_vars =>
        [Boot => \/ pc' \in {"serve", "off"}
                 \/ i' > i /\ i' < Passes
                 \/ i' = i /\ Left' \in 0..(Left - 1)]_vars
  BY BootAdvances
<1>2. QED
  BY <1>1, KeyAlways, PTL DEF Spec, StartIsBounded
=============================================================================
