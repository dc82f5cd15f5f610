------------------------------ MODULE WsocksKey ------------------------------
(***************************************************************************)
(* How the wsocks server comes by its secret key                           *)
(* (src/src/bin.todo/wsocks.rs, server): it reads the key file and derives *)
(* the key from whatever is in it; if that fails it writes random bytes to *)
(* the file and reads again.  The process may be killed at any point and   *)
(* started again, reads and writes may fail, and a write is not atomic: it *)
(* empties the file first and may stop anywhere.                           *)
(*                                                                         *)
(* The content of the file is a prefix of what was written last, given by  *)
(* the random bytes it began with and the number of its parts; the secret  *)
(* key is a hash of the content, so different contents give different      *)
(* keys.  Only this server uses the file.                                  *)
(***************************************************************************)
EXTENDS Integers

CONSTANTS Random,   \* random bytes
          NoRandom, \* stands for none of them
          Passes,   \* the loop gives up when it begins this pass (10 in the code)
          Whole     \* parts in which a file is written

ASSUME KeyAssumption == /\ NoRandom \notin Random
                        /\ Passes \in Nat \ {0}
                        /\ Whole \in Nat \ {0}

None    == [bytes |-> NoRandom, parts |-> -1]   \* no file; no key announced yet
Empty   == [bytes |-> NoRandom, parts |-> 0]    \* the same whatever was written
Content == {None, Empty} \cup [bytes : Random, parts : 1..Whole]

VARIABLES
  pc,         \* "off" (not running), "pass" (about to begin a pass), "read",
              \* "create" (about to open the file for writing), "write", "serve"
  i,          \* the number of the pass
  pre_sk,     \* the random bytes that are being written
  file,       \* what the key file holds
  announced,  \* the public key last printed, as the content it was made from
  misread,    \* history: whether a read of an existing file has failed since
  torn        \* history: whether a write has been stopped before its end

vars == <<pc, i, pre_sk, file, announced, misread, torn>>

Init == /\ pc = "off" /\ i = 0 /\ pre_sk = NoRandom
        /\ file = None /\ announced = None
        /\ misread = FALSE /\ torn = FALSE

-----------------------------------------------------------------------------
Start == /\ pc = "off"
         /\ pc' = "pass" /\ i' = 0
         /\ UNCHANGED <<pre_sk, file, announced, misread, torn>>

\* The process is gone, with what it was doing.
Stop == /\ pc' = "off" /\ i' = 0 /\ pre_sk' = NoRandom
        /\ torn' = (torn \/ pc = "write")
        /\ UNCHANGED <<file, announced, misread>>

Kill == pc # "off" /\ Stop

\* The loop begins another pass, or fails.
NextPassAlways == /\ pc = "pass"
                  /\ pc' = "read"
                  /\ i' = IF i < Passes THEN i + 1 ELSE i
                  /\ UNCHANGED <<pre_sk, file, announced, misread, torn>>
NextPassTooMany == /\ pc = "pass" /\ i <= Passes
                   /\ pc' = "read" /\ i' = i + 1
                   /\ UNCHANGED <<pre_sk, file, announced, misread, torn>>
NextPass == /\ pc = "pass" /\ i + 1 < Passes
            /\ pc' = "read" /\ i' = i + 1
            /\ UNCHANGED <<pre_sk, file, announced, misread, torn>>

GiveUp == pc = "pass" /\ i + 1 >= Passes /\ Stop

\* Whatever the file holds makes a key, which is announced.
ReadKey == /\ pc = "read" /\ file # None
           /\ pc' = "serve"
           /\ announced' = file /\ misread' = FALSE
           /\ UNCHANGED <<i, pre_sk, file, torn>>

\* There is no file, or reading it fails this time: new random bytes.
Generate == /\ pc' = "create"
            /\ \E r \in Random \ {file.bytes, announced.bytes} : pre_sk' = r
            /\ UNCHANGED <<i, file, announced, torn>>

GenerateAtStart == /\ pc = "read" /\ i = 1
                  /\ UNCHANGED misread
                  /\ Generate
ReadFails == /\ pc = "read"
             /\ misread' = (misread \/ file # None)
             /\ Generate

\* fs::write makes the file, or empties it;
Create == /\ pc = "create"
          /\ file' = Empty
          /\ pc' = "write"
          /\ UNCHANGED <<i, pre_sk, announced, misread, torn>>

\* then it writes to it until all is written.
WriteOnce == /\ pc = "write"
             /\ file' = [bytes |-> pre_sk, parts |-> file.parts + 1]
             /\ pc' = "pass"
             /\ UNCHANGED <<i, pre_sk, announced, misread, torn>>
WritePart == /\ pc = "write"
             /\ file' = [bytes |-> pre_sk, parts |-> file.parts + 1]
             /\ pc' = IF file'.parts = Whole THEN "pass" ELSE "write"
             /\ UNCHANGED <<i, pre_sk, announced, misread, torn>>

\* Its error ends the server.
WriteFails == pc \in {"create", "write"} /\ Stop

-----------------------------------------------------------------------------
Boot == \/ NextPass \/ GiveUp
        \/ ReadKey \/ ReadFails
        \/ Create \/ WritePart \/ WriteFails

Next == Start \/ Kill \/ Boot

Spec == Init /\ [][Next]_vars

(* The server's first task runs; its reads and writes return.              *)
FairSpec == Spec /\ WF_vars(Boot)

-----------------------------------------------------------------------------
(* Properties.                                                             *)

TypeOK == /\ pc \in {"off", "pass", "read", "create", "write", "serve"}
          /\ i \in 0..(Passes - 1)
          /\ pre_sk \in Random \cup {NoRandom}
          /\ file \in Content /\ announced \in Content
          /\ misread \in BOOLEAN /\ torn \in BOOLEAN

(* The key is long-term: through restarts, kills and failing writes the    *)
(* server announces the key it announced last, unless the file was there   *)
(* and could not be read.  (It is then written over.)                      *)
KeyIsLongTerm ==
  [][announced' # announced => announced = None \/ misread]_vars

(* A server that reads its key back never serves a part of it, unless a    *)
(* write has been stopped: by a kill, or by an error such as a full disk.  *)
ServedKeyIsWhole == pc = "serve" => file.parts = Whole \/ torn

(* "This is important for avoid infinity loop": however often reading      *)
(* fails, a start of the server comes to an end, with a key or without.    *)
StartEnds == (pc = "pass") ~> (pc \in {"serve", "off"})
=============================================================================
