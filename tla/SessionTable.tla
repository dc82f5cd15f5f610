---------------------------- MODULE SessionTable ----------------------------
(***************************************************************************)
(* What the wsocks server promises a client of its sessions, with nothing  *)
(* said of tasks, weak references or the deadline: the client has at most  *)
(* one session, which a pipe of its own opens or joins and which, when it  *)
(* ends, takes all of its pipes with it.  A pipe may come to nothing for a *)
(* session that has just ended, but never two of a client's pipes in a     *)
(* row.  Sessions are numbered in the order in which they are opened.      *)
(***************************************************************************)
EXTENDS Integers

CONSTANTS Client, Pipe

VARIABLES session,  \* each client's session (0: none)
          holds,    \* the open pipes of that session
          last,     \* what became of the client's last pipe: "attached",
                    \* "refused"; "none" before its first
          count,    \* how many sessions have been opened
          seen      \* the pipes that have arrived

vars == <<session, holds, last, count, seen>>

Init == /\ session = [c \in Client |-> 0] /\ holds = [c \in Client |-> {}]
        /\ last = [c \in Client |-> "none"]
        /\ count = 0 /\ seen = {}

Arrives(p) == p \in Pipe \ seen /\ seen' = seen \cup {p}

\* A pipe that is attached may be closed already.
Attached(c, p) == /\ Arrives(p)
                  /\ holds' \in {holds, [holds EXCEPT ![c] = @ \cup {p}]}
                  /\ last' = [last EXCEPT ![c] = "attached"]

Open(c, p) == /\ session[c] = 0
              /\ count' = count + 1
              /\ session' = [session EXCEPT ![c] = count']
              /\ Attached(c, p)

Join(c, p) == session[c] # 0 /\ Attached(c, p) /\ UNCHANGED <<session, count>>

Refuse(c, p) == /\ session[c] = 0 /\ last[c] = "attached"
                /\ Arrives(p)
                /\ last' = [last EXCEPT ![c] = "refused"]
                /\ UNCHANGED <<session, holds, count>>

Close(p) == /\ holds' = [c \in Client |-> holds[c] \ {p}]
            /\ UNCHANGED <<session, last, count, seen>>

End(c) == /\ session[c] # 0
          /\ session' = [session EXCEPT ![c] = 0]
          /\ holds' = [holds EXCEPT ![c] = {}]
          /\ UNCHANGED <<last, count, seen>>

Next == \/ \E c \in Client, p \in Pipe : Open(c, p) \/ Join(c, p) \/ Refuse(c, p)
        \/ \E p \in Pipe : Close(p)
        \/ \E c \in Client : End(c)

Spec == Init /\ [][Next]_vars
=============================================================================
