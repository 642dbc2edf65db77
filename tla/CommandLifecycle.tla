--------------------------- MODULE CommandLifecycle ---------------------------
(***************************************************************************)
(* What the commands table keeps for its readers, without connections,      *)
(* frames or an agent.                                                      *)
(*                                                                          *)
(* The documents promise that a status only moves forward.  The UPDATE of   *)
(* mark_command_sent does not keep that: while the delivery of a command is *)
(* unresolved, its record may set the status to `sent` once, from whatever  *)
(* it was.  What is left of the promise is stated here: apart from that one *)
(* step a status only moves forward, and after it a final status is final.  *)
(***************************************************************************)
EXTENDS CommandTable, Naturals

CONSTANT Commands

VARIABLES
    exists,         \* commands that have a row
    status,         \* their status
    delivering      \* commands whose delivery is unresolved

vars == <<exists, status, delivering>>

Init ==
    /\ exists = {}
    /\ status \in [Commands -> {"pending"}]
    /\ delivering = {}

\* A command appears, either on its way, or refused or given up at once.
Create(c) ==
    /\ c \notin exists
    /\ exists' = exists \cup {c}
    /\ \/ /\ delivering' = delivering \cup {c}
          /\ status' = [status EXCEPT ![c] = "pending"]
       \/ /\ delivering' = delivering
          /\ \E s \in {"send_failed", "pending"} : status' = [status EXCEPT ![c] = s]

\* The delivery succeeded: the only step that may move a status back.
Delivered(c) ==
    /\ c \in delivering
    /\ delivering' = delivering \ {c}
    /\ status' = [status EXCEPT ![c] = "sent"]
    /\ UNCHANGED exists

\* The delivery failed: the status changes only if nobody reported before.
Undelivered(c) ==
    /\ c \in delivering
    /\ delivering' = delivering \ {c}
    /\ status' = [status EXCEPT ![c] = IF @ = "pending" THEN "send_failed" ELSE @]
    /\ UNCHANGED exists

\* A report moves an open command forward.
Reported(c) ==
    /\ c \in exists
    /\ status[c] \in OpenStatus
    /\ \E s \in {"acknowledged", "running", "success", "failed"} :
          /\ Rank(s) > Rank(status[c])
          /\ status' = [status EXCEPT ![c] = s]
    /\ UNCHANGED <<exists, delivering>>

\* Open commands are expired together.
Expired(S) ==
    /\ S \subseteq exists
    /\ \A c \in S : status[c] \in OpenStatus
    /\ status' = [c \in Commands |-> IF c \in S THEN "timeout" ELSE status[c]]
    /\ UNCHANGED <<exists, delivering>>

\* A record that raises forgets its delivery, a restart all that are under way.
DeliveriesLost(S) ==
    /\ delivering' = delivering \ S
    /\ UNCHANGED <<exists, status>>

Next ==
    \/ \E c \in Commands :
          Create(c) \/ Delivered(c) \/ Undelivered(c) \/ Reported(c)
    \/ \E S \in SUBSET exists : Expired(S)
    \/ \E S \in SUBSET delivering : DeliveriesLost(S)

Spec == Init /\ [][Next]_vars

=============================================================================
