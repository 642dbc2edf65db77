---------------------------- MODULE ContainerTable ----------------------------
(***************************************************************************)
(* What the containers table of a node promises to its readers, without     *)
(* collections, threads, sessions or messages.                              *)
(*                                                                          *)
(* The table is always a list that Docker gave: never a mixture of two lists *)
(* and never a row that was not listed.  It changes to later lists only,     *)
(* except while two connections of the node overlap; and it is called        *)
(* current by the step that makes it a list.                                 *)
(***************************************************************************)
EXTENDS DockerLists

VARIABLES
    docker,   \* Docker holds Contents[docker]
    shown,    \* the table is a list of Contents[shown]; 0: there is no list yet
    rows,     \* the table
    status,   \* docker_inventory_status
    overlap   \* an earlier connection of the node is still heard

vars == <<docker, shown, rows, status, overlap>>

Init ==
    /\ docker = 1
    /\ shown = 0
    /\ rows = {}
    /\ status = "unknown"
    /\ overlap = FALSE

Change ==
    /\ docker < Len(Contents)
    /\ docker' = docker + 1
    /\ UNCHANGED <<shown, rows, status, overlap>>

\* Connections begin and end.
Overlap ==
    /\ overlap' \in BOOLEAN
    /\ UNCHANGED <<docker, shown, rows, status>>

\* A list arrives that Docker has given, no earlier than the last one unless an
\* earlier connection is still heard.
Copy(version) ==
    /\ version <= docker
    /\ overlap \/ shown <= version
    /\ shown' = version
    /\ rows' \in Readings(version, docker)
    /\ status' = "current"
    /\ UNCHANGED <<docker, overlap>>

\* A list could not be had: the last one stays, and is marked.
Miss ==
    /\ status' = "stale"
    /\ UNCHANGED <<docker, shown, rows, overlap>>

Next == Change \/ Overlap \/ Miss \/ \E version \in 1 .. Len(Contents) : Copy(version)

Spec == Init /\ [][Next]_vars

=============================================================================
