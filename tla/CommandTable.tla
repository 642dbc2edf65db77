----------------------------- MODULE CommandTable -----------------------------
(***************************************************************************)
(* One row of the `commands` table and the UPDATE statements that db.py     *)
(* issues against it.  Every operator maps a row to the row the statement   *)
(* leaves; a statement whose WHERE clause does not match (rowcount 0)       *)
(* leaves the row alone.                                                    *)
(*                                                                          *)
(* A row keeps the columns a client can observe: its status, whether        *)
(* acknowledged_at is set, and which kind of result_message it carries.     *)
(***************************************************************************)

\* The states an agent report or the watcher may still move a command out of.
OpenStatus == {"pending", "sent", "acknowledged", "running"}

\* The states that set finished_at.
FinalStatus == {"success", "failed", "timeout", "send_failed"}

Status == OpenStatus \cup FinalStatus

\* The kinds of result_message: the delivery error, the two texts of
\* expire_stale_commands and the text the agent reports.
Note == {"none", "not_delivered", "not_acknowledged", "not_finished", "agent_text"}

Row == [status : Status, acked : BOOLEAN, note : Note]

\* INSERT of create_command.
NewRow == [status |-> "pending", acked |-> FALSE, note |-> "none"]

\* A wrong variant: a status outside the table's vocabulary.
MarkSentAsDelivered(row) == [row EXCEPT !.status = "delivered"]

\* mark_command_sent has no condition on the status it overwrites.
MarkSent(row) == [row EXCEPT !.status = "sent"]

\* A wrong variant: no condition on the status.
MarkSendFailedAlways(row) ==
    [row EXCEPT !.status = "send_failed", !.note = "not_delivered"]

MarkSendFailed(row) ==
    IF row.status = "pending"
    THEN [row EXCEPT !.status = "send_failed", !.note = "not_delivered"]
    ELSE row

MarkAcknowledged(row) ==
    IF row.status \in {"pending", "sent"}
    THEN [row EXCEPT !.status = "acknowledged", !.acked = TRUE]
    ELSE row

\* A wrong variant: no condition on the status.
MarkRunningAlways(row) == [row EXCEPT !.status = "running"]

MarkRunning(row) ==
    IF row.status \in {"pending", "sent", "acknowledged"}
    THEN [row EXCEPT !.status = "running"]
    ELSE row

\* A wrong variant: a late result overwrites whatever is there.
MarkResultAlways(row, status) ==
    [row EXCEPT !.status = status, !.note = "agent_text"]

MarkResult(row, status) ==
    IF row.status \in OpenStatus
    THEN [row EXCEPT !.status = status, !.note = "agent_text"]
    ELSE row

\* expire_stale_commands: the text depends on the status the SELECT read.
ExpireRow(row) ==
    [row EXCEPT !.status = "timeout",
                !.note = IF row.status \in {"pending", "sent"}
                         THEN "not_acknowledged"
                         ELSE "not_finished"]

\* The position of a status in the documented lifecycle
\* pending -> sent -> acknowledged -> running -> final.
Rank(status) ==
    CASE status = "pending"      -> 0
      [] status = "sent"         -> 1
      [] status = "acknowledged" -> 2
      [] status = "running"      -> 3
      [] OTHER                   -> 4

=============================================================================
