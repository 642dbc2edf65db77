----------------------------- MODULE StatusWatcher -----------------------------
(***************************************************************************)
(* The background status watcher of the server (app.py) and its end: the   *)
(* cycle that updates node statuses, expires commands and maintains the    *)
(* metrics, the back-off after a failed cycle, and the lifespan that       *)
(* cancels the watcher before it stops the rest.                           *)
(*                                                                          *)
(* Every database call may raise.  What lies between two awaits is one     *)
(* action; the maintenance runs in a thread of its own.                    *)
(***************************************************************************)
EXTENDS Naturals

CONSTANTS
    Commands,       \* commands that have been created
    Interval,       \* interval_seconds
    MaxRetry,       \* max_retry_seconds
    FloatLimit      \* the first f for which 2 ** f has no float: 1024

ASSUME WatcherAssumption ==
    /\ Interval \in Nat \ {0}
    /\ MaxRetry \in Nat
    /\ Interval <= MaxRetry
    /\ FloatLimit \in Nat \ {0}

VARIABLES
    task,       \* the await at which the watcher stands, or how it ended
    failures,   \* consecutive_failures
    retry,      \* retry_seconds
    row,        \* whether a command's row is open, due to expire or "timeout"
    audited,    \* commands whose expiry is in the audit log
    todo,       \* commands this cycle expired and has not audited yet
    due,        \* whether rollup_interval_seconds have passed since the last rollup
    thread,     \* the maintenance thread: none, at work, or how it ended
    lifespan    \* the server: serving, awaiting the watcher, closed, or aborted

vars == <<task, failures, retry, row, audited, todo, due, thread, lifespan>>

Awaits == {"sleeping", "nodes", "command", "maintenance", "waiting"}

Init ==
    /\ task = "sleeping"
    /\ failures = 0
    /\ retry = Interval
    /\ row \in [Commands -> {"open", "overdue"}]
    /\ audited = {}
    /\ todo = {}
    /\ due = TRUE
    /\ thread = "none"
    /\ lifespan = "serving"

-----------------------------------------------------------------------------
(***************************************************************************)
(* How a cycle ends                                                         *)
(***************************************************************************)

\* 2 ** f
Power[f \in Nat] == IF f = 0 THEN 1 ELSE 2 * Power[f - 1]

\* A wrong variant: the delay has no upper bound.
DelayUncapped(f) == Interval * Power[f]

\* min(max_retry, interval * 2 ** f), without the powers beyond the bound.
Delay(f) ==
    IF \E k \in 0 .. f : Interval * Power[k] >= MaxRetry THEN MaxRetry ELSE Interval * Power[f]

Succeeds ==
    /\ task' = "sleeping"
    /\ failures' = 0
    /\ retry' = Interval

\* The handler of an exception computes the next delay with a float; an
\* integer that is too large raises OverflowError, outside of the try.
Fails ==
    IF failures + 1 < FloatLimit
    THEN /\ task' = "sleeping"
         /\ failures' = failures + 1
         /\ retry' = Delay(failures + 1)
    ELSE /\ task' = "dead"
         /\ UNCHANGED <<failures, retry>>

-----------------------------------------------------------------------------
(***************************************************************************)
(* The cycle                                                                *)
(***************************************************************************)

\* last_rollup_at is set before the thread starts.
StartsMaintenance ==
    /\ task' = "maintenance"
    /\ thread' = "running"
    /\ due' = FALSE
    /\ todo' = {}
    /\ UNCHANGED <<failures, retry, audited>>

\* The next of the expired commands is audited and broadcast; after the last
\* one comes the maintenance.  An audit record that raises ends the cycle.
Audits(expired) ==
    \/ /\ expired = {}
       /\ StartsMaintenance
    \/ /\ \E c \in expired :
             /\ audited' = audited \cup {c}
             /\ todo' = expired \ {c}
       /\ task' = "command"
       /\ UNCHANGED <<failures, retry, due, thread>>
    \/ /\ expired # {}
       /\ Fails
       /\ todo' = {}
       /\ UNCHANGED <<audited, due, thread>>

\* The rows are committed before the first of them is audited.
Expires ==
    \/ /\ row' = [c \in Commands |-> IF row[c] = "overdue" THEN "timeout" ELSE row[c]]
       /\ Audits({c \in Commands : row[c] = "overdue"})
    \/ /\ Fails
       /\ UNCHANGED <<row, audited, todo, due, thread>>

\* The sleep is over: the node statuses are updated, and if some changed they
\* are broadcast first.
Wake ==
    /\ task = "sleeping"
    /\ \/ /\ Fails
          /\ UNCHANGED <<row, audited, todo, due, thread>>
       \/ /\ task' = "nodes"
          /\ UNCHANGED <<failures, retry, row, audited, todo, due, thread>>
       \/ Expires
    /\ UNCHANGED lifespan

\* A wrong variant: a cycle either tells about nodes or expires commands.
NodesToldEndsCycle ==
    /\ task = "nodes"
    /\ Succeeds
    /\ UNCHANGED <<row, audited, todo, due, thread, lifespan>>

NodesTold ==
    /\ task = "nodes"
    /\ Expires
    /\ UNCHANGED lifespan

\* A wrong variant: the overdue commands are asked for again.
CommandToldAsksAgain ==
    /\ task = "command"
    /\ Expires
    /\ UNCHANGED lifespan

CommandTold ==
    /\ task = "command"
    /\ Audits(todo)
    /\ UNCHANGED <<row, lifespan>>

\* _run_metrics_maintenance returns or raises.
ThreadEnds ==
    /\ thread = "running"
    /\ thread' \in {"done", "failed"}
    /\ UNCHANGED <<task, failures, retry, row, audited, todo, due, lifespan>>

\* A failed maintenance is audited and the cycle counts as a success; only an
\* audit record that raises makes it a failure.
MaintenanceEnds ==
    /\ task = "maintenance"
    /\ thread \in {"done", "failed"}
    /\ thread' = "none"
    /\ Succeeds \/ Fails
    /\ UNCHANGED <<row, audited, todo, due, lifespan>>

\* The watcher was cancelled and waits for the thread.  If the thread raises,
\* its exception replaces the cancellation and the watcher goes on.
WaitEnds ==
    /\ task = "waiting"
    /\ thread \in {"done", "failed"}
    /\ thread' = "none"
    /\ IF thread = "done"
       THEN task' = "ended" /\ UNCHANGED <<failures, retry>>
       ELSE Succeeds \/ Fails
    /\ UNCHANGED <<row, audited, todo, due, lifespan>>

-----------------------------------------------------------------------------
(***************************************************************************)
(* Time and the end of the server                                           *)
(***************************************************************************)

\* timeout_seconds have passed since a command was created.
BecomesOverdue(c) ==
    /\ row[c] = "open"
    /\ row' = [row EXCEPT ![c] = "overdue"]
    /\ UNCHANGED <<task, failures, retry, audited, todo, due, thread, lifespan>>

RollupBecomesDue ==
    /\ ~ due
    /\ due' = TRUE
    /\ UNCHANGED <<task, failures, retry, row, audited, todo, thread, lifespan>>

\* A wrong variant: the cancellation does not wait for the thread.
ShutdownLeavesThread ==
    /\ lifespan = "serving"
    /\ lifespan' = "closing"
    /\ task' = IF task \in Awaits THEN "ended" ELSE task
    /\ UNCHANGED <<failures, retry, row, audited, todo, due, thread>>

\* The lifespan cancels the watcher.  The maintenance is shielded.
Shutdown ==
    /\ lifespan = "serving"
    /\ lifespan' = "closing"
    /\ task' = CASE task \in {"sleeping", "nodes", "command"} -> "ended"
                 [] task = "maintenance"                      -> "waiting"
                 [] OTHER                                     -> task
    /\ UNCHANGED <<failures, retry, row, audited, todo, due, thread>>

\* A wrong variant: the watcher is not awaited.
ClosesEarly ==
    /\ lifespan = "closing"
    /\ lifespan' = "closed"
    /\ UNCHANGED <<task, failures, retry, row, audited, todo, due, thread>>

\* The watcher has ended: the notifier is stopped and the database closed.  An
\* exception the watcher died of is raised again here and skips both.
Closes ==
    /\ lifespan = "closing"
    /\ task \in {"ended", "dead"}
    /\ lifespan' = IF task = "ended" THEN "closed" ELSE "aborted"
    /\ UNCHANGED <<task, failures, retry, row, audited, todo, due, thread>>

-----------------------------------------------------------------------------
Next ==
    \/ Wake \/ NodesTold \/ CommandTold \/ MaintenanceEnds \/ WaitEnds
    \/ ThreadEnds \/ RollupBecomesDue \/ Shutdown \/ Closes
    \/ \E c \in Commands : BecomesOverdue(c)

Spec == Init /\ [][Next]_vars

\* Sleeps end, broadcasts are bounded by the send timeout, and the thread does
\* a bounded batch.  That the database works is not assumed.
Fairness ==
    /\ WF_vars(Wake) /\ WF_vars(NodesTold) /\ WF_vars(CommandTold)
    /\ WF_vars(ThreadEnds) /\ WF_vars(MaintenanceEnds) /\ WF_vars(WaitEnds)
    /\ WF_vars(Closes)

FairSpec == Spec /\ Fairness

-----------------------------------------------------------------------------
TypeOK ==
    /\ task \in Awaits \cup {"ended", "dead"}
    /\ failures \in 0 .. FloatLimit - 1
    /\ retry \in Interval .. MaxRetry
    /\ row \in [Commands -> {"open", "overdue", "timeout"}]
    /\ audited \subseteq Commands
    /\ todo \subseteq Commands
    /\ due \in BOOLEAN
    /\ thread \in {"none", "running", "done", "failed"}
    /\ lifespan \in {"serving", "closing", "closed", "aborted"}

\* A maintenance thread is at work only while the watcher awaits it: there are
\* never two of them, and a cancelled watcher does not leave one behind
\* (the shield of _maintain_metrics).
ThreadHasWaiter == thread # "none" <=> task \in {"maintenance", "waiting"}

\* When the lifespan has closed the database, the watcher and its thread have
\* ended (_lifespan awaits the task before db.close).
NothingRunsAfterClose == lifespan = "closed" => task = "ended" /\ thread = "none"

\* Commands that have timed out and have no audit record, now or from this cycle.
Untold ==
    {c \in Commands : row[c] = "timeout" /\ c \notin audited /\ ~ (task = "command" /\ c \in todo)}

\* A timeout stays without audit record and broadcast only if the cycle that
\* committed it fails or is cancelled, whatever becomes overdue while it awaits
\* (expire_stale_commands against the loop of _status_watcher_cycle).
TimeoutsAreTold ==
    [][Untold' \subseteq Untold \/ failures' = failures + 1 \/ task' = "dead" \/ lifespan' # lifespan]_vars

\* Work is not put off for ever: whatever fails, an overdue command expires
\* and a due rollup is started, unless the server ends or the watcher dies
\* (a cycle resets the failures only after it has done both).
DueWorkIsDone ==
    /\ \A c \in Commands :
          row[c] = "overdue" ~> row[c] = "timeout" \/ lifespan # "serving" \/ task = "dead"
    /\ due ~> ~ due \/ lifespan # "serving" \/ task = "dead"

\* Failed cycles do not end the watcher (README.md, CHANGELOG.md); it dies of
\* the 1024th failure in a row.
WatcherStaysAlive == task # "dead"

=============================================================================
