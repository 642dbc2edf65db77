----------------------------- MODULE AlertNotifier -----------------------------
(***************************************************************************)
(* The alert notifiers of notifications.py and their replacement by a      *)
(* configuration reload (app.py).                                          *)
(*                                                                          *)
(* A notifier owns a bounded queue, worker tasks and one HTTP client.      *)
(* enqueue puts one job per enabled webhook into the queue or counts it as *)
(* dropped; a worker posts a job up to MaxAttempts times and counts it as  *)
(* delivered or failed; stop counts what is left as dropped and cancels    *)
(* the workers.  All of it runs on the event loop: what lies between two   *)
(* awaits is one action.  Every count is followed by an audit record,      *)
(* which may raise (the database is locked, the disk is full).             *)
(***************************************************************************)
EXTENDS Naturals, Sequences, FiniteSets

CONSTANTS
    Notifiers,      \* AlertNotifier objects: the first, and one per reload
    NoNotifier,     \* "no notifier"
    Workers,        \* worker tasks of a notifier (worker_count)
    Hooks,          \* number of enabled webhooks
    QueueSize,      \* queue_size
    MaxAttempts,    \* max_attempts
    MaxEvents       \* bound of the model: alert events that are raised

ASSUME NotifierAssumption ==
    /\ NoNotifier \notin Notifiers
    /\ IsFiniteSet(Workers)
    /\ Hooks \in Nat \ {0}
    /\ QueueSize \in Nat \ {0}
    /\ MaxAttempts \in Nat \ {0}
    /\ MaxEvents \in Nat

VARIABLES
    current,    \* app.state.alert_notifier
    reloading,  \* the notifier whose stop() the running reload awaits
    phase,      \* whether a notifier has workers, and how far its stop() is
    client,     \* whether the HTTP client of a notifier is open
    queue,      \* jobs that wait for a worker
    worker,     \* where the worker tasks stand
    tally,      \* the counters of status(), and what they are measured against
    events      \* events raised so far

vars == <<current, reloading, phase, client, queue, worker, tally, events>>

Phase == {"unused", "off", "running", "stopping", "stopped"}
Job   == [event : 1 .. MaxEvents, hook : 1 .. Hooks]
Busy  == [at : {"sending", "sleeping"}, job : Job, attempt : 1 .. MaxAttempts]

Idle  == [at |-> "idle"]
Ended == [at |-> "ended"]

\* delivered, failed, dropped and inflight are the counters of status();
\* abandoned is the local variable of stop().  taken counts the jobs that were
\* queued or counted as dropped, recounted those the last resort of a worker
\* counts as failed although they had been counted already.
Tally == [delivered : Nat, failed : Nat, dropped : Nat, inflight : Nat,
          abandoned : Nat, taken : Nat, recounted : Nat]

NewTally == [delivered |-> 0, failed |-> 0, dropped |-> 0, inflight |-> 0,
             abandoned |-> 0, taken |-> 0, recounted |-> 0]

Tasks(enabled) == [w \in Workers |-> IF enabled THEN Idle ELSE Ended]

\* The notifier of create_app; the lifespan starts it unless its configuration
\* has no enabled webhook.
Init ==
    /\ current \in Notifiers
    /\ \E enabled \in BOOLEAN :
          /\ phase  = [n \in Notifiers |->
                          IF n # current THEN "unused" ELSE IF enabled THEN "running" ELSE "off"]
          /\ client = [n \in Notifiers |-> n = current /\ enabled]
          /\ worker = [n \in Notifiers |-> Tasks(n = current /\ enabled)]
    /\ reloading = NoNotifier
    /\ queue   = [n \in Notifiers |-> <<>>]
    /\ tally   = [n \in Notifiers |-> NewTally]
    /\ events  = 0

\* The counters of n become t.
Counts(n, t) == tally' = [tally EXCEPT ![n] = t]

\* Task w of n goes on to point.
Moves(n, w, point) == worker' = [worker EXCEPT ![n][w] = point]

-----------------------------------------------------------------------------
(***************************************************************************)
(* enqueue                                                                  *)
(***************************************************************************)

\* What a call puts into the queue of n: the first webhooks, while there is room.
Accepted(n) == IF QueueSize - Len(queue[n]) < Hooks THEN QueueSize - Len(queue[n]) ELSE Hooks

Jobs(event, count) == [h \in 1 .. count |-> [event |-> event, hook |-> h]]

\* An alert is raised or resolved.  The jobs that find the queue full are
\* counted as dropped one by one; an audit record that raises ends the call
\* and the webhooks after it are skipped.  Without workers nothing happens.
Enqueue(n) ==
    /\ n = current
    /\ events < MaxEvents
    /\ events' = events + 1
    /\ \/ /\ phase[n] = "running"
          /\ \E refused \in 0 .. Hooks - Accepted(n) :
                /\ refused = 0 => Accepted(n) = Hooks
                /\ Counts(n, [tally[n] EXCEPT !.dropped = @ + refused,
                                              !.taken = @ + Accepted(n) + refused])
          /\ queue' = [queue EXCEPT ![n] = @ \o Jobs(events + 1, Accepted(n))]
       \/ /\ phase[n] # "running"
          /\ UNCHANGED <<queue, tally>>
    /\ UNCHANGED <<current, reloading, phase, client, worker>>

-----------------------------------------------------------------------------
(***************************************************************************)
(* The worker tasks                                                         *)
(***************************************************************************)

\* A worker is cancelled at the await it stands at: it does nothing any more
\* once stop() has begun.
Runs(n, w, point) == phase[n] = "running" /\ worker[n][w].at = point

\* The worker gets a job.  Without a client the job is over, uncounted.
TakeJob(n, w) ==
    /\ Runs(n, w, "idle")
    /\ queue[n] # <<>>
    /\ queue' = [queue EXCEPT ![n] = Tail(@)]
    /\ IF client[n]
       THEN /\ Moves(n, w, [at |-> "sending", job |-> Head(queue[n]), attempt |-> 1])
            /\ Counts(n, [tally[n] EXCEPT !.inflight = @ + 1])
       ELSE UNCHANGED <<worker, tally>>
    /\ UNCHANGED <<current, reloading, phase, client, events>>

\* A 2xx answer.  If its audit record raises, the worker counts the same job
\* as failed, too.
Deliver(n, w) ==
    /\ Runs(n, w, "sending")
    /\ Moves(n, w, Idle)
    /\ \E again \in {0, 1} :
          Counts(n, [tally[n] EXCEPT !.delivered = @ + 1, !.inflight = @ - 1,
                                     !.failed = @ + again, !.recounted = @ + again])
    /\ UNCHANGED <<current, reloading, phase, client, queue, events>>

\* A wrong variant: the job goes back to the end of the queue.
RetryRequeues(n, w) ==
    /\ Runs(n, w, "sending")
    /\ worker[n][w].attempt < MaxAttempts
    /\ queue'  = [queue EXCEPT ![n] = Append(@, worker[n][w].job)]
    /\ Moves(n, w, Idle)
    /\ Counts(n, [tally[n] EXCEPT !.inflight = @ - 1])
    /\ UNCHANGED <<current, reloading, phase, client, events>>

\* 429, 5xx or a transport error: the worker sleeps before the next attempt,
\* if there is one.
Retry(n, w) ==
    /\ Runs(n, w, "sending")
    /\ worker[n][w].attempt < MaxAttempts
    /\ Moves(n, w, [worker[n][w] EXCEPT !.at = "sleeping"])
    /\ UNCHANGED <<current, reloading, phase, client, queue, tally, events>>

Wake(n, w) ==
    /\ Runs(n, w, "sleeping")
    /\ Moves(n, w, [worker[n][w] EXCEPT !.at = "sending", !.attempt = @ + 1])
    /\ UNCHANGED <<current, reloading, phase, client, queue, tally, events>>

\* An answer that is not retried, the last attempt, or an exception nobody
\* expected.
Fail(n, w) ==
    /\ Runs(n, w, "sending")
    /\ Moves(n, w, Idle)
    /\ \E again \in {0, 1} :
          Counts(n, [tally[n] EXCEPT !.failed = @ + 1 + again, !.inflight = @ - 1,
                                     !.recounted = @ + again])
    /\ UNCHANGED <<current, reloading, phase, client, queue, events>>

-----------------------------------------------------------------------------
(***************************************************************************)
(* stop, reload and shutdown                                                *)
(***************************************************************************)

\* A wrong variant: the jobs the workers hold are forgotten.
AbandonedInQueue(n) == Len(queue[n])

\* What stop() counts before it cancels the workers.
Abandoned(n) == Len(queue[n]) + tally[n].inflight

\* A reload starts the new notifier, puts it into app.state and stops the old
\* one.  Up to the await of the cancelled workers nothing else runs.
Reload(n, m) ==
    /\ n = current
    /\ reloading = NoNotifier
    /\ phase[n] \in {"off", "running"}
    /\ phase[m] = "unused"
    /\ \E enabled \in BOOLEAN :
          /\ phase'  = [phase EXCEPT ![n] = "stopping", ![m] = IF enabled THEN "running" ELSE "off"]
          /\ client' = [client EXCEPT ![m] = enabled]
          /\ worker' = [worker EXCEPT ![m] = Tasks(enabled)]
    /\ Counts(n, [tally[n] EXCEPT !.abandoned = Abandoned(n)])
    /\ current' = m
    /\ reloading' = n
    /\ UNCHANGED <<queue, events>>

\* The lifespan ends: the current notifier is stopped.
Shutdown(n) ==
    /\ n = current
    /\ phase[n] \in {"off", "running"}
    /\ phase' = [phase EXCEPT ![n] = "stopping"]
    /\ Counts(n, [tally[n] EXCEPT !.abandoned = Abandoned(n)])
    /\ UNCHANGED <<current, reloading, client, queue, worker, events>>

\* A wrong variant: the counter is not restored on cancellation.
CancelledLeavesCount(n, w) ==
    /\ phase[n] = "stopping"
    /\ worker[n][w].at # "ended"
    /\ Moves(n, w, Ended)
    /\ UNCHANGED <<current, reloading, phase, client, queue, tally, events>>

\* A wrong variant: the counter is lowered by every task.
CancelledAlwaysCounts(n, w) ==
    /\ phase[n] = "stopping"
    /\ worker[n][w].at # "ended"
    /\ Moves(n, w, Ended)
    /\ Counts(n, [tally[n] EXCEPT !.inflight = @ - 1])
    /\ UNCHANGED <<current, reloading, phase, client, queue, events>>

\* The cancellation reaches a task; a job it holds leaves the count of jobs in
\* flight.
Cancelled(n, w) ==
    /\ phase[n] = "stopping"
    /\ worker[n][w].at # "ended"
    /\ Moves(n, w, Ended)
    /\ IF worker[n][w].at \in {"sending", "sleeping"}
       THEN Counts(n, [tally[n] EXCEPT !.inflight = @ - 1])
       ELSE UNCHANGED tally
    /\ UNCHANGED <<current, reloading, phase, client, queue, events>>

\* A wrong variant: the client is closed without waiting for the tasks.
StopEndsEarly(n) ==
    /\ phase[n] = "stopping"
    /\ queue'  = [queue EXCEPT ![n] = <<>>]
    /\ Counts(n, [tally[n] EXCEPT !.dropped = @ + tally[n].abandoned])
    /\ client' = [client EXCEPT ![n] = FALSE]
    /\ phase'  = [phase EXCEPT ![n] = "stopped"]
    /\ reloading' = IF reloading = n THEN NoNotifier ELSE reloading
    /\ UNCHANGED <<current, worker, events>>

\* A wrong variant: stop waits for the queue, which nobody empties any more.
StopWaitsForQueue(n) ==
    /\ phase[n] = "stopping"
    /\ \A w \in Workers : worker[n][w].at = "ended"
    /\ queue[n] = <<>>
    /\ phase'  = [phase EXCEPT ![n] = "stopped"]
    /\ Counts(n, [tally[n] EXCEPT !.dropped = @ + tally[n].abandoned])
    /\ client' = [client EXCEPT ![n] = FALSE]
    /\ reloading' = IF reloading = n THEN NoNotifier ELSE reloading
    /\ UNCHANGED <<current, queue, worker, events>>

\* All tasks have ended: the queue is emptied, the abandoned jobs are counted
\* and the client is closed, unless the audit record raises.
StopEnds(n) ==
    /\ phase[n] = "stopping"
    /\ \A w \in Workers : worker[n][w].at = "ended"
    /\ queue' = [queue EXCEPT ![n] = <<>>]
    /\ Counts(n, [tally[n] EXCEPT !.dropped = @ + tally[n].abandoned])
    /\ \/ client' = [client EXCEPT ![n] = FALSE]
       \/ tally[n].abandoned > 0 /\ UNCHANGED client
    /\ phase' = [phase EXCEPT ![n] = "stopped"]
    /\ reloading' = IF reloading = n THEN NoNotifier ELSE reloading
    /\ UNCHANGED <<current, worker, events>>

-----------------------------------------------------------------------------
Next ==
    \E n \in Notifiers :
        \/ Enqueue(n) \/ Shutdown(n) \/ StopEnds(n)
        \/ \E m \in Notifiers : Reload(n, m)
        \/ \E w \in Workers :
              \/ TakeJob(n, w) \/ Deliver(n, w) \/ Retry(n, w)
              \/ Wake(n, w) \/ Fail(n, w) \/ Cancelled(n, w)

Spec == Init /\ [][Next]_vars

\* A task that can go on goes on: a request is bounded by the client's
\* timeouts, a sleep by its delay, and a cancellation by the loop.
Fairness ==
    \A n \in Notifiers :
        /\ WF_vars(StopEnds(n))
        /\ \A w \in Workers :
              /\ WF_vars(TakeJob(n, w))
              /\ WF_vars(Deliver(n, w) \/ Retry(n, w) \/ Fail(n, w))
              /\ WF_vars(Wake(n, w))
              /\ WF_vars(Cancelled(n, w))

FairSpec == Spec /\ Fairness

-----------------------------------------------------------------------------
TypeOK ==
    /\ current \in Notifiers
    /\ reloading \in Notifiers \cup {NoNotifier}
    /\ phase \in [Notifiers -> Phase]
    /\ client \in [Notifiers -> BOOLEAN]
    /\ queue \in [Notifiers -> Seq(Job)]
    /\ worker \in [Notifiers -> [Workers -> Busy \cup {Idle, Ended}]]
    /\ tally \in [Notifiers -> Tally]
    /\ events \in 0 .. MaxEvents

HoldsJob(n) == {w \in Workers : worker[n][w].at \in {"sending", "sleeping"}}

\* Jobs of a notifier that no counter has seen yet.
Pending(n) ==
    CASE phase[n] = "running"  -> Len(queue[n]) + tally[n].inflight
      [] phase[n] = "stopping" -> tally[n].abandoned
      [] OTHER                 -> 0

\* No job is lost from the counters of the Admin page: what was taken is
\* pending, delivered, failed or dropped, exactly once, except for the jobs a
\* raising audit record makes a worker count a second time; through full
\* queues, retries, reloads and shutdowns (enqueue, _worker, stop).
Accounted ==
    \A n \in Notifiers :
        LET t == tally[n] IN
        t.delivered + t.failed + t.dropped + Pending(n) = t.taken + t.recounted

\* The count of jobs in flight is the number of tasks that hold a job, also
\* while cancellations are under way (the finally of _worker).
InflightIsHeld ==
    \A n \in Notifiers : tally[n].inflight = Cardinality(HoldsJob(n))

\* The client outlives the tasks that post with it (the order of steps in
\* stop), so no job is ever taken without one and lost uncounted (_deliver).
HeldJobHasClient ==
    \A n \in Notifiers :
        phase[n] = "running" \/ HoldsJob(n) # {} => client[n]

\* Jobs keep the order in which their events were raised: a job that is retried
\* stays ahead of every job in the queue.  So a single worker never posts the end
\* of an alert before its beginning (_deliver retries in place); a second worker
\* may post the next job meanwhile, and promises no more than this.
JobsInOrder ==
    \A n \in Notifiers :
        /\ \A i, j \in 1 .. Len(queue[n]) : i < j => queue[n][i].event <= queue[n][j].event
        /\ \A w \in HoldsJob(n), i \in 1 .. Len(queue[n]) :
              worker[n][w].job.event <= queue[n][i].event

\* Every job that was taken is settled: no queue stays filled, no task stays
\* busy, and a reload that waits for the old notifier's tasks ends.
EveryJobSettles ==
    \A n \in Notifiers :
        []<>(queue[n] = <<>> /\ tally[n].inflight = 0 /\ reloading # n)

=============================================================================
