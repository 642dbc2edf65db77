------------------------------ MODULE MetricsRollup ------------------------------
(***************************************************************************)
(* The metrics of the server (db.py): raw rows, a rollup table with one     *)
(* row per node and bucket, the maintenance thread that rolls up and prunes *)
(* in transactions of its own, and the charts that read both.               *)
(*                                                                          *)
(* A row of the rollup table aggregates a set of samples; the table is the  *)
(* set of all samples its rows count.  There is one such module for the     *)
(* hourly and one for the daily table: they share nothing but the raw rows. *)
(***************************************************************************)
EXTENDS Integers, FiniteSets

CONSTANTS
    Nodes,
    Bucket,           \* length of a bucket: one hour or one day, in ticks
    Retention,        \* raw_metrics_days in ticks; 0 prunes nothing
    RollupRetention,  \* hourly_rollup_days, daily_rollup_days; 0 prunes nothing
    Range,            \* duration of the chart that reads this table
    Batch,            \* maintenance_batch_size
    Late,             \* how long a sample may be under way
    Ahead,            \* how far the clock of a node may be ahead of the server's
    RollupWithin,     \* a rollup succeeds at least once in so many ticks, and
    MaxSilence,       \*   the newest bucket of a sample began at most so long ago
    MaxRows,          \* bound of the raw rows, for TLC
    MaxTime           \* bound of the clock, for TLC

\* Two hours or two days.
Lookback == 2 * Bucket

\* config.py puts no bounds on the retention; these are the ones under which the
\* rollup is exact.  A chart is not longer than its table is kept.
ASSUME RollupAssumption ==
    /\ Bucket \in Nat \ {0} /\ Batch \in Nat \ {0}
    /\ {Retention, RollupRetention, Range, Late, Ahead, RollupWithin, MaxSilence, MaxRows, MaxTime} \subseteq Nat
    /\ Late <= Lookback
    /\ RollupRetention = 0 \/ Range <= RollupRetention

VARIABLES
    now,      \* the clock of the server
    raw,      \* the rows of metrics
    rolled,   \* the samples the rollup table counts
    thread,   \* the maintenance thread: idle, or the transaction it does next
    last      \* when a rollup last succeeded

vars == <<now, raw, rolled, thread, last>>

Samples == [node : Nodes, at : Int]

\* bucket_start of a time stamp, and the row of the rollup table a sample is in.
StartOf(t) == Bucket * (t \div Bucket)
RowOf(s) == <<s.node, StartOf(s.at)>>

Init ==
    /\ now = 0
    /\ raw = {}
    /\ rolled = {}
    /\ thread = "idle"
    /\ last = 0

-----------------------------------------------------------------------------
(***************************************************************************)
(* Samples and time                                                         *)
(***************************************************************************)

\* A sample carries the time at which its node took it, by the node's clock.
SaveMetrics(n) ==
    /\ Cardinality(raw) < MaxRows
    /\ \E t \in now - Late .. now + Ahead :
          raw' = raw \cup {[node |-> n, at |-> t]}
    /\ UNCHANGED <<now, rolled, thread, last>>

\* A bucket that the rollup retention covers no longer.
Expired(s) == RollupRetention > 0 /\ StartOf(s.at) < now - RollupRetention

\* The server is in use: rollups succeed, whatever they cover, and once a node
\* has reported, some node goes on reporting.
Tick ==
    /\ now < MaxTime
    /\ now + 1 - last <= RollupWithin
    /\ raw \cup rolled # {} => \E s \in raw \cup rolled : now + 1 - StartOf(s.at) <= MaxSilence
    /\ now' = now + 1
    /\ UNCHANGED <<raw, rolled, thread, last>>

-----------------------------------------------------------------------------
(***************************************************************************)
(* The maintenance thread                                                   *)
(***************************************************************************)

Lower(a, b) == IF a <= b THEN a ELSE b

\* Wrong variants: the rows from the last bucket on, or two more than that.
RollsUpFromLatest(s) == \A r \in rolled : s.at >= StartOf(r.at)
RollsUpEarlier(s) == \A r \in rolled : s.at >= Lower(StartOf(r.at), now) - 2 * Lookback

\* captured_at >= cutoff: two buckets before the newest one in the table, which
\* counts as now if it lies in the future.  An empty table takes every row.
RollsUp(s) == \A r \in rolled : s.at >= Lower(StartOf(r.at), now) - Lookback

\* A row the source has samples for is replaced, the others stay.
Rollup ==
    /\ thread = "idle"
    /\ LET source  == {s \in raw : RollsUp(s)}
           touched == {RowOf(s) : s \in source}
       IN  rolled' = source \cup {s \in rolled : RowOf(s) \notin touched}
    /\ thread' = "prune_rollups"
    /\ last' = now
    /\ UNCHANGED <<now, raw>>

\* A wrong variant: the thread stays, with nothing that ends it.
FailsAndStays ==
    /\ thread # "idle"
    /\ thread' = "failed"
    /\ UNCHANGED <<now, raw, rolled, last>>

\* A transaction raises and the thread ends.
Fails ==
    /\ thread # "idle"
    /\ thread' = "idle"
    /\ UNCHANGED <<now, raw, rolled, last>>

\* The oldest members of a set by their time, at most a batch of them.
Oldest(set, time) ==
    {gone \in SUBSET set :
        /\ Cardinality(gone) = Lower(Batch, Cardinality(set))
        /\ \A g \in gone, k \in set \ gone : time[g] <= time[k]}

PruneRollups ==
    /\ thread = "prune_rollups"
    /\ LET rows == {RowOf(s) : s \in {r \in rolled : Expired(r)}}
       IN  \E gone \in Oldest(rows, [row \in rows |-> row[2]]) :
              rolled' = {s \in rolled : RowOf(s) \notin gone}
    /\ thread' = "prune_metrics"
    /\ UNCHANGED <<now, raw, last>>

\* Also without a rollup before it, when none is due.
PruneMetrics ==
    /\ thread \in {"idle", "prune_metrics"}
    /\ LET rows == {s \in raw : Retention > 0 /\ s.at < now - Retention}
       IN  \E gone \in Oldest(rows, [s \in rows |-> s.at]) : raw' = raw \ gone
    /\ thread' = "idle"
    /\ UNCHANGED <<now, rolled, last>>

-----------------------------------------------------------------------------
(***************************************************************************)
(* Charts                                                                   *)
(***************************************************************************)

\* list_metric_series: the rollup table if it has a row of the node in the
\* range, else the raw rows.
Chart(n) ==
    LET rows == {s \in rolled : s.node = n /\ StartOf(s.at) >= now - Range}
    IN  IF rows # {} THEN rows ELSE {s \in raw : s.node = n /\ s.at >= now - Range}

-----------------------------------------------------------------------------
Next ==
    \/ \E n \in Nodes : SaveMetrics(n)
    \/ Tick \/ Rollup \/ Fails \/ PruneRollups \/ PruneMetrics

Spec == Init /\ [][Next]_vars

-----------------------------------------------------------------------------
TypeOK ==
    /\ now \in Nat
    /\ raw \subseteq Samples
    /\ rolled \subseteq Samples
    /\ thread \in {"idle", "prune_rollups", "prune_metrics"}
    /\ last \in Nat

\* Where the rollup is exact: no clock is ahead, and both retentions outlive the
\* buckets that are recomputed while nothing newer is in the table.
Exact ==
    /\ Ahead = 0
    /\ \A keep \in {Retention, RollupRetention} : keep > 0 =>
          /\ keep >= Lookback + RollupWithin + MaxSilence
          /\ keep >= Lookback + Bucket + RollupWithin + Late

\* A sample that is in the rollup stays in it until its bucket is past the
\* retention of the table: no later rollup replaces a row by an aggregate of
\* fewer rows (the upsert of _rollup_metric_table against prune_metrics).
RollupKeepsSamples ==
    [][\A s \in rolled : s \in rolled' \/ Expired(s)]_vars

\* No raw row is pruned before it has been rolled up, however late it came: the
\* cutoff of a rollup reaches back to it (_rollup_metric_table, prune_metrics).
PrunedAfterRollup ==
    [][\A s \in raw : s \in raw' \/ s \in rolled \/ Expired(s)]_vars

\* What a chart has shown of a bucket within its range, it goes on showing,
\* across the change from raw rows to the rollup and back.
ChartKeepsSamples ==
    [][\A n \in Nodes : \A s \in Chart(n) : s \in Chart(n)' \/ StartOf(s.at) < now' - Range]_vars

=============================================================================
