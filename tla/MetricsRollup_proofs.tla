-------------------------- MODULE MetricsRollup_proofs --------------------------
(***************************************************************************)
(* Theorems about MetricsRollup, for all nodes, bucket lengths, retentions  *)
(* and batches: as long as no clock is ahead and the raw rows outlive what  *)
(* is recomputed (Exact), no rollup loses a sample.                         *)
(***************************************************************************)
EXTENDS MetricsRollup, TLAPS

\* No sample is from the future.
FromThePast == \A s \in raw \cup rolled : s.at <= now

\* The raw row of a sample is gone only when its bucket is recomputed no longer.
RecomputedAreRaw ==
    \A s \in rolled \ raw : \E r \in rolled : StartOf(s.at) < StartOf(r.at) - Lookback

\* A raw row that has not been rolled up yet is rolled up next time, unless the
\* table keeps its bucket no longer.
UnrolledAreSource == \A s \in raw \ rolled : Expired(s) \/ RollsUp(s)

\* A raw row that has not been rolled up came after the last rollup, so it was
\* taken at most Late before, or the table keeps its bucket no longer.
UnrolledIsNew == \A s \in raw \ rolled : Expired(s) \/ s.at >= last - Late

\* A rollup is not long ago.
Timely == last <= now /\ now - last <= RollupWithin

\* Some node reports, and the table had a recent bucket when it was last rolled up.
Near(s) == now - StartOf(s.at) <= MaxSilence \/ now - s.at <= Late
Recent(s) == last - StartOf(s.at) <= MaxSilence \/ last - s.at <= Late
Reported == raw \cup rolled # {} => \E s \in raw \cup rolled : Near(s)
Fresh == rolled # {} => \E r \in rolled : Recent(r)

RollupInv ==
    /\ TypeOK /\ Timely /\ FromThePast
    /\ RecomputedAreRaw /\ UnrolledAreSource /\ UnrolledIsNew
    /\ Reported /\ Fresh

-----------------------------------------------------------------------------
(***************************************************************************)
(* Buckets                                                                  *)
(***************************************************************************)

LEMMA Constants ==
    /\ Bucket \in Int /\ Bucket > 0 /\ Batch \in Nat
    /\ Retention \in Nat /\ RollupRetention \in Nat /\ Range \in Nat /\ Late \in Nat
    /\ Ahead \in Nat /\ RollupWithin \in Nat /\ MaxSilence \in Nat
    /\ Lookback \in Int /\ Late <= Lookback /\ Lookback = 2 * Bucket
BY RollupAssumption DEF RollupAssumption, Lookback

LEMMA StartOfType ==
    ASSUME NEW t \in Int
    PROVE  StartOf(t) \in Int /\ StartOf(t) <= t /\ t < StartOf(t) + Bucket
BY Constants DEF StartOf

\* The bucket of a time at or after the lookback of a bucket starts there or later.
LEMMA Aligned ==
    ASSUME NEW t \in Int, NEW u \in Int, t >= StartOf(u) - Lookback
    PROVE  StartOf(t) >= StartOf(u) - Lookback
BY Constants DEF StartOf
-----------------------------------------------------------------------------
(***************************************************************************)
(* The steps                                                                *)
(***************************************************************************)

LEMMA RollupInit == Init => RollupInv
BY Constants DEF Init, RollupInv, TypeOK, Timely, FromThePast, RecomputedAreRaw,
                 UnrolledAreSource, UnrolledIsNew, Reported, Fresh

\* What a recent bucket means for the two retentions.
LEMMA RecentIsKept ==
    ASSUME Exact, TypeOK, Timely, NEW r \in Samples, Recent(r)
    PROVE  /\ ~ Expired(r)
           /\ Retention > 0 => now - Retention <= StartOf(r.at) - Lookback
<1>1. r.at \in Int /\ StartOf(r.at) \in Int /\ r.at < StartOf(r.at) + Bucket
  BY StartOfType DEF Samples
<1>. QED
  BY <1>1, Constants DEF Exact, TypeOK, Timely, Recent, Expired

\* A recent sample is pruned from neither table.
LEMMA NearIsKept ==
    ASSUME Exact, TypeOK, NEW s \in Samples, Near(s)
    PROVE  /\ ~ Expired(s)
           /\ Retention > 0 => s.at >= now - Retention
<1>1. s.at \in Int /\ StartOf(s.at) \in Int /\ StartOf(s.at) <= s.at /\ s.at < StartOf(s.at) + Bucket
  BY StartOfType DEF Samples
<1>. QED
  BY <1>1, Constants DEF Exact, TypeOK, Near, Expired

\* The source of a rollup, when no sample is from the future.
LEMMA SourceIsRecent ==
    ASSUME TypeOK, FromThePast, NEW s \in Samples
    PROVE  RollsUp(s) <=> \A r \in rolled : s.at >= StartOf(r.at) - Lookback
<1>1. \A r \in rolled : Lower(StartOf(r.at), now) = StartOf(r.at)
  BY StartOfType DEF TypeOK, FromThePast, Samples, Lower
<1>. QED
  BY <1>1 DEF RollsUp

LEMMA SaveStep ==
    ASSUME RollupInv, Exact, NEW n \in Nodes, SaveMetrics(n)
    PROVE  RollupInv'
<1>1. PICK t \in now - Late .. now : raw' = raw \cup {[node |-> n, at |-> t]}
  BY Constants DEF SaveMetrics, Exact, RollupInv, TypeOK
<1> DEFINE new == [node |-> n, at |-> t]
<1>2. UNCHANGED <<now, rolled, thread, last>> /\ raw' = raw \cup {new}
  BY <1>1 DEF SaveMetrics
<1>3. new \in Samples /\ new.at <= now /\ now - new.at <= Late /\ now \in Nat /\ last \in Nat
  BY Constants DEF RollupInv, TypeOK, Samples
<1>4. RollsUp(new)
  <2>1. \A r \in rolled : StartOf(r.at) \in Int /\ StartOf(r.at) <= now
    BY StartOfType DEF RollupInv, TypeOK, FromThePast, Samples
  <2>. QED
    BY <1>3, <2>1, SourceIsRecent, Constants DEF RollupInv
<1>5. TypeOK' /\ FromThePast' /\ Timely'
  BY <1>2, <1>3 DEF RollupInv, TypeOK, FromThePast, Timely
<1>6. RecomputedAreRaw' /\ Fresh'
  BY <1>2 DEF RollupInv, RecomputedAreRaw, Fresh, Recent
<1>7. UnrolledAreSource' /\ UnrolledIsNew'
  <2>1. \A s : Expired(s)' = Expired(s) /\ RollsUp(s)' = RollsUp(s)
    BY <1>2 DEF Expired, RollsUp
  <2>2. new.at >= last - Late
    BY <1>3, Constants DEF RollupInv, Timely, TypeOK
  <2>. HIDE DEF new
  <2>. QED
    BY <1>2, <1>4, <2>1, <2>2 DEF RollupInv, UnrolledAreSource, UnrolledIsNew
<1>8. Reported'
  BY <1>2, <1>3 DEF Reported, Near
<1>. QED
  BY <1>5, <1>6, <1>7, <1>8 DEF RollupInv

LEMMA TickStep == ASSUME RollupInv, Exact, Tick PROVE RollupInv'
<1>1. UNCHANGED <<raw, rolled, thread, last>> /\ now' = now + 1 /\ now \in Nat /\ last \in Nat
  BY DEF Tick, RollupInv, TypeOK
<1>2. \A s \in raw \cup rolled : s \in Samples /\ s.at \in Int /\ StartOf(s.at) \in Int
  BY StartOfType DEF RollupInv, TypeOK, Samples
<1>3. TypeOK' /\ FromThePast' /\ RecomputedAreRaw' /\ Timely'
  BY <1>1, <1>2, Constants DEF RollupInv, TypeOK, FromThePast, RecomputedAreRaw, Timely, Tick
<1>4. \A s \in raw \cup rolled : Expired(s) => Expired(s)'
  BY <1>1, <1>2, Constants DEF Expired
<1>5. UnrolledAreSource'
  <2>1. \A s \in raw : RollsUp(s) => RollsUp(s)'
    <3>1. \A r \in rolled : Lower(StartOf(r.at), now) = StartOf(r.at) /\ Lower(StartOf(r.at), now + 1) = StartOf(r.at)
      BY <1>1, <1>2, StartOfType DEF RollupInv, FromThePast, Lower
    <3>. QED
      BY <1>1, <3>1 DEF RollsUp
  <2>. QED
    BY <1>1, <1>4, <2>1 DEF RollupInv, UnrolledAreSource
<1>6. UnrolledIsNew'
  BY <1>1, <1>4 DEF RollupInv, UnrolledIsNew
<1>7. Reported'
  BY <1>1, <1>2, Constants DEF Tick, Reported, Near
<1>8. Fresh'
  BY <1>1 DEF RollupInv, Fresh, Recent
<1>. QED
  BY <1>3, <1>5, <1>6, <1>7, <1>8 DEF RollupInv

LEMMA PruneMetricsStep == ASSUME RollupInv, Exact, PruneMetrics PROVE RollupInv'
<1>1. PICK gone \in SUBSET {s \in raw : Retention > 0 /\ s.at < now - Retention} : raw' = raw \ gone
  BY DEF PruneMetrics, Oldest
<1>2. UNCHANGED <<now, rolled, last>> /\ thread' = "idle"
  BY DEF PruneMetrics
<1>3. \A s \in raw \cup rolled : s \in Samples /\ s.at \in Int /\ StartOf(s.at) \in Int /\ StartOf(s.at) <= s.at
  BY StartOfType DEF RollupInv, TypeOK, Samples
<1>4. TypeOK' /\ FromThePast' /\ Timely'
  BY <1>1, <1>2 DEF RollupInv, TypeOK, FromThePast, Timely
<1>5. RecomputedAreRaw'
  <2> SUFFICES ASSUME NEW s \in rolled, s \in gone
               PROVE  \E r \in rolled : StartOf(s.at) < StartOf(r.at) - Lookback
    BY <1>1, <1>2 DEF RollupInv, RecomputedAreRaw
  <2>1. PICK r \in rolled : Recent(r)
    BY DEF RollupInv, Fresh
  <2>2. Retention > 0 /\ s.at < now - Retention
    BY <1>1
  <2>3. now - Retention <= StartOf(r.at) - Lookback
    BY <1>3, <2>1, <2>2, RecentIsKept DEF RollupInv, TypeOK
  <2>. QED
    BY <1>3, <2>1, <2>2, <2>3, Constants DEF RollupInv, TypeOK
<1>6. UnrolledAreSource' /\ UnrolledIsNew' /\ Fresh'
  BY <1>1, <1>2 DEF RollupInv, UnrolledAreSource, UnrolledIsNew, Fresh, Recent, Expired, RollsUp
<1>7. Reported'
  <2> SUFFICES ASSUME raw' \cup rolled' # {}
               PROVE  \E s \in raw' \cup rolled' : Near(s)'
    BY DEF Reported
  <2>1. PICK s \in raw \cup rolled : Near(s)
    BY <1>1, <1>2 DEF RollupInv, Reported
  <2>2. s \notin gone
    BY <1>1, <1>3, <2>1, NearIsKept, Constants DEF RollupInv, TypeOK
  <2>3. s \in raw' \cup rolled' /\ Near(s)'
    BY <1>1, <1>2, <2>1, <2>2 DEF Near
  <2>. QED
    BY <2>3
<1>. QED
  BY <1>4, <1>5, <1>6, <1>7 DEF RollupInv

LEMMA PruneRollupsStep == ASSUME RollupInv, Exact, PruneRollups PROVE RollupInv'
<1> DEFINE rows == {RowOf(s) : s \in {r \in rolled : Expired(r)}}
<1>1. PICK gone \in SUBSET rows :
         /\ \A g \in gone, k \in rows \ gone : g[2] <= k[2]
         /\ rolled' = {s \in rolled : RowOf(s) \notin gone}
  BY DEF PruneRollups, Oldest
<1>2. UNCHANGED <<now, raw, last>> /\ thread' = "prune_metrics"
  BY DEF PruneRollups
<1>3. \A s \in raw \cup rolled : s \in Samples /\ s.at \in Int /\ StartOf(s.at) \in Int
  BY StartOfType DEF RollupInv, TypeOK, Samples
<1>4. \A s \in rolled : RowOf(s) \in gone => Expired(s)
  BY <1>1 DEF RowOf, Expired
<1>5. TypeOK' /\ FromThePast' /\ Timely'
  BY <1>1, <1>2 DEF RollupInv, TypeOK, FromThePast, Timely
<1>6. Fresh'
  <2>1. CASE rolled = {}
    BY <1>1, <2>1 DEF Fresh
  <2>2. CASE rolled # {}
    <3>1. PICK r \in rolled : Recent(r)
      BY <2>2 DEF RollupInv, Fresh
    <3>2. RowOf(r) \notin gone
      BY <1>3, <1>4, <3>1, RecentIsKept DEF RollupInv, TypeOK
    <3>. QED
      BY <1>1, <1>2, <3>1, <3>2 DEF Fresh, Recent
  <2>. QED
    BY <2>1, <2>2
<1>7. RecomputedAreRaw'
  <2> SUFFICES ASSUME NEW s \in rolled, RowOf(s) \notin gone, s \notin raw
               PROVE  \E r \in rolled : RowOf(r) \notin gone /\ StartOf(s.at) < StartOf(r.at) - Lookback
    BY <1>1, <1>2 DEF RecomputedAreRaw
  <2>1. PICK r \in rolled : StartOf(s.at) < StartOf(r.at) - Lookback
    BY DEF RollupInv, RecomputedAreRaw
  <2>2. ASSUME RowOf(r) \in gone PROVE FALSE
    <3>1. Expired(s)
      BY <1>3, <1>4, <2>1, <2>2, Constants DEF Expired, RollupInv, TypeOK
    <3>2. RowOf(s) \in rows \ gone
      BY <3>1
    <3>3. RowOf(r)[2] <= RowOf(s)[2]
      BY <1>1, <2>2, <3>2
    <3>. QED
      BY <1>3, <2>1, <3>3, Constants DEF RowOf
  <2>. QED
    BY <2>1, <2>2
<1>8. UnrolledAreSource' /\ UnrolledIsNew'
  <2>1. \A s : Expired(s)' = Expired(s)
    BY <1>2 DEF Expired
  <2>2. \A s : RollsUp(s) => RollsUp(s)'
    BY <1>1, <1>2 DEF RollsUp
  <2>3. \A s \in rolled : s \in rolled' \/ Expired(s)
    BY <1>1, <1>4
  <2>. QED
    BY <1>1, <1>2, <2>1, <2>2, <2>3 DEF RollupInv, UnrolledAreSource, UnrolledIsNew
<1>9. Reported'
  <2> SUFFICES ASSUME raw' \cup rolled' # {}
               PROVE  \E s \in raw' \cup rolled' : Near(s)'
    BY DEF Reported
  <2>1. PICK s \in raw \cup rolled : Near(s)
    BY <1>1, <1>2 DEF RollupInv, Reported
  <2>2. s \in rolled => RowOf(s) \notin gone
    BY <1>3, <1>4, <2>1, NearIsKept DEF RollupInv, TypeOK
  <2>3. s \in raw' \cup rolled' /\ Near(s)'
    BY <1>1, <1>2, <2>1, <2>2 DEF Near
  <2>. QED
    BY <2>3
<1>. QED
  BY <1>5, <1>6, <1>7, <1>8, <1>9 DEF RollupInv

\* A row that a rollup replaces has all its raw rows in the source.
LEMMA ReplacedRowIsSource ==
    ASSUME TypeOK, FromThePast, NEW s \in Samples, NEW q \in Samples, RollsUp(q), RowOf(s) = RowOf(q)
    PROVE  RollsUp(s)
<1>1. \A r \in rolled : r.at \in Int /\ StartOf(r.at) \in Int
  BY StartOfType DEF TypeOK, Samples
<1>2. s.at \in Int /\ q.at \in Int /\ StartOf(s.at) = StartOf(q.at) /\ StartOf(s.at) <= s.at /\ StartOf(s.at) \in Int
  BY StartOfType DEF Samples, RowOf
<1>3. \A r \in rolled : StartOf(q.at) >= StartOf(r.at) - Lookback
  BY <1>1, <1>2, Aligned, SourceIsRecent
<1>4. \A r \in rolled : s.at >= StartOf(r.at) - Lookback
  BY <1>1, <1>2, <1>3, Constants
<1>. QED
  BY <1>4, SourceIsRecent

\* What a rollup does: rows with new samples are replaced, but no sample is lost.
LEMMA RollupKeeps ==
    ASSUME RollupInv, Rollup
    PROVE  rolled \subseteq rolled' /\ rolled' \subseteq rolled \cup raw
<1> DEFINE source == {s \in raw : RollsUp(s)}
<1> DEFINE touched == {RowOf(s) : s \in source}
<1>1. rolled' = source \cup {s \in rolled : RowOf(s) \notin touched}
  BY DEF Rollup
<1>2. ASSUME NEW s \in rolled, RowOf(s) \in touched PROVE s \in source
  <2>1. PICK q \in source : RowOf(s) = RowOf(q)
    BY <1>2
  <2>2. s \in Samples /\ q \in Samples
    BY DEF RollupInv, TypeOK
  <2>3. RollsUp(s) /\ StartOf(s.at) = StartOf(q.at)
    BY <2>1, <2>2, ReplacedRowIsSource DEF RollupInv, RowOf
  <2>4. s \in raw
    <3>1. \A r \in rolled : q.at \in Int /\ r.at \in Int /\ StartOf(q.at) >= StartOf(r.at) - Lookback
      BY <2>1, <2>2, Aligned, SourceIsRecent DEF RollupInv, TypeOK, Samples
    <3>2. \A r \in rolled : StartOf(r.at) \in Int /\ StartOf(q.at) \in Int
      BY <3>1, StartOfType
    <3>. QED
      BY <2>3, <3>1, <3>2, Constants DEF RollupInv, RecomputedAreRaw
  <2>. QED
    BY <2>3, <2>4
<1>. QED
  BY <1>1, <1>2

LEMMA RollupStep == ASSUME RollupInv, Exact, Rollup PROVE RollupInv'
<1>1. rolled \subseteq rolled' /\ rolled' \subseteq rolled \cup raw
  BY RollupKeeps
<1>2. UNCHANGED <<now, raw>> /\ thread' = "prune_rollups" /\ last' = now
  BY DEF Rollup
<1>3. TypeOK' /\ FromThePast' /\ RecomputedAreRaw' /\ Timely'
  BY <1>1, <1>2, Constants DEF RollupInv, TypeOK, FromThePast, RecomputedAreRaw, Timely
<1>4. \A s : Expired(s)' = Expired(s) /\ Near(s)' = Near(s) /\ Recent(s)' = Near(s)
  BY <1>2 DEF Expired, Near, Recent
<1>5. \A s \in raw : RollsUp(s) => s \in rolled'
  BY DEF Rollup
<1>6. \A s \in raw \ rolled' : Expired(s)
  BY <1>1, <1>5 DEF RollupInv, UnrolledAreSource
<1>7. UnrolledAreSource' /\ UnrolledIsNew'
  BY <1>2, <1>4, <1>6 DEF UnrolledAreSource, UnrolledIsNew
<1>8. Reported'
  BY <1>1, <1>2, <1>4 DEF RollupInv, Reported
<1>9. Fresh'
  <2> SUFFICES ASSUME rolled' # {}
               PROVE  \E r \in rolled' : Recent(r)'
    BY DEF Fresh
  <2>1. PICK s \in raw \cup rolled : Near(s)
    BY <1>1 DEF RollupInv, Reported
  <2>2. ~ Expired(s)
    BY <2>1, NearIsKept DEF RollupInv, TypeOK
  <2>3. s \in rolled'
    BY <1>1, <1>6, <2>1, <2>2
  <2>. QED
    BY <1>4, <2>1, <2>3
<1>. QED
  BY <1>3, <1>7, <1>8, <1>9 DEF RollupInv

LEMMA RollupInductive == ASSUME Exact PROVE RollupInv /\ [Next]_vars => RollupInv'
<1> SUFFICES ASSUME RollupInv, [Next]_vars PROVE RollupInv'
  OBVIOUS
<1>1. CASE \E n \in Nodes : SaveMetrics(n)
  BY <1>1, SaveStep
<1>2. CASE Tick
  BY <1>2, TickStep
<1>3. CASE Rollup
  BY <1>3, RollupStep
<1>4. CASE PruneRollups
  BY <1>4, PruneRollupsStep
<1>5. CASE PruneMetrics
  BY <1>5, PruneMetricsStep
<1>6. CASE Fails \/ UNCHANGED vars
  BY <1>6 DEF Fails, vars, RollupInv, TypeOK, Timely, FromThePast, RecomputedAreRaw,
              UnrolledAreSource, UnrolledIsNew, Reported, Fresh, Near, Recent, Expired, RollsUp
<1>. QED
  BY <1>1, <1>2, <1>3, <1>4, <1>5, <1>6 DEF Next

-----------------------------------------------------------------------------
(***************************************************************************)
(* The theorems                                                             *)
(***************************************************************************)

\* A rollup never loses a sample of a bucket that the table still keeps.
THEOREM NoRollupLosesSamples == Exact => (Spec => RollupKeepsSamples)
<1> SUFFICES ASSUME Exact PROVE Spec => RollupKeepsSamples
  OBVIOUS
<1>1. RollupInv /\ [Next]_vars => [\A s \in rolled : s \in rolled' \/ Expired(s)]_vars
  <2> SUFFICES ASSUME RollupInv, Next PROVE \A s \in rolled : s \in rolled' \/ Expired(s)
    BY DEF vars
  <2>1. CASE Rollup
    BY <2>1, RollupKeeps
  <2>2. CASE PruneRollups
    <3> DEFINE rows == {RowOf(s) : s \in {r \in rolled : Expired(r)}}
    <3>1. PICK gone \in SUBSET rows : rolled' = {s \in rolled : RowOf(s) \notin gone}
      BY <2>2 DEF PruneRollups, Oldest
    <3>. QED
      BY <3>1 DEF RowOf, Expired
  <2>3. CASE UNCHANGED rolled
    BY <2>3
  <2>. QED
    BY <2>1, <2>2, <2>3 DEF Next, SaveMetrics, Tick, Fails, PruneMetrics
<1>2. RollupInv /\ [Next]_vars => RollupInv'
  BY RollupInductive
<1>. QED
  BY <1>1, <1>2, RollupInit, PTL DEF Spec, RollupKeepsSamples

\* No raw row is pruned before it has been rolled up: what the last rollup has
\* left out came after it (UnrolledIsNew, by the reach of the cutoff), and
\* that is too young to be pruned.
THEOREM RowsArePrunedAfterRollup == Exact => (Spec => PrunedAfterRollup)
<1> SUFFICES ASSUME Exact PROVE Spec => PrunedAfterRollup
  OBVIOUS
<1>1. RollupInv /\ [Next]_vars => [\A s \in raw : s \in raw' \/ s \in rolled \/ Expired(s)]_vars
  <2> SUFFICES ASSUME RollupInv, Next PROVE \A s \in raw : s \in raw' \/ s \in rolled \/ Expired(s)
    BY DEF vars
  <2>1. CASE PruneMetrics
    <3>1. PICK gone \in SUBSET {s \in raw : Retention > 0 /\ s.at < now - Retention} : raw' = raw \ gone
      BY <2>1 DEF PruneMetrics, Oldest
    <3>2. ASSUME NEW s \in gone PROVE ~ (s.at >= last - Late)
      <4>1. /\ s.at \in Int /\ now \in Int /\ last \in Int
            /\ Retention > 0 /\ s.at < now - Retention
        BY DEF RollupInv, TypeOK, Samples
      <4>. QED
        BY <4>1, Constants DEF RollupInv, Timely, Exact
    <3>. QED
      BY <3>1, <3>2 DEF RollupInv, UnrolledIsNew
  <2>2. CASE raw \subseteq raw'
    BY <2>2
  <2>. QED
    BY <2>1, <2>2 DEF Next, SaveMetrics, Tick, Rollup, Fails, PruneRollups
<1>2. RollupInv /\ [Next]_vars => RollupInv'
  BY RollupInductive
<1>. QED
  BY <1>1, <1>2, RollupInit, PTL DEF Spec, PrunedAfterRollup

\* A chart goes on showing what it has shown of a bucket within its range.
THEOREM ChartsKeepSamples == Exact => (Spec => ChartKeepsSamples)
<1> SUFFICES ASSUME Exact PROVE Spec => ChartKeepsSamples
  OBVIOUS
<1>1. ASSUME RollupInv, [Next]_vars, NEW n \in Nodes, NEW s \in Chart(n), StartOf(s.at) >= now' - Range,
             \A r \in rolled : r \in rolled' \/ Expired(r),
             \A r \in raw : r \in raw' \/ r \in rolled \/ Expired(r)
      PROVE  s \in Chart(n)'
  <2>1. now \in Nat /\ now' \in Nat /\ now <= now'
    BY <1>1 DEF RollupInv, TypeOK, Next, SaveMetrics, Tick, Rollup, Fails, PruneRollups, PruneMetrics, vars
  <2>2. \A r \in raw \cup rolled : r.at \in Int /\ StartOf(r.at) \in Int /\ StartOf(r.at) <= r.at
    BY <1>1, StartOfType DEF RollupInv, TypeOK, Samples
  <2>3. s \in raw \cup rolled /\ s.node = n /\ StartOf(s.at) >= now - Range
    BY <1>1, <2>1, <2>2, Constants DEF Chart
  <2>4. ~ Expired(s)
    BY <2>1, <2>2, <2>3, Constants, RollupAssumption DEF Expired, RollupAssumption
  <2>5. CASE s \in rolled
    <3>1. s \in rolled'
      BY <1>1, <2>4, <2>5
    <3>. QED
      BY <1>1, <2>3, <3>1 DEF Chart
  <2>6. CASE s \in raw \ rolled
    <3>1. s \in raw' /\ s.at >= now' - Range
      BY <1>1, <2>1, <2>2, <2>3, <2>4, <2>6, Constants
    <3>2. \A r \in rolled : r.node = n => StartOf(r.at) < now - Range
      BY <1>1, <2>1, <2>2, <2>6, Constants DEF Chart
    <3>3. CASE rolled' \subseteq rolled
      <4>1. \A r \in rolled' : r.node = n => ~ (StartOf(r.at) >= now' - Range)
        BY <2>1, <2>2, <3>2, <3>3, Constants
      <4>. QED
        BY <2>3, <3>1, <4>1 DEF Chart
    <3>4. CASE Rollup
      <4>1. s \in rolled'
        BY <1>1, <2>4, <2>6, <3>4 DEF RollupInv, UnrolledAreSource, Rollup
      <4>. QED
        BY <1>1, <2>3, <4>1 DEF Chart
    <3>. QED
      BY <1>1, <3>3, <3>4 DEF Next, SaveMetrics, Tick, Fails, PruneRollups, PruneMetrics, vars
  <2>. QED
    BY <2>3, <2>5, <2>6
<1>2. /\ RollupInv /\ [Next]_vars
      /\ [\A s \in rolled : s \in rolled' \/ Expired(s)]_vars
      /\ [\A s \in raw : s \in raw' \/ s \in rolled \/ Expired(s)]_vars
      => [\A n \in Nodes : \A s \in Chart(n) : s \in Chart(n)' \/ StartOf(s.at) < now' - Range]_vars
  <2> SUFFICES ASSUME RollupInv, [Next]_vars,
                      \A r \in rolled : r \in rolled' \/ Expired(r),
                      \A r \in raw : r \in raw' \/ r \in rolled \/ Expired(r),
                      NEW n \in Nodes, NEW s \in Chart(n)
               PROVE  s \in Chart(n)' \/ StartOf(s.at) < now' - Range
    BY DEF vars
  <2>1. now' \in Int /\ StartOf(s.at) \in Int
    BY StartOfType DEF Chart, RollupInv, TypeOK, Samples, Next, SaveMetrics, Tick, Rollup, Fails,
                       PruneRollups, PruneMetrics, vars
  <2>2. CASE StartOf(s.at) >= now' - Range
    BY <1>1, <2>2
  <2>. QED
    BY <2>1, <2>2, Constants
<1>3. RollupInv /\ [Next]_vars => RollupInv'
  BY RollupInductive
<1>. QED
  BY <1>2, <1>3, RollupInit, NoRollupLosesSamples, RowsArePrunedAfterRollup, PTL
     DEF Spec, ChartKeepsSamples, RollupKeepsSamples, PrunedAfterRollup

\* Type correctness, whatever the retention and the clocks are.
THEOREM RollupTypes == Spec => []TypeOK
<1>1. Init => TypeOK
  BY DEF Init, TypeOK
<1>2. TypeOK /\ [Next]_vars => TypeOK'
  <2> SUFFICES ASSUME TypeOK, [Next]_vars PROVE TypeOK'
    OBVIOUS
  <2> USE DEF TypeOK
  <2>1. CASE \E n \in Nodes : SaveMetrics(n)
    <3>1. PICK n \in Nodes : SaveMetrics(n)
      BY <2>1
    <3>2. PICK t \in now - Late .. now + Ahead : raw' = raw \cup {[node |-> n, at |-> t]}
      BY <3>1 DEF SaveMetrics
    <3>3. [node |-> n, at |-> t] \in Samples
      BY <3>2, Constants DEF Samples
    <3>. QED
      BY <3>1, <3>2, <3>3 DEF SaveMetrics
  <2>2. CASE Tick
    BY <2>2 DEF Tick
  <2>3. CASE Rollup
    BY <2>3 DEF Rollup
  <2>4. CASE Fails
    BY <2>4 DEF Fails
  <2>5. CASE PruneRollups
    BY <2>5 DEF PruneRollups
  <2>6. CASE PruneMetrics
    BY <2>6 DEF PruneMetrics
  <2>7. CASE UNCHANGED vars
    BY <2>7 DEF vars
  <2>. QED
    BY <2>1, <2>2, <2>3, <2>4, <2>5, <2>6, <2>7 DEF Next
<1>. QED
  BY <1>1, <1>2, PTL DEF Spec
=============================================================================
