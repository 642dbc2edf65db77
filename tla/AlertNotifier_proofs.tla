-------------------------- MODULE AlertNotifier_proofs --------------------------
(***************************************************************************)
(* Theorems about AlertNotifier, for every set of notifiers and workers and *)
(* all sizes of the queue.                                                  *)
(***************************************************************************)
EXTENDS AlertNotifier, FiniteSetTheorems, SequenceTheorems, TLAPS

\* A task sleeps only if it has another attempt.
SleepsBeforeLast ==
    \A n \in Notifiers, w \in Workers :
        worker[n][w].at = "sleeping" => worker[n][w].attempt < MaxAttempts

\* A notifier that was not started has no jobs and no tasks.
QuietUntilStarted ==
    \A n \in Notifiers :
        phase[n] \in {"unused", "off"} =>
            /\ queue[n] = <<>>
            /\ \A w \in Workers : worker[n][w] = Ended

\* The queue keeps its limit, so a call never accepts a negative number of jobs.
QueueBounded == \A n \in Notifiers : Len(queue[n]) <= QueueSize

\* The part of the inductive invariant that types need: the counter of jobs in
\* flight is positive whenever a task lowers it.
TInv == TypeOK /\ SleepsBeforeLast /\ QueueBounded /\ InflightIsHeld

-----------------------------------------------------------------------------
(***************************************************************************)
(* What a task at a point looks like, and the tasks that hold a job         *)
(***************************************************************************)

LEMMA TaskPoints ==
    ASSUME TypeOK, NEW n \in Notifiers, NEW w \in Workers
    PROVE  /\ worker[n][w].at \in {"idle", "sending", "sleeping", "ended"}
           /\ worker[n][w].at \in {"sending", "sleeping"} => worker[n][w] \in Busy
           /\ worker[n][w].at = "idle" => worker[n][w] = Idle
           /\ worker[n][w].at = "ended" => worker[n][w] = Ended
<1>1. worker[n][w] \in Busy \cup {Idle, Ended}
  BY DEF TypeOK
<1>2. CASE worker[n][w] \in Busy
  BY <1>2 DEF Busy
<1>3. CASE worker[n][w] \in {Idle, Ended}
  BY <1>3 DEF Idle, Ended
<1>. QED
  BY <1>1, <1>2, <1>3

LEMMA HoldersAreFinite ==
    ASSUME NEW n \in Notifiers
    PROVE  IsFiniteSet(HoldsJob(n)) /\ Cardinality(HoldsJob(n)) \in Nat
<1>1. HoldsJob(n) \subseteq Workers
  BY DEF HoldsJob
<1>. QED
  BY <1>1, NotifierAssumption, FS_Subset, FS_CardinalityType

\* A task that holds a job is counted.
LEMMA HolderIsCounted ==
    ASSUME InflightIsHeld, NEW n \in Notifiers, NEW w \in HoldsJob(n)
    PROVE  /\ tally[n].inflight - 1 \in Nat
           /\ Cardinality(HoldsJob(n) \ {w}) = tally[n].inflight - 1
<1>1. /\ IsFiniteSet(HoldsJob(n))
      /\ Cardinality(HoldsJob(n)) \in Nat
  BY HoldersAreFinite
<1>2. /\ IsFiniteSet(HoldsJob(n) \ {w})
      /\ Cardinality(HoldsJob(n) \ {w}) = Cardinality(HoldsJob(n)) - 1
  BY <1>1, FS_RemoveElement
<1>3. Cardinality(HoldsJob(n) \ {w}) \in Nat
  BY <1>2, FS_CardinalityType
<1>. QED
  BY <1>2, <1>3 DEF InflightIsHeld

\* Only the tasks of one notifier moved, and none of another.
LEMMA HoldersKept ==
    ASSUME NEW n \in Notifiers, worker'[n] = worker[n]
    PROVE  HoldsJob(n)' = HoldsJob(n)
BY DEF HoldsJob

\* One task of one notifier moves.
LEMMA TaskMoves ==
    ASSUME TypeOK, SleepsBeforeLast, NEW n \in Notifiers, NEW w \in Workers,
           NEW v \in Busy \cup {Idle, Ended}, Moves(n, w, v),
           v.at = "sleeping" => v.attempt < MaxAttempts
    PROVE  /\ worker' \in [Notifiers -> [Workers -> Busy \cup {Idle, Ended}]]
           /\ SleepsBeforeLast'
           /\ HoldsJob(n)' = IF v.at \in {"sending", "sleeping"}
                             THEN HoldsJob(n) \cup {w}
                             ELSE HoldsJob(n) \ {w}
           /\ \A m \in Notifiers \ {n} : HoldsJob(m)' = HoldsJob(m)
           /\ worker'[n][w] = v
           /\ \A x \in Workers \ {w} : worker'[n][x] = worker[n][x]
           /\ \A m \in Notifiers \ {n} : worker'[m] = worker[m]
<1> HIDE DEF Busy, Idle, Ended
<1>1. worker'[n] = [worker[n] EXCEPT ![w] = v]
  BY DEF TypeOK, Moves
<1>2. \A x \in Workers : worker'[n][x] = IF x = w THEN v ELSE worker[n][x]
  BY <1>1 DEF TypeOK
<1>3. \A m \in Notifiers \ {n} : worker'[m] = worker[m]
  BY DEF TypeOK, Moves
<1>4. worker' \in [Notifiers -> [Workers -> Busy \cup {Idle, Ended}]]
  <2>1. [worker[n] EXCEPT ![w] = v] \in [Workers -> Busy \cup {Idle, Ended}]
    BY DEF TypeOK
  <2>2. worker' = [worker EXCEPT ![n] = [worker[n] EXCEPT ![w] = v]]
    BY DEF Moves
  <2>. QED
    BY <2>1, <2>2 DEF TypeOK
<1>5. SleepsBeforeLast'
  BY <1>2, <1>3 DEF SleepsBeforeLast
<1>6. /\ HoldsJob(n)' = IF v.at \in {"sending", "sleeping"}
                         THEN HoldsJob(n) \cup {w} ELSE HoldsJob(n) \ {w}
      /\ \A m \in Notifiers \ {n} : HoldsJob(m)' = HoldsJob(m)
  BY <1>2, <1>3 DEF HoldsJob
<1>. QED
  BY <1>2, <1>3, <1>4, <1>5, <1>6

\* The counters of one notifier change.
LEMMA TallyChange ==
    ASSUME TypeOK, NEW n \in Notifiers, NEW t \in Tally, Counts(n, t)
    PROVE  /\ tally' \in [Notifiers -> Tally]
           /\ tally'[n] = t
           /\ \A m \in Notifiers \ {n} : tally'[m] = tally[m]
BY DEF TypeOK, Counts

\* The new counters of every action are counters.
LEMMA NewCounters ==
    ASSUME NEW t \in Tally, NEW a \in Nat, NEW b \in Nat
    PROVE  /\ [t EXCEPT !.dropped = @ + a, !.taken = @ + b + a] \in Tally
           /\ [t EXCEPT !.inflight = @ + 1] \in Tally
           /\ [t EXCEPT !.abandoned = a] \in Tally
           /\ [t EXCEPT !.dropped = @ + t.abandoned] \in Tally
           /\ t.inflight - 1 \in Nat =>
                 /\ [t EXCEPT !.inflight = @ - 1] \in Tally
                 /\ [t EXCEPT !.delivered = @ + 1, !.inflight = @ - 1,
                              !.failed = @ + a, !.recounted = @ + a] \in Tally
                 /\ [t EXCEPT !.failed = @ + 1 + a, !.inflight = @ - 1,
                              !.recounted = @ + a] \in Tally
<1>1. /\ t.dropped + a \in Nat /\ t.taken + b + a \in Nat /\ t.inflight + 1 \in Nat
      /\ t.dropped + t.abandoned \in Nat /\ t.delivered + 1 \in Nat
      /\ t.failed + a \in Nat /\ t.failed + 1 + a \in Nat /\ t.recounted + a \in Nat
  BY DEF Tally
<1>2. [t EXCEPT !.dropped = @ + a, !.taken = @ + b + a] \in Tally
  BY <1>1 DEF Tally
<1>3. [t EXCEPT !.inflight = @ + 1] \in Tally /\ [t EXCEPT !.abandoned = a] \in Tally
  BY <1>1 DEF Tally
<1>4. [t EXCEPT !.dropped = @ + t.abandoned] \in Tally
  BY <1>1 DEF Tally
<1>5. ASSUME t.inflight - 1 \in Nat
      PROVE  [t EXCEPT !.inflight = @ - 1] \in Tally
  BY <1>5 DEF Tally
<1>6. ASSUME t.inflight - 1 \in Nat
      PROVE  [t EXCEPT !.delivered = @ + 1, !.inflight = @ - 1,
                       !.failed = @ + a, !.recounted = @ + a] \in Tally
  BY <1>1, <1>6 DEF Tally
<1>7. ASSUME t.inflight - 1 \in Nat
      PROVE  [t EXCEPT !.failed = @ + 1 + a, !.inflight = @ - 1,
                       !.recounted = @ + a] \in Tally
  BY <1>1, <1>7 DEF Tally
<1>. QED
  BY <1>2, <1>3, <1>4, <1>5, <1>6, <1>7

LEMMA InflightKept ==
    ASSUME InflightIsHeld,
           \A n \in Notifiers : HoldsJob(n)' = HoldsJob(n),
           \A n \in Notifiers : tally'[n].inflight = tally[n].inflight
    PROVE  InflightIsHeld'
BY DEF InflightIsHeld

LEMMA InflightLowered ==
    ASSUME InflightIsHeld, NEW n \in Notifiers, NEW w \in HoldsJob(n),
           HoldsJob(n)' = HoldsJob(n) \ {w},
           tally'[n].inflight = tally[n].inflight - 1,
           \A m \in Notifiers \ {n} : HoldsJob(m)' = HoldsJob(m),
           \A m \in Notifiers \ {n} : tally'[m].inflight = tally[m].inflight
    PROVE  InflightIsHeld'
<1>1. Cardinality(HoldsJob(n)') = tally'[n].inflight
  BY HolderIsCounted
<1>. QED
  BY <1>1 DEF InflightIsHeld

LEMMA InflightRaised ==
    ASSUME InflightIsHeld, NEW n \in Notifiers, NEW w, w \notin HoldsJob(n),
           HoldsJob(n)' = HoldsJob(n) \cup {w},
           tally'[n].inflight = tally[n].inflight + 1,
           \A m \in Notifiers \ {n} : HoldsJob(m)' = HoldsJob(m),
           \A m \in Notifiers \ {n} : tally'[m].inflight = tally[m].inflight
    PROVE  InflightIsHeld'
<1>1. Cardinality(HoldsJob(n) \cup {w}) = Cardinality(HoldsJob(n)) + 1
  BY HoldersAreFinite, FS_AddElement
<1>. QED
  BY <1>1 DEF InflightIsHeld

\* What enqueue puts into the queue.
LEMMA EnqueuedJobs ==
    ASSUME TypeOK, NEW n \in Notifiers, Len(queue[n]) <= QueueSize, events < MaxEvents
    PROVE  /\ Accepted(n) \in 0 .. Hooks
           /\ Len(queue[n]) + Accepted(n) <= QueueSize
           /\ Jobs(events + 1, Accepted(n)) \in Seq(Job)
           /\ Len(Jobs(events + 1, Accepted(n))) = Accepted(n)
<1>1. Len(queue[n]) \in Nat
  BY DEF TypeOK
<1>2. Accepted(n) \in 0 .. Hooks /\ Len(queue[n]) + Accepted(n) <= QueueSize
  <2>1. Hooks \in Nat /\ QueueSize \in Nat
    BY NotifierAssumption
  <2>2. CASE QueueSize - Len(queue[n]) < Hooks
    BY <1>1, <2>1, <2>2 DEF Accepted
  <2>3. CASE ~ (QueueSize - Len(queue[n]) < Hooks)
    BY <1>1, <2>1, <2>3 DEF Accepted
  <2>. QED
    BY <2>2, <2>3
<1>3. \A h \in 1 .. Accepted(n) : [event |-> events + 1, hook |-> h] \in Job
  BY <1>2, NotifierAssumption DEF TypeOK, Job
<1>4. Jobs(events + 1, Accepted(n)) \in [1 .. Accepted(n) -> Job]
  BY <1>3 DEF Jobs
<1>5. Accepted(n) \in Nat
  BY <1>2, NotifierAssumption
<1>. HIDE DEF Job
<1>6. Jobs(events + 1, Accepted(n)) \in Seq(Job) /\ Len(Jobs(events + 1, Accepted(n))) = Accepted(n)
  BY <1>4, <1>5
<1>. QED
  BY <1>2, <1>6

-----------------------------------------------------------------------------
(***************************************************************************)
(* Type correctness and the count of jobs in flight                         *)
(***************************************************************************)

LEMMA TInvInit == Init => TInv
<1> SUFFICES ASSUME Init PROVE TInv
  OBVIOUS
<1> USE NotifierAssumption
<1>1. PICK enabled \in BOOLEAN :
         /\ phase  = [n \in Notifiers |->
                        IF n # current THEN "unused" ELSE IF enabled THEN "running" ELSE "off"]
         /\ client = [n \in Notifiers |-> n = current /\ enabled]
         /\ worker = [n \in Notifiers |-> Tasks(n = current /\ enabled)]
  BY DEF Init
<1>2. \A n \in Notifiers, w \in Workers : worker[n][w] \in {Idle, Ended}
  BY <1>1 DEF Tasks
<1>3. worker \in [Notifiers -> [Workers -> Busy \cup {Idle, Ended}]]
  BY <1>1 DEF Tasks
<1>4. client \in [Notifiers -> BOOLEAN]
  BY <1>1, Zenon
<1>5. phase \in [Notifiers -> Phase]
  BY <1>1 DEF Phase
<1>6. /\ tally \in [Notifiers -> Tally]
      /\ queue \in [Notifiers -> Seq(Job)]
      /\ events \in 0 .. MaxEvents
  BY DEF Init, Tally, NewTally
<1>7. TypeOK
  BY <1>3, <1>4, <1>5, <1>6 DEF Init, TypeOK
<1>8. SleepsBeforeLast
  BY <1>2 DEF SleepsBeforeLast, Idle, Ended
<1>9. InflightIsHeld
  <2> SUFFICES ASSUME NEW n \in Notifiers
               PROVE  tally[n].inflight = Cardinality(HoldsJob(n))
    BY DEF InflightIsHeld
  <2>1. HoldsJob(n) = {}
    BY <1>2 DEF HoldsJob, Idle, Ended
  <2>2. tally[n].inflight = 0
    BY DEF Init, NewTally
  <2>. QED
    BY <2>1, <2>2, FS_EmptySet
<1>10. QueueBounded
  BY DEF Init, QueueBounded
<1>. QED
  BY <1>7, <1>8, <1>9, <1>10 DEF TInv

LEMMA EnqueueKeepsTypes ==
    ASSUME TInv, NEW n \in Notifiers, Enqueue(n)
    PROVE  TInv'
<1> USE NotifierAssumption DEF TInv
<1>0. /\ \A m \in Notifiers : HoldsJob(m)' = HoldsJob(m)
      /\ UNCHANGED <<current, reloading, phase, client, worker>>
      /\ events < MaxEvents /\ events' = events + 1
  BY HoldersKept DEF Enqueue
<1>1. CASE phase[n] # "running"
  <2>1. UNCHANGED <<queue, tally>>
    BY <1>1 DEF Enqueue
  <2>2. TypeOK'
    BY <1>0, <2>1 DEF TypeOK
  <2>3. SleepsBeforeLast' /\ QueueBounded'
    BY <1>0, <2>1 DEF SleepsBeforeLast, QueueBounded
  <2>4. InflightIsHeld'
    BY <1>0, <2>1, InflightKept
  <2>. QED
    BY <2>2, <2>3, <2>4
<1>2. CASE phase[n] = "running"
  <2>1. PICK refused \in 0 .. Hooks - Accepted(n) :
           Counts(n, [tally[n] EXCEPT !.dropped = @ + refused,
                                      !.taken = @ + Accepted(n) + refused])
    BY <1>2 DEF Enqueue
  <2>2. queue' = [queue EXCEPT ![n] = @ \o Jobs(events + 1, Accepted(n))]
    BY <1>2 DEF Enqueue
  <2>3. /\ Accepted(n) \in 0 .. Hooks
        /\ Len(queue[n]) + Accepted(n) <= QueueSize
        /\ Jobs(events + 1, Accepted(n)) \in Seq(Job)
        /\ Len(Jobs(events + 1, Accepted(n))) = Accepted(n)
    BY <1>0, EnqueuedJobs DEF QueueBounded
  <2> DEFINE t == [tally[n] EXCEPT !.dropped = @ + refused,
                                   !.taken = @ + Accepted(n) + refused]
  <2>4. /\ tally' \in [Notifiers -> Tally]
        /\ \A m \in Notifiers : tally'[m].inflight = tally[m].inflight
    <3>1. refused \in Nat /\ Accepted(n) \in Nat
      BY <2>3
    <3>2. tally[n] \in Tally
      BY DEF TypeOK
    <3>3. t \in Tally
      BY <3>1, <3>2, NewCounters
    <3>4. t.inflight = tally[n].inflight
      BY <3>2 DEF Tally
    <3>5. Counts(n, t)
      BY <2>1
    <3> HIDE DEF t
    <3>6. /\ tally' \in [Notifiers -> Tally]
          /\ tally'[n] = t
          /\ \A m \in Notifiers \ {n} : tally'[m] = tally[m]
      BY <3>3, <3>5, TallyChange
    <3>. QED
      BY <3>4, <3>6
  <2>5. queue' \in [Notifiers -> Seq(Job)]
    BY <2>2, <2>3 DEF TypeOK
  <2>6. TypeOK'
    BY <1>0, <2>4, <2>5 DEF TypeOK
  <2>7. SleepsBeforeLast'
    BY <1>0 DEF SleepsBeforeLast
  <2>8. QueueBounded'
    <3>1. queue'[n] = queue[n] \o Jobs(events + 1, Accepted(n)) /\ queue[n] \in Seq(Job)
      BY <2>2 DEF TypeOK
    <3>2. Len(queue'[n]) = Len(queue[n]) + Len(Jobs(events + 1, Accepted(n)))
      BY <2>3, <3>1
    <3>3. \A m \in Notifiers \ {n} : queue'[m] = queue[m]
      BY <2>2 DEF TypeOK
    <3>. QED
      BY <2>3, <3>2, <3>3 DEF QueueBounded
  <2>9. InflightIsHeld'
    BY <1>0, <2>4, InflightKept
  <2>. QED
    BY <2>6, <2>7, <2>8, <2>9
<1>. QED
  BY <1>1, <1>2

LEMMA TakeJobKeepsTypes ==
    ASSUME TInv, NEW n \in Notifiers, NEW w \in Workers, TakeJob(n, w)
    PROVE  TInv'
<1> USE NotifierAssumption DEF TInv
<1>0. /\ UNCHANGED <<current, reloading, phase, client, events>>
      /\ queue[n] # <<>> /\ worker[n][w].at = "idle"
      /\ queue' = [queue EXCEPT ![n] = Tail(@)]
  BY DEF TakeJob, Runs
<1>1. queue[n] \in Seq(Job)
  BY DEF TypeOK
<1>2. /\ Head(queue[n]) \in Job /\ Tail(queue[n]) \in Seq(Job)
      /\ Len(Tail(queue[n])) = Len(queue[n]) - 1 /\ Len(queue[n]) \in Nat
  BY <1>0, <1>1
<1>3. queue' \in [Notifiers -> Seq(Job)] /\ QueueBounded'
  BY <1>0, <1>2 DEF TypeOK, QueueBounded
<1>4. CASE ~ client[n]
  <2>1. UNCHANGED <<worker, tally>>
    BY <1>4 DEF TakeJob
  <2>2. InflightIsHeld'
    BY <2>1, HoldersKept, InflightKept
  <2>3. SleepsBeforeLast'
    BY <2>1 DEF SleepsBeforeLast
  <2>. QED
    BY <1>0, <1>3, <2>1, <2>2, <2>3 DEF TypeOK
<1>5. CASE client[n]
  <2> DEFINE v == [at |-> "sending", job |-> Head(queue[n]), attempt |-> 1]
             t == [tally[n] EXCEPT !.inflight = @ + 1]
  <2>1. Moves(n, w, v) /\ Counts(n, t)
    BY <1>5 DEF TakeJob
  <2>2. v \in Busy /\ v.at = "sending"
    BY <1>2 DEF Busy
  <2>3. tally[n] \in Tally
    BY DEF TypeOK
  <2>4. t \in Tally /\ t.inflight = tally[n].inflight + 1
    BY <2>3, NewCounters DEF Tally
  <2>5. w \notin HoldsJob(n)
    BY <1>0 DEF HoldsJob
  <2> HIDE DEF v, t
  <2>7. /\ worker' \in [Notifiers -> [Workers -> Busy \cup {Idle, Ended}]]
        /\ SleepsBeforeLast'
        /\ HoldsJob(n)' = HoldsJob(n) \cup {w}
        /\ \A m \in Notifiers \ {n} : HoldsJob(m)' = HoldsJob(m)
    BY <2>1, <2>2, TaskMoves
  <2>8. /\ tally' \in [Notifiers -> Tally]
        /\ tally'[n] = t
        /\ \A m \in Notifiers \ {n} : tally'[m] = tally[m]
    BY <2>1, <2>4, TallyChange
  <2>9. InflightIsHeld'
    BY <2>4, <2>5, <2>7, <2>8, InflightRaised
  <2>. QED
    BY <1>0, <1>3, <2>7, <2>8, <2>9 DEF TypeOK
<1>. QED
  BY <1>4, <1>5

\* A task gives up its job and the counters follow.
LEMMA SettledKeepsTypes ==
    ASSUME TInv, NEW n \in Notifiers, NEW w \in HoldsJob(n), NEW v \in {Idle, Ended},
           NEW t \in Tally, t.inflight = tally[n].inflight - 1,
           Moves(n, w, v), Counts(n, t),
           UNCHANGED <<current, reloading, phase, client, queue, events>>
    PROVE  TInv'
<1> USE DEF TInv
<1>1. w \in Workers /\ v.at \in {"idle", "ended"}
  BY DEF HoldsJob, Idle, Ended
<1>2. /\ worker' \in [Notifiers -> [Workers -> Busy \cup {Idle, Ended}]]
      /\ SleepsBeforeLast'
      /\ HoldsJob(n)' = HoldsJob(n) \ {w}
      /\ \A m \in Notifiers \ {n} : HoldsJob(m)' = HoldsJob(m)
  <2> HIDE DEF TInv
  <2>1. TypeOK /\ SleepsBeforeLast
    BY DEF TInv
  <2>. QED
    BY <1>1, <2>1, TaskMoves
<1>3. /\ tally' \in [Notifiers -> Tally]
      /\ tally'[n] = t
      /\ \A m \in Notifiers \ {n} : tally'[m] = tally[m]
  BY TallyChange
<1>4. InflightIsHeld'
  BY <1>2, <1>3, InflightLowered
<1>5. QueueBounded'
  BY DEF QueueBounded
<1>. QED
  BY <1>2, <1>3, <1>4, <1>5 DEF TypeOK

\* A task that holds a job keeps it and no counter changes.
LEMMA HeldOnKeepsTypes ==
    ASSUME TInv, NEW n \in Notifiers, NEW w \in HoldsJob(n), NEW v \in Busy,
           v.at = "sleeping" => v.attempt < MaxAttempts,
           Moves(n, w, v),
           UNCHANGED <<current, reloading, phase, client, queue, tally, events>>
    PROVE  TInv'
<1> USE DEF TInv
<1>1. w \in Workers /\ v.at \in {"sending", "sleeping"}
  BY DEF HoldsJob, Busy
<1>2. /\ worker' \in [Notifiers -> [Workers -> Busy \cup {Idle, Ended}]]
      /\ SleepsBeforeLast'
      /\ HoldsJob(n)' = HoldsJob(n) \cup {w}
      /\ \A m \in Notifiers \ {n} : HoldsJob(m)' = HoldsJob(m)
  <2> HIDE DEF TInv
  <2>1. TypeOK /\ SleepsBeforeLast
    BY DEF TInv
  <2>. QED
    BY <1>1, <2>1, TaskMoves
<1>3. InflightIsHeld'
  BY <1>2, InflightKept
<1>4. QueueBounded'
  BY DEF QueueBounded
<1>. QED
  BY <1>2, <1>3, <1>4 DEF TypeOK

\* What a worker does with the job it holds.
LEMMA WorkKeepsTypes ==
    ASSUME TInv, NEW n \in Notifiers, NEW w \in Workers,
           Deliver(n, w) \/ Retry(n, w) \/ Wake(n, w) \/ Fail(n, w)
    PROVE  TInv'
<1> USE NotifierAssumption
<1>1. /\ TypeOK /\ SleepsBeforeLast /\ InflightIsHeld
      /\ worker[n][w].at \in {"sending", "sleeping"}
  BY DEF TInv, Deliver, Retry, Wake, Fail, Runs
<1>2. w \in HoldsJob(n) /\ worker[n][w] \in Busy
  BY <1>1, TaskPoints DEF HoldsJob
<1>3. tally[n] \in Tally /\ tally[n].inflight - 1 \in Nat
  BY <1>1, <1>2, HolderIsCounted DEF TypeOK
<1>4. CASE Deliver(n, w)
  <2>1. PICK again \in {0, 1} :
           Counts(n, [tally[n] EXCEPT !.delivered = @ + 1, !.inflight = @ - 1,
                                      !.failed = @ + again, !.recounted = @ + again])
    BY <1>4 DEF Deliver
  <2> DEFINE t == [tally[n] EXCEPT !.delivered = @ + 1, !.inflight = @ - 1,
                                   !.failed = @ + again, !.recounted = @ + again]
  <2>2. t \in Tally
    BY <1>3, NewCounters
  <2>3. t.inflight = tally[n].inflight - 1
    BY <1>3 DEF Tally
  <2>4. Counts(n, t)
    BY <2>1
  <2> HIDE DEF t
  <2>5. /\ Moves(n, w, Idle)
        /\ UNCHANGED <<current, reloading, phase, client, queue, events>>
    BY <1>4 DEF Deliver
  <2>. QED
    BY <1>2, <2>2, <2>3, <2>4, <2>5, SettledKeepsTypes
<1>5. CASE Fail(n, w)
  <2>1. PICK again \in {0, 1} :
           Counts(n, [tally[n] EXCEPT !.failed = @ + 1 + again, !.inflight = @ - 1,
                                      !.recounted = @ + again])
    BY <1>5 DEF Fail
  <2> DEFINE t == [tally[n] EXCEPT !.failed = @ + 1 + again, !.inflight = @ - 1,
                                   !.recounted = @ + again]
  <2>2. t \in Tally
    BY <1>3, NewCounters
  <2>3. t.inflight = tally[n].inflight - 1
    BY <1>3 DEF Tally
  <2>4. Counts(n, t)
    BY <2>1
  <2> HIDE DEF t
  <2>5. /\ Moves(n, w, Idle)
        /\ UNCHANGED <<current, reloading, phase, client, queue, events>>
    BY <1>5 DEF Fail
  <2>. QED
    BY <1>2, <2>2, <2>3, <2>4, <2>5, SettledKeepsTypes
<1>6. CASE Retry(n, w)
  <2> DEFINE v == [worker[n][w] EXCEPT !.at = "sleeping"]
  <2>1. /\ Moves(n, w, v) /\ worker[n][w].attempt < MaxAttempts
        /\ UNCHANGED <<current, reloading, phase, client, queue, tally, events>>
    BY <1>6 DEF Retry
  <2>2. v \in Busy /\ v.attempt < MaxAttempts
    BY <1>2, <2>1 DEF Busy
  <2> HIDE DEF v
  <2>. QED
    BY <1>2, <2>1, <2>2, HeldOnKeepsTypes
<1>7. CASE Wake(n, w)
  <2> DEFINE v == [worker[n][w] EXCEPT !.at = "sending", !.attempt = @ + 1]
  <2>1. /\ Moves(n, w, v) /\ worker[n][w].at = "sleeping"
        /\ UNCHANGED <<current, reloading, phase, client, queue, tally, events>>
    BY <1>7 DEF Wake, Runs
  <2>2. worker[n][w].attempt < MaxAttempts
    BY <1>1, <2>1 DEF SleepsBeforeLast
  <2>3. worker[n][w].attempt + 1 \in 1 .. MaxAttempts
    BY <1>2, <2>2 DEF Busy
  <2>4. v \in Busy /\ v.at = "sending"
    BY <1>2, <2>3 DEF Busy
  <2> HIDE DEF v
  <2>. QED
    BY <1>2, <2>1, <2>4, HeldOnKeepsTypes
<1>. QED
  BY <1>4, <1>5, <1>6, <1>7

LEMMA CancelledKeepsTypes ==
    ASSUME TInv, NEW n \in Notifiers, NEW w \in Workers, Cancelled(n, w)
    PROVE  TInv'
<1> USE NotifierAssumption
<1>1. /\ TypeOK /\ SleepsBeforeLast /\ InflightIsHeld /\ QueueBounded
      /\ Moves(n, w, Ended)
      /\ UNCHANGED <<current, reloading, phase, client, queue, events>>
  BY DEF TInv, Cancelled
<1>2. CASE worker[n][w].at \in {"sending", "sleeping"}
  <2> DEFINE t == [tally[n] EXCEPT !.inflight = @ - 1]
  <2>1. w \in HoldsJob(n)
    BY <1>2 DEF HoldsJob
  <2>2. tally[n] \in Tally /\ tally[n].inflight - 1 \in Nat
    BY <1>1, <2>1, HolderIsCounted DEF TypeOK
  <2>3. t \in Tally /\ t.inflight = tally[n].inflight - 1
    BY <2>2, NewCounters DEF Tally
  <2>4. Counts(n, t)
    BY <1>2 DEF Cancelled
  <2> HIDE DEF t
  <2>. QED
    BY <1>1, <2>1, <2>3, <2>4, SettledKeepsTypes
<1>3. CASE worker[n][w].at \notin {"sending", "sleeping"}
  <2>1. UNCHANGED tally
    BY <1>3 DEF Cancelled
  <2>2. Ended.at = "ended"
    BY DEF Ended
  <2>3. /\ worker' \in [Notifiers -> [Workers -> Busy \cup {Idle, Ended}]]
        /\ SleepsBeforeLast'
        /\ HoldsJob(n)' = HoldsJob(n) \ {w}
        /\ \A m \in Notifiers \ {n} : HoldsJob(m)' = HoldsJob(m)
    BY <1>1, <2>2, TaskMoves
  <2>4. HoldsJob(n)' = HoldsJob(n)
    BY <1>3, <2>3 DEF HoldsJob
  <2>5. InflightIsHeld'
    BY <1>1, <2>1, <2>3, <2>4, InflightKept
  <2>. QED
    BY <1>1, <2>1, <2>3, <2>5 DEF TInv, TypeOK, QueueBounded
<1>. QED
  BY <1>2, <1>3

\* stop() has begun: its local count is taken.
LEMMA RetiredCounts ==
    ASSUME TInv, NEW n \in Notifiers,
           Counts(n, [tally[n] EXCEPT !.abandoned = Abandoned(n)])
    PROVE  /\ tally' \in [Notifiers -> Tally]
           /\ \A m \in Notifiers : tally'[m] = IF m = n
                 THEN [tally[n] EXCEPT !.abandoned = Abandoned(n)] ELSE tally[m]
           /\ \A m \in Notifiers : tally'[m].inflight = tally[m].inflight
<1> DEFINE t == [tally[n] EXCEPT !.abandoned = Abandoned(n)]
<1>1. TypeOK /\ tally[n] \in Tally
  BY DEF TInv, TypeOK
<1>2. Abandoned(n) \in Nat
  <2>1. Len(queue[n]) \in Nat /\ tally[n].inflight \in Nat
    BY <1>1 DEF TypeOK, Tally
  <2>. QED
    BY <2>1 DEF Abandoned
<1>3. t \in Tally
  BY <1>1, <1>2, NewCounters
<1>3a. t.inflight = tally[n].inflight
  BY <1>1 DEF Tally
<1>4. Counts(n, t)
  OBVIOUS
<1> HIDE DEF t
<1>5. /\ tally' \in [Notifiers -> Tally]
      /\ tally'[n] = t
      /\ \A m \in Notifiers \ {n} : tally'[m] = tally[m]
  BY <1>1, <1>3, <1>4, TallyChange
<1>6. \A m \in Notifiers : tally'[m].inflight = tally[m].inflight
  BY <1>3a, <1>5
<1>. QED
  BY <1>5, <1>6 DEF t

LEMMA ReloadKeepsTypes ==
    ASSUME TInv, QuietUntilStarted, NEW n \in Notifiers, NEW m \in Notifiers, Reload(n, m)
    PROVE  TInv'
<1> USE NotifierAssumption
<1>1. PICK enabled \in BOOLEAN :
         /\ phase'  = [phase EXCEPT ![n] = "stopping", ![m] = IF enabled THEN "running" ELSE "off"]
         /\ client' = [client EXCEPT ![m] = enabled]
         /\ worker' = [worker EXCEPT ![m] = Tasks(enabled)]
  BY DEF Reload
<1>2. /\ TypeOK /\ SleepsBeforeLast /\ InflightIsHeld /\ QueueBounded
      /\ phase[m] = "unused" /\ current' = m /\ reloading' = n
      /\ UNCHANGED <<queue, events>>
      /\ Counts(n, [tally[n] EXCEPT !.abandoned = Abandoned(n)])
  BY DEF TInv, Reload
<1>3. /\ tally' \in [Notifiers -> Tally]
      /\ \A l \in Notifiers : tally'[l].inflight = tally[l].inflight
  BY <1>2, RetiredCounts
<1>4. Tasks(enabled) \in [Workers -> {Idle, Ended}]
  BY DEF Tasks
<1>5. worker' \in [Notifiers -> [Workers -> Busy \cup {Idle, Ended}]]
  BY <1>1, <1>2, <1>4 DEF TypeOK
<1>6. \A l \in Notifiers : worker'[l] = IF l = m THEN Tasks(enabled) ELSE worker[l]
  BY <1>1, <1>2 DEF TypeOK
<1>7. SleepsBeforeLast'
  BY <1>2, <1>4, <1>6 DEF SleepsBeforeLast, Idle, Ended
<1>8. \A l \in Notifiers : HoldsJob(l)' = HoldsJob(l)
  <2>1. HoldsJob(m)' = {}
    BY <1>4, <1>6 DEF HoldsJob, Idle, Ended
  <2>2. HoldsJob(m) = {}
    BY <1>2 DEF QuietUntilStarted, HoldsJob, Ended
  <2>3. \A l \in Notifiers \ {m} : HoldsJob(l)' = HoldsJob(l)
    BY <1>6 DEF HoldsJob
  <2>. QED
    BY <2>1, <2>2, <2>3
<1>9. InflightIsHeld'
  BY <1>2, <1>3, <1>8, InflightKept
<1>10. client' \in [Notifiers -> BOOLEAN]
  BY <1>1, <1>2, Zenon DEF TypeOK
<1>11. phase' \in [Notifiers -> Phase]
  BY <1>1, <1>2 DEF TypeOK, Phase
<1>. QED
  BY <1>2, <1>3, <1>5, <1>7, <1>9, <1>10, <1>11 DEF TInv, TypeOK, QueueBounded

LEMMA ShutdownKeepsTypes ==
    ASSUME TInv, NEW n \in Notifiers, Shutdown(n)
    PROVE  TInv'
<1>1. /\ TypeOK /\ SleepsBeforeLast /\ InflightIsHeld /\ QueueBounded
      /\ phase' = [phase EXCEPT ![n] = "stopping"]
      /\ UNCHANGED <<current, reloading, client, queue, worker, events>>
      /\ Counts(n, [tally[n] EXCEPT !.abandoned = Abandoned(n)])
  BY DEF TInv, Shutdown
<1>2. /\ tally' \in [Notifiers -> Tally]
      /\ \A l \in Notifiers : tally'[l].inflight = tally[l].inflight
  BY <1>1, RetiredCounts
<1>3. InflightIsHeld'
  BY <1>1, <1>2, HoldersKept, InflightKept
<1>4. phase' \in [Notifiers -> Phase]
  BY <1>1 DEF TypeOK, Phase
<1>. QED
  BY <1>1, <1>2, <1>3, <1>4 DEF TInv, TypeOK, QueueBounded, SleepsBeforeLast

LEMMA StopEndsKeepsTypes ==
    ASSUME TInv, NEW n \in Notifiers, StopEnds(n)
    PROVE  TInv'
<1> DEFINE t == [tally[n] EXCEPT !.dropped = @ + tally[n].abandoned]
<1>1. /\ TypeOK /\ SleepsBeforeLast /\ InflightIsHeld /\ QueueBounded
      /\ phase' = [phase EXCEPT ![n] = "stopped"]
      /\ queue' = [queue EXCEPT ![n] = <<>>]
      /\ reloading' = IF reloading = n THEN NoNotifier ELSE reloading
      /\ client' = [client EXCEPT ![n] = FALSE] \/ UNCHANGED client
      /\ UNCHANGED <<current, worker, events>>
      /\ Counts(n, t)
  BY DEF TInv, StopEnds
<1>2. tally[n] \in Tally
  BY <1>1 DEF TypeOK
<1>3. t \in Tally /\ t.inflight = tally[n].inflight
  BY <1>2, NewCounters DEF Tally
<1> HIDE DEF t
<1>4. /\ tally' \in [Notifiers -> Tally]
      /\ \A l \in Notifiers : tally'[l].inflight = tally[l].inflight
  BY <1>1, <1>3, TallyChange
<1>5. InflightIsHeld'
  BY <1>1, <1>4, HoldersKept, InflightKept
<1>6. client' \in [Notifiers -> BOOLEAN]
  BY <1>1, Zenon DEF TypeOK
<1>7. phase' \in [Notifiers -> Phase]
  BY <1>1 DEF TypeOK, Phase
<1>8. queue' \in [Notifiers -> Seq(Job)] /\ QueueBounded'
  <2>1. <<>> \in Seq(Job) /\ Len(<<>>) = 0 /\ 0 <= QueueSize
    BY NotifierAssumption
  <2>2. \A m \in Notifiers : queue'[m] = IF m = n THEN <<>> ELSE queue[m]
    BY <1>1 DEF TypeOK
  <2>3. queue' \in [Notifiers -> Seq(Job)]
    BY <1>1, <2>1 DEF TypeOK
  <2>4. QueueBounded'
    BY <1>1, <2>1, <2>2 DEF QueueBounded
  <2>. QED
    BY <2>3, <2>4
<1>. QED
  BY <1>1, <1>4, <1>5, <1>6, <1>7, <1>8 DEF TInv, TypeOK, SleepsBeforeLast

LEMMA TInvStep == TInv /\ QuietUntilStarted /\ [Next]_vars => TInv'
<1> SUFFICES ASSUME TInv, QuietUntilStarted, [Next]_vars PROVE TInv'
  OBVIOUS
<1>1. CASE UNCHANGED vars
  <2>1. InflightIsHeld'
    BY <1>1, HoldersKept, InflightKept DEF TInv, vars
  <2>. QED
    BY <1>1, <2>1 DEF TInv, TypeOK, SleepsBeforeLast, QueueBounded, vars
<1>2. CASE Next
  BY <1>2, EnqueueKeepsTypes, ShutdownKeepsTypes, StopEndsKeepsTypes, ReloadKeepsTypes,
     TakeJobKeepsTypes, WorkKeepsTypes, CancelledKeepsTypes DEF Next
<1>. QED
  BY <1>1, <1>2

-----------------------------------------------------------------------------
(***************************************************************************)
(* Notifiers without workers are quiet                                      *)
(***************************************************************************)

LEMMA QuietInit == Init => QuietUntilStarted
BY DEF Init, QuietUntilStarted, Tasks

LEMMA QuietStep == TInv /\ QuietUntilStarted /\ [Next]_vars => QuietUntilStarted'
<1> SUFFICES ASSUME TInv, QuietUntilStarted, [Next]_vars PROVE QuietUntilStarted'
  OBVIOUS
<1>0. TypeOK /\ SleepsBeforeLast
  BY DEF TInv
<1>1. CASE UNCHANGED vars
  BY <1>1 DEF QuietUntilStarted, vars
<1>2. ASSUME NEW n \in Notifiers, Enqueue(n)
      PROVE  QuietUntilStarted'
  BY <1>0, <1>2 DEF Enqueue, QuietUntilStarted, TypeOK
<1>3. ASSUME NEW n \in Notifiers, Shutdown(n) \/ StopEnds(n)
      PROVE  QuietUntilStarted'
  BY <1>0, <1>3 DEF Shutdown, StopEnds, QuietUntilStarted, TypeOK
<1>4. ASSUME NEW n \in Notifiers, NEW m \in Notifiers, Reload(n, m)
      PROVE  QuietUntilStarted'
  <2>1. PICK enabled \in BOOLEAN :
           /\ phase'  = [phase EXCEPT ![n] = "stopping", ![m] = IF enabled THEN "running" ELSE "off"]
           /\ worker' = [worker EXCEPT ![m] = Tasks(enabled)]
    BY <1>4 DEF Reload
  <2>2. phase[m] = "unused" /\ phase[n] \in {"off", "running"} /\ UNCHANGED queue
    BY <1>4 DEF Reload
  <2>3. /\ queue'[m] = <<>> /\ phase'[m] \in {"running", "off"}
        /\ phase'[m] = "off" => \A w \in Workers : worker'[m][w] = Ended
    BY <1>0, <2>1, <2>2 DEF QuietUntilStarted, Tasks, TypeOK
  <2>4. \A l \in Notifiers \ {m} : phase'[l] \in {"unused", "off"} =>
            phase[l] = phase'[l] /\ worker'[l] = worker[l] /\ queue'[l] = queue[l]
    BY <1>0, <2>1, <2>2 DEF TypeOK
  <2>. QED
    BY <2>3, <2>4 DEF QuietUntilStarted
<1>5. ASSUME NEW n \in Notifiers, NEW w \in Workers, NEW v, Moves(n, w, v),
             phase[n] \notin {"unused", "off"}, UNCHANGED phase,
             \A m \in Notifiers \ {n} : queue'[m] = queue[m]
      PROVE  QuietUntilStarted'
  <2>1. \A m \in Notifiers \ {n} : worker'[m] = worker[m]
    BY <1>0, <1>5 DEF TypeOK, Moves
  <2>. QED
    BY <1>5, <2>1 DEF QuietUntilStarted
<1>6. ASSUME NEW n \in Notifiers, NEW w \in Workers, TakeJob(n, w)
      PROVE  QuietUntilStarted'
  <2>1. /\ phase[n] \notin {"unused", "off"} /\ UNCHANGED phase
        /\ \A m \in Notifiers \ {n} : queue'[m] = queue[m]
    BY <1>0, <1>6 DEF TakeJob, Runs, TypeOK
  <2>2. CASE UNCHANGED worker
    BY <2>1, <2>2 DEF QuietUntilStarted
  <2>3. CASE Moves(n, w, [at |-> "sending", job |-> Head(queue[n]), attempt |-> 1])
    BY <1>5, <2>1, <2>3
  <2>. QED
    BY <1>6, <2>2, <2>3 DEF TakeJob
<1>7. ASSUME NEW n \in Notifiers, NEW w \in Workers,
             Deliver(n, w) \/ Retry(n, w) \/ Wake(n, w) \/ Fail(n, w) \/ Cancelled(n, w)
      PROVE  QuietUntilStarted'
  <2>1. /\ phase[n] \notin {"unused", "off"} /\ UNCHANGED <<phase, queue>>
        /\ \E v : Moves(n, w, v)
    BY <1>7 DEF Deliver, Retry, Wake, Fail, Cancelled, Runs
  <2>. QED
    BY <1>5, <2>1
<1>. QED
  BY <1>1, <1>2, <1>3, <1>4, <1>6, <1>7 DEF Next

\* The variables keep their types.
THEOREM NotifierTypes == Spec => []TypeOK
<1>1. Init => TInv /\ QuietUntilStarted
  BY TInvInit, QuietInit
<1>2. TInv /\ QuietUntilStarted /\ [Next]_vars => (TInv /\ QuietUntilStarted)'
  BY TInvStep, QuietStep
<1>3. TInv => TypeOK
  BY DEF TInv
<1>. QED
  BY <1>1, <1>2, <1>3, PTL DEF Spec

\* The count of jobs in flight is the number of tasks that hold one.
THEOREM InflightCounts == Spec => []InflightIsHeld
<1>1. Init => TInv /\ QuietUntilStarted
  BY TInvInit, QuietInit
<1>2. TInv /\ QuietUntilStarted /\ [Next]_vars => (TInv /\ QuietUntilStarted)'
  BY TInvStep, QuietStep
<1>3. TInv => InflightIsHeld
  BY DEF TInv
<1>. QED
  BY <1>1, <1>2, <1>3, PTL DEF Spec

-----------------------------------------------------------------------------
(***************************************************************************)
(* Every job is accounted for                                               *)
(***************************************************************************)

\* The two sides of the account of one notifier.
Settled(t) == t.delivered + t.failed + t.dropped
Claimed(t) == t.taken + t.recounted

Balanced(n) == Settled(tally[n]) + Pending(n) = Claimed(tally[n])

LEMMA AccountSides ==
    ASSUME NEW t \in Tally
    PROVE  /\ Settled(t) \in Nat /\ Claimed(t) \in Nat
           /\ t.inflight \in Nat /\ t.abandoned \in Nat
BY DEF Tally, Settled, Claimed

LEMMA BalanceKept ==
    ASSUME NEW n \in Notifiers, Balanced(n), UNCHANGED <<phase[n], queue[n], tally[n]>>
    PROVE  Balanced(n)'
BY DEF Balanced, Pending

LEMMA OneBalanceChanges ==
    ASSUME \A m \in Notifiers : Balanced(m), NEW n \in Notifiers, Balanced(n)',
           \A m \in Notifiers \ {n} : UNCHANGED <<phase[m], queue[m], tally[m]>>
    PROVE  \A m \in Notifiers : Balanced(m)'
BY BalanceKept

\* s jobs are settled and c are taken.
LEMMA AccountMoves ==
    ASSUME NEW settled \in Nat, NEW claimed \in Nat, NEW p \in Nat, NEW q \in Nat,
           NEW s \in Nat, NEW c \in Nat,
           settled + p = claimed, q + s = p + c
    PROVE  (settled + s) + q = claimed + c
OBVIOUS

LEMMA RunningBalance ==
    ASSUME NEW n \in Notifiers, Balanced(n), phase[n] = "running", phase'[n] = "running",
           tally[n] \in Tally, NEW t \in Tally, tally'[n] = t,
           NEW k \in Nat, Len(queue[n]) = k, NEW l \in Nat, Len(queue'[n]) = l,
           NEW s \in Nat, NEW c \in Nat,
           Settled(t) = Settled(tally[n]) + s, Claimed(t) = Claimed(tally[n]) + c,
           l + t.inflight + s = k + tally[n].inflight + c
    PROVE  Balanced(n)'
<1>1. tally[n].inflight \in Nat /\ t.inflight \in Nat
  BY AccountSides
<1>1a. Settled(tally[n]) \in Nat /\ Claimed(tally[n]) \in Nat
  BY AccountSides
<1>2. Pending(n) = k + tally[n].inflight /\ Pending(n)' = l + t.inflight
  BY DEF Pending
<1>3. k + tally[n].inflight \in Nat
  BY <1>1
<1>3a. l + t.inflight \in Nat
  BY <1>1
<1>4. Settled(tally[n]) + (k + tally[n].inflight) = Claimed(tally[n])
  BY <1>2 DEF Balanced
<1>5. (Settled(tally[n]) + s) + (l + t.inflight) = Claimed(tally[n]) + c
  <2> DEFINE a == Settled(tally[n])
             b == Claimed(tally[n])
             p == k + tally[n].inflight
             q == l + t.inflight
  <2>1. a \in Nat /\ b \in Nat /\ p \in Nat /\ q \in Nat
    BY <1>1a, <1>3, <1>3a
  <2>2. a + p = b /\ q + s = p + c
    BY <1>4
  <2>. HIDE DEF a, b, p, q
  <2>3. (a + s) + q = b + c
    BY <2>1, <2>2, AccountMoves
  <2>. QED
    BY <2>3 DEF a, b, p, q
<1>6. Settled(t) + Pending(n)' = Claimed(t)
  BY <1>2, <1>5
<1>. QED
  BY <1>6 DEF Balanced

LEMMA AccountedInit == Init => Accounted
BY DEF Init, Accounted, Pending, NewTally

LEMMA EnqueueBalance ==
    ASSUME TInv, NEW n \in Notifiers, Balanced(n), Enqueue(n)
    PROVE  Balanced(n)'
<1>0. TypeOK /\ tally[n] \in Tally /\ queue[n] \in Seq(Job) /\ UNCHANGED phase
  BY DEF TInv, TypeOK, Enqueue
<1>0a. Len(queue[n]) \in Nat
  BY <1>0, LenProperties
<1>1. CASE phase[n] # "running"
  BY <1>0, <1>1, BalanceKept DEF Enqueue
<1>2. CASE phase[n] = "running"
  <2> DEFINE jobs == Jobs(events + 1, Accepted(n))
  <2>1. /\ Accepted(n) \in 0 .. Hooks /\ jobs \in Seq(Job) /\ Len(jobs) = Accepted(n)
    BY <1>0, EnqueuedJobs DEF Enqueue, TInv, QueueBounded
  <2>2. Accepted(n) \in Nat
    BY <2>1, NotifierAssumption
  <2>3. PICK refused \in 0 .. Hooks - Accepted(n) :
           Counts(n, [tally[n] EXCEPT !.dropped = @ + refused,
                                      !.taken = @ + Accepted(n) + refused])
    BY <1>2 DEF Enqueue
  <2>4. queue' = [queue EXCEPT ![n] = @ \o jobs]
    BY <1>2 DEF Enqueue
  <2>. HIDE DEF jobs
  <2>5. Len(queue'[n]) = Len(queue[n]) + Accepted(n)
    <3>1. queue'[n] = queue[n] \o jobs /\ queue[n] \in Seq(Job)
      BY <1>0, <2>4 DEF TypeOK
    <3>2. Len(queue[n] \o jobs) = Len(queue[n]) + Len(jobs)
      BY <2>1, <3>1, ConcatProperties
    <3>. QED
      BY <2>1, <3>1, <3>2
  <2> DEFINE t == [tally[n] EXCEPT !.dropped = @ + refused, !.taken = @ + Accepted(n) + refused]
  <2>6. refused \in Nat
    BY <2>2, NotifierAssumption
  <2>7. t \in Tally
    BY <1>0, <2>2, <2>6, NewCounters
  <2>8. /\ Settled(t) = Settled(tally[n]) + refused
        /\ Claimed(t) = Claimed(tally[n]) + (Accepted(n) + refused)
        /\ t.inflight = tally[n].inflight
    <3>1. /\ t.delivered = tally[n].delivered /\ t.failed = tally[n].failed
          /\ t.dropped = tally[n].dropped + refused
          /\ t.taken = tally[n].taken + Accepted(n) + refused
          /\ t.inflight = tally[n].inflight /\ t.recounted = tally[n].recounted
      BY <1>0 DEF Tally
    <3>2. /\ tally[n].delivered \in Nat /\ tally[n].failed \in Nat
          /\ tally[n].dropped \in Nat /\ tally[n].taken \in Nat /\ tally[n].recounted \in Nat
      BY <1>0 DEF Tally
    <3>. HIDE DEF t
    <3>3. Settled(t) = Settled(tally[n]) + refused
      BY <2>6, <3>1, <3>2 DEF Settled
    <3>4. Claimed(t) = Claimed(tally[n]) + (Accepted(n) + refused)
      BY <2>2, <2>6, <3>1, <3>2 DEF Claimed
    <3>. QED
      BY <3>1, <3>3, <3>4
  <2>9. Counts(n, t)
    BY <2>3
  <2>. HIDE DEF t
  <2>10. tally'[n] = t
    BY <1>0, <2>7, <2>9, TallyChange
  <2>11. /\ Len(queue'[n]) \in Nat
         /\ Len(queue'[n]) + t.inflight + refused
               = Len(queue[n]) + tally[n].inflight + (Accepted(n) + refused)
    <3>1. tally[n].inflight \in Nat
      BY <1>0, AccountSides
    <3>2. Len(queue'[n]) \in Nat
      BY <1>0a, <2>2, <2>5
    <3>. QED
      BY <1>0a, <2>2, <2>5, <2>6, <2>8, <3>1, <3>2
  <2>12. Accepted(n) + refused \in Nat
    BY <2>2, <2>6
  <2>. QED
    BY <1>0, <1>0a, <1>2, <2>6, <2>7, <2>8, <2>10, <2>11, <2>12, RunningBalance
<1>. QED
  BY <1>1, <1>2

\* The job leaves the queue and is in flight: a running notifier has its client.
LEMMA TakeJobBalance ==
    ASSUME TInv, HeldJobHasClient, NEW n \in Notifiers, NEW w \in Workers, Balanced(n),
           TakeJob(n, w)
    PROVE  Balanced(n)'
<1> DEFINE t == [tally[n] EXCEPT !.inflight = @ + 1]
<1>0. /\ TypeOK /\ tally[n] \in Tally /\ UNCHANGED phase /\ phase[n] = "running"
      /\ queue[n] \in Seq(Job) /\ queue[n] # <<>>
      /\ queue' = [queue EXCEPT ![n] = Tail(@)]
  BY DEF TInv, TypeOK, TakeJob, Runs
<1>1. client[n]
  BY <1>0 DEF HeldJobHasClient
<1>2. Counts(n, t)
  BY <1>1 DEF TakeJob
<1>3. /\ t \in Tally /\ t.inflight = tally[n].inflight + 1
      /\ Settled(t) = Settled(tally[n]) + 0 /\ Claimed(t) = Claimed(tally[n]) + 0
  <2>1. t \in Tally
    BY <1>0, NewCounters
  <2>2. t.inflight = tally[n].inflight + 1
    BY <1>0 DEF Tally
  <2>3. Settled(t) = Settled(tally[n]) /\ Claimed(t) = Claimed(tally[n])
    BY <1>0 DEF Tally, Settled, Claimed
  <2>4. Settled(tally[n]) \in Nat /\ Claimed(tally[n]) \in Nat
    BY <1>0, AccountSides
  <2>. QED
    BY <2>1, <2>2, <2>3, <2>4
<1>. HIDE DEF t
<1>4. tally'[n] = t
  BY <1>0, <1>2, <1>3, TallyChange
<1>5. /\ Len(queue[n]) \in Nat /\ Len(queue'[n]) \in Nat
      /\ Len(queue'[n]) = Len(queue[n]) - 1
  <2>1. queue'[n] = Tail(queue[n])
    BY <1>0 DEF TypeOK
  <2>2. Tail(queue[n]) \in Seq(Job) /\ Len(Tail(queue[n])) = Len(queue[n]) - 1
    BY <1>0, HeadTailProperties
  <2>3. Len(queue[n]) \in Nat /\ Len(Tail(queue[n])) \in Nat
    BY <1>0, <2>2, LenProperties
  <2>. QED
    BY <2>1, <2>2, <2>3
<1>6. Len(queue'[n]) + t.inflight + 0 = Len(queue[n]) + tally[n].inflight + 0
  BY <1>0, <1>3, <1>5, AccountSides
<1>. QED
  BY <1>0, <1>3, <1>4, <1>5, <1>6, RunningBalance

\* A job is over: its counter takes over from the count of jobs in flight.
LEMMA SettledBalance ==
    ASSUME TInv, NEW n \in Notifiers, NEW w \in Workers, Balanced(n),
           Deliver(n, w) \/ Fail(n, w)
    PROVE  Balanced(n)'
<1>0. /\ TypeOK /\ tally[n] \in Tally /\ UNCHANGED <<phase, queue>> /\ phase[n] = "running"
      /\ Len(queue[n]) \in Nat
  BY LenProperties DEF TInv, TypeOK, Deliver, Fail, Runs
<1>2. tally[n].inflight - 1 \in Nat
  <2>1. w \in HoldsJob(n) /\ InflightIsHeld
    BY DEF HoldsJob, Deliver, Fail, Runs, TInv
  <2>. QED
    BY <2>1, HolderIsCounted
<1>3. CASE Deliver(n, w)
  <2>1. PICK again \in {0, 1} :
           Counts(n, [tally[n] EXCEPT !.delivered = @ + 1, !.inflight = @ - 1,
                                      !.failed = @ + again, !.recounted = @ + again])
    BY <1>3 DEF Deliver
  <2> DEFINE t == [tally[n] EXCEPT !.delivered = @ + 1, !.inflight = @ - 1,
                                   !.failed = @ + again, !.recounted = @ + again]
  <2>2. again \in Nat
    OBVIOUS
  <2>3. t \in Tally
    BY <1>0, <1>2, <2>2, NewCounters
  <2>4. /\ Settled(t) = Settled(tally[n]) + (1 + again)
        /\ Claimed(t) = Claimed(tally[n]) + again
        /\ t.inflight = tally[n].inflight - 1
    BY <1>0, <2>2 DEF Tally, Settled, Claimed
  <2>5. Counts(n, t)
    BY <2>1
  <2>. HIDE DEF t
  <2>6. tally'[n] = t
    BY <1>0, <2>3, <2>5, TallyChange
  <2>7. Len(queue[n]) + t.inflight + (1 + again) = Len(queue[n]) + tally[n].inflight + again
    <3>1. tally[n].inflight \in Nat
      BY <1>0, AccountSides
    <3>2. \A k \in Nat, i \in Nat, a \in Nat : k + (i - 1) + (1 + a) = k + i + a
      OBVIOUS
    <3>3. Len(queue[n]) + (tally[n].inflight - 1) + (1 + again)
          = Len(queue[n]) + tally[n].inflight + again
      BY <1>0, <2>2, <3>1, <3>2, Zenon
    <3>. QED
      BY <2>4, <3>3
  <2>8. 1 + again \in Nat
    BY <2>2
  <2>. QED
    BY <1>0, <2>2, <2>3, <2>4, <2>6, <2>7, <2>8, RunningBalance
<1>4. CASE Fail(n, w)
  <2>1. PICK again \in {0, 1} :
           Counts(n, [tally[n] EXCEPT !.failed = @ + 1 + again, !.inflight = @ - 1,
                                      !.recounted = @ + again])
    BY <1>4 DEF Fail
  <2> DEFINE t == [tally[n] EXCEPT !.failed = @ + 1 + again, !.inflight = @ - 1,
                                   !.recounted = @ + again]
  <2>2. again \in Nat
    OBVIOUS
  <2>3. t \in Tally
    BY <1>0, <1>2, <2>2, NewCounters
  <2>4. /\ Settled(t) = Settled(tally[n]) + (1 + again)
        /\ Claimed(t) = Claimed(tally[n]) + again
        /\ t.inflight = tally[n].inflight - 1
    <3>1. /\ t.delivered = tally[n].delivered /\ t.failed = tally[n].failed + 1 + again
          /\ t.dropped = tally[n].dropped /\ t.taken = tally[n].taken
          /\ t.inflight = tally[n].inflight - 1 /\ t.recounted = tally[n].recounted + again
      BY <1>0 DEF Tally
    <3>2. /\ tally[n].delivered \in Nat /\ tally[n].failed \in Nat
          /\ tally[n].dropped \in Nat /\ tally[n].taken \in Nat /\ tally[n].recounted \in Nat
      BY <1>0 DEF Tally
    <3>. HIDE DEF t
    <3>3. Settled(t) = Settled(tally[n]) + (1 + again)
      BY <2>2, <3>1, <3>2 DEF Settled
    <3>4. Claimed(t) = Claimed(tally[n]) + again
      BY <2>2, <3>1, <3>2 DEF Claimed
    <3>. QED
      BY <3>1, <3>3, <3>4
  <2>5. Counts(n, t)
    BY <2>1
  <2>. HIDE DEF t
  <2>6. tally'[n] = t
    BY <1>0, <2>3, <2>5, TallyChange
  <2>7. Len(queue[n]) + t.inflight + (1 + again) = Len(queue[n]) + tally[n].inflight + again
    <3>1. tally[n].inflight \in Nat
      BY <1>0, AccountSides
    <3>2. \A k \in Nat, i \in Nat, a \in Nat : k + (i - 1) + (1 + a) = k + i + a
      OBVIOUS
    <3>3. Len(queue[n]) + (tally[n].inflight - 1) + (1 + again)
          = Len(queue[n]) + tally[n].inflight + again
      BY <1>0, <2>2, <3>1, <3>2, Zenon
    <3>. QED
      BY <2>4, <3>3
  <2>8. 1 + again \in Nat
    BY <2>2
  <2>. QED
    BY <1>0, <2>2, <2>3, <2>4, <2>6, <2>7, <2>8, RunningBalance
<1>. QED
  BY <1>3, <1>4

\* stop() begins: what it remembers as abandoned is what was pending.
LEMMA RetiredBalance ==
    ASSUME TInv, QuietUntilStarted, NEW n \in Notifiers, Balanced(n),
           phase[n] \in {"off", "running"}, phase'[n] = "stopping", UNCHANGED queue,
           Counts(n, [tally[n] EXCEPT !.abandoned = Abandoned(n)])
    PROVE  Balanced(n)'
<1> DEFINE t == [tally[n] EXCEPT !.abandoned = Abandoned(n)]
<1>0. TypeOK /\ tally[n] \in Tally /\ Len(queue[n]) \in Nat
  BY DEF TInv, TypeOK
<1>1. Abandoned(n) \in Nat /\ Abandoned(n) = Len(queue[n]) + tally[n].inflight
  BY <1>0 DEF Abandoned, Tally
<1>2. t \in Tally /\ t.abandoned = Abandoned(n)
      /\ Settled(t) = Settled(tally[n]) /\ Claimed(t) = Claimed(tally[n])
  BY <1>0, <1>1, NewCounters DEF Tally, Settled, Claimed
<1>. HIDE DEF t
<1>3. tally'[n] = t
  BY <1>0, <1>2, TallyChange DEF t
<1>4. Pending(n) = Abandoned(n)
  <2>1. CASE phase[n] = "running"
    BY <1>1, <2>1 DEF Pending
  <2>2. CASE phase[n] = "off"
    <3>1. queue[n] = <<>> /\ HoldsJob(n) = {}
      BY <2>2 DEF QuietUntilStarted, HoldsJob, Ended
    <3>2. tally[n].inflight = 0
      BY <3>1, FS_EmptySet DEF TInv, InflightIsHeld
    <3>3. Len(queue[n]) = 0
      BY <3>1
    <3>4. Abandoned(n) = 0
      BY <1>1, <3>2, <3>3
    <3>. QED
      BY <2>2, <3>4 DEF Pending
  <2>. QED
    BY <2>1, <2>2
<1>5. Pending(n)' = t.abandoned
  BY <1>3 DEF Pending
<1>. QED
  BY <1>2, <1>3, <1>4, <1>5 DEF Balanced

\* The replacement starts with nothing pending.
LEMMA StartedBalance ==
    ASSUME TInv, QuietUntilStarted, NEW m \in Notifiers, Balanced(m),
           phase[m] = "unused", phase'[m] \in {"running", "off"},
           UNCHANGED <<queue, tally[m]>>
    PROVE  Balanced(m)'
<1>1. queue[m] = <<>> /\ HoldsJob(m) = {}
  BY DEF QuietUntilStarted, HoldsJob, Ended
<1>2. tally[m].inflight = 0
  BY <1>1, FS_EmptySet DEF TInv, InflightIsHeld
<1>3. Pending(m) = 0
  BY DEF Pending
<1>4. Len(queue[m]) = 0
  BY <1>1
<1>5. Pending(m)' = 0
  BY <1>2, <1>4 DEF Pending
<1>. QED
  BY <1>3, <1>5 DEF Balanced

\* stop() ends: the abandoned jobs are dropped.
LEMMA StopEndsBalance ==
    ASSUME TInv, NEW n \in Notifiers, Balanced(n), StopEnds(n)
    PROVE  Balanced(n)'
<1> DEFINE t == [tally[n] EXCEPT !.dropped = @ + tally[n].abandoned]
<1>0. TypeOK /\ tally[n] \in Tally /\ phase[n] = "stopping" /\ phase'[n] = "stopped"
  BY DEF TInv, TypeOK, StopEnds
<1>1. /\ t \in Tally /\ Settled(t) = Settled(tally[n]) + tally[n].abandoned
      /\ Claimed(t) = Claimed(tally[n])
  <2>1. t \in Tally
    BY <1>0, NewCounters
  <2>2. /\ tally[n].delivered \in Nat /\ tally[n].failed \in Nat /\ tally[n].dropped \in Nat
        /\ tally[n].abandoned \in Nat
    BY <1>0 DEF Tally
  <2>3. /\ t.delivered = tally[n].delivered /\ t.failed = tally[n].failed
        /\ t.dropped = tally[n].dropped + tally[n].abandoned
        /\ t.taken = tally[n].taken /\ t.recounted = tally[n].recounted
    BY <1>0 DEF Tally
  <2>. HIDE DEF t
  <2>4. Settled(t) = Settled(tally[n]) + tally[n].abandoned
    BY <2>2, <2>3 DEF Settled
  <2>. QED
    BY <2>1, <2>3, <2>4 DEF Claimed
<1>2. Counts(n, t)
  BY DEF StopEnds
<1>. HIDE DEF t
<1>3. tally'[n] = t
  BY <1>0, <1>1, <1>2, TallyChange
<1>4. Pending(n) = tally[n].abandoned /\ Pending(n)' = 0
  BY <1>0 DEF Pending
<1>5. Settled(tally[n]) \in Nat /\ tally[n].abandoned \in Nat
  BY <1>0, AccountSides
<1>. QED
  BY <1>1, <1>3, <1>4, <1>5 DEF Balanced

\* The abandoned jobs stay pending while the tasks end.
LEMMA CancelledBalance ==
    ASSUME TInv, NEW n \in Notifiers, NEW w \in Workers, Balanced(n), Cancelled(n, w)
    PROVE  Balanced(n)'
<1>0. TypeOK /\ tally[n] \in Tally /\ phase[n] = "stopping" /\ UNCHANGED phase
  BY DEF TInv, TypeOK, Cancelled
<1>1. CASE worker[n][w].at \notin {"sending", "sleeping"}
  BY <1>1, BalanceKept DEF Cancelled
<1>2. CASE worker[n][w].at \in {"sending", "sleeping"}
  <2> DEFINE t == [tally[n] EXCEPT !.inflight = @ - 1]
  <2>1. w \in HoldsJob(n) /\ InflightIsHeld
    BY <1>2 DEF HoldsJob, TInv
  <2>2. tally[n].inflight - 1 \in Nat
    BY <2>1, HolderIsCounted
  <2>3. /\ t \in Tally /\ t.abandoned = tally[n].abandoned
        /\ Settled(t) = Settled(tally[n]) /\ Claimed(t) = Claimed(tally[n])
    BY <1>0, <2>2, NewCounters DEF Tally, Settled, Claimed
  <2>4. Counts(n, t)
    BY <1>2 DEF Cancelled
  <2>. HIDE DEF t
  <2>5. tally'[n] = t
    BY <1>0, <2>3, <2>4, TallyChange
  <2>6. Pending(n) = tally[n].abandoned /\ Pending(n)' = t.abandoned
    BY <1>0, <2>5 DEF Pending
  <2>. QED
    BY <2>3, <2>5, <2>6 DEF Balanced
<1>. QED
  BY <1>1, <1>2

LEMMA AccountedStep ==
    TInv /\ QuietUntilStarted /\ HeldJobHasClient /\ Accounted /\ [Next]_vars => Accounted'
<1> SUFFICES ASSUME TInv, QuietUntilStarted, HeldJobHasClient, Accounted, [Next]_vars
             PROVE  \A n \in Notifiers : Balanced(n)'
  BY DEF Accounted, Balanced, Settled, Claimed
<1>0. TypeOK /\ \A n \in Notifiers : Balanced(n)
  BY DEF TInv, Accounted, Balanced, Settled, Claimed
<1>1. CASE UNCHANGED vars
  BY <1>0, <1>1, BalanceKept DEF vars
<1>2. ASSUME NEW n \in Notifiers, Enqueue(n)
      PROVE  \A m \in Notifiers : Balanced(m)'
  <2>1. \A m \in Notifiers \ {n} : UNCHANGED <<phase[m], queue[m], tally[m]>>
    BY <1>0, <1>2 DEF Enqueue, Counts, TypeOK
  <2>. QED
    BY <1>0, <1>2, <2>1, EnqueueBalance, OneBalanceChanges
<1>3. ASSUME NEW n \in Notifiers, NEW w \in Workers, TakeJob(n, w)
      PROVE  \A m \in Notifiers : Balanced(m)'
  <2>1. \A m \in Notifiers \ {n} : UNCHANGED <<phase[m], queue[m], tally[m]>>
    BY <1>0, <1>3 DEF TakeJob, Counts, TypeOK
  <2>. QED
    BY <1>0, <1>3, <2>1, TakeJobBalance, OneBalanceChanges
<1>4. ASSUME NEW n \in Notifiers, NEW w \in Workers, Deliver(n, w) \/ Fail(n, w)
      PROVE  \A m \in Notifiers : Balanced(m)'
  <2>1. \A m \in Notifiers \ {n} : UNCHANGED <<phase[m], queue[m], tally[m]>>
    BY <1>0, <1>4 DEF Deliver, Fail, Counts, TypeOK
  <2>. QED
    BY <1>0, <1>4, <2>1, SettledBalance, OneBalanceChanges
<1>5. ASSUME NEW n \in Notifiers, NEW w \in Workers, Retry(n, w) \/ Wake(n, w)
      PROVE  \A m \in Notifiers : Balanced(m)'
  <2>1. UNCHANGED <<phase, queue, tally>>
    BY <1>5 DEF Retry, Wake
  <2>. QED
    BY <1>0, <2>1, BalanceKept
<1>6. ASSUME NEW n \in Notifiers, NEW w \in Workers, Cancelled(n, w)
      PROVE  \A m \in Notifiers : Balanced(m)'
  <2>1. \A m \in Notifiers \ {n} : UNCHANGED <<phase[m], queue[m], tally[m]>>
    BY <1>0, <1>6 DEF Cancelled, Counts, TypeOK
  <2>. QED
    BY <1>0, <1>6, <2>1, CancelledBalance, OneBalanceChanges
<1>7. ASSUME NEW n \in Notifiers, StopEnds(n)
      PROVE  \A m \in Notifiers : Balanced(m)'
  <2>1. \A m \in Notifiers \ {n} : UNCHANGED <<phase[m], queue[m], tally[m]>>
    BY <1>0, <1>7 DEF StopEnds, Counts, TypeOK
  <2>. QED
    BY <1>0, <1>7, <2>1, StopEndsBalance, OneBalanceChanges
<1>8. ASSUME NEW n \in Notifiers, Shutdown(n)
      PROVE  \A m \in Notifiers : Balanced(m)'
  <2>1. /\ \A m \in Notifiers \ {n} : UNCHANGED <<phase[m], queue[m], tally[m]>>
        /\ phase[n] \in {"off", "running"} /\ phase'[n] = "stopping" /\ UNCHANGED queue
        /\ Counts(n, [tally[n] EXCEPT !.abandoned = Abandoned(n)])
    BY <1>0, <1>8 DEF Shutdown, Counts, TypeOK
  <2>. QED
    BY <1>0, <2>1, RetiredBalance, OneBalanceChanges
<1>9. ASSUME NEW n \in Notifiers, NEW k \in Notifiers, Reload(n, k)
      PROVE  \A m \in Notifiers : Balanced(m)'
  <2>1. /\ phase[n] \in {"off", "running"} /\ phase[k] = "unused" /\ UNCHANGED queue
        /\ Counts(n, [tally[n] EXCEPT !.abandoned = Abandoned(n)])
    BY <1>9 DEF Reload
  <2>2. PICK enabled \in BOOLEAN :
           phase' = [phase EXCEPT ![n] = "stopping", ![k] = IF enabled THEN "running" ELSE "off"]
    BY <1>9 DEF Reload
  <2>3. phase'[n] = "stopping" /\ phase'[k] \in {"running", "off"}
    BY <1>0, <2>1, <2>2 DEF TypeOK
  <2>4. \A m \in Notifiers \ {n} : UNCHANGED <<queue[m], tally[m]>>
    BY <1>0, <2>1 DEF Counts, TypeOK
  <2>5. \A m \in Notifiers \ {n, k} : phase'[m] = phase[m]
    BY <1>0, <2>2 DEF TypeOK
  <2>6. Balanced(n)'
    BY <1>0, <2>1, <2>3, RetiredBalance
  <2>7. Balanced(k)'
    BY <1>0, <2>1, <2>3, <2>4, StartedBalance
  <2>8. \A m \in Notifiers \ {n, k} : Balanced(m)'
    BY <1>0, <2>4, <2>5, BalanceKept
  <2>. QED
    BY <2>6, <2>7, <2>8
<1>. QED
  BY <1>1, <1>2, <1>3, <1>4, <1>5, <1>6, <1>7, <1>8, <1>9 DEF Next

-----------------------------------------------------------------------------
(***************************************************************************)
(* The client outlives the tasks                                            *)
(***************************************************************************)

LEMMA ClientInit == Init => HeldJobHasClient
<1> SUFFICES ASSUME Init, NEW n \in Notifiers, phase[n] = "running" \/ HoldsJob(n) # {}
             PROVE  client[n]
  BY DEF HeldJobHasClient
<1> USE NotifierAssumption
<1>1. PICK enabled \in BOOLEAN :
         /\ phase  = [n_1 \in Notifiers |->
                        IF n_1 # current THEN "unused" ELSE IF enabled THEN "running" ELSE "off"]
         /\ client = [n_1 \in Notifiers |-> n_1 = current /\ enabled]
         /\ worker = [n_1 \in Notifiers |-> Tasks(n_1 = current /\ enabled)]
  BY DEF Init
<1>2. \A w \in Workers : worker[n][w] \in {Idle, Ended}
  BY <1>1 DEF Tasks
<1>3. HoldsJob(n) = {}
  BY <1>2 DEF HoldsJob, Idle, Ended
<1>. QED
  BY <1>1, <1>3

\* A notifier neither starts nor gets a holder nor loses its client.
LEMMA ClientKept ==
    ASSUME HeldJobHasClient, NEW n \in Notifiers, phase'[n] = "running" => phase[n] = "running",
           HoldsJob(n)' \subseteq HoldsJob(n) \/ phase[n] = "running", client'[n] = client[n]
    PROVE  phase'[n] = "running" \/ HoldsJob(n)' # {} => client'[n]
<1>1. phase[n] = "running" \/ HoldsJob(n) # {} => client[n]
  BY DEF HeldJobHasClient
<1>. QED
  BY <1>1

LEMMA ClientStep ==
    TInv /\ QuietUntilStarted /\ HeldJobHasClient /\ [Next]_vars => HeldJobHasClient'
<1> SUFFICES ASSUME TInv, QuietUntilStarted, HeldJobHasClient, [Next]_vars,
                    NEW l \in Notifiers
             PROVE  phase'[l] = "running" \/ HoldsJob(l)' # {} => client'[l]
  BY DEF HeldJobHasClient
<1>0. TypeOK /\ SleepsBeforeLast
  BY DEF TInv
<1>1. CASE UNCHANGED <<phase, client, worker>>
  BY <1>1, HoldersKept, ClientKept
<1>2. ASSUME NEW n \in Notifiers, NEW w \in Workers, NEW v, Moves(n, w, v),
             v.at \in {"sending", "sleeping"} => worker[n][w].at \in {"sending", "sleeping"}
                                                 \/ phase[n] = "running",
             UNCHANGED <<phase, client>>
      PROVE  phase'[l] = "running" \/ HoldsJob(l)' # {} => client'[l]
  <2>1. CASE l # n
    <3>1. worker'[l] = worker[l]
      BY <1>0, <1>2, <2>1 DEF TypeOK, Moves
    <3>. QED
      BY <1>2, <3>1, HoldersKept, ClientKept
  <2>2. CASE l = n
    <3>1. \A x \in Workers : worker'[n][x] = IF x = w THEN v ELSE worker[n][x]
      BY <1>0, <1>2 DEF TypeOK, Moves
    <3>2. HoldsJob(n)' \subseteq HoldsJob(n) \/ phase[n] = "running"
      BY <1>2, <3>1 DEF HoldsJob
    <3>. QED
      BY <1>2, <2>2, <3>2, ClientKept
  <2>. QED
    BY <2>1, <2>2
<1>3. ASSUME NEW n \in Notifiers, NEW w \in Workers, TakeJob(n, w)
      PROVE  phase'[l] = "running" \/ HoldsJob(l)' # {} => client'[l]
  <2>1. phase[n] = "running" /\ UNCHANGED <<phase, client>>
    BY <1>3 DEF TakeJob, Runs
  <2>2. CASE UNCHANGED worker
    BY <1>1, <2>1, <2>2
  <2>3. CASE Moves(n, w, [at |-> "sending", job |-> Head(queue[n]), attempt |-> 1])
    BY <1>2, <2>1, <2>3
  <2>. QED
    BY <1>3, <2>2, <2>3 DEF TakeJob
<1>4. ASSUME NEW n \in Notifiers, NEW w \in Workers,
             Deliver(n, w) \/ Retry(n, w) \/ Wake(n, w) \/ Fail(n, w)
      PROVE  phase'[l] = "running" \/ HoldsJob(l)' # {} => client'[l]
  <2>1. phase[n] = "running" /\ UNCHANGED <<phase, client>> /\ \E v : Moves(n, w, v)
    BY <1>4 DEF Deliver, Retry, Wake, Fail, Runs
  <2>. QED
    BY <1>2, <2>1
<1>5. ASSUME NEW n \in Notifiers, NEW w \in Workers, Cancelled(n, w)
      PROVE  phase'[l] = "running" \/ HoldsJob(l)' # {} => client'[l]
  <2>1. Moves(n, w, Ended) /\ UNCHANGED <<phase, client>>
    BY <1>5 DEF Cancelled
  <2>2. Ended.at \notin {"sending", "sleeping"}
    BY DEF Ended
  <2>. QED
    BY <1>2, <2>1, <2>2
<1>6. ASSUME NEW n \in Notifiers, StopEnds(n)
      PROVE  phase'[l] = "running" \/ HoldsJob(l)' # {} => client'[l]
  <2>1. /\ phase' = [phase EXCEPT ![n] = "stopped"] /\ UNCHANGED worker
        /\ client' = [client EXCEPT ![n] = FALSE] \/ UNCHANGED client
    BY <1>6 DEF StopEnds
  <2>2. CASE l # n
    <3>1. phase'[l] = phase[l] /\ client'[l] = client[l] /\ worker'[l] = worker[l]
      BY <1>0, <2>1, <2>2 DEF TypeOK
    <3>. QED
      BY <3>1, HoldersKept, ClientKept
  <2>3. CASE l = n
    <3>1. HoldsJob(n)' = {}
      BY <1>6, <2>1 DEF StopEnds, HoldsJob
    <3>2. phase'[n] = "stopped"
      BY <1>0, <2>1 DEF TypeOK
    <3>. QED
      BY <2>3, <3>1, <3>2
  <2>. QED
    BY <2>2, <2>3
<1>7. ASSUME NEW n \in Notifiers, Shutdown(n)
      PROVE  phase'[l] = "running" \/ HoldsJob(l)' # {} => client'[l]
  <2>1. UNCHANGED <<client, worker>> /\ phase' = [phase EXCEPT ![n] = "stopping"]
    BY <1>7 DEF Shutdown
  <2>2. phase'[l] = "running" => phase[l] = "running"
    BY <1>0, <2>1 DEF TypeOK
  <2>. QED
    BY <2>1, <2>2, HoldersKept, ClientKept
<1>8. ASSUME NEW n \in Notifiers, NEW k \in Notifiers, Reload(n, k)
      PROVE  phase'[l] = "running" \/ HoldsJob(l)' # {} => client'[l]
  <2>1. PICK enabled \in BOOLEAN :
          /\ phase'  = [phase EXCEPT ![n] = "stopping", ![k] = IF enabled THEN "running" ELSE "off"]
          /\ client' = [client EXCEPT ![k] = enabled]
          /\ worker' = [worker EXCEPT ![k] = Tasks(enabled)]
    BY <1>8 DEF Reload
  <2>2. CASE l # k
    <3>1. /\ client'[l] = client[l] /\ worker'[l] = worker[l]
          /\ phase'[l] = "running" => phase[l] = "running"
      BY <1>0, <2>1, <2>2 DEF TypeOK
    <3>. QED
      BY <3>1, HoldersKept, ClientKept
  <2>3. CASE l = k
    <3>1. n # k
      BY <1>8 DEF Reload
    <3>2. worker'[k] = Tasks(enabled) /\ phase'[k] = (IF enabled THEN "running" ELSE "off")
      BY <1>0, <2>1 DEF TypeOK
    <3>3. client'[k] = enabled
      BY <1>0, <2>1, Zenon DEF TypeOK
    <3>4. \A w \in Workers : worker'[k][w] \in {Idle, Ended}
      BY <3>2 DEF Tasks
    <3>5. HoldsJob(k)' = {}
      BY <3>4 DEF HoldsJob, Idle, Ended
    <3>. QED
      BY <2>3, <3>2, <3>3, <3>5
  <2>. QED
    BY <2>2, <2>3
<1>9. CASE \E n \in Notifiers : Enqueue(n)
  BY <1>1, <1>9 DEF Enqueue
<1>10. CASE UNCHANGED vars
  BY <1>1, <1>10 DEF vars
<1>. QED
  BY <1>3, <1>4, <1>5, <1>6, <1>7, <1>8, <1>9, <1>10 DEF Next

\* The inductive invariant: the accounts need the client, and both need the
\* types and the notifiers that were not started.
NotifierInv == TInv /\ QuietUntilStarted /\ HeldJobHasClient /\ Accounted

LEMMA NotifierInvHolds == Spec => []NotifierInv
<1>1. Init => NotifierInv
  BY TInvInit, QuietInit, ClientInit, AccountedInit DEF NotifierInv
<1>2. NotifierInv /\ [Next]_vars => NotifierInv'
  BY TInvStep, QuietStep, ClientStep, AccountedStep DEF NotifierInv
<1>. QED
  BY <1>1, <1>2, PTL DEF Spec

\* No job of the queue is lost from the counters, nor counted twice.
THEOREM EveryJobAccounted == Spec => []Accounted
<1>1. NotifierInv => Accounted
  BY DEF NotifierInv
<1>. QED
  BY <1>1, NotifierInvHolds, PTL

\* The HTTP client outlives the tasks that hold a job.
THEOREM HeldJobs == Spec => []HeldJobHasClient
<1>1. NotifierInv => HeldJobHasClient
  BY DEF NotifierInv
<1>. QED
  BY <1>1, NotifierInvHolds, PTL
-----------------------------------------------------------------------------
(***************************************************************************)
(* The order of the jobs                                                    *)
(***************************************************************************)

\* The jobs of a notifier stand in the order of their events, those that a task
\* holds first, and no event is later than the last one.
Ordered(n) ==
    /\ \A i, j \in 1 .. Len(queue[n]) : i < j => queue[n][i].event <= queue[n][j].event
    /\ \A w \in HoldsJob(n), i \in 1 .. Len(queue[n]) :
          worker[n][w].job.event <= queue[n][i].event
    /\ \A i \in 1 .. Len(queue[n]) : queue[n][i].event <= events
    /\ \A w \in HoldsJob(n) : worker[n][w].job.event <= events

OrderInv == \A n \in Notifiers : Ordered(n)

\* The events of jobs are numbers.
LEMMA JobEvents ==
    ASSUME TypeOK, NEW n \in Notifiers
    PROVE  /\ events \in Nat /\ queue[n] \in Seq(Job) /\ Len(queue[n]) \in Nat
           /\ \A i \in 1 .. Len(queue[n]) : queue[n][i] \in Job /\ queue[n][i].event \in Nat
           /\ \A w \in HoldsJob(n) : worker[n][w] \in Busy /\ worker[n][w].job.event \in Nat
<1>1. queue[n] \in Seq(Job) /\ events \in Nat
  BY NotifierAssumption DEF TypeOK
<1>2. Len(queue[n]) \in Nat /\ \A i \in 1 .. Len(queue[n]) : queue[n][i] \in Job
  BY <1>1
<1>3. \A w \in HoldsJob(n) : worker[n][w] \in Busy
  BY TaskPoints DEF HoldsJob
<1>. QED
  BY <1>1, <1>2, <1>3 DEF Job, Busy

\* Events pass, and tasks let go of jobs.
LEMMA OrderKept ==
    ASSUME TypeOK, NEW n \in Notifiers, Ordered(n), queue'[n] = queue[n],
           events' = events \/ events' = events + 1,
           HoldsJob(n)' \subseteq HoldsJob(n),
           \A w \in HoldsJob(n)' : worker'[n][w].job = worker[n][w].job
    PROVE  Ordered(n)'
<1>1. /\ \A i, j \in 1 .. Len(queue'[n]) : i < j => queue'[n][i].event <= queue'[n][j].event
      /\ \A w \in HoldsJob(n)', i \in 1 .. Len(queue'[n]) :
            worker'[n][w].job.event <= queue'[n][i].event
  BY DEF Ordered
<1>2. events \in Nat /\ events <= events'
  BY JobEvents
<1>3. ASSUME NEW i \in 1 .. Len(queue'[n]) PROVE queue'[n][i].event <= events'
  <2>1. queue[n][i].event \in Nat /\ queue[n][i].event <= events
    BY JobEvents DEF Ordered
  <2>. QED
    BY <1>2, <2>1
<1>4. ASSUME NEW w \in HoldsJob(n)' PROVE worker'[n][w].job.event <= events'
  <2>1. worker[n][w].job.event \in Nat /\ worker[n][w].job.event <= events
    BY JobEvents DEF Ordered
  <2>. QED
    BY <1>2, <2>1
<1>. QED
  BY <1>1, <1>3, <1>4 DEF Ordered

LEMMA OrderInit == Init => OrderInv
<1> SUFFICES ASSUME Init, NEW n \in Notifiers PROVE Ordered(n)
  BY DEF OrderInv
<1>1. queue[n] = <<>>
  BY DEF Init
<1>2. \A w \in Workers : worker[n][w] \in {Idle, Ended}
  BY DEF Init, Tasks
<1>3. HoldsJob(n) = {}
  BY <1>2 DEF HoldsJob, Idle, Ended
<1>. QED
  BY <1>1, <1>3 DEF Ordered

\* The jobs of a new event go to the end of the queue.
LEMMA EnqueueOrder ==
    ASSUME TInv, NEW n \in Notifiers, Ordered(n), Enqueue(n)
    PROVE  Ordered(n)'
<1> DEFINE new == Jobs(events + 1, Accepted(n))
<1>0. /\ TypeOK /\ QueueBounded /\ events' = events + 1 /\ worker' = worker
      /\ HoldsJob(n)' = HoldsJob(n) /\ events < MaxEvents
  BY HoldersKept DEF TInv, Enqueue
<1>1. CASE phase[n] # "running"
  BY <1>0, <1>1, OrderKept DEF Enqueue
<1>2. CASE phase[n] = "running"
  <2>1. queue'[n] = queue[n] \o new
    BY <1>0, <1>2 DEF Enqueue, TypeOK
  <2>2. /\ Accepted(n) \in Nat /\ new \in Seq(Job) /\ Len(new) = Accepted(n)
        /\ \A h \in 1 .. Accepted(n) : new[h].event = events + 1
    BY <1>0, EnqueuedJobs, NotifierAssumption DEF QueueBounded, Jobs
  <2>. HIDE DEF new
  <2>3. queue[n] \in Seq(Job) /\ Len(queue[n]) \in Nat
    BY <1>0, JobEvents
  <2>4. \A i \in 1 .. Len(queue'[n]) :
           \/ i \in 1 .. Len(queue[n]) /\ queue'[n][i] = queue[n][i]
           \/ i > Len(queue[n]) /\ queue'[n][i].event = events + 1
    <3> TAKE i \in 1 .. Len(queue'[n])
    <3>1. Len(queue'[n]) = Len(queue[n]) + Accepted(n)
      BY <2>1, <2>2, <2>3
    <3>2. i \in 1 .. Len(queue[n]) + Accepted(n)
      BY <3>1
    <3>3. queue'[n][i] = IF i <= Len(queue[n]) THEN queue[n][i] ELSE new[i - Len(queue[n])]
      BY <2>1, <2>2, <2>3, <3>2
    <3>4. i > Len(queue[n]) => i - Len(queue[n]) \in 1 .. Accepted(n)
      BY <2>2, <2>3, <3>2
    <3>. QED
      BY <2>2, <2>3, <3>2, <3>3, <3>4
  <2>5. \A i, j \in 1 .. Len(queue'[n]) : i < j => queue'[n][i].event <= queue'[n][j].event
    <3> TAKE i, j \in 1 .. Len(queue'[n])
    <3>1. events \in Nat /\ \A k \in 1 .. Len(queue[n]) : queue[n][k].event \in Nat
      BY <1>0, JobEvents
    <3>2. CASE i > Len(queue[n]) /\ j > Len(queue[n])
      BY <2>3, <2>4, <3>1, <3>2
    <3>3. CASE i \in 1 .. Len(queue[n]) /\ j > Len(queue[n])
      <4>1. queue'[n][i] = queue[n][i] /\ queue'[n][j].event = events + 1
        BY <2>3, <2>4, <3>3
      <4>. QED
        BY <3>1, <3>3, <4>1 DEF Ordered
    <3>4. CASE i \in 1 .. Len(queue[n]) /\ j \in 1 .. Len(queue[n])
      <4>1. queue'[n][i] = queue[n][i] /\ queue'[n][j] = queue[n][j]
        BY <2>3, <2>4, <3>4
      <4>. QED
        BY <3>4, <4>1 DEF Ordered
    <3>5. CASE i > Len(queue[n]) /\ j \in 1 .. Len(queue[n])
      BY <2>3, <3>5
    <3>. QED
      BY <2>4, <3>2, <3>3, <3>4, <3>5
  <2>6. \A w \in HoldsJob(n), i \in 1 .. Len(queue'[n]) :
           worker[n][w].job.event <= queue'[n][i].event
    BY <1>0, <2>4, JobEvents DEF Ordered
  <2>7. /\ \A i \in 1 .. Len(queue'[n]) : queue'[n][i].event <= events + 1
        /\ \A w \in HoldsJob(n) : worker[n][w].job.event <= events + 1
    BY <1>0, <2>4, JobEvents DEF Ordered
  <2>. QED
    BY <1>0, <2>5, <2>6, <2>7 DEF Ordered
<1>. QED
  BY <1>1, <1>2

\* The job that a task takes was the first of the queue.
LEMMA TakeJobOrder ==
    ASSUME TInv, NEW n \in Notifiers, NEW w \in Workers, Ordered(n), TakeJob(n, w)
    PROVE  Ordered(n)'
<1>0. TypeOK /\ SleepsBeforeLast /\ queue[n] # <<>> /\ events' = events /\ queue'[n] = Tail(queue[n])
  BY DEF TInv, TakeJob, TypeOK
<1>1. /\ Len(queue'[n]) = Len(queue[n]) - 1 /\ Len(queue[n]) >= 1
      /\ \A i \in 1 .. Len(queue'[n]) : queue'[n][i] = queue[n][i + 1]
      /\ Head(queue[n]) = queue[n][1] /\ queue[n][1] \in Job
  BY <1>0, JobEvents
<1>2. /\ \A i, j \in 1 .. Len(queue'[n]) : i < j => queue'[n][i].event <= queue'[n][j].event
      /\ \A i \in 1 .. Len(queue'[n]) : queue[n][1].event <= queue'[n][i].event
      /\ \A i \in 1 .. Len(queue'[n]) : queue'[n][i].event <= events
      /\ queue[n][1].event <= events
  BY <1>0, <1>1, JobEvents DEF Ordered
<1>3. \A x \in HoldsJob(n) :
         /\ \A i \in 1 .. Len(queue'[n]) : worker[n][x].job.event <= queue'[n][i].event
         /\ worker[n][x].job.event <= events
  BY <1>0, <1>1, JobEvents DEF Ordered
<1>4. CASE UNCHANGED worker
  <2>1. HoldsJob(n)' = HoldsJob(n)
    BY <1>4, HoldersKept
  <2>. QED
    BY <1>0, <1>2, <1>3, <1>4, <2>1 DEF Ordered
<1>5. CASE Moves(n, w, [at |-> "sending", job |-> Head(queue[n]), attempt |-> 1])
  <2> DEFINE v == [at |-> "sending", job |-> Head(queue[n]), attempt |-> 1]
  <2>1. v \in Busy /\ v.at = "sending" /\ v.job = queue[n][1]
    BY <1>1, NotifierAssumption DEF Busy
  <2>. HIDE DEF v
  <2>2. /\ HoldsJob(n)' = HoldsJob(n) \cup {w} /\ worker'[n][w] = v
        /\ \A x \in Workers \ {w} : worker'[n][x] = worker[n][x]
    BY <1>0, <1>5, <2>1, TaskMoves DEF v
  <2>3. \A x \in HoldsJob(n)' : x = w \/ (x \in HoldsJob(n) /\ worker'[n][x] = worker[n][x])
    BY <2>2 DEF HoldsJob
  <2>. QED
    BY <1>0, <1>2, <1>3, <2>1, <2>2, <2>3 DEF Ordered
<1>. QED
  BY <1>4, <1>5 DEF TakeJob

\* A task keeps its job, or lets go of it.
LEMMA MovesOrder ==
    ASSUME TypeOK, NEW n \in Notifiers, NEW w \in Workers, NEW v, Ordered(n),
           Moves(n, w, v), UNCHANGED <<queue, events>>,
           v.at \in {"sending", "sleeping"} => w \in HoldsJob(n) /\ v.job = worker[n][w].job
    PROVE  Ordered(n)'
<1>1. \A x \in Workers : worker'[n][x] = IF x = w THEN v ELSE worker[n][x]
  BY DEF Moves, TypeOK
<1>2. /\ HoldsJob(n)' \subseteq HoldsJob(n)
      /\ \A x \in HoldsJob(n)' : worker'[n][x].job = worker[n][x].job
  BY <1>1 DEF HoldsJob
<1>. QED
  BY <1>2, OrderKept

LEMMA WorkOrder ==
    ASSUME TInv, NEW n \in Notifiers, NEW w \in Workers, Ordered(n),
           Deliver(n, w) \/ Retry(n, w) \/ Wake(n, w) \/ Fail(n, w) \/ Cancelled(n, w)
    PROVE  Ordered(n)'
<1>0. TypeOK
  BY DEF TInv
<1>1. CASE Deliver(n, w) \/ Fail(n, w)
  BY <1>0, <1>1, MovesOrder DEF Deliver, Fail, Idle
<1>2. CASE Cancelled(n, w)
  BY <1>0, <1>2, MovesOrder DEF Cancelled, Ended
<1>3. CASE Retry(n, w) \/ Wake(n, w)
  <2>1. w \in HoldsJob(n) /\ worker[n][w] \in Busy /\ UNCHANGED <<queue, events>>
    BY <1>0, <1>3, TaskPoints DEF Retry, Wake, Runs, HoldsJob
  <2> DEFINE asleep == [worker[n][w] EXCEPT !.at = "sleeping"]
             awake  == [worker[n][w] EXCEPT !.at = "sending", !.attempt = @ + 1]
  <2>2. asleep.job = worker[n][w].job /\ awake.job = worker[n][w].job
    BY <2>1 DEF Busy
  <2>3. Moves(n, w, asleep) \/ Moves(n, w, awake)
    BY <1>3 DEF Retry, Wake
  <2>. HIDE DEF asleep, awake
  <2>. QED
    BY <1>0, <2>1, <2>2, <2>3, MovesOrder
<1>. QED
  BY <1>1, <1>2, <1>3

LEMMA OrderStep == TInv /\ OrderInv /\ [Next]_vars => OrderInv'
<1> SUFFICES ASSUME TInv, OrderInv, [Next]_vars, NEW l \in Notifiers
             PROVE  Ordered(l)'
  BY DEF OrderInv
<1>0. TypeOK /\ Ordered(l)
  BY DEF TInv, OrderInv
<1>1. ASSUME queue'[l] = queue[l], worker'[l] = worker[l], events' = events \/ events' = events + 1
      PROVE  Ordered(l)'
  BY <1>0, <1>1, HoldersKept, OrderKept
<1>2. CASE UNCHANGED vars
  BY <1>1, <1>2 DEF vars
<1>3. ASSUME NEW n \in Notifiers, Enqueue(n) PROVE Ordered(l)'
  <2>1. CASE l = n
    BY <1>0, <1>3, <2>1, EnqueueOrder
  <2>2. CASE l # n
    BY <1>0, <1>1, <1>3, <2>2 DEF Enqueue, TypeOK
  <2>. QED
    BY <2>1, <2>2
<1>4. ASSUME NEW n \in Notifiers, NEW w \in Workers, TakeJob(n, w) PROVE Ordered(l)'
  <2>1. CASE l = n
    BY <1>0, <1>4, <2>1, TakeJobOrder
  <2>2. CASE l # n
    BY <1>0, <1>1, <1>4, <2>2 DEF TakeJob, Moves, TypeOK
  <2>. QED
    BY <2>1, <2>2
<1>5. ASSUME NEW n \in Notifiers, NEW w \in Workers,
             Deliver(n, w) \/ Retry(n, w) \/ Wake(n, w) \/ Fail(n, w) \/ Cancelled(n, w)
      PROVE  Ordered(l)'
  <2>1. CASE l = n
    BY <1>0, <1>5, <2>1, WorkOrder
  <2>2. CASE l # n
    BY <1>0, <1>1, <1>5, <2>2 DEF Deliver, Retry, Wake, Fail, Cancelled, Moves, TypeOK
  <2>. QED
    BY <2>1, <2>2
<1>6. ASSUME NEW n \in Notifiers, StopEnds(n) PROVE Ordered(l)'
  <2>1. CASE l = n
    <3>1. queue'[n] = <<>> /\ worker'[n] = worker[n] /\ events' = events
      BY <1>0, <1>6 DEF StopEnds, TypeOK
    <3>. QED
      BY <1>0, <2>1, <3>1, HoldersKept DEF Ordered
  <2>2. CASE l # n
    BY <1>0, <1>1, <1>6, <2>2 DEF StopEnds, TypeOK
  <2>. QED
    BY <2>1, <2>2
<1>7. ASSUME NEW n \in Notifiers, Shutdown(n) PROVE Ordered(l)'
  BY <1>1, <1>7 DEF Shutdown
<1>8. ASSUME NEW n \in Notifiers, NEW m \in Notifiers, Reload(n, m) PROVE Ordered(l)'
  <2>1. PICK enabled \in BOOLEAN : worker' = [worker EXCEPT ![m] = Tasks(enabled)]
    BY <1>8 DEF Reload
  <2>2. UNCHANGED <<queue, events>>
    BY <1>8 DEF Reload
  <2>3. CASE l = m
    <3>1. \A w \in Workers : worker'[m][w] \in {Idle, Ended}
      BY <1>0, <2>1 DEF Tasks, TypeOK
    <3>2. HoldsJob(m)' = {}
      BY <3>1 DEF HoldsJob, Idle, Ended
    <3>. QED
      BY <1>0, <2>2, <2>3, <3>2, OrderKept
  <2>4. CASE l # m
    BY <1>0, <1>1, <2>1, <2>2, <2>4 DEF TypeOK
  <2>. QED
    BY <2>3, <2>4
<1>. QED
  BY <1>2, <1>3, <1>4, <1>5, <1>6, <1>7, <1>8 DEF Next

\* A job that is retried stays ahead of every job in the queue, and the queue
\* keeps the order of the events, whatever a reload or a shutdown interrupts.
THEOREM OrderIsKept == Spec => []JobsInOrder
<1>1. Init => OrderInv /\ NotifierInv
  BY OrderInit, TInvInit, QuietInit, ClientInit, AccountedInit DEF NotifierInv
<1>2. OrderInv /\ NotifierInv /\ [Next]_vars => (OrderInv /\ NotifierInv)'
  BY OrderStep, TInvStep, QuietStep, ClientStep, AccountedStep DEF NotifierInv
<1>3. OrderInv => JobsInOrder
  BY DEF OrderInv, Ordered, JobsInOrder
<1>. QED
  BY <1>1, <1>2, <1>3, PTL DEF Spec

-----------------------------------------------------------------------------
(***************************************************************************)
(* One notifier at a time                                                   *)
(***************************************************************************)

\* Only the notifier of app.state takes and posts jobs, and its queue is within
\* its limit.
OneAtWork ==
    \A n \in Notifiers :
        /\ phase[n] = "running" => n = current
        /\ Len(queue[n]) <= QueueSize

LEMMA CurrentStep ==
    ASSUME TypeOK, \A n \in Notifiers : phase[n] = "running" => n = current, [Next]_vars
    PROVE  \A n \in Notifiers : phase'[n] = "running" => n = current'
<1> SUFFICES ASSUME NEW l \in Notifiers, phase'[l] = "running" PROVE l = current'
  OBVIOUS
<1>1. CASE UNCHANGED <<phase, current>>
  BY <1>1
<1>2. ASSUME NEW n \in Notifiers, Shutdown(n) \/ StopEnds(n) PROVE l = current'
  BY <1>2 DEF Shutdown, StopEnds, TypeOK
<1>3. ASSUME NEW n \in Notifiers, NEW m \in Notifiers, Reload(n, m) PROVE l = current'
  <2>1. PICK enabled \in BOOLEAN :
          phase' = [phase EXCEPT ![n] = "stopping", ![m] = IF enabled THEN "running" ELSE "off"]
    BY <1>3 DEF Reload
  <2>2. n = current /\ current' = m /\ phase[m] = "unused" /\ phase[n] # "unused"
    BY <1>3 DEF Reload
  <2>. QED
    BY <2>1, <2>2 DEF TypeOK
<1>4. ASSUME NEW n \in Notifiers, NEW w \in Workers,
             \/ TakeJob(n, w) \/ Deliver(n, w) \/ Retry(n, w)
             \/ Wake(n, w) \/ Fail(n, w) \/ Cancelled(n, w)
      PROVE  UNCHANGED <<phase, current>>
  <2>1. CASE TakeJob(n, w)
    BY <2>1 DEF TakeJob
  <2>2. CASE Deliver(n, w)
    BY <2>2 DEF Deliver
  <2>3. CASE Retry(n, w)
    BY <2>3 DEF Retry
  <2>4. CASE Wake(n, w)
    BY <2>4 DEF Wake
  <2>5. CASE Fail(n, w)
    BY <2>5 DEF Fail
  <2>6. CASE Cancelled(n, w)
    BY <2>6 DEF Cancelled
  <2>. QED
    BY <1>4, <2>1, <2>2, <2>3, <2>4, <2>5, <2>6
<1>5. ASSUME NEW n \in Notifiers, Enqueue(n) PROVE UNCHANGED <<phase, current>>
  BY <1>5 DEF Enqueue
<1>6. CASE UNCHANGED vars
  BY <1>1, <1>6 DEF vars
<1>7. CASE Next
  BY <1>1, <1>2, <1>3, <1>4, <1>5, <1>7 DEF Next
<1>. QED
  BY <1>6, <1>7

\* However reloads and events overlap, one notifier is at work at most, the
\* current one, and no queue outgrows queue_size.
THEOREM OneNotifierWorks == Spec => []OneAtWork
<1> DEFINE Current == \A n \in Notifiers : phase[n] = "running" => n = current
<1>1. Init => NotifierInv /\ Current
  BY TInvInit, QuietInit, ClientInit, AccountedInit DEF NotifierInv, Init
<1>2. NotifierInv /\ Current /\ [Next]_vars => (NotifierInv /\ Current)'
  BY TInvStep, QuietStep, ClientStep, AccountedStep, CurrentStep DEF NotifierInv, TInv
<1>3. NotifierInv /\ Current => OneAtWork
  BY DEF NotifierInv, TInv, QueueBounded, OneAtWork
<1>. QED
  BY <1>1, <1>2, <1>3, PTL DEF Spec

=============================================================================
