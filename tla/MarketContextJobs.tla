--------------------------- MODULE MarketContextJobs ---------------------------
(***************************************************************************)
(* Evaluation of market context by background jobs (market_context/jobs.py, *)
(* db/market_context_*.py): windows are finalized and corrected, an        *)
(* evaluation of a boundary is requested, attempts align, compute and      *)
(* classify in one transaction, fail for good or are retried, and readers  *)
(* show the latest assessment of each stream.                              *)
(*                                                                         *)
(* An attempt reads the windows of each timeframe with a statement of its  *)
(* own and commits all of its rows with its last; the monitoring reader is *)
(* a clock reading and five statements.  The job queue itself is that of   *)
(* BackgroundJobQueue, reduced to status, attempts and the flag.           *)
(***************************************************************************)
EXTENDS MarketContext

CONSTANTS
    Streams,        \* source, pair and market type, in the order of their keys
    History,        \* windows finalized before the behaviour starts
    Window,         \* what the finalizer may finalize: [timeframe, start, close]
    Idle,           \* no attempt is running
    AssessmentDigest(_), JobDigest(_),  \* order of the identities, which are digests
    MaxRecords, MaxStreams,     \* rows the monitoring reader looks at, streams it shows
    Overload,       \* queue depth reported as critical
    MaxAttempts,
    StartTime, MaxTime, MaxVersion, MaxJobs    \* bounds of the instance

VARIABLES
    now,
    windows,        \* finalized market_data_window_versions
    jobs,           \* evaluation jobs by identity: a stream and a boundary
    attempt,        \* what the running attempt has read
    manifests, snapshots, assessments,  \* committed rows
    monitor         \* results of the monitoring reader's statements

vars == <<now, windows, jobs, attempt, manifests, snapshots, assessments, monitor>>
stored == <<manifests, snapshots, assessments>>
Stream == Range(Streams)

Init ==
    /\ now = StartTime /\ windows = History
    /\ jobs = [i \in {} |-> Idle] /\ attempt = Idle
    /\ manifests = {} /\ snapshots = {} /\ assessments = {} /\ monitor = <<>>

Tick == now < MaxTime /\ now' = now + 1 /\ UNCHANGED <<windows, jobs, attempt, stored, monitor>>

\* A finalizer that read its clock at an earlier instant, and waited for the
\* locks of the stream since, turns a window or a correction of it into a
\* finalized version, visible now.  The first one is version 2.
Finalize(s, w, at) ==
    LET earlier == {v \in windows : v.stream = s /\ v.timeframe = w.timeframe /\ v.start = w.start}
        version == Max({0} \cup {v.version : v \in earlier}) + 2
    IN /\ version <= MaxVersion
       /\ End(w) <= at
       /\ windows' = windows \cup {[stream |-> s, timeframe |-> w.timeframe, start |-> w.start,
                                    version |-> version, close |-> w.close, finalized |-> at]}
       /\ UNCHANGED <<now, jobs, attempt, stored, monitor>>

\* The request time is not part of the identity of the job.
JobId(s, asOf) == <<s, asOf>>
NewJob(at) == [status |-> "queued", requested |-> at, attempts |-> 0, cancel |-> FALSE,
               error |-> "none", found |-> {}]

\* enqueue: the boundary and the clock reading are the caller's; a job of the
\* same identity is returned as it is.
Enqueue(s, asOf, requested) ==
    LET id == JobId(s, asOf)
    IN /\ asOf = Boundary(asOf) /\ asOf <= requested
       /\ id \notin DOMAIN jobs /\ Cardinality(DOMAIN jobs) < MaxJobs
       /\ jobs' = [i \in DOMAIN jobs \cup {id} |-> IF i = id THEN NewJob(requested) ELSE jobs[i]]
       /\ UNCHANGED <<now, windows, attempt, stored, monitor>>

Cancel(id) ==
    /\ jobs[id].status \in {"queued", "running"} /\ ~jobs[id].cancel
    /\ jobs' = [jobs EXCEPT ![id].cancel = TRUE]
    /\ UNCHANGED <<now, windows, attempt, stored, monitor>>

\* A worker claims the job, or ends it when its cancellation is requested.
Claim(id) ==
    /\ attempt = Idle /\ jobs[id].status = "queued"
    /\ IF jobs[id].cancel
       THEN jobs' = [jobs EXCEPT ![id].status = "cancelled"] /\ attempt' = Idle
       ELSE /\ jobs' = [jobs EXCEPT ![id].status = "running", ![id].attempts = @ + 1]
            /\ attempt' = [job |-> id, read |-> <<>>]
    /\ UNCHANGED <<now, windows, stored, monitor>>

\* _latest_finalized_windows, of the timeframes one after the other
ReadWindows ==
    LET frame == Timeframes[Len(attempt.read) + 1]
        own == {w \in windows : w.stream = attempt.job[1]}
    IN /\ attempt # Idle /\ Len(attempt.read) < Len(Timeframes)
       /\ attempt' = [attempt EXCEPT !.read = Append(@, Range(Candidates(own, frame, attempt.job[2])))]
       /\ UNCHANGED <<now, windows, jobs, stored, monitor>>

AllRead == attempt # Idle /\ Len(attempt.read) = Len(Timeframes)
Found == UNION Range(attempt.read)
Ready == AlignmentStatus(Found, attempt.job[2]) = "ready"

\* Mutant of AlignedAt: the alignment is dated by the attempt's clock.
AlignedNow(id) == now

\* Every attempt dates its alignment by the request.
AlignedAt(id) == jobs[id].requested
Unaligned == AlignmentRejected(Found, attempt.job[1], attempt.job[2], AlignedAt(attempt.job))

\* A retryable failure puts the job back while it has attempts left.
Retry(id) ==
    jobs' = [jobs EXCEPT ![id].status = IF jobs[id].attempts < MaxAttempts THEN "queued" ELSE "failed",
                         ![id].error = "market_context_inputs_not_ready",
                         ![id].found = {Found}]
Reject(id) ==
    jobs' = [jobs EXCEPT ![id].status = "failed",
                         ![id].error = "market_context_evaluation_rejected"]

TheManifest ==
    Manifest(attempt.job[1], attempt.job[2], References(Found, attempt.job[2]))
Staged(m) ==
    LET f == Snapshot(m)
    IN [manifest |-> m, snapshot |-> f, assessment |-> Assessment(f)]

\* validate_market_context_evaluation_result
ResultRefused(id, a) == a.stream # id[1] \/ a.asOf # id[2]

\* stage_input_manifest, stage_feature_snapshot and stage_assessment: a row with
\* the same identity is returned when it is equal, refused when it is not.
StageRefused(m) ==
    \/ ResultRefused(attempt.job, Assessment(Snapshot(m)))
    \/ \E n \in manifests : n.windows = m.windows /\ n.asOf = m.asOf /\ n.stream = m.stream /\ n # m
    \/ ~LineageHolds(m, windows) \/ ~SnapshotBuildable(m)
    \/ \E f \in snapshots : f.manifest = Snapshot(m).manifest /\ f # Snapshot(m)
    \/ \E a \in assessments : a.manifest = Snapshot(m).manifest /\ a # Assessment(Snapshot(m))

\* The end of the attempt's transaction, but for a cancellation seen between
\* two stages, which rolls it back.
EndCancelled ==
    /\ attempt # Idle /\ jobs[attempt.job].cancel
    /\ jobs' = [jobs EXCEPT ![attempt.job].status = "cancelled"]
    /\ attempt' = Idle
    /\ UNCHANGED <<now, windows, stored, monitor>>

EndNotReady ==
    /\ AllRead /\ ~Ready
    /\ Retry(attempt.job)
    /\ attempt' = Idle
    /\ UNCHANGED <<now, windows, stored, monitor>>

EndRejected ==
    /\ AllRead /\ Ready
    /\ Unaligned \/ StageRefused(TheManifest)
    /\ Reject(attempt.job)
    /\ attempt' = Idle
    /\ UNCHANGED <<now, windows, stored, monitor>>

CanCommit == AllRead /\ Ready /\ ~Unaligned /\ ~StageRefused(TheManifest)

\* All three rows become visible together.  The worker may stop before it has
\* settled the job, whose lease then expires and is queued again.
Commit(settled) ==
    /\ CanCommit
    /\ manifests' = manifests \cup {TheManifest}
    /\ snapshots' = snapshots \cup {Staged(TheManifest).snapshot}
    /\ assessments' = assessments \cup {Staged(TheManifest).assessment}
    /\ jobs' = [jobs EXCEPT
         ![attempt.job].status = CASE settled -> "succeeded"
                                   [] ~settled /\ jobs[attempt.job].attempts < MaxAttempts -> "queued"
                                   [] OTHER -> "failed"]
    /\ attempt' = Idle
    /\ UNCHANGED <<now, windows, monitor>>

\* The worker stops before the commit: the transaction is rolled back.
Crash ==
    /\ attempt # Idle
    /\ jobs' = [jobs EXCEPT ![attempt.job].status =
                  IF jobs[attempt.job].attempts < MaxAttempts THEN "queued" ELSE "failed"]
    /\ attempt' = Idle
    /\ UNCHANGED <<now, windows, stored, monitor>>

-----------------------------------------------------------------------------
(* The readers.  Both order the assessments by boundary, time and identity. *)

EarlierAssessment(a, b) ==
    \/ a.asOf < b.asOf
    \/ a.asOf = b.asOf /\ a.assessed < b.assessed
    \/ a.asOf = b.asOf /\ a.assessed = b.assessed /\ AssessmentDigest(a) < AssessmentDigest(b)
EarlierJob(i, j) ==
    \/ jobs[i].requested < jobs[j].requested
    \/ jobs[i].requested = jobs[j].requested /\ JobDigest(i) < JobDigest(j)

\* list_latest: the row of rank one of a stream
LatestOf(s, rows) ==
    LET own == SetToSortSeq({a \in rows : a.stream = s}, EarlierAssessment)
    IN IF own = <<>> THEN {} ELSE {Last(own)}

Views(rows, at) == {View(a, at) : a \in UNION {LatestOf(s, rows) : s \in Stream}}

\* The monitoring reader takes the newest rows of a table, and then the first
\* of each stream among them.
NewestAssessments == Range(Suffix(SetToSortSeq(assessments, EarlierAssessment), MaxRecords))
NewestJobs == Suffix(SetToSortSeq(DOMAIN jobs, EarlierJob), MaxRecords)

LatestAssessments ==
    [latest |-> [s \in {a.stream : a \in NewestAssessments} |->
                    CHOOSE a \in NewestAssessments : LatestOf(s, NewestAssessments) = {a}],
     stored |-> assessments]
LatestJobs ==
    LET own(s) == SelectSeq(NewestJobs, LAMBDA id : id[1] = s)
    IN [latest |-> [s \in {id[1] : id \in Range(NewestJobs)} |->
                       [status |-> jobs[Last(own(s))].status,
                        attempts |-> jobs[Last(own(s))].attempts]]]

OfStatus(status) == {id \in DOMAIN jobs : jobs[id].status = status}
Active == OfStatus("queued") \cup OfStatus("running")
PutBack == {id \in OfStatus("queued") : jobs[id].attempts > 0}

RetryingJobs == [retrying |-> Cardinality(PutBack)]
QueuedJobs == [count |-> Cardinality(OfStatus("queued")), active |-> Active]
RunningJobs == [count |-> Cardinality(OfStatus("running")), active |-> Active, back |-> PutBack]

MonitorReads(n, result) ==
    /\ Len(monitor) = n - 1
    /\ monitor' = Append(monitor, result)
    /\ UNCHANGED <<now, windows, jobs, attempt, stored>>

\* Mutant of ReadMonitor: the running jobs are counted before the queued ones.
ReadMonitorRunningFirst ==
    \/ MonitorReads(1, [at |-> now]) \/ MonitorReads(2, LatestAssessments)
    \/ MonitorReads(3, LatestJobs) \/ MonitorReads(4, RetryingJobs)
    \/ MonitorReads(5, RunningJobs)
    \/ MonitorReads(6, [count |-> Cardinality(OfStatus("queued")), active |-> Active, back |-> PutBack])

\* The clock, the two tables and the three counts of the backlog
ReadMonitor ==
    \/ MonitorReads(1, [at |-> now])
    \/ MonitorReads(2, LatestAssessments)
    \/ MonitorReads(3, LatestJobs)
    \/ MonitorReads(4, RetryingJobs)
    \/ MonitorReads(5, QueuedJobs)
    \/ MonitorReads(6, RunningJobs)

EndMonitor ==
    /\ Len(monitor) = 6
    /\ monitor' = <<>>
    /\ UNCHANGED <<now, windows, jobs, attempt, stored>>

\* MarketContextMonitoringSummary of the results
Entry(f, s) == {f[x] : x \in DOMAIN f \cap {s}}
Known(reads) == DOMAIN reads[2].latest \cup DOMAIN reads[3].latest
Shown(reads) ==
    LET known == SelectSeq(Streams, LAMBDA s : s \in Known(reads))
    IN Range(SubSeq(known, 1, Min({Len(known), MaxStreams})))
Health(reads, s) ==
    StreamHealth(Entry(reads[2].latest, s), Entry(reads[3].latest, s), reads[1].at)
Overall(reads) ==
    OverallStatus([s \in Shown(reads) |-> Health(reads, s)],
                  reads[5].count + reads[6].count, reads[4].retrying, Overload)

Next ==
    \/ Tick
    \/ \E s \in Stream :
        \/ \E asOf, requested \in StartTime..now : Enqueue(s, asOf, requested)
        \/ \E w \in Window, at \in StartTime..now : Finalize(s, w, at)
    \/ \E id \in DOMAIN jobs : Cancel(id) \/ Claim(id)
    \/ ReadWindows \/ EndCancelled \/ EndNotReady \/ EndRejected
    \/ \E settled \in BOOLEAN : Commit(settled)
    \/ Crash
    \/ ReadMonitor \/ EndMonitor

Spec == Init /\ [][Next]_vars

-----------------------------------------------------------------------------
\* Every committed row passes its validator and has the rows it was computed
\* from, whatever attempts were stopped or cancelled; a ready alignment never
\* builds a manifest the manifest's own rules refuse, though its timeframes are
\* read one after the other.  The inputs of an assessment were all stamped no
\* later than its request.
RowsSound ==
    /\ PolicyValid /\ FeatureSetValid /\ RegimePolicyValid
    /\ \A m \in manifests :
        /\ ManifestValid(m) /\ Windows(m.windows) \subseteq windows
        /\ m.created <= jobs[<<m.stream, m.asOf>>].requested
        /\ \E f \in snapshots : f.manifest = Snapshot(m).manifest
        /\ \E a \in assessments : a.manifest = Snapshot(m).manifest
    /\ \A f \in snapshots : SnapshotValid(f)
    /\ \A a \in assessments : AssessmentValid(a) /\ a.snapshot \in snapshots
    /\ \A s \in Stream, f \in Frames :
        CoverageValid(Coverage({w \in windows : w.stream = s}, f, Boundary(now)))

\* The monitoring reader agrees with the product view of what was stored when it
\* read: a stream it shows with an assessment is fresh exactly when the view is
\* consumable, and one that has an assessment is hidden, or shown without data,
\* only beyond the limits of rows and streams.  When it reports healthy, what it
\* shows is consumable, and a job that was active during both of its counts had
\* been put back between them.
MonitorAgrees ==
    LET view(s) == Views({a \in monitor[2].stored : a.stream = s}, monitor[1].at)
    IN Len(monitor) = 6 =>
        /\ \A s \in Shown(monitor) :
            /\ StreamHealthValid(Health(monitor, s), Entry(monitor[2].latest, s))
            /\ s \in DOMAIN monitor[2].latest =>
                 (Health(monitor, s).freshness = "fresh") = (\A v \in view(s) : v.consumable)
        /\ \A s \in Stream :
            view(s) # {} /\ (s \in Shown(monitor) => Health(monitor, s).freshness = "no_data") =>
                 \/ Cardinality(monitor[2].stored) > MaxRecords
                 \/ Cardinality(Known(monitor)) > MaxStreams
        /\ Overall(monitor) = "healthy" =>
            /\ \A s \in Shown(monitor) : view(s) # {} /\ \A v \in view(s) : v.consumable
            /\ monitor[5].active \cap monitor[6].active \subseteq monitor[6].back

\* The committed rows of an evaluation belong together, and both readers, the product
\* view and the monitor, find the same in them.
ContextRowsSound == RowsSound /\ MonitorAgrees

\* An evaluation is refused for good only when a window of its boundary was
\* stamped after the request.  Waiting for missing inputs helps only when a
\* finalizer that read its clock before the request was late: a job that found
\* them missing and then succeeded took a window it had not found, stamped no
\* later than its request.
RetryTakesNoLaterWindow ==
    \A id \in DOMAIN jobs :
        /\ jobs[id].error = "market_context_evaluation_rejected" =>
             \E w \in windows : w.stream = id[1] /\ End(w) <= id[2] /\ w.finalized > jobs[id].requested
        /\ jobs[id].status = "succeeded" => \A found \in jobs[id].found :
             \E m \in manifests :
                 /\ m.stream = id[1] /\ m.asOf = id[2]
                 /\ \E w \in Windows(m.windows) : w \notin found
                 /\ \A w \in Windows(m.windows) \ found : w.finalized <= jobs[id].requested
=============================================================================
