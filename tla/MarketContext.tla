----------------------------- MODULE MarketContext -----------------------------
(***************************************************************************)
(* The market-context contracts (market_context/*.py): which finalized     *)
(* windows make the input of a boundary, the features computed from them,  *)
(* the regime they vote for, and how an assessment is consumed.            *)
(*                                                                         *)
(* A reference checksum is the window version it is computed from, and an  *)
(* identity derived from a checksum is the content it is computed from.    *)
(***************************************************************************)
EXTENDS Integers, Sequences, FiniteSets, FiniteSetsExt, SequencesExt

CONSTANTS
    Timeframes,     \* the policy's timeframes, the anchor first
    Duration,       \* of a window of each
    Requirements,   \* the feature set: [key, timeframe, lookback, formula]
    Slope,          \* per timeframe: threshold and weight of a trend vote
    Volatility,     \* per timeframe of a volatility feature: low, high and weight
    Scale,          \* a weight, score or confidence of 1
    Lifetime        \* of an assessment

NoManifest == <<>>
Frames == {Timeframes[i] : i \in 1..Len(Timeframes)}
Floor(t, frame) == t - (t % Duration[frame])
Boundary(t) == Floor(t, Timeframes[1])

\* MarketContextAlignmentPolicy: every timeframe is a multiple of the anchor
PolicyValid == \A f \in Frames : Duration[f] % Duration[Timeframes[1]] = 0

\* MarketContextFeatureSetDefinition: one requirement for each key
FeatureSetValid ==
    \A r, q \in Requirements :
        /\ r.timeframe \in Frames /\ r.lookback >= 1
        /\ r.key = q.key => r = q

-----------------------------------------------------------------------------
(* Windows and alignment *)

End(w) == w.start + Duration[w.timeframe]

ReferenceValid(w) ==
    /\ w.timeframe \in Frames
    /\ w.version >= 2
    /\ w.start % Duration[w.timeframe] = 0
    /\ w.finalized >= End(w)

\* required_market_context_window_counts: the longest lookback of a timeframe
Required(frame) ==
    Max({1} \cup {r.lookback : r \in {q \in Requirements : q.timeframe = frame}})

EarlierWindow(v, w) == v.start < w.start \/ (v.start = w.start /\ v.version < w.version)
InOrder(ws) == SetToSortSeq(ws, EarlierWindow)
LatestVersions(ws) ==
    {w \in ws : \A v \in ws : (v.timeframe = w.timeframe /\ v.start = w.start) =>
                                 v.version <= w.version}
Suffix(s, n) == IF Len(s) <= n THEN s ELSE SubSeq(s, Len(s) - n + 1, Len(s))

Candidates(ws, frame, asOf) ==
    Suffix(InOrder({w \in LatestVersions(ws) : w.timeframe = frame /\ End(w) <= Floor(asOf, frame)}),
           Required(frame))

Contiguous(s) == \A i \in 1..(Len(s) - 1) : End(s[i]) = s[i + 1].start

MissingStarts(ws, frame, asOf) ==
    {Floor(asOf, frame) - Duration[frame] * k : k \in 1..Required(frame)}
    \ {w.start : w \in Range(Candidates(ws, frame, asOf))}

\* The issue of a timeframe; the first that applies.
Issue(ws, frame, asOf) ==
    LET s == Candidates(ws, frame, asOf)
    IN CASE s = <<>> -> "no_finalized_windows"
         [] s # <<>> /\ Len(s) < Required(frame) -> "insufficient_history"
         [] Len(s) = Required(frame) /\ ~Contiguous(s) -> "window_gap"
         [] Len(s) = Required(frame) /\ Contiguous(s) /\ End(Last(s)) # Floor(asOf, frame)
              -> "stale_latest_window"
         [] Len(s) = Required(frame) /\ Contiguous(s) /\ End(Last(s)) = Floor(asOf, frame)
              -> IF MissingStarts(ws, frame, asOf) # {} THEN "window_gap" ELSE "none"

Coverage(ws, frame, asOf) ==
    LET issue == Issue(ws, frame, asOf)
    IN [required |-> Required(frame), issue |-> issue,
        available |-> Cardinality({w \in LatestVersions(ws) :
                                     w.timeframe = frame /\ End(w) <= Floor(asOf, frame)}),
        matched |-> Required(frame) - Cardinality(MissingStarts(ws, frame, asOf)),
        missing |-> MissingStarts(ws, frame, asOf),
        status |-> CASE issue = "none" -> "ready"
                     [] issue = "stale_latest_window" -> "stale"
                     [] OTHER -> "insufficient_data"]

CoverageValid(c) ==
    /\ c.matched <= c.required /\ c.available >= c.matched
    /\ c.status = "ready" => c.issue = "none" /\ c.missing = {} /\ c.matched = c.required
    /\ c.status # "ready" => c.issue # "none"

AlignmentStatus(ws, asOf) ==
    LET statuses == {Coverage(ws, f, asOf).status : f \in Frames}
    IN CASE "insufficient_data" \in statuses -> "insufficient_data"
         [] "insufficient_data" \notin statuses /\ "stale" \in statuses -> "stale"
         [] OTHER -> "ready"

\* The references of a ready alignment, and the manifest made of them
References(ws, asOf) == [f \in Frames |-> Candidates(ws, f, asOf)]
Windows(refs) == UNION {Range(refs[f]) : f \in Frames}

Manifest(stream, asOf, refs) ==
    [stream |-> stream, asOf |-> asOf, windows |-> refs,
     created |-> Max({asOf} \cup {w.finalized : w \in Windows(refs)})]

\* align_market_context_windows refuses to be earlier than its inputs.
AlignmentRejected(ws, stream, asOf, alignedAt) ==
    AlignmentStatus(ws, asOf) = "ready"
    /\ alignedAt < Manifest(stream, asOf, References(ws, asOf)).created

ManifestValid(m) ==
    /\ m.asOf = Boundary(m.asOf)
    /\ m.created >= m.asOf
    /\ \A w \in Windows(m.windows) : ReferenceValid(w) /\ End(w) <= m.asOf
    /\ \A f \in Frames :
        /\ m.windows[f] # <<>> /\ End(Last(m.windows[f])) = Floor(m.asOf, f)
        /\ Contiguous(m.windows[f])
        /\ \A w \in Range(m.windows[f]) : w.timeframe = f

-----------------------------------------------------------------------------
(* Features.  The least squares slope of the closes over their first one is  *)
(* a quotient of integers; a volatility is kept as the variance of the       *)
(* returns times the square of their number, so no root is taken.            *)

Closes(s) == [i \in 1..Len(s) |-> s[i].close]

NormalizedSlope(c) ==
    LET n == Len(c)
    IN [num |-> 2 * MapThenSumSet(LAMBDA i : (2 * i - n - 1) * c[i], 1..n),
        den |-> c[1] * MapThenSumSet(LAMBDA i : (2 * i - n - 1) * (2 * i - n - 1), 1..n)]

ReturnVariance(c) ==
    LET n == Len(c) - 1
        return[i \in 1..n] == (c[i + 1] * Scale) \div c[i] - Scale
        sum == MapThenSumSet(LAMBDA i : return[i], 1..n)
    IN [num |-> n * MapThenSumSet(LAMBDA i : return[i] * return[i], 1..n) - sum * sum, den |-> n]

\* calculate_market_context_feature_snapshot_v1: each requirement over the
\* latest windows of its timeframe
Evidence(m, r) ==
    LET used == Suffix(m.windows[r.timeframe], r.lookback)
    IN [key |-> r.key, timeframe |-> r.timeframe, references |-> used,
        value |-> IF r.formula = "slope" THEN NormalizedSlope(Closes(used))
                  ELSE ReturnVariance(Closes(used))]

Snapshot(m) ==
    [stream |-> m.stream, asOf |-> m.asOf, manifest |-> [m EXCEPT !.created = 0],
     features |-> {Evidence(m, r) : r \in Requirements},
     calculated |-> Max({m.created} \cup {w.finalized : w \in Windows(m.windows)})]

\* _validate_and_order_manifest_windows: the window rows of the manifest, unchanged
LineageHolds(m, rows) == Windows(m.windows) \subseteq rows

SnapshotBuildable(m) ==
    \A r \in Requirements : Len(m.windows[r.timeframe]) >= r.lookback

SnapshotValid(f) ==
    /\ f.calculated >= f.asOf
    /\ {e.key : e \in f.features} = {r.key : r \in Requirements}
    /\ \A e, d \in f.features : e.key = d.key => e = d

-----------------------------------------------------------------------------
(* The regime *)

DirectionalVote(value, threshold) ==
    CASE value.num * Scale >= threshold * value.den -> 1
      [] value.num * Scale <= -threshold * value.den -> -1
      [] OTHER -> 0

VolatilityVote(value, v) ==
    CASE value.num <= (value.den * v.low) * (value.den * v.low) -> -1
      [] value.num >= (value.den * v.high) * (value.den * v.high) -> 1
      [] OTHER -> 0

ValueOf(f, formula, frame) ==
    LET r == CHOOSE q \in Requirements : q.formula = formula /\ q.timeframe = frame
    IN (CHOOSE e \in f.features : e.key = r.key).value

Abs(x) == IF x < 0 THEN -x ELSE x
Half == Scale \div 2

\* _classify_trend: half of the weight, and two votes in its direction
Trend(f) ==
    LET vote == [t \in DOMAIN Slope |-> DirectionalVote(ValueOf(f, "slope", t), Slope[t].threshold)]
        score == MapThenSumSet(LAMBDA t : vote[t] * Slope[t].weight, DOMAIN Slope)
        votes(v) == Cardinality({t \in DOMAIN Slope : vote[t] = v})
    IN CASE score >= Half /\ votes(1) >= 2 -> [regime |-> "trending_up", confidence |-> score]
         [] score <= -Half /\ votes(-1) >= 2 -> [regime |-> "trending_down", confidence |-> -score]
         [] OTHER -> [regime |-> "ranging", confidence |-> Scale - Abs(score)]

\* _classify_volatility: the weight of the high votes against that of the low ones
VolatilityRegime(f) ==
    LET vote == [t \in DOMAIN Volatility |->
                    VolatilityVote(ValueOf(f, "volatility", t), Volatility[t])]
        weight(v) == MapThenSumSet(LAMBDA t : Volatility[t].weight,
                                   {t \in DOMAIN Volatility : vote[t] = v})
        score == weight(1) - weight(-1)
    IN CASE score >= Half -> [regime |-> "high", confidence |-> weight(1)]
         [] score <= -Half -> [regime |-> "low", confidence |-> weight(-1)]
         [] OTHER -> [regime |-> "normal", confidence |-> Max({Half, weight(0)})]

\* MarketRegimePolicyV1: the weights sum to one, the bands are ordered
RegimePolicyValid ==
    /\ MapThenSumSet(LAMBDA t : Slope[t].weight, DOMAIN Slope) = Scale
    /\ MapThenSumSet(LAMBDA t : Volatility[t].weight, DOMAIN Volatility) = Scale
    /\ \A t \in DOMAIN Volatility : Volatility[t].low < Volatility[t].high

\* evaluate_market_regime_v1
Assessment(f) ==
    [stream |-> f.stream, asOf |-> f.asOf, manifest |-> f.manifest, snapshot |-> f,
     status |-> "ready", trend |-> Trend(f).regime, volatility |-> VolatilityRegime(f).regime,
     confidence |-> (Trend(f).confidence + VolatilityRegime(f).confidence) \div 2,
     evidence |-> f.features,
     assessed |-> f.calculated, expires |-> f.calculated + Lifetime]

AssessmentValid(a) ==
    /\ a.assessed >= a.asOf
    /\ a.status = "ready" =>
        /\ a.trend # "undetermined" /\ a.volatility # "undetermined"
        /\ a.confidence > 0 /\ a.confidence <= Scale /\ a.evidence # {}
        /\ a.expires > a.assessed
    /\ a.status # "ready" => a.evidence = {} /\ a.expires = a.assessed

-----------------------------------------------------------------------------
(* Consumption: the product view and the health of a stream *)

ViewReasons(a, at) ==
    {r \in {"assessment_not_ready", "assessment_expired", "boundary_mismatch"} :
        CASE r = "assessment_not_ready" -> a.status # "ready"
          [] r = "assessment_expired" -> a.expires <= at
          [] r = "boundary_mismatch" -> a.asOf # Boundary(at)}

\* MarketContextProductView.from_assessment
View(a, at) ==
    [assessment |-> a, at |-> at, reasons |-> ViewReasons(a, at), consumable |-> ViewReasons(a, at) = {},
     lag |-> Max({0, Boundary(at) - a.asOf}), left |-> Max({0, a.expires - at})]

\* _stream_health of the monitoring reader; a missing assessment or job is {}
Fresh(a, at) == a.status = "ready" /\ a.asOf = Boundary(at) /\ a.expires > at

StreamHealth(latest, job, at) ==
    LET freshness == CASE latest = {} -> "no_data"
                       [] latest # {} /\ (\A a \in latest : Fresh(a, at)) -> "fresh"
                       [] OTHER -> "stale"
        failed == \E j \in job : j.status = "failed"
        retrying == \E j \in job : j.status \in {"queued", "running"} /\ j.attempts > 0
    IN [freshness |-> freshness, failed |-> failed, retrying |-> retrying,
        pending |-> \E j \in job : j.status \in {"queued", "running"} /\ j.attempts = 0,
        health |-> CASE freshness = "stale" \/ failed \/ retrying -> "degraded"
                     [] freshness = "no_data" /\ ~failed /\ ~retrying -> "no_data"
                     [] OTHER -> "healthy"]

StreamHealthValid(h, latest) == (h.freshness = "no_data") = (latest = {})

\* read: the overall status of the streams' healths and the queue; a stale stream
\* is a degraded one
OverallStatus(healths, active, retrying, overload) ==
    LET streams == DOMAIN healths
        degraded == {s \in streams : healths[s].health = "degraded"}
        noData == {s \in streams : healths[s].freshness = "no_data"}
        failed == {s \in streams : healths[s].failed}
    IN CASE streams = {} -> "no_data"
         [] streams # {} /\ (active >= overload \/ degraded = streams) -> "critical"
         [] streams # {} /\ active < overload /\ degraded # streams /\ noData = streams
              /\ failed = {} -> "no_data"
         [] OTHER -> IF degraded \cup noData \cup failed # {} \/ active + retrying > 0
                     THEN "warning" ELSE "healthy"
=============================================================================
