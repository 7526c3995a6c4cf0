----------------------------- MODULE MCCandidates ----------------------------
(***************************************************************************)
(* Small instances for TLC of the portfolio ledger, of the candidate       *)
(* application and of the recording of its lifecycles.  A behaviour is one *)
(* of the three, chosen with the initial state.                            *)
(***************************************************************************)
EXTENDS CandidateRecords, CandidateRecorder, TLC

CONSTANTS Part

VARIABLE part

Symmetry == Permutations(Workers)

applicationVars == <<data, stage, ranked, trial, next, result>>

vars == <<part, replayVars, recorderVars>>

-----------------------------------------------------------------------------
(* The dataset: a trade at 100 with stop 80 and target 140, or its mirror image, *)
(* which at 119 has lost less than its budget but rounds to it.                  *)

\* One part in forty, rounded to money.
MCFee(product) == HalfEven(product, 40 * Quantum)

Shape(low, high, close) == [low |-> low, high |-> high, close |-> close]

MCShapes == {Shape(80, 120, 100), Shape(90, 119, 119), Shape(50, 80, 80), Shape(90, 140, 90)}

MCIssues == {-1, 3}

\* Datasets whose first candle signals at 100 and whose second can be the fill.
Interesting ==
    /\ data.candles[1].close = 100 /\ data.candles[2].close \in {100, 119}
    /\ Directional(1)
    /\ data.signals[3].strength # 1 /\ data.signals[4].strength # 1
    /\ data.issue >= 0 => ~Directional(3)

-----------------------------------------------------------------------------
(* Lifecycles 1 and 3 differ in nothing their portfolio is digested from; 2 *)
(* opened no position.                                                      *)

MCPortfolioOf(l) == IF l = 2 THEN "q" ELSE "p"

MCPositionOf(l) == CASE l = 1 -> 1 [] l = 2 -> 0 [] l = 3 -> 2

\* At most one lifecycle is recorded already, and the two workers, which are
\* interchangeable, have any two; or both have the same one and none is recorded.
FewRecorded ==
    /\ Cardinality(journals) <= 1
    /\ \A w, v \in Workers :
        w # v /\ session[w].task = session[v].task => journals = {}

-----------------------------------------------------------------------------
NoApplication ==
    /\ data = "none" /\ stage = "none" /\ ranked = << >> /\ trial = NoTrial /\ next = 0
    /\ result = "none"

NoRecorder ==
    /\ portfolios = [p \in Portfolios |-> 0] /\ journals = {} /\ projections = {}
    /\ session = << >> /\ attempts = << >> /\ overlapped = FALSE

PartInit ==
    /\ part \in Part
    /\ CASE part = "ledger" -> Init /\ NoApplication /\ NoRecorder
         [] part = "application" -> ReplayInit /\ Interesting /\ NoRecorder
         [] part = "recorder" -> Init /\ NoApplication /\ RecorderInit /\ FewRecorded

PartNext ==
    /\ UNCHANGED part
    /\ \/ part = "ledger" /\ Next /\ UNCHANGED <<applicationVars, recorderVars>>
       \/ part = "application" /\ ReplayNext /\ UNCHANGED recorderVars
       \/ part = "recorder" /\ RecorderNext /\ UNCHANGED replayVars

PartSpec == PartInit /\ [][PartNext]_vars
=============================================================================
