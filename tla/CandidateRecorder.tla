-------------------------- MODULE CandidateRecorder -------------------------
(***************************************************************************)
(* Recording a finished candidate lifecycle: its portfolio, its journal    *)
(* entry and the rebuild of every candidate projection, in one transaction *)
(* (db/candidate_lifecycle_persistence.py), by workers that share nothing  *)
(* but a READ COMMITTED database, next to the maintenance command that      *)
(* only rebuilds.                                                          *)
(*                                                                         *)
(* A lifecycle is a number, in the order its journal entry is recorded.    *)
(* Its journal entry is named by it, being digested from it, and so are    *)
(* its projections: a candidate is digested from its experiment, so that    *)
(* no two lifecycles have a candidate in common and all the candidates of  *)
(* one are projected together.  A portfolio, though, is digested from its  *)
(* dataset, its time, its cash and its fee rate only.                      *)
(***************************************************************************)
EXTENDS Integers, FiniteSets

CONSTANTS
    Workers, Maintenance,   \* the processes
    Lifecycles,             \* the lifecycles they may have to record
    PortfolioOf(_),         \* the portfolio of a lifecycle
    PositionOf(_),          \* the position it closed, 0 for none
    MaxAttempts             \* attempts of a job

ASSUME RecorderAssumption ==
    /\ Lifecycles \subseteq Nat \ {0} /\ IsFiniteSet(Lifecycles)
    /\ \A l \in Lifecycles : PositionOf(l) \in Nat
    /\ MaxAttempts \in Nat /\ Maintenance \notin Workers

VARIABLES
    portfolios,     \* portfolio -> the lifecycle whose snapshot and positions it holds, or 0
    journals,       \* journaled lifecycles
    projections,    \* lifecycles whose candidates are projected
    session,        \* process -> its transaction, if any, and what it has read
    attempts,       \* process -> attempts left; the command is given once
    overlapped      \* another rebuild was committed during the last one

recorderVars == <<portfolios, journals, projections, session, attempts, overlapped>>

Processes == Workers \cup {Maintenance}

Portfolios == {PortfolioOf(l) : l \in Lifecycles}

\* A transaction of no statements yet, with the lifecycle to record (0: none).
Fresh(l) ==
    [pc |-> "idle", task |-> l, seen |-> FALSE, saved |-> FALSE, journaled |-> FALSE,
     count |-> 0, listed |-> {}, found |-> {}, deleted |-> {}, written |-> {}, alone |-> TRUE]

RecorderInit ==
    /\ journals \in SUBSET Lifecycles
    /\ projections = journals
    /\ portfolios \in [Portfolios -> journals \cup {0}]
    /\ \A p \in Portfolios :
        IF \E l \in journals : PortfolioOf(l) = p
        THEN portfolios[p] \in journals /\ PortfolioOf(portfolios[p]) = p
        ELSE portfolios[p] = 0
    /\ \E task \in [Workers -> Lifecycles] :
        session = [w \in Processes |-> Fresh(IF w = Maintenance THEN 0 ELSE task[w])]
    /\ attempts = [w \in Processes |-> IF w = Maintenance THEN 1 ELSE MaxAttempts]
    /\ overlapped = FALSE

At(w, pc) == session[w].pc = pc

Others(w) == Processes \ {w}

Update(w, s) == session' = [session EXCEPT ![w] = s]

\* The transaction is rolled back and its job retried, while attempts are left.
RolledBack(w) ==
    /\ Update(w, [Fresh(session[w].task) EXCEPT !.pc = IF attempts[w] > 1 THEN "idle" ELSE "failed"])
    /\ attempts' = [attempts EXCEPT ![w] = @ - 1]
    /\ UNCHANGED <<portfolios, journals, projections, overlapped>>

Continue(w, s) ==
    Update(w, s) /\ UNCHANGED <<portfolios, journals, projections, attempts, overlapped>>

-----------------------------------------------------------------------------
(* The portfolio: read, then inserted or replaced together with its children *)

ReadPortfolio(w) ==
    /\ w \in Workers /\ At(w, "idle") /\ attempts[w] > 0
    /\ Continue(w, [session[w] EXCEPT !.pc = "portfolio",
                                      !.seen = portfolios[PortfolioOf(session[w].task)] # 0])

\* The row of a portfolio another transaction has written is waited for.
PortfolioFree(w) ==
    \A v \in Others(w) :
        session[v].saved => PortfolioOf(session[v].task) # PortfolioOf(session[w].task)

\* Mutant of WritePortfolio: the portfolio is committed before the rest.
WritePortfolioCommitted(w) ==     \* save() with its default, commit=True
    /\ At(w, "portfolio") /\ PortfolioFree(w)
    /\ portfolios' = [portfolios EXCEPT ![PortfolioOf(session[w].task)] = session[w].task]
    /\ Update(w, [session[w] EXCEPT !.pc = "journal"])
    /\ UNCHANGED <<journals, projections, attempts, overlapped>>

\* Inserting a portfolio that has appeared since it was looked for breaks its key.
WritePortfolio(w) ==
    /\ At(w, "portfolio") /\ PortfolioFree(w)
    /\ IF ~session[w].seen /\ portfolios[PortfolioOf(session[w].task)] # 0
       THEN RolledBack(w)
       ELSE Continue(w, [session[w] EXCEPT !.pc = "journal", !.saved = TRUE])

\* A journal entry that is there already is kept; its lifecycle shares the
\* portfolio, so that nobody else can be about to insert it.
SaveJournal(w) ==
    /\ At(w, "journal")
    /\ Continue(w, [session[w] EXCEPT !.pc = "rebuild", !.journaled = TRUE])

-----------------------------------------------------------------------------
(* The rebuild: count the journals, list as many, delete, save one by one *)

\* Mutant of Visible: the session does not see what it has written itself.
VisibleCommitted(w) == journals

Visible(w) == journals \cup (IF session[w].journaled THEN {session[w].task} ELSE {})

CountJournals(w) ==
    /\ \/ At(w, "rebuild")
       \/ w = Maintenance /\ At(w, "idle") /\ attempts[w] > 0
    /\ Continue(w, [session[w] EXCEPT !.pc = "list", !.count = Cardinality(Visible(w)),
                                      !.alone = TRUE])

\* The newest `count` of the journals visible by then.
Newest(S, count) == {l \in S : Cardinality({k \in S : k > l}) < count}

ListJournals(w) ==
    /\ At(w, "list")
    /\ Continue(w, [session[w] EXCEPT !.pc = "delete",
                                      !.listed = Newest(Visible(w), session[w].count)])

Holds(v, l) == l \in session[v].deleted \cup session[v].written

\* DELETE finds the rows committed when it starts ...
StartDelete(w) ==
    /\ At(w, "delete")
    /\ Continue(w, [session[w] EXCEPT !.pc = "deleting", !.found = projections])

\* ... waits for those another transaction has written, and deletes what is left of them.
FinishDelete(w) ==
    /\ At(w, "deleting")
    /\ \A l \in session[w].found, v \in Others(w) : ~Holds(v, l)
    /\ Continue(w, [session[w] EXCEPT !.pc = "get", !.deleted = session[w].found])

\* Newest first.
NextProjection(w) ==
    CHOOSE l \in session[w].listed \ session[w].written :
        \A k \in session[w].listed \ session[w].written : k <= l

GetProjection(w) ==
    /\ At(w, "get") /\ session[w].listed # session[w].written
    /\ Continue(w, [session[w] EXCEPT
                        !.pc = "save",
                        !.seen = NextProjection(w) \in projections \ session[w].deleted])

\* An insert of what has appeared, like an update of what has gone, fails.
SaveProjection(w) ==
    LET l == NextProjection(w)
    IN  /\ At(w, "save")
        /\ \A v \in Others(w) : ~Holds(v, l)
        /\ IF session[w].seen = (l \in projections \ session[w].deleted)
           THEN Continue(w, [session[w] EXCEPT !.pc = "get", !.written = @ \cup {l}])
           ELSE RolledBack(w)

\* What a DELETE of another session has found and this one has deleted is gone
\* for it, the rows inserted in its place included.
Commit(w) ==
    LET s == session[w]
    IN  /\ At(w, "get") /\ s.listed = s.written
        /\ portfolios' = IF s.saved THEN [portfolios EXCEPT ![PortfolioOf(s.task)] = s.task]
                         ELSE portfolios
        /\ journals' = IF s.journaled THEN journals \cup {s.task} ELSE journals
        /\ projections' = (projections \ s.deleted) \cup s.written
        /\ overlapped' = ~s.alone
        /\ session' = [v \in Processes |->
                        IF v = w THEN [Fresh(s.task) EXCEPT !.pc = "done"]
                        ELSE [session[v] EXCEPT !.found = @ \ s.deleted, !.alone = FALSE]]
        /\ UNCHANGED attempts

-----------------------------------------------------------------------------
(* Failures *)

\* The process stops, a statement fails, or the database ends a deadlock.
Fail(w) ==
    /\ session[w].pc \notin {"idle", "done", "failed"}
    /\ RolledBack(w)

\* The process stops after the commit and before the job is settled: the
\* same is recorded once more.
Repeat(w) ==
    /\ At(w, "done") /\ attempts[w] > 1
    /\ Update(w, Fresh(session[w].task))
    /\ attempts' = [attempts EXCEPT ![w] = @ - 1]
    /\ UNCHANGED <<portfolios, journals, projections, overlapped>>

Settled ==
    /\ \A w \in Processes : session[w].pc \in {"idle", "done", "failed"}
    /\ \A w \in Workers : session[w].pc # "idle"
    /\ UNCHANGED recorderVars

RecorderNext ==
    \/ \E w \in Processes :
        \/ ReadPortfolio(w) \/ WritePortfolio(w) \/ SaveJournal(w)
        \/ CountJournals(w) \/ ListJournals(w) \/ StartDelete(w) \/ FinishDelete(w)
        \/ GetProjection(w) \/ SaveProjection(w) \/ Commit(w)
        \/ Fail(w) \/ Repeat(w)
    \/ Settled

RecorderSpec == RecorderInit /\ [][RecorderNext]_recorderVars

-----------------------------------------------------------------------------
(* What is read back *)

\* The detail of a position, asked for under its portfolio: without its row there
\* is none, and more than one journal entry that claims it is a conflict.
PositionDetail(p, position) ==
    LET claims == {l \in journals : PortfolioOf(l) = p /\ PositionOf(l) = position}
    IN  IF portfolios[p] = 0 \/ PositionOf(portfolios[p]) # position THEN "not_found"
        ELSE IF claims = {} THEN "unavailable"
        ELSE IF Cardinality(claims) > 1 THEN "conflict" ELSE "complete"

\* The lineage of a candidate leads to the position its journal entry names.
PositionNode(l) == [portfolio |-> PortfolioOf(l), position |-> PositionOf(l)]

-----------------------------------------------------------------------------
\* Whatever a transaction stores is backed by a journal entry: the snapshot and
\* the positions of a portfolio, and every projection, although a process may stop
\* between any two statements and another record the same portfolio.
LineageSound ==
    /\ \A p \in Portfolios : portfolios[p] # 0 =>
        /\ portfolios[p] \in journals /\ PortfolioOf(portfolios[p]) = p
        /\ PositionOf(portfolios[p]) # 0 =>
            PositionDetail(p, PositionOf(portfolios[p])) \in {"complete", "conflict"}
    /\ projections \subseteq journals

\* A rebuild that no other commit falls into leaves the candidates of every
\* journal entry projected, also when earlier rebuilds lost some of them.
RebuildHeals == ~overlapped => projections = journals

\* From a projected candidate that closed a position its detail can be reached
\* (docs/v0.2/23-position-detail-lineage.md: "the Position is reached at one
\* canonical URL from the Portfolio and from the Candidate").
PositionsReachable ==
    \A l \in projections : PositionOf(l) # 0 =>
        PositionDetail(PositionNode(l).portfolio, PositionNode(l).position) # "not_found"
=============================================================================
