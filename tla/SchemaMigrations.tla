--------------------------- MODULE SchemaMigrations ---------------------------
(***************************************************************************)
(* A database that is moved up and down the chain of revisions while it      *)
(* holds data.  A step is one revision, in a transaction of its own; a       *)
(* command over several revisions runs them in one transaction               *)
(* (alembic/env.py), so what it can commit is what single steps can, and     *)
(* where a single step is refused it leaves the database as it was.          *)
(*                                                                           *)
(* Of the data only the rows are kept that some revision has to convert,     *)
(* create or check: "rows" is a set of table and kind.  A kind stands for    *)
(* all rows of its sort.                                                     *)
(***************************************************************************)
EXTENDS SchemaModels, SequencesExt

VARIABLES revision,  \* how many revisions are applied
          schema,    \* table name -> Table(...)
          rows       \* the kinds of rows stored

vars == <<revision, schema, rows>>

Row(table, kind) == [table |-> table, kind |-> kind]

\* A row and the form of its table that its columns and values need.
Needs ==
    Row("candidate_journals", "target exit") :> {} @@
    Row("candidate_journals", "trend exit") :> {"extended exit reasons"} @@
    Row("candidate_projections", "target exit") :> {} @@
    Row("candidate_projections", "trend exit") :> {"extended exit reasons"} @@
    Row("candidate_projections", "skipped") :> {"skipped rows"} @@
    Row("market_data_imports", "succeeded") :> {} @@
    Row("market_data_imports", "first version") :> {"lineage"} @@
    Row("market_data_imports", "later version") :> {"lineage"} @@
    Row("market_data_connections", "unhealthy") :> {} @@
    Row("market_data_connections", "unhealthy with code") :> {"error codes"} @@
    Row("market_data_retention_control", "control") :> {} @@
    Row("alerts", "published") :> {} @@
    Row("alert_inbox_states", "unread") :> {} @@
    Row("alert_inbox_states", "acknowledged") :> {}

Rows == DOMAIN Needs

\* The rows a form no longer admits: revision 15 makes the code of an unhealthy connection
\* mandatory.
Refused(row, table) ==
    row = Row("market_data_connections", "unhealthy") /\ "error codes" \in table.form

Admits(db, row) ==
    /\ row.table \in DOMAIN db
    /\ Needs[row] \subseteq db[row.table].form
    /\ ~Refused(row, db[row.table])

TypeOK ==
    /\ revision \in 0..HeadRevision
    /\ rows \subseteq Rows
    /\ \A name \in DOMAIN schema : DOMAIN schema[name] = {"keys", "refs", "checks", "form"}

-----------------------------------------------------------------------------
\* The statements of a revision, each refused by the database where it cannot be executed.

Resolves(db, table) ==
    \A ref \in table.refs : ref.table \in DOMAIN db /\ ref.columns \in db[ref.table].keys

Allowed(db, step) ==
    CASE step.op = "create" -> /\ DOMAIN step.table \cap DOMAIN db = {}
                               /\ \A name \in DOMAIN step.table : Resolves(db, step.table[name])
      [] step.op = "drop"   -> /\ step.name \in DOMAIN db
                               /\ \A other \in DOMAIN db \ {step.name} :
                                     \A ref \in db[other].refs : ref.table # step.name
      [] step.op = "alter"  -> /\ step.name \in DOMAIN db
                               /\ step.from \subseteq db[step.name][step.field]

Executed(db, step) ==
    CASE step.op = "create" -> step.table @@ db
      [] step.op = "drop"   -> [name \in DOMAIN db \ {step.name} |-> db[name]]
      [] step.op = "alter"  ->
            [db EXCEPT ![step.name][step.field] = (@ \ step.from) \cup step.to]

\* The schema after the first n statements of a script.
RECURSIVE After(_, _, _)
After(db, script, n) == IF n = 0 THEN db ELSE Executed(After(db, script, n - 1), script[n])

Runs(db, script) == \A n \in DOMAIN script : Allowed(After(db, script, n - 1), script[n])

-----------------------------------------------------------------------------
\* What the revisions do to rows.

Replaced(table, from, to, data) ==
    IF Row(table, from) \in data THEN (data \ {Row(table, from)}) \cup {Row(table, to)} ELSE data

\* 13 makes every succeeded import the root of its own lineage.
RootedImports(data) == Replaced("market_data_imports", "succeeded", "first version", data)

\* 15 gives unhealthy connections the general code.
CodedConnections(data) ==
    Replaced("market_data_connections", "unhealthy", "unhealthy with code", data)

\* 24 inserts the control row.
WithControl(data) == data \cup {Row("market_data_retention_control", "control")}

\* Mutant of WithInbox: the inbox states of old alerts are not inserted.
WithInboxForgotten(data) == data

\* 27 inserts an inbox state for every alert.
WithInbox(data) ==
    IF Row("alerts", "published") \in data
    THEN data \cup {Row("alert_inbox_states", "unread")} ELSE data

Backfilled(r, data) ==
    CASE r = 13 -> RootedImports(data)
      [] r = 15 -> CodedConnections(data)
      [] r = 24 -> WithControl(data)
      [] r = 27 -> WithInbox(data)
      [] OTHER  -> data

\* Back across 13 and 15 the added columns are dropped; across 10 the rows of skipped
\* candidates are deleted first.
DroppedLineage(data) ==
    Replaced("market_data_imports", "later version", "succeeded",
             Replaced("market_data_imports", "first version", "succeeded", data))

DroppedCodes(data) ==
    Replaced("market_data_connections", "unhealthy with code", "unhealthy", data)

WithoutSkipped(data) == data \ {Row("candidate_projections", "skipped")}

Reduced(r, data) ==
    CASE r = 13 -> DroppedLineage(data)
      [] r = 15 -> DroppedCodes(data)
      [] r = 10 -> WithoutSkipped(data)
      [] OTHER  -> data

\* The rows of dropped tables go with them.
Stored(db, data) == {row \in data : row.table \in DOMAIN db}

-----------------------------------------------------------------------------
Init ==
    /\ revision = 0
    /\ schema = <<>>
    /\ rows = {}

UpScript == Revisions[revision + 1].up
DownScript == Revisions[revision].down

\* A check that is put on a table is validated against the rows the table holds.
CanUpgrade ==
    /\ revision < HeadRevision
    /\ Runs(schema, UpScript)
    /\ LET db == After(schema, UpScript, Len(UpScript))
       IN \A row \in Backfilled(revision + 1, rows) : Admits(db, row)

Upgrade ==
    /\ CanUpgrade
    /\ schema' = After(schema, UpScript, Len(UpScript))
    /\ rows' = Backfilled(revision + 1, rows)
    /\ revision' = revision + 1

CanDowngrade ==
    /\ revision > 0
    /\ Runs(schema, DownScript)
    /\ LET db == After(schema, DownScript, Len(DownScript))
       IN \A row \in Stored(db, Reduced(revision, rows)) : Admits(db, row)

Downgrade ==
    /\ CanDowngrade
    /\ schema' = After(schema, DownScript, Len(DownScript))
    /\ rows' = Stored(schema', Reduced(revision, rows))
    /\ revision' = revision - 1

\* The release that goes with a revision stores a row.  From revision 13 on every succeeded
\* import has its lineage; an alert is stored together with its inbox state from 27 on.
AppWrites(row) ==
    /\ row.table \notin {"market_data_retention_control", "alert_inbox_states"}
    /\ row = Row("market_data_imports", "succeeded") =>
           "lineage" \notin schema["market_data_imports"].form

Store(row) ==
    /\ row \notin rows
    /\ Admits(schema, row)
    /\ AppWrites(row)
    /\ rows' = IF row.table = "alerts" /\ "alert_inbox_states" \in DOMAIN schema
               THEN rows \cup {row, Row("alert_inbox_states", "unread")} ELSE rows \cup {row}
    /\ UNCHANGED <<revision, schema>>

Acknowledge ==
    /\ Row("alert_inbox_states", "unread") \in rows
    /\ rows' = Replaced("alert_inbox_states", "unread", "acknowledged", rows)
    /\ UNCHANGED <<revision, schema>>

Next ==
    \/ Upgrade
    \/ Downgrade
    \/ \E row \in Rows : Store(row)
    \/ Acknowledge

Spec == Init /\ [][Next]_vars

-----------------------------------------------------------------------------
(* Properties *)

\* Wherever the database has been on the chain, at the head it has exactly the tables, keys,
\* references and checks that the mapped classes of models.py declare, and at every revision
\* each reference leads to a unique key of a table that is there.
SchemaMatchesModels ==
    /\ revision = HeadRevision => schema = ModelSchema
    /\ \A name \in DOMAIN schema : Resolves(schema, schema[name])

\* No data that a release can have stored keeps a database from being upgraded, also after it
\* was downgraded; and the one thing that keeps it from being downgraded is a candidate that
\* left by one of the exit reasons revision 9 added, for which it has no conversion.
OnlyExitReasonsBlock ==
    /\ revision < HeadRevision => CanUpgrade
    /\ revision > 0 /\ ~CanDowngrade =>
          /\ revision = 9
          /\ \E row \in rows : row.kind = "trend exit"

\* What the code takes for granted of old data holds after any way up and down the chain: the
\* retention control row exists (market_data_retention.py locks it), an alert has an inbox
\* state, a succeeded import has a lineage and an unhealthy connection a code.
BackfillsHold ==
    /\ revision >= 24 => Row("market_data_retention_control", "control") \in rows
    /\ revision >= 27 /\ Row("alerts", "published") \in rows =>
           \E row \in rows : row.table = "alert_inbox_states"
    /\ revision >= 13 => Row("market_data_imports", "succeeded") \notin rows
    /\ revision >= 15 => Row("market_data_connections", "unhealthy") \notin rows
===============================================================================
