----------------------------- MODULE MCStoredData ----------------------------
(***************************************************************************)
(* Small instances for TLC of what is done to data that is already stored: *)
(* the purge of the market-data tables, and the migration of a database    *)
(* that holds rows of every release.  A behaviour is one of the two,       *)
(* chosen with the initial state.                                          *)
(***************************************************************************)
EXTENDS MarketDataRetention, TLC

CONSTANT Part

VARIABLES part, revision, schema, stored

Migrations == INSTANCE SchemaMigrations WITH rows <- stored

Symmetry == Permutations(Events)

StoredInit == part \in Part /\ RetentionInit /\ Migrations!Init

StoredNext ==
    /\ UNCHANGED part
    /\ \/ part = "retention" /\ RetentionNext /\ UNCHANGED <<revision, schema, stored>>
       \/ part = "migration" /\ Migrations!Next /\ UNCHANGED retentionVars

StoredSpec == StoredInit /\ [][StoredNext]_<<part, retentionVars, revision, schema, stored>>

-----------------------------------------------------------------------------
\* SchemaMigrations: at the head the schema is the one models.py declares, and
\* every reference leads to a key.
SchemaMatchesModels == Migrations!SchemaMatchesModels

\* SchemaMigrations: no stored data keeps a database from being upgraded, and
\* only candidates with the new exit reasons keep it from being downgraded.
OnlyExitReasonsBlock == part = "migration" => Migrations!OnlyExitReasonsBlock

\* SchemaMigrations: what the code takes for granted of old rows holds after
\* any way up and down the chain.
BackfillsHold == Migrations!BackfillsHold
=============================================================================
