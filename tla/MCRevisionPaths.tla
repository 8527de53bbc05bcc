---------------------------- MODULE MCRevisionPaths ----------------------------
(* The instance of MCMigrations, beside the points that alembic can reach: TLC *)
(* evaluates what RevisionPaths assumes of the 25 revisions.                   *)
EXTENDS MCMigrations, RevisionPaths
=============================================================================
