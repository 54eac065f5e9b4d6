-------------------------- MODULE MCMigrationBatch --------------------------
(* Model-checking instance of MigrationBatch.                              *)
EXTENDS MigrationBatch
=============================================================================
