-------------------------- MODULE MCLiveMigration --------------------------
(* Live migrations of one instance between two hosts, for TLC.             *)
EXTENDS LiveMigration

CONSTANTS a, b
=============================================================================
