---------------------------- MODULE MCWorkspaces ----------------------------
(* Corpus: a job whose answer waits, a tip lookup and the scan it starts, or *)
(* any other three jobs.  Build and mine: a job that ends while the report   *)
(* of the one before it waits, and one after both.  Mix: four chains, one    *)
(* being edited, two older pins and one that is open.                        *)
EXTENDS Workspaces
==============================================================================
