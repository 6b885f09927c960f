---------------------------- MODULE MCRunnerPool ----------------------------
(* Small instances of RunnerPool for TLC.                                    *)
EXTENDS RunnerPool

OneDatabase  == <<"default">>
TwoDatabases == <<"default", "task_processor">>
=============================================================================
