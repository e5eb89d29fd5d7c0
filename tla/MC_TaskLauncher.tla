---------------------------- MODULE MC_TaskLauncher ----------------------------
(* Small instances of TaskLauncher: one job over several calls, or two jobs *)
(* in one call.                                                              *)
EXTENDS TaskLauncher

CONSTANTS j1, j2

OneJob == {j1}
TwoJobs == {j1, j2}
=============================================================================
