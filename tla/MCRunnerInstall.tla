-------------------------- MODULE MCRunnerInstall --------------------------
(* Two servers to wrap and one version directory beside the default.        *)
EXTENDS RunnerInstall
=============================================================================
