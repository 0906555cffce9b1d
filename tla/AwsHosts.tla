------------------------------ MODULE AwsHosts ------------------------------
(***************************************************************************)
(* What the parts of the AWS authentication tests share: hosts, each with   *)
(* at most one aws_tester.py at work, and calls that may fail.  A step that *)
(* raises ends the tester of its host; nothing is retried.                  *)
(***************************************************************************)
EXTENDS Integers

CONSTANTS Hosts,
          MaxFaults    (* bound: failing calls and killed testers          *)

ASSUME FaultsBounded == MaxFaults \in Nat

VARIABLES step,    (* [Hosts -> STRING]: where the tester of a host is     *)
          faults   (* the faults so far                                    *)

AtRest == {"idle", "done", "failed"}

Goto(h, s) == step' = [step EXCEPT ![h] = s]
Raise(h) == Goto(h, "failed")

Works == faults' = faults
Fails == faults < MaxFaults /\ faults' = faults + 1

HostsInit == step = [h \in Hosts |-> "idle"] /\ faults = 0
=============================================================================
