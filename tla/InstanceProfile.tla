-------------------------- MODULE InstanceProfile ---------------------------
(***************************************************************************)
(* aws_assign_instance_profile.py and aws_unassign_instance_profile.py: a   *)
(* host associates or disassociates its instance profile through the EC2    *)
(* API and then polls the instance metadata (imds_get), which follows the   *)
(* association some time later, until it agrees.                            *)
(***************************************************************************)
EXTENDS AwsHosts

CONSTANT Polls   (* `retry`: 60 in the code                                *)

ASSUME PollsOK == Polls \in Nat \ {0}

VARIABLES assoc,      (* [Hosts -> BOOLEAN]: EC2 has an association        *)
          imds,       (* [Hosts -> BOOLEAN]: the metadata shows the role   *)
          retry,      (* [Hosts -> 0 .. Polls]                             *)
          unfinished, (* [Hosts -> BOOLEAN]: history, the last change was  *)
                      (* not awaited to its end                            *)
          noMetadata  (* [Hosts -> BOOLEAN]: unassign gave up at once      *)

profileVars == <<assoc, imds, retry, unfinished, noMetadata>>

ProfileTypeOK ==
    /\ assoc \in [Hosts -> BOOLEAN]
    /\ imds \in [Hosts -> BOOLEAN]
    /\ retry \in [Hosts -> 0 .. Polls]
    /\ unfinished \in [Hosts -> BOOLEAN]
    /\ noMetadata \in [Hosts -> BOOLEAN]

ProfileInit ==
    /\ assoc = [h \in Hosts |-> FALSE]
    /\ imds = assoc
    /\ retry = [h \in Hosts |-> 0]
    /\ unfinished = [h \in Hosts |-> FALSE]
    /\ noMetadata = [h \in Hosts |-> FALSE]

(* imds_get fails for want of a token or with any error but 404: it raises, *)
(* so that it does not look like a host without a profile.                  *)
MetadataFails(h) == Fails /\ Raise(h)

-----------------------------------------------------------------------------
(* _assign_instance_policy.                                                *)

Assign(h) ==
    /\ step[h] = "assign"
    /\ \/ Works /\ Goto(h, IF imds[h] THEN "verify" ELSE "associate")
       \/ MetadataFails(h)
    /\ UNCHANGED profileVars

(* EC2 allows one association per instance; RequestLimitExceeded and every  *)
(* other error end the tester.                                              *)
Associate(h) ==
    /\ step[h] = "associate"
    /\ \/ /\ Works /\ ~assoc[h]
          /\ assoc' = [assoc EXCEPT ![h] = TRUE]
          /\ retry' = [retry EXCEPT ![h] = Polls]
          /\ unfinished' = [unfinished EXCEPT ![h] = TRUE]
          /\ Goto(h, "waitProfile")
       \/ /\ Fails \/ (Works /\ assoc[h])
          /\ Raise(h)
          /\ UNCHANGED <<assoc, retry, unfinished>>
    /\ UNCHANGED <<imds, noMetadata>>

(* while has # want and retry: sleep, retry -= 1; then retry = 0 raises.   *)
Poll(h, want, next) ==
    \/ /\ Works
       /\ \/ /\ imds[h] # want /\ retry[h] > 0
             /\ retry' = [retry EXCEPT ![h] = @ - 1]
             /\ UNCHANGED <<step, unfinished>>
          \/ /\ imds[h] = want \/ retry[h] = 0
             /\ unfinished' = [unfinished EXCEPT ![h] = retry[h] = 0]
             /\ Goto(h, IF retry[h] = 0 THEN "failed" ELSE next)
             /\ UNCHANGED retry
    \/ MetadataFails(h) /\ UNCHANGED <<retry, unfinished>>

WaitProfile(h) ==
    /\ step[h] = "waitProfile"
    /\ Poll(h, TRUE, "verify")
    /\ UNCHANGED <<assoc, imds, noMetadata>>

-----------------------------------------------------------------------------
(* _unassign_instance_policy.                                              *)

(* Without an answer the host is taken for one outside EC2: exit code 0.   *)
LocateInstance(h) ==
    /\ step[h] = "unassign"
    /\ \/ Works /\ Goto(h, "describeProfile") /\ noMetadata' = [noMetadata EXCEPT ![h] = FALSE]
       \/ Fails /\ Goto(h, "token") /\ noMetadata' = [noMetadata EXCEPT ![h] = TRUE]
    /\ UNCHANGED <<assoc, imds, retry, unfinished>>

Disassociate(h) ==
    /\ step[h] = "describeProfile"
    /\ \/ /\ Works
          /\ assoc' = [assoc EXCEPT ![h] = FALSE]
          /\ retry' = [retry EXCEPT ![h] = Polls]
          /\ unfinished' = [unfinished EXCEPT ![h] = TRUE]
          /\ Goto(h, "waitNoProfile")
       \/ Fails /\ Raise(h) /\ UNCHANGED <<assoc, retry, unfinished>>
    /\ UNCHANGED <<imds, noMetadata>>

(* Mutant: does not wait for the metadata.                                 *)
WaitNoProfileSkipped(h) ==
    /\ step[h] = "waitNoProfile"
    /\ unfinished' = [unfinished EXCEPT ![h] = FALSE]
    /\ Goto(h, "token") /\ Works
    /\ UNCHANGED <<assoc, imds, retry, noMetadata>>

WaitNoProfile(h) ==
    /\ step[h] = "waitNoProfile"
    /\ Poll(h, FALSE, "token")
    /\ UNCHANGED <<assoc, imds, noMetadata>>

ProfileStep(h) ==
    \/ Assign(h) \/ Associate(h) \/ WaitProfile(h)
    \/ LocateInstance(h) \/ Disassociate(h) \/ WaitNoProfile(h)

(* The metadata service catches up.                                        *)
MetadataFollows(h) ==
    /\ imds[h] # assoc[h]
    /\ imds' = [imds EXCEPT ![h] = assoc[h]]
    /\ UNCHANGED <<step, faults, assoc, retry, unfinished, noMetadata>>
=============================================================================
