----------------------------- MODULE AwsTester ------------------------------
(***************************************************************************)
(* aws_setup.sh and aws_tester.py: a host sets itself up for one kind of    *)
(* AWS authentication test after the other.  The setup acquires the         *)
(* credentials (InstanceProfile for `ec2` and `web-identity`), creates the  *)
(* user and verifies that it gets in, or runs a whole test elsewhere        *)
(* (EcsServices for `ecs`), and leaves test-env.sh for the driver's tests.  *)
(***************************************************************************)
EXTENDS EcsServices, InstanceProfile

CONSTANT Kinds   (* [Hosts -> set of the tests a host is used for]         *)

VARIABLES kind,     (* [Hosts -> the test]                                 *)
          nouri,    (* [Hosts -> BOOLEAN]: --nouri                         *)
          keys,     (* [Hosts -> BOOLEAN]: AWS keys in os.environ          *)
          web,      (* [Hosts -> BOOLEAN]: AWS_WEB_IDENTITY_TOKEN_FILE and *)
                    (* AWS_ROLE_ARN in the shell                           *)
          access,   (* [Hosts -> STRING]: how the user was verified        *)
          pods,     (* [Hosts -> BOOLEAN]: a deployment on EKS             *)
          testEnv   (* [Hosts -> NoFile or what test-env.sh exports]       *)

testerVars == <<kind, nouri, keys, web, access, pods, testEnv>>
vars == <<step, faults, ecsVars, profileVars, testerVars>>

NoFile == [uri |-> FALSE, keys |-> FALSE, web |-> FALSE, there |-> FALSE]

(* What the setup functions return.                                        *)
ReturnsUser(k) == k \in {"regular", "assume-role"}
ReturnsKeys(k) == ReturnsUser(k) \/ k \in {"session-creds", "env-creds"}

TypeOK ==
    /\ EcsTypeOK /\ ProfileTypeOK
    /\ faults \in 0 .. MaxFaults
    /\ \A h \in Hosts : step[h] # "idle" => kind[h] \in Kinds[h]
    /\ nouri \in [Hosts -> BOOLEAN]
    /\ keys \in [Hosts -> BOOLEAN]
    /\ web \in [Hosts -> BOOLEAN]
    /\ access \in [Hosts -> {"none", "explicit", "keys", "web", "profile"}]
    /\ pods \in [Hosts -> BOOLEAN]
    /\ \A h \in Hosts : testEnv[h].there = (step[h] = "done")

Init ==
    /\ HostsInit /\ EcsInit /\ ProfileInit
    /\ kind = [h \in Hosts |-> "none"]
    /\ nouri = [h \in Hosts |-> FALSE]
    /\ keys = [h \in Hosts |-> FALSE]
    /\ web = [h \in Hosts |-> FALSE]
    /\ access = [h \in Hosts |-> "none"]
    /\ pods = [h \in Hosts |-> FALSE]
    /\ testEnv = [h \in Hosts |-> NoFile]

First(k) ==
    CASE k = "ecs" -> "list"
      [] k = "ec2" -> "assign"
      [] k = "web-identity" -> "unassign"
      [] k = "eks" -> "pods"
      [] k \in {"assume-role", "session-creds"} -> "assumeRole"
      [] OTHER -> "verify"

(* Mutant: the last test-env.sh stays.                                     *)
BeginKeepsTestEnv(h) ==
    /\ step[h] \in AtRest
    /\ \E k \in Kinds[h] : kind' = [kind EXCEPT ![h] = k] /\ Goto(h, First(k))
    /\ UNCHANGED <<faults, ecsVars, profileVars, nouri, keys, web, access, pods, testEnv>>

(* aws_setup.sh removes the keys of its own environment, unless for eks,    *)
(* and the test-env.sh of the last test.  For ec2 the import of             *)
(* aws_assign_instance_profile sets keys, assume-role sets them itself.     *)
(* It is sourced: what else the last test-env.sh exported is still there in *)
(* the same shell, unless a setup failed, which ends it (set -e).           *)
Begin(h) ==
    /\ step[h] \in AtRest
    /\ \E k \in Kinds[h] :
         /\ kind' = [kind EXCEPT ![h] = k]
         /\ nouri' \in {[nouri EXCEPT ![h] = b] : b \in IF ReturnsUser(k) THEN BOOLEAN ELSE {FALSE}}
         /\ keys' = [keys EXCEPT ![h] = k \in {"ec2", "eks", "assume-role", "session-creds"}]
         /\ Goto(h, First(k))
    /\ \E sameShell \in {FALSE, step[h] = "done"} :
         web' = [web EXCEPT ![h] = @ /\ sameShell]
    /\ access' = [access EXCEPT ![h] = "none"]
    /\ pods' = [pods EXCEPT ![h] = FALSE]
    /\ testEnv' = [testEnv EXCEPT ![h] = NoFile]
    /\ at' = [at EXCEPT ![h] = NoName]
    /\ passed' = [passed EXCEPT ![h] = FALSE]
    /\ sweep' = [sweep EXCEPT ![h] = {}]
    /\ retry' = [retry EXCEPT ![h] = 0]
    /\ noMetadata' = [noMetadata EXCEPT ![h] = FALSE]
    /\ UNCHANGED <<faults, status, age, assoc, imds, unfinished>>

-----------------------------------------------------------------------------
(* One call, after which the setup goes on or raises.                      *)
Call(h, from, next) ==
    /\ step[h] = from
    /\ \/ Works /\ Goto(h, next)
       \/ Fails /\ Raise(h)

AssumeRole(h) == Call(h, "assumeRole", "verify") /\ UNCHANGED <<ecsVars, profileVars, testerVars>>

(* _assume_role_with_web_identity, after the token was written.            *)
WebIdentity(h) ==
    /\ Call(h, "token", "assumeWebRole") \/ Call(h, "assumeWebRole", "verify")
    /\ UNCHANGED <<ecsVars, profileVars, testerVars>>

(* Mutant: the keys that assigned the profile stay in the environment.     *)
CreateUserWithKeys(h) ==
    /\ step[h] = "verify"
    /\ access' = [access EXCEPT ![h] = IF kind[h] # "ec2" THEN "explicit"
                                       ELSE IF keys[h] THEN "keys" ELSE "profile"]
    /\ Goto(h, "write") /\ Works
    /\ UNCHANGED <<ecsVars, profileVars, kind, nouri, keys, web, pods, testEnv>>

(* create_user: explicit credentials where the setup passes any, otherwise  *)
(* the driver looks for keys and a web identity in the environment, then at *)
(* the metadata.  setup_ec2 drops the keys first, and nothing else.  A web  *)
(* identity need not be a user of this server.                              *)
CreateUser(h) ==
    /\ step[h] = "verify"
    /\ keys' = [keys EXCEPT ![h] = @ /\ kind[h] # "ec2"]
    /\ LET way == IF kind[h] # "ec2" THEN "explicit"
                  ELSE IF keys'[h] THEN "keys"
                  ELSE IF web[h] THEN "web"
                  ELSE IF imds[h] THEN "profile" ELSE "none"
       IN \/ Works /\ way # "none" /\ Goto(h, "write") /\ access' = [access EXCEPT ![h] = way]
          \/ (Fails \/ (Works /\ way \in {"none", "web"})) /\ Raise(h) /\ UNCHANGED access
    /\ UNCHANGED <<ecsVars, profileVars, kind, nouri, web, pods, testEnv>>

(* setup_eks_pod_identity: the teardown runs in any case.                  *)
SetUpPods(h) ==
    /\ step[h] = "pods"
    /\ Works
    /\ pods' = [pods EXCEPT ![h] = TRUE]
    /\ passed' \in {[passed EXCEPT ![h] = ok] : ok \in BOOLEAN}
    /\ Goto(h, "podsDown")
    /\ UNCHANGED <<status, age, sweep, at, profileVars, kind, nouri, keys, web, access, testEnv>>

TearDownPods(h) ==
    /\ step[h] = "podsDown"
    /\ \/ /\ Works
          /\ pods' = [pods EXCEPT ![h] = FALSE]
          /\ Goto(h, IF passed[h] THEN "write" ELSE "failed")
       \/ Fails /\ Raise(h) /\ UNCHANGED pods
    /\ UNCHANGED <<ecsVars, profileVars, kind, nouri, keys, web, access, testEnv>>

Exports(h) ==
    [uri |-> ReturnsUser(kind[h]) /\ ~nouri[h],
     keys |-> ReturnsKeys(kind[h]) /\ (nouri[h] \/ ~ReturnsUser(kind[h])),
     web |-> kind[h] = "web-identity",
     there |-> TRUE]

(* handle_creds, and aws_setup.sh sources what was written.                *)
WriteTestEnv(h) ==
    /\ step[h] = "write"
    /\ Works
    /\ testEnv' = [testEnv EXCEPT ![h] = Exports(h)]
    /\ web' = [web EXCEPT ![h] = @ \/ Exports(h).web]
    /\ Goto(h, "done")
    /\ UNCHANGED <<ecsVars, profileVars, kind, nouri, keys, access, pods>>

(* The task is aborted; nothing in it runs any more.                       *)
Kill(h) ==
    /\ step[h] \notin AtRest
    /\ Fails /\ Raise(h)
    /\ UNCHANGED <<ecsVars, profileVars, testerVars>>

Setup(h) ==
    \/ (EcsStep(h) /\ UNCHANGED <<profileVars, testerVars>>)
    \/ ProfileStep(h) /\ UNCHANGED <<ecsVars, testerVars>>
    \/ AssumeRole(h) \/ WebIdentity(h) \/ CreateUser(h)
    \/ SetUpPods(h) \/ TearDownPods(h) \/ WriteTestEnv(h)

Next ==
    \/ \E h \in Hosts : Begin(h) \/ Setup(h) \/ Kill(h)
    \/ \E h \in Hosts : MetadataFollows(h) /\ UNCHANGED <<ecsVars, testerVars>>
    \/ ClusterStep /\ UNCHANGED <<profileVars, testerVars>>

Spec == Init /\ [][Next]_vars

(* Every program goes on and the services age and drain.  Tests are started *)
(* again and again, which is what the collection relies on.                 *)
Fairness ==
    /\ \A h \in Hosts : WF_vars(Begin(h) \/ Setup(h))
    /\ \A s \in Names : WF_vars(Drained(s) /\ UNCHANGED <<profileVars, testerVars>>)
    /\ WF_vars(Tick /\ UNCHANGED <<profileVars, testerVars>>)

FairSpec == Spec /\ Fairness

-----------------------------------------------------------------------------
(* A setup that succeeded verified the access its name says, and the tests  *)
(* that source test-env.sh have no other way in: the profile for ec2, the   *)
(* uri or the environment but not both, and for web identity no profile     *)
(* behind its back.  There are two exceptions: after a web-identity test in *)
(* the same shell, whose variables nothing unsets, ec2 verified the web     *)
(* identity instead of the profile; and a profile may be there for web      *)
(* identity if the metadata could not be asked.                             *)
VerifiedAsNamed ==
    \A h \in Hosts : testEnv[h].there =>
        /\ kind[h] = "ec2" => /\ access[h] = IF web[h] THEN "web" ELSE "profile"
                             /\ ~testEnv[h].uri /\ ~testEnv[h].keys
        /\ ReturnsKeys(kind[h]) => testEnv[h].uri # testEnv[h].keys
        /\ kind[h] = "web-identity" => access[h] = "explicit" /\ (~imds[h] \/ noMetadata[h])

(* The profile an ec2 test runs with is there to stay: what _has_instance_  *)
(* profile saw was not the last echo of one that was taken away, except     *)
(* after an unassignment whose wait was cut short.                          *)
ProfileOutlastsSetup ==
    \A h \in Hosts : testEnv[h].there /\ kind[h] = "ec2" => assoc[h] \/ unfinished[h]

(* Whatever a test in a container or in pods says, its service or pods are  *)
(* gone when the setup ends, unless a call fails or the tester is killed.   *)
AssetsReleased ==
    [][\A h \in Hosts :
         /\ step[h] \in {"testing", "stop", "stopping", "podsDown"}
         /\ step'[h] \in AtRest \cup {"write"}
         /\ faults' = faults
         => (at[h] # NoName => status'[at[h]] # "active") /\ ~pods'[h]]_vars
=============================================================================
