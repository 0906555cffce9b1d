-------------------------- MODULE AwsTesterProofs ---------------------------
(***************************************************************************)
(* Theorems about the AWS authentication tests, for any hosts, services,    *)
(* kinds of test, threshold and number of faults: the collection of one     *)
(* host leaves the tests of the others alone, a setup that succeeds has     *)
(* verified what its name says, and what it started is gone when it ends.   *)
(***************************************************************************)
EXTENDS AwsTester, TLAPS

(* The steps by the kind of test that takes them.                          *)
EcsSteps == {"list", "describe", "sweep", "swept", "create", "stabilize", "locate", "testing",
             "stop", "stopping"}
Ec2Steps == {"assign", "associate", "waitProfile"}
WebSteps == {"unassign", "describeProfile", "waitNoProfile", "token", "assumeWebRole"}
PodSteps == {"pods", "podsDown"}
Steps == AtRest \cup EcsSteps \cup Ec2Steps \cup WebSteps \cup PodSteps
            \cup {"assumeRole", "verify", "write"}

(* From where a service is created until its host forgets it.              *)
OwnSteps == {"stabilize", "locate", "testing", "stop", "stopping"}

(* A host takes the steps of its kind; only pods that are set up are there. *)
KindInv ==
    /\ step \in [Hosts -> Steps]
    /\ kind \in [Hosts -> (UNION {Kinds[h] : h \in Hosts}) \cup {"none"}]
    /\ \A h \in Hosts :
        /\ step[h] \in EcsSteps => kind[h] = "ecs"
        /\ step[h] \in Ec2Steps => kind[h] = "ec2"
        /\ step[h] \in WebSteps => kind[h] = "web-identity"
        /\ step[h] \in PodSteps => kind[h] = "eks" /\ at[h] = NoName
        /\ step[h] = "assumeRole" => kind[h] \in {"assume-role", "session-creds"}
        /\ pods[h] => step[h] \in AtRest \cup {"podsDown"}

(* What is about to be deleted has expired, and stays so: its name is not   *)
(* given to a new service before.                                          *)
SweepInv == \A h \in Hosts : step[h] \in {"sweep", "swept"} => \A s \in sweep[h] : Expired(s)

(* A service has one owner.                                                *)
OwnerInv ==
    /\ \A h \in Hosts : step[h] \in OwnSteps => at[h] \in Names
    /\ \A h, g \in Hosts : step[h] \in OwnSteps /\ step[g] \in OwnSteps /\ at[h] = at[g] => h = g

(* The metadata lags behind EC2 only while a change has not been awaited.   *)
ProfileOf(h) ==
    /\ imds[h] /\ ~assoc[h] => unfinished[h]
    /\ step[h] = "waitProfile" => assoc[h]
    /\ step[h] = "waitNoProfile" => ~assoc[h]
    /\ kind[h] = "ec2" /\ step[h] \in {"verify", "write", "done"} => assoc[h] \/ unfinished[h]
    /\ /\ kind[h] = "web-identity"
       /\ step[h] \in {"token", "assumeWebRole", "verify", "write", "done"}
       => noMetadata[h] \/ (~imds[h] /\ ~assoc[h])
ProfileInv == \A h \in Hosts : ProfileOf(h)

(* How the user was verified before the file is written.                   *)
AccessOf(h) ==
    step[h] \in {"write", "done"} =>
        /\ kind[h] = "ec2" => access[h] = IF web[h] THEN "web" ELSE "profile"
        /\ kind[h] = "web-identity" => access[h] = "explicit"
AccessInv == \A h \in Hosts : AccessOf(h)

(* test-env.sh is there after a setup that succeeded, with what it exports. *)
FileInv == testEnv = [h \in Hosts |-> IF step[h] = "done" THEN Exports(h) ELSE NoFile]

IInv ==
    /\ TypeOK /\ KindInv
    /\ SweepInv /\ OwnerInv /\ InUseNotCollected
    /\ ProfileInv /\ AccessInv /\ FileInv

-----------------------------------------------------------------------------
(* What the testers of the hosts do, and what happens beside them.         *)
LEMMA Actors ==
    ASSUME Next
    PROVE  \/ \E h \in Hosts : Begin(h)
           \/ \E h \in Hosts : EcsStep(h) /\ UNCHANGED <<profileVars, testerVars>>
           \/ \E h \in Hosts : ProfileStep(h) /\ UNCHANGED <<ecsVars, testerVars>>
           \/ \E h \in Hosts : AssumeRole(h) \/ WebIdentity(h) \/ CreateUser(h)
           \/ \E h \in Hosts : SetUpPods(h) \/ TearDownPods(h) \/ WriteTestEnv(h)
           \/ \E h \in Hosts : Kill(h)
           \/ \E h \in Hosts : MetadataFollows(h) /\ UNCHANGED <<ecsVars, testerVars>>
           \/ ClusterStep /\ UNCHANGED <<profileVars, testerVars>>
BY DEF Next, Setup

(* A tester changes nothing of another host.                               *)
LEMMA OthersKeep ==
    ASSUME TypeOK, KindInv, NEW h \in Hosts, NEW g \in Hosts, g # h,
           Begin(h) \/ Setup(h) \/ Kill(h)
    PROVE  /\ step'[g] = step[g] /\ kind'[g] = kind[g] /\ nouri'[g] = nouri[g]
           /\ at'[g] = at[g] /\ sweep'[g] = sweep[g] /\ passed'[g] = passed[g]
           /\ pods'[g] = pods[g] /\ access'[g] = access[g] /\ web'[g] = web[g]
           /\ assoc'[g] = assoc[g] /\ imds'[g] = imds[g]
           /\ unfinished'[g] = unfinished[g] /\ noMetadata'[g] = noMetadata[g]
<1> USE DEF TypeOK, KindInv, EcsTypeOK, ProfileTypeOK, Goto, Raise, Works, Fails, ecsVars,
            profileVars, testerVars
<1>1. CASE Begin(h)
  <2>1. nouri'[g] = nouri[g]
    <3>1. PICK k : nouri' \in {[nouri EXCEPT ![h] = b] :
                                  b \in IF ReturnsUser(k) THEN BOOLEAN ELSE {FALSE}}
        BY <1>1, Zenon DEF Begin
    <3>2. PICK b : nouri' = [nouri EXCEPT ![h] = b]
        BY <3>1
    <3> QED
        BY <3>2
  <2>2. PICK k : kind' = [kind EXCEPT ![h] = k] /\ step' = [step EXCEPT ![h] = First(k)]
      BY <1>1, Zenon DEF Begin
  <2>3. /\ at' = [at EXCEPT ![h] = NoName] /\ sweep' = [sweep EXCEPT ![h] = {}]
        /\ passed' = [passed EXCEPT ![h] = FALSE] /\ pods' = [pods EXCEPT ![h] = FALSE]
        /\ access' = [access EXCEPT ![h] = "none"]
        /\ noMetadata' = [noMetadata EXCEPT ![h] = FALSE]
        /\ UNCHANGED <<assoc, imds, unfinished>>
      BY <1>1, Zenon DEF Begin
  <2>4. PICK s : web' = [web EXCEPT ![h] = web[h] /\ s]
      BY <1>1, Zenon DEF Begin
  <2>5. web'[g] = web[g]
      BY <2>4
  <2> QED
      BY <2>1, <2>2, <2>3, <2>5
<1>2. CASE EcsStep(h) /\ UNCHANGED <<profileVars, testerVars>>
    BY <1>2 DEF EcsStep, ListServices, DescribeServices, Describe, Sweep, DeleteService,
       AwaitInactive, CreateService, AwaitStable, Locate, RunTest, StopContainer
<1>3. CASE ProfileStep(h) /\ UNCHANGED <<ecsVars, testerVars>>
    BY ZenonT(30), <1>3 DEF ProfileStep, Assign, Associate, WaitProfile, LocateInstance, Disassociate,
       WaitNoProfile, Poll, MetadataFails
<1>4. CASE AssumeRole(h) \/ WebIdentity(h) \/ CreateUser(h)
    BY <1>4 DEF AssumeRole, WebIdentity, CreateUser, Call
<1>5. CASE SetUpPods(h) \/ TearDownPods(h) \/ WriteTestEnv(h) \/ Kill(h)
    BY <1>5 DEF SetUpPods, TearDownPods, WriteTestEnv, Kill
<1> QED
    BY <1>1, <1>2, <1>3, <1>4, <1>5 DEF Setup

(* The steps from which a tester reaches each of its steps, and whose they  *)
(* are.                                                                    *)
LEMMA KindStep ==
    ASSUME TypeOK, KindInv, Next
    PROVE  KindInv'
<1> USE DEF TypeOK, KindInv, EcsTypeOK, Goto, Raise, Works, Fails, ecsVars,
            profileVars, testerVars, Steps, AtRest, EcsSteps, Ec2Steps, WebSteps, PodSteps
<1>1. ASSUME NEW h \in Hosts, Begin(h) PROVE KindInv'
  <2>1. PICK k \in Kinds[h] :
          /\ kind' = [kind EXCEPT ![h] = k] /\ step' = [step EXCEPT ![h] = First(k)]
          /\ at' = [at EXCEPT ![h] = NoName] /\ pods' = [pods EXCEPT ![h] = FALSE]
      BY <1>1 DEF Begin
  <2>2. /\ First(k) \in Steps
        /\ First(k) \in EcsSteps => k = "ecs"
        /\ First(k) \in Ec2Steps => k = "ec2"
        /\ First(k) \in WebSteps => k = "web-identity"
        /\ First(k) \in PodSteps => k = "eks"
        /\ First(k) = "assumeRole" => k \in {"assume-role", "session-creds"}
      BY DEF First
  <2>3. /\ step' \in [Hosts -> Steps]
        /\ kind' \in [Hosts -> (UNION {Kinds[g] : g \in Hosts}) \cup {"none"}]
      BY <2>1, <2>2
  <2>4. ~pods'[h] /\ kind'[h] = k /\ at'[h] = NoName /\ step'[h] = First(k)
      BY <2>1
  <2> QED
      BY <1>1, <2>2, <2>3, <2>4, OthersKeep
<1>2. ASSUME NEW h \in Hosts, EcsStep(h), UNCHANGED <<profileVars, testerVars>> PROVE KindInv'
  <2>1. step' \in [Hosts -> Steps]
      BY <1>2 DEF EcsStep, ListServices, DescribeServices, Describe, Sweep, DeleteService,
         AwaitInactive, CreateService, AwaitStable, Locate, RunTest, StopContainer
  <2>2. step[h] \in EcsSteps /\ step'[h] \in EcsSteps \cup {"failed", "write"}
      BY <1>2 DEF EcsStep, ListServices, DescribeServices, Describe, Sweep, DeleteService,
         AwaitInactive, CreateService, AwaitStable, Locate, RunTest, StopContainer
  <2> QED
      BY <1>2, <2>1, <2>2, OthersKeep DEF Setup
<1>3. ASSUME NEW h \in Hosts, ProfileStep(h), UNCHANGED <<ecsVars, testerVars>> PROVE KindInv'
  <2>1. step' \in [Hosts -> Steps]
    <3>1. CASE Assign(h) \/ Associate(h) \/ LocateInstance(h) \/ Disassociate(h)
        BY <3>1 DEF Assign, Associate, LocateInstance, Disassociate, MetadataFails
    <3>2. CASE WaitProfile(h) \/ WaitNoProfile(h)
      <4>1. \/ UNCHANGED step
            \/ \E s \in {"failed", "verify", "token"} : step' = [step EXCEPT ![h] = s]
          BY <3>2, Zenon DEF WaitProfile, WaitNoProfile, Poll, MetadataFails
      <4> QED
          BY <4>1
    <3> QED
        BY <1>3, <3>1, <3>2 DEF ProfileStep
  <2>2. \/ step[h] \in Ec2Steps /\ step'[h] \in Ec2Steps \cup {"failed", "verify"}
        \/ step[h] \in WebSteps /\ step'[h] \in WebSteps \cup {"failed"}
      BY <1>3 DEF ProfileStep, Assign, Associate, WaitProfile, LocateInstance, Disassociate,
         WaitNoProfile, Poll, MetadataFails
  <2> QED
      BY <1>3, <2>1, <2>2, OthersKeep DEF Setup
<1>4. ASSUME NEW h \in Hosts, AssumeRole(h) \/ WebIdentity(h) \/ CreateUser(h) PROVE KindInv'
    BY <1>4 DEF AssumeRole, WebIdentity, CreateUser, Call
<1>5. ASSUME NEW h \in Hosts, SetUpPods(h) \/ TearDownPods(h) \/ WriteTestEnv(h) \/ Kill(h)
      PROVE  KindInv'
    BY <1>5 DEF SetUpPods, TearDownPods, WriteTestEnv, Kill
<1>6. CASE ClusterStep /\ UNCHANGED <<profileVars, testerVars>>
    BY <1>6 DEF ClusterStep, Tick, Drained
<1>7. ASSUME NEW h \in Hosts, MetadataFollows(h) /\ UNCHANGED <<ecsVars, testerVars>>
      PROVE  KindInv'
    BY <1>7 DEF MetadataFollows
<1> QED
    BY <1>1, <1>2, <1>3, <1>4, <1>5, <1>6, <1>7, Actors

(* Only a new test removes test-env.sh, and only the setup writes it.      *)
LEMMA FileFrame ==
    ASSUME TypeOK, KindInv, Next
    PROVE  \/ \E h \in Hosts : Begin(h) \/ WriteTestEnv(h)
           \/ /\ UNCHANGED <<kind, nouri, testEnv>>
              /\ \A h \in Hosts : step'[h] = "done" <=> step[h] = "done"
<1> USE DEF KindInv, Goto, Raise, AtRest
<1>1. ASSUME NEW h \in Hosts, EcsStep(h), UNCHANGED <<profileVars, testerVars>>
      PROVE  step[h] # "done" /\ step'[h] # "done"
    BY <1>1 DEF EcsStep, ListServices, DescribeServices, Describe, Sweep, DeleteService,
       AwaitInactive, CreateService, AwaitStable, Locate, RunTest, StopContainer
<1>2. ASSUME NEW h \in Hosts, ProfileStep(h), UNCHANGED <<ecsVars, testerVars>>
      PROVE  step[h] # "done" /\ step'[h] # "done"
    BY <1>2 DEF ProfileStep, Assign, Associate, WaitProfile, LocateInstance, Disassociate,
       WaitNoProfile, Poll, MetadataFails
<1>3. ASSUME NEW h \in Hosts, AssumeRole(h) \/ WebIdentity(h) \/ CreateUser(h)
      PROVE  step[h] # "done" /\ step'[h] # "done" /\ UNCHANGED <<kind, nouri, testEnv>>
    BY <1>3 DEF AssumeRole, WebIdentity, CreateUser, Call, testerVars
<1>4. ASSUME NEW h \in Hosts, SetUpPods(h) \/ TearDownPods(h) \/ Kill(h)
      PROVE  step[h] # "done" /\ step'[h] # "done" /\ UNCHANGED <<kind, nouri, testEnv>>
    BY <1>4 DEF SetUpPods, TearDownPods, Kill, testerVars
<1>5. CASE \/ ClusterStep /\ UNCHANGED <<profileVars, testerVars>>
           \/ \E h \in Hosts : MetadataFollows(h) /\ UNCHANGED <<ecsVars, testerVars>>
    BY <1>5 DEF ClusterStep, Tick, Drained, MetadataFollows, testerVars
<1>6. ASSUME NEW h \in Hosts, Begin(h) \/ Setup(h) \/ Kill(h), NEW g \in Hosts, g # h
      PROVE  step'[g] = step[g]
    BY <1>6, OthersKeep
<1> QED
    BY <1>1, <1>2, <1>3, <1>4, <1>5, <1>6, Actors DEF Setup, testerVars

(* test-env.sh follows the setups.                                         *)
LEMMA FileStep ==
    ASSUME TypeOK, KindInv, FileInv, Next
    PROVE  FileInv'
<1> USE DEF FileInv, KindInv
<1>1. ASSUME NEW h \in Hosts, Begin(h) PROVE FileInv'
  <2>1. testEnv' = [testEnv EXCEPT ![h] = NoFile]
      BY <1>1 DEF Begin
  <2>2. step'[h] # "done"
    <3>1. PICK k : step' = [step EXCEPT ![h] = First(k)]
        BY <1>1, Zenon DEF Begin, Goto
    <3> QED
        BY <3>1 DEF First
  <2>3. \A g \in Hosts : g # h =>
            step'[g] = step[g] /\ kind'[g] = kind[g] /\ nouri'[g] = nouri[g]
      BY <1>1, OthersKeep
  <2> QED
      BY <2>1, <2>2, <2>3 DEF Exports
<1>2. ASSUME NEW h \in Hosts, WriteTestEnv(h) PROVE FileInv'
    BY <1>2 DEF WriteTestEnv, Exports, Goto
<1>3. CASE /\ UNCHANGED <<kind, nouri, testEnv>>
           /\ \A h \in Hosts : step'[h] = "done" <=> step[h] = "done"
    BY <1>3 DEF Exports
<1> QED
    BY <1>1, <1>2, <1>3, FileFrame

(* Every type is kept.                                                     *)
LEMMA TypeStep ==
    ASSUME TypeOK, KindInv, FileInv, Next
    PROVE  TypeOK'
<1> USE FaultsBounded, ThresholdOK, PollsOK
<1>1. EcsTypeOK'
  <2> USE DEF TypeOK, EcsTypeOK
  <2>1. ASSUME NEW h \in Hosts, EcsStep(h) PROVE EcsTypeOK'
    <3>1. CASE ListServices(h) \/ DescribeServices(h)
        BY <3>1 DEF ListServices, DescribeServices, Describe, Live
    <3>2. CASE Sweep(h) \/ StopContainer(h)
        BY <3>2 DEF Sweep, StopContainer, DeleteService
    <3>3. CASE CreateService(h)
        BY <3>3 DEF CreateService
    <3>4. CASE RunTest(h)
      <4>1. PICK ok \in BOOLEAN : passed' = [passed EXCEPT ![h] = ok]
          BY <3>4, Zenon DEF RunTest
      <4>2. passed' \in [Hosts -> BOOLEAN]
          BY <4>1, Zenon
      <4> QED
          BY <3>4, <4>2 DEF RunTest
    <3>5. CASE UNCHANGED ecsVars
        BY <3>5 DEF ecsVars
    <3> QED
        BY <2>1, <3>1, <3>2, <3>3, <3>4, <3>5 DEF EcsStep, AwaitInactive, AwaitStable, Locate
  <2>2. ASSUME NEW h \in Hosts, Begin(h) PROVE EcsTypeOK'
      BY <2>2 DEF Begin
  <2>3. ASSUME NEW h \in Hosts, SetUpPods(h) PROVE EcsTypeOK'
    <3>1. PICK ok \in BOOLEAN : passed' = [passed EXCEPT ![h] = ok]
        BY <2>3, Zenon DEF SetUpPods
    <3>2. passed' \in [Hosts -> BOOLEAN]
        BY <3>1, Zenon
    <3> QED
        BY <2>3, <3>2 DEF SetUpPods
  <2>4. CASE ClusterStep
      BY <2>4 DEF ClusterStep, Tick, Drained, Live, Expired
  <2>5. CASE UNCHANGED ecsVars
      BY <2>5 DEF ecsVars
  <2> QED
      BY <2>1, <2>2, <2>3, <2>4, <2>5, Actors DEF AssumeRole, WebIdentity, CreateUser,
         TearDownPods, WriteTestEnv, Kill
<1>2. ProfileTypeOK'
  <2> USE DEF TypeOK, ProfileTypeOK
  <2>1. ASSUME NEW h \in Hosts, ProfileStep(h) PROVE ProfileTypeOK'
    <3>1. CASE Associate(h) \/ LocateInstance(h) \/ Disassociate(h)
      <4>1. retry' = retry \/ retry' = [retry EXCEPT ![h] = Polls]
          BY <3>1, Zenon DEF Associate, LocateInstance, Disassociate
      <4>2. /\ assoc' \in [Hosts -> BOOLEAN] /\ unfinished' \in [Hosts -> BOOLEAN]
            /\ noMetadata' \in [Hosts -> BOOLEAN] /\ imds' \in [Hosts -> BOOLEAN]
          BY <3>1, Zenon DEF Associate, LocateInstance, Disassociate
      <4>3. retry' \in [Hosts -> 0 .. Polls]
          BY <4>1
      <4> QED
          BY <4>2, <4>3
    <3>2. CASE WaitProfile(h) \/ WaitNoProfile(h)
      <4>1. retry' \in [Hosts -> 0 .. Polls]
        <5>1. retry' = retry \/ (retry[h] > 0 /\ retry' = [retry EXCEPT ![h] = @ - 1])
            BY <3>2, Zenon DEF WaitProfile, WaitNoProfile, Poll
        <5> QED
            BY <5>1
      <4>2. unfinished' \in [Hosts -> BOOLEAN] 
          BY <3>2, Zenon DEF WaitProfile, WaitNoProfile, Poll
      <4> QED
          BY <3>2, <4>1, <4>2 DEF WaitProfile, WaitNoProfile
    <3>3. CASE UNCHANGED profileVars
        BY <3>3 DEF profileVars
    <3> QED
        BY <2>1, <3>1, <3>2, <3>3 DEF ProfileStep, Assign
  <2>2. ASSUME NEW h \in Hosts, Begin(h) PROVE ProfileTypeOK'
      BY <2>2 DEF Begin
  <2>3. ASSUME NEW h \in Hosts, MetadataFollows(h) PROVE ProfileTypeOK'
      BY <2>3 DEF MetadataFollows
  <2>4. CASE UNCHANGED profileVars
      BY <2>4 DEF profileVars
  <2> QED
      BY <2>1, <2>2, <2>3, <2>4, Actors DEF AssumeRole, WebIdentity, CreateUser, SetUpPods,
         TearDownPods, WriteTestEnv, Kill
<1>3. faults' \in 0 .. MaxFaults
  <2>1. faults' = faults \/ Fails
      BY Actors DEF Begin, EcsStep, ListServices, DescribeServices, Describe, Sweep, DeleteService,
         AwaitInactive, CreateService, AwaitStable, Locate, RunTest, StopContainer, ProfileStep,
         Assign, Associate, WaitProfile, LocateInstance, Disassociate, WaitNoProfile, Poll,
         MetadataFails, AssumeRole, WebIdentity, CreateUser, Call, SetUpPods, TearDownPods,
         WriteTestEnv, Kill, MetadataFollows, ClusterStep, Tick, Drained, Works
  <2> QED
      BY <2>1 DEF Fails, TypeOK
<1>4. (\A h \in Hosts : step[h] # "idle" => kind[h] \in Kinds[h])'
  <2>1. ASSUME NEW h \in Hosts, Begin(h)
        PROVE  (\A g \in Hosts : step[g] # "idle" => kind[g] \in Kinds[g])'
    <3>1. kind'[h] \in Kinds[h]
        BY <2>1 DEF Begin, KindInv
    <3> QED
        BY <2>1, <3>1, OthersKeep DEF TypeOK
  <2>2. ASSUME NEW h \in Hosts, Setup(h) \/ Kill(h)
        PROVE  step[h] # "idle" /\ UNCHANGED kind
    <3>1. UNCHANGED kind
        BY <2>2, Actors DEF Setup, AssumeRole, WebIdentity, CreateUser, SetUpPods, TearDownPods,
           WriteTestEnv, Kill, testerVars
    <3>2. step[h] # "idle"
      <4>1. CASE EcsStep(h)
          BY <4>1 DEF EcsStep, ListServices, DescribeServices, Describe, Sweep, AwaitInactive,
             CreateService, AwaitStable, Locate, RunTest, StopContainer
      <4>2. CASE ProfileStep(h)
          BY <4>2 DEF ProfileStep, Assign, Associate, WaitProfile, LocateInstance, Disassociate,
             WaitNoProfile
      <4> QED
          BY <2>2, <4>1, <4>2 DEF Setup, AssumeRole, WebIdentity, CreateUser, Call, SetUpPods,
             TearDownPods, WriteTestEnv, Kill, AtRest
    <3> QED
        BY <3>1, <3>2
  <2>3. CASE \/ ClusterStep /\ UNCHANGED <<profileVars, testerVars>>
             \/ \E h \in Hosts : MetadataFollows(h) /\ UNCHANGED <<ecsVars, testerVars>>
      BY <2>3 DEF ClusterStep, Tick, Drained, MetadataFollows, testerVars, TypeOK
  <2> QED
      BY <2>1, <2>2, <2>3, OthersKeep DEF Next, TypeOK
<1>5. (/\ nouri \in [Hosts -> BOOLEAN] /\ keys \in [Hosts -> BOOLEAN]
       /\ pods \in [Hosts -> BOOLEAN])'
  <2> USE DEF TypeOK
  <2>1. ASSUME NEW h \in Hosts, Begin(h)
        PROVE  (/\ nouri \in [Hosts -> BOOLEAN] /\ keys \in [Hosts -> BOOLEAN]
                /\ pods \in [Hosts -> BOOLEAN])'
    <3>1. PICK k : /\ nouri' \in {[nouri EXCEPT ![h] = b] :
                                    b \in IF ReturnsUser(k) THEN BOOLEAN ELSE {FALSE}}
                   /\ keys' = [keys EXCEPT ![h] =
                                 k \in {"ec2", "eks", "assume-role", "session-creds"}]
                   /\ pods' = [pods EXCEPT ![h] = FALSE]
        BY <2>1, Zenon DEF Begin
    <3>2. PICK b \in BOOLEAN : nouri' = [nouri EXCEPT ![h] = b]
        BY <3>1
    <3>3. nouri' \in [Hosts -> BOOLEAN]
        BY <3>2, Zenon
    <3>4. keys' \in [Hosts -> BOOLEAN] /\ pods' \in [Hosts -> BOOLEAN]
      <4>1. ASSUME NEW c \in BOOLEAN
            PROVE  [keys EXCEPT ![h] = c] \in [Hosts -> BOOLEAN]
          BY Zenon
      <4>2. (k \in {"ec2", "eks", "assume-role", "session-creds"}) \in BOOLEAN
          OBVIOUS
      <4>3. keys' \in [Hosts -> BOOLEAN]
          BY <3>1, <4>1, <4>2
      <4> QED
          BY <3>1, <4>3, Zenon
    <3> QED
        BY <3>3, <3>4
  <2>2. ASSUME NEW h \in Hosts, CreateUser(h) \/ SetUpPods(h) \/ TearDownPods(h)
        PROVE  (/\ nouri \in [Hosts -> BOOLEAN] /\ keys \in [Hosts -> BOOLEAN]
                /\ pods \in [Hosts -> BOOLEAN])'
      BY <2>2, Zenon DEF CreateUser, SetUpPods, TearDownPods
  <2>3. CASE UNCHANGED <<nouri, keys, pods>>
      BY <2>3
  <2> QED
      BY <2>1, <2>2, <2>3, Actors DEF AssumeRole, WebIdentity, WriteTestEnv, Kill, testerVars
<1>6. access' \in [Hosts -> {"none", "explicit", "keys", "web", "profile"}]
  <2>1. access' = access \/ \E h \in Hosts, way \in {"none", "explicit", "keys", "web", "profile"} :
                                access' = [access EXCEPT ![h] = way]
      BY Actors DEF Begin, AssumeRole, WebIdentity, CreateUser, SetUpPods,
         TearDownPods, WriteTestEnv, Kill, testerVars
  <2> QED
      BY <2>1 DEF TypeOK
<1>w. web' \in [Hosts -> BOOLEAN]
  <2>1. web' = web \/ \E h \in Hosts, b \in BOOLEAN : web' = [web EXCEPT ![h] = b]
    <3>1. ASSUME NEW h \in Hosts, Begin(h)
          PROVE  \E b \in BOOLEAN : web' = [web EXCEPT ![h] = b]
      <4>1. PICK s : web' = [web EXCEPT ![h] = web[h] /\ s]
          BY <3>1, Zenon DEF Begin
      <4>2. (web[h] /\ s) \in BOOLEAN
          OBVIOUS
      <4> QED
          BY <4>1, <4>2, Zenon
    <3>2. ASSUME NEW h \in Hosts, WriteTestEnv(h)
          PROVE  \E b \in BOOLEAN : web' = [web EXCEPT ![h] = b]
      <4>1. web' = [web EXCEPT ![h] = web[h] \/ Exports(h).web]
          BY <3>2, Zenon DEF WriteTestEnv
      <4>2. (web[h] \/ Exports(h).web) \in BOOLEAN
          OBVIOUS
      <4> QED
          BY <4>1, <4>2, Zenon
    <3> QED
        BY <3>1, <3>2, Actors DEF AssumeRole, WebIdentity, CreateUser, SetUpPods, TearDownPods,
           Kill, testerVars
  <2> QED
      BY <2>1, Zenon DEF TypeOK
<1>7. \A h \in Hosts : testEnv'[h].there = (step'[h] = "done")
  <2> SUFFICES ASSUME NEW h \in Hosts
               PROVE  testEnv'[h].there = (step'[h] = "done")
      OBVIOUS
  <2>1. testEnv'[h] = IF step'[h] = "done" THEN Exports(h)' ELSE NoFile
      BY FileStep DEF FileInv
  <2>2. Exports(h)'.there = TRUE /\ NoFile.there = FALSE
      BY DEF Exports, NoFile
  <2> QED
      BY <2>1, <2>2, Zenon
<1> QED
    BY <1>1, <1>2, <1>3, <1>4, <1>5, <1>6, <1>w, <1>7, Zenon DEF TypeOK

-----------------------------------------------------------------------------
(* A name somebody remembers is not given to a new service, so that the     *)
(* service it names only gets older.                                       *)
LEMMA AgeStays ==
    ASSUME TypeOK, Next, NEW s \in Names, s \in Remembered
    PROVE  Expired(s) => Expired(s)'
<1> USE ThresholdOK DEF TypeOK, EcsTypeOK, Expired
<1>1. CASE UNCHANGED age
    BY <1>1
<1>2. ASSUME NEW h \in Hosts, CreateService(h) PROVE Expired(s) => Expired(s)'
    BY <1>2 DEF CreateService
<1>3. CASE Tick
    BY <1>3 DEF Tick
<1> QED
    BY <1>1, <1>2, <1>3, Actors DEF Begin, EcsStep, ListServices, DescribeServices, Describe, Sweep,
       AwaitInactive, AwaitStable, Locate, RunTest, StopContainer, AssumeRole, WebIdentity,
       CreateUser, SetUpPods, TearDownPods, WriteTestEnv, Kill, ClusterStep, Drained, ecsVars

(* An active service is only deleted by the collection, or by a host that   *)
(* stops what it works on.                                                 *)
LEMMA ActiveStays ==
    ASSUME TypeOK, Next, NEW s \in Names, status[s] = "active"
    PROVE  \/ status'[s] = "active"
           \/ \E h \in Hosts : step[h] = "sweep" /\ s \in sweep[h]
           \/ \E h \in Hosts : step[h] = "stop" /\ s = at[h]
<1> USE DEF TypeOK, EcsTypeOK
<1>1. CASE UNCHANGED status
    BY <1>1
<1>2. ASSUME NEW h \in Hosts, CreateService(h) PROVE status'[s] = "active"
    BY <1>2 DEF CreateService
<1>3. ASSUME NEW h \in Hosts, Sweep(h)
      PROVE  status'[s] = "active" \/ (step[h] = "sweep" /\ s \in sweep[h])
    BY <1>3 DEF Sweep, DeleteService
<1>4. ASSUME NEW h \in Hosts, StopContainer(h)
      PROVE  status'[s] = "active" \/ (step[h] = "stop" /\ s = at[h])
    BY <1>4 DEF StopContainer, DeleteService
<1>5. ASSUME NEW t \in Names, Drained(t) PROVE status'[s] = "active"
    BY <1>5 DEF Drained
<1> QED
    BY <1>1, <1>2, <1>3, <1>4, <1>5, Actors DEF Begin, EcsStep, ListServices, DescribeServices,
       Describe, AwaitInactive, AwaitStable, Locate, RunTest, AssumeRole, WebIdentity, CreateUser,
       SetUpPods, TearDownPods, WriteTestEnv, Kill, ClusterStep, Tick, ecsVars

(* A host comes to own a service only by creating it.                      *)
LEMMA OwnFrame ==
    ASSUME TypeOK, KindInv, NEW h \in Hosts, Begin(h) \/ Setup(h) \/ Kill(h),
           step'[h] \in OwnSteps
    PROVE  CreateService(h) \/ (step[h] \in OwnSteps /\ at'[h] = at[h])
<1> USE DEF OwnSteps, Goto, Raise, KindInv, AtRest
<1>1. CASE Begin(h)
  <2>1. PICK k : step' = [step EXCEPT ![h] = First(k)]
      BY <1>1, Zenon DEF Begin, Goto
  <2> QED
      BY <2>1 DEF First
<1>2. CASE EcsStep(h)
    BY <1>2 DEF EcsStep, ListServices, DescribeServices, Describe, Sweep, DeleteService,
       AwaitInactive, AwaitStable, Locate, RunTest, StopContainer, ecsVars
<1>3. CASE ProfileStep(h)
    BY <1>3 DEF ProfileStep, Assign, Associate, WaitProfile, LocateInstance, Disassociate,
       WaitNoProfile, Poll, MetadataFails
<1>4. CASE AssumeRole(h) \/ WebIdentity(h) \/ CreateUser(h)
    BY <1>4 DEF AssumeRole, WebIdentity, CreateUser, Call
<1>5. CASE SetUpPods(h) \/ TearDownPods(h) \/ WriteTestEnv(h) \/ Kill(h)
    BY <1>5 DEF SetUpPods, TearDownPods, WriteTestEnv, Kill
<1> QED
    BY <1>1, <1>2, <1>3, <1>4, <1>5 DEF Setup

(* A host that is about to delete listed what it deletes when it had        *)
(* expired.                                                                *)
LEMMA SweepFrame ==
    ASSUME TypeOK, KindInv, NEW h \in Hosts, Begin(h) \/ Setup(h) \/ Kill(h),
           step'[h] \in {"sweep", "swept"}
    PROVE  /\ sweep'[h] \subseteq sweep[h]
           /\ step[h] \in {"sweep", "swept"} \/ \A s \in sweep'[h] : Expired(s)
<1> USE DEF Goto, Raise, KindInv, AtRest, TypeOK, EcsTypeOK
<1>1. CASE Begin(h)
  <2>1. PICK k : step' = [step EXCEPT ![h] = First(k)]
      BY <1>1, Zenon DEF Begin, Goto
  <2> QED
      BY <2>1 DEF First
<1>2. CASE EcsStep(h)
    BY <1>2 DEF EcsStep, ListServices, DescribeServices, Describe, Sweep, DeleteService,
       AwaitInactive, CreateService, AwaitStable, Locate, RunTest, StopContainer, ecsVars
<1>3. CASE ProfileStep(h)
    BY <1>3 DEF ProfileStep, Assign, Associate, WaitProfile, LocateInstance, Disassociate,
       WaitNoProfile, Poll, MetadataFails
<1>4. CASE AssumeRole(h) \/ WebIdentity(h) \/ CreateUser(h)
    BY <1>4 DEF AssumeRole, WebIdentity, CreateUser, Call
<1>5. CASE SetUpPods(h) \/ TearDownPods(h) \/ WriteTestEnv(h) \/ Kill(h)
    BY <1>5 DEF SetUpPods, TearDownPods, WriteTestEnv, Kill
<1> QED
    BY <1>1, <1>2, <1>3, <1>4, <1>5 DEF Setup

(* What happens beside the testers moves none of them.                     *)
LEMMA Beside ==
    ASSUME Next
    PROVE  \/ \E h \in Hosts : Begin(h) \/ Setup(h) \/ Kill(h)
           \/ UNCHANGED <<step, faults, sweep, at, passed, assoc, retry, unfinished, noMetadata,
                          testerVars>>
BY DEF Next, ClusterStep, Tick, Drained, MetadataFollows, ecsVars, profileVars

(* What a host is about to delete stays expired.                           *)
LEMMA SweepStep ==
    ASSUME TypeOK, KindInv, SweepInv, Next
    PROVE  SweepInv'
<1> SUFFICES ASSUME NEW h \in Hosts, step'[h] \in {"sweep", "swept"}, NEW s \in sweep'[h]
             PROVE  Expired(s)'
    BY DEF SweepInv
<1>1. s \in sweep[h] /\ (step[h] \in {"sweep", "swept"} \/ Expired(s))
    BY OthersKeep, SweepFrame, Beside
<1>2. s \in Names /\ s \in Remembered
    BY <1>1 DEF TypeOK, EcsTypeOK, Remembered
<1> QED
    BY <1>1, <1>2, AgeStays DEF SweepInv

(* The name of a service that has an owner is remembered.                  *)
LEMMA OwnersRemember ==
    ASSUME NEW h \in Hosts, step[h] \in OwnSteps
    PROVE  at[h] \in Remembered
<1>1. h \in {g \in Hosts : step[g] \notin AtRest \cup {"sweep", "create"}}
    BY DEF OwnSteps, AtRest
<1>2. at[h] \in {at[g] : g \in {f \in Hosts : step[f] \notin AtRest \cup {"sweep", "create"}}}
    BY <1>1
<1> QED
    BY <1>2 DEF Remembered

(* A service keeps its one owner.                                          *)
LEMMA OwnerStep ==
    ASSUME TypeOK, KindInv, OwnerInv, Next
    PROVE  OwnerInv'
<1> USE DEF TypeOK, KindInv, EcsTypeOK
<1>1. ASSUME NEW h \in Hosts, CreateService(h), step'[h] \in OwnSteps
      PROVE  /\ at'[h] \in Names
             /\ \A g \in Hosts : step[g] \in OwnSteps => at[g] # at'[h]
  <2>1. PICK s \in Names \ (Live \cup Remembered) : at' = [at EXCEPT ![h] = s]
      BY <1>1 DEF CreateService, Raise, Goto, OwnSteps
  <2> QED
      BY <2>1, OwnersRemember
<1>2. ASSUME NEW h \in Hosts, Begin(h) \/ Setup(h) \/ Kill(h) PROVE OwnerInv'
    BY <1>1, <1>2, OwnFrame, OthersKeep DEF OwnerInv
<1>3. CASE UNCHANGED <<step, at>>
    BY <1>3 DEF OwnerInv
<1> QED
    BY <1>2, <1>3, Beside

(* The owner of a service that was not collected is the only one who may    *)
(* delete it.                                                              *)
LEMMA InUseStep ==
    ASSUME TypeOK, KindInv, SweepInv, OwnerInv, InUseNotCollected, Next
    PROVE  InUseNotCollected'
<1> SUFFICES ASSUME NEW h \in Hosts, NEW s \in Names, Uses(h, s)', ~Expired(s)'
             PROVE  status'[s] = "active"
    BY DEF InUseNotCollected
<1> USE DEF Uses
<1>1. CASE CreateService(h) /\ step'[h] = "stabilize"
    BY <1>1 DEF CreateService, TypeOK, EcsTypeOK, KindInv, Goto, Raise
<1>2. CASE Uses(h, s)
  <2>1. s \in Remembered
      BY <1>2, OwnersRemember DEF OwnSteps
  <2>2. ~Expired(s) /\ status[s] = "active"
      BY <1>2, <2>1, AgeStays DEF InUseNotCollected
  <2>3. \A g \in Hosts : step[g] = "sweep" => s \notin sweep[g]
      BY <2>2 DEF SweepInv
  <2>4. \A g \in Hosts : step[g] = "stop" => at[g] # s
      BY <1>2 DEF OwnerInv, OwnSteps
  <2> QED
      BY <2>2, <2>3, <2>4, ActiveStays
<1>3. Uses(h, s) \/ (CreateService(h) /\ step'[h] = "stabilize")
  <2>1. ASSUME Begin(h) \/ Setup(h) \/ Kill(h)
        PROVE  Uses(h, s) \/ (CreateService(h) /\ step'[h] = "stabilize")
    <3>1. CASE CreateService(h)
        BY <3>1 DEF CreateService, Goto, Raise, KindInv
    <3>2. CASE ~CreateService(h)
      <4>1. step[h] \in OwnSteps /\ at[h] = s
          BY <2>1, <3>2, OwnFrame DEF OwnSteps
      <4>2. step[h] \notin {"stop", "stopping"}
        <5>1. CASE Begin(h) \/ Kill(h)
          <6>1. Begin(h) => step[h] \in AtRest
              BY Zenon DEF Begin
          <6> QED
              BY <6>1, <5>1, <4>1 DEF Kill, OwnSteps, AtRest, Raise, Goto, KindInv
        <5>2. CASE EcsStep(h)
            BY <5>2 DEF EcsStep, ListServices, DescribeServices, Describe, Sweep, DeleteService,
               AwaitInactive, CreateService, AwaitStable, Locate, RunTest, StopContainer, Goto,
               Raise, KindInv
        <5> QED
            BY <2>1, <4>1, <5>1, <5>2 DEF Setup, ProfileStep, Assign, Associate, WaitProfile,
               LocateInstance, Disassociate, WaitNoProfile, AssumeRole, WebIdentity, Call,
               CreateUser, SetUpPods, TearDownPods, WriteTestEnv
      <4> QED
          BY <4>1, <4>2 DEF OwnSteps
    <3> QED
        BY <3>1, <3>2
  <2> QED
      BY <2>1, OthersKeep, Beside
<1> QED
    BY <1>1, <1>2, <1>3

-----------------------------------------------------------------------------
(* The metadata of a host and what it is used for.                         *)
LEMMA ProfileStepInv ==
    ASSUME TypeOK, KindInv, ProfileInv, Next
    PROVE  ProfileInv'
<1> USE DEF ProfileOf, KindInv, TypeOK, ProfileTypeOK, Goto, Raise, AtRest, EcsSteps, Ec2Steps,
            WebSteps, PodSteps
<1>1. ASSUME NEW h \in Hosts, Begin(h) PROVE ProfileOf(h)'
  <2>1. PICK k \in Kinds[h] : /\ step' = [step EXCEPT ![h] = First(k)]
                              /\ kind' = [kind EXCEPT ![h] = k]
      BY <1>1, Zenon DEF Begin
  <2>2. UNCHANGED <<assoc, imds, unfinished>>
      BY <1>1, Zenon DEF Begin
  <2>3. kind'[h] = k
      BY <2>1
  <2> QED
      BY <2>1, <2>2, <2>3 DEF First, ProfileInv
<1>2. ASSUME NEW h \in Hosts, EcsStep(h), UNCHANGED <<profileVars, testerVars>>
      PROVE  ProfileOf(h)'
    BY <1>2 DEF EcsStep, ListServices, DescribeServices, Describe, Sweep, DeleteService,
       AwaitInactive, CreateService, AwaitStable, Locate, RunTest, StopContainer, ProfileInv,
       profileVars, testerVars
<1>3. ASSUME NEW h \in Hosts, ProfileStep(h), UNCHANGED <<ecsVars, testerVars>>
      PROVE  ProfileOf(h)'
  <2>1. CASE Assign(h)
      BY <1>3, <2>1 DEF Assign, MetadataFails, ProfileInv, profileVars, testerVars
  <2>2. CASE Associate(h)
      BY <1>3, <2>2 DEF Associate, ProfileInv, testerVars
  <2>3. CASE WaitProfile(h)
      BY <1>3, <2>3 DEF WaitProfile, Poll, MetadataFails, ProfileInv, testerVars
  <2>4. CASE LocateInstance(h)
      BY <1>3, <2>4 DEF LocateInstance, ProfileInv, testerVars
  <2>5. CASE Disassociate(h)
      BY <1>3, <2>5 DEF Disassociate, ProfileInv, testerVars
  <2>6. CASE WaitNoProfile(h)
      BY ZenonT(30), <1>3, <2>6 DEF WaitNoProfile, Poll, MetadataFails, ProfileInv, testerVars
  <2> QED
      BY <1>3, <2>1, <2>2, <2>3, <2>4, <2>5, <2>6 DEF ProfileStep
<1>4. ASSUME NEW h \in Hosts, AssumeRole(h) \/ WebIdentity(h) \/ CreateUser(h) PROVE ProfileOf(h)'
  <2>1. /\ UNCHANGED <<profileVars, kind>>
        /\ step[h] \in {"assumeRole", "token", "assumeWebRole", "verify"}
      BY <1>4, Zenon DEF AssumeRole, WebIdentity, CreateUser, Call, testerVars
  <2>2. CASE AssumeRole(h)
      BY <2>1, <2>2 DEF AssumeRole, Call, ProfileInv, profileVars
  <2>3. CASE WebIdentity(h)
      BY <2>1, <2>3 DEF WebIdentity, Call, ProfileInv, profileVars
  <2>4. CASE CreateUser(h)
    <3>1. step[h] = "verify" /\ \E s \in {"write", "failed"} : step' = [step EXCEPT ![h] = s]
        BY <2>4, Zenon DEF CreateUser
    <3> QED
        BY <2>1, <3>1 DEF ProfileInv, profileVars
  <2> QED
      BY <1>4, <2>2, <2>3, <2>4
<1>5. ASSUME NEW h \in Hosts, SetUpPods(h) \/ TearDownPods(h) \/ WriteTestEnv(h) \/ Kill(h)
      PROVE  ProfileOf(h)'
    BY <1>5 DEF SetUpPods, TearDownPods, WriteTestEnv, Kill, ProfileInv, profileVars, testerVars
<1>6. ASSUME NEW h \in Hosts, MetadataFollows(h), UNCHANGED <<ecsVars, testerVars>>
      PROVE  ProfileInv'
    BY <1>6 DEF MetadataFollows, ProfileInv, testerVars
<1>7. CASE ClusterStep /\ UNCHANGED <<profileVars, testerVars>>
    BY <1>7 DEF ClusterStep, Tick, Drained, ProfileInv, profileVars, testerVars
<1>8. ASSUME NEW h \in Hosts, Begin(h) \/ Setup(h) \/ Kill(h), ProfileOf(h)'
      PROVE  ProfileInv'
    BY <1>8, OthersKeep DEF ProfileInv
<1> QED
    BY <1>1, <1>2, <1>3, <1>4, <1>5, <1>6, <1>7, <1>8, Actors DEF Setup

(* How the user gets in.                                                   *)
LEMMA AccessStep ==
    ASSUME TypeOK, KindInv, AccessInv, Next
    PROVE  AccessInv'
<1> USE DEF AccessOf, KindInv, TypeOK, Goto, Raise, AtRest, EcsSteps, Ec2Steps, WebSteps, PodSteps
<1>1. ASSUME NEW h \in Hosts, Begin(h) PROVE AccessOf(h)'
  <2>1. PICK k : step' = [step EXCEPT ![h] = First(k)]
      BY <1>1, Zenon DEF Begin
  <2> QED
      BY <2>1 DEF First
<1>2. ASSUME NEW h \in Hosts, EcsStep(h), UNCHANGED <<profileVars, testerVars>>
      PROVE  AccessOf(h)'
    BY <1>2 DEF EcsStep, ListServices, DescribeServices, Describe, Sweep, DeleteService,
       AwaitInactive, CreateService, AwaitStable, Locate, RunTest, StopContainer, testerVars
<1>3. ASSUME NEW h \in Hosts, ProfileStep(h), UNCHANGED <<ecsVars, testerVars>>
      PROVE  AccessOf(h)'
    BY <1>3 DEF ProfileStep, Assign, Associate, WaitProfile, LocateInstance, Disassociate,
       WaitNoProfile, Poll, MetadataFails
<1>4. ASSUME NEW h \in Hosts, AssumeRole(h) \/ WebIdentity(h) PROVE AccessOf(h)'
    BY <1>4 DEF AssumeRole, WebIdentity, Call
<1>9. ASSUME NEW h \in Hosts, CreateUser(h) PROVE AccessOf(h)'
  <2>1. UNCHANGED <<kind, web>> /\ access \in [Hosts -> {"none", "explicit", "keys", "web", "profile"}]
      BY <1>9, Zenon DEF CreateUser
  <2>2. CASE kind[h] # "ec2"
    <3>1. \/ Goto(h, "failed")
          \/ access' = [access EXCEPT ![h] = "explicit"]
        BY <1>9, <2>2, Zenon DEF CreateUser
    <3> QED
        BY <2>1, <2>2, <3>1
  <2>3. CASE kind[h] = "ec2"
    <3>1. keys' = [keys EXCEPT ![h] = keys[h] /\ kind[h] # "ec2"]
        BY <1>9, Zenon DEF CreateUser
    <3>2. ~keys'[h]
        BY <2>3, <3>1
    <3>3. \/ Goto(h, "failed")
          \/ access' = [access EXCEPT ![h] = IF web[h] THEN "web" ELSE "profile"]
        BY <1>9, <2>3, <3>2 DEF CreateUser
    <3> QED
        BY <2>1, <2>3, <3>3
  <2> QED
      BY <2>2, <2>3
<1>5. ASSUME NEW h \in Hosts, SetUpPods(h) \/ TearDownPods(h) \/ Kill(h)
      PROVE  AccessOf(h)'
    BY <1>5 DEF SetUpPods, TearDownPods, Kill, AccessInv, testerVars
<1>7. ASSUME NEW h \in Hosts, WriteTestEnv(h) PROVE AccessOf(h)'
  <2>1. /\ UNCHANGED <<kind, access>> /\ step[h] = "write"
        /\ web' = [web EXCEPT ![h] = web[h] \/ Exports(h).web]
      BY <1>7, Zenon DEF WriteTestEnv
  <2>2. Exports(h).web = (kind[h] = "web-identity")
      BY Zenon DEF Exports
  <2>3. kind[h] = "ec2" => web'[h] = web[h]
      BY <2>1, <2>2
  <2>4. AccessOf(h)
      BY DEF AccessInv
  <2> QED
      BY <2>1, <2>3, <2>4
<1>6. CASE UNCHANGED <<step, testerVars>>
    BY <1>6 DEF AccessInv, testerVars
<1>8. ASSUME NEW h \in Hosts, Begin(h) \/ Setup(h) \/ Kill(h), AccessOf(h)'
      PROVE  AccessInv'
    BY <1>8, OthersKeep DEF AccessInv
<1> QED
    BY <1>1, <1>2, <1>3, <1>4, <1>5, <1>6, <1>7, <1>8, <1>9, Beside, Actors DEF Setup

-----------------------------------------------------------------------------
(* The inductive invariant holds at first.                                 *)
LEMMA InitInv ==
    ASSUME Init
    PROVE  IInv
<1> USE FaultsBounded, ThresholdOK, PollsOK DEF Init, HostsInit, EcsInit, ProfileInit
<1>1. TypeOK
  <2>1. EcsTypeOK /\ ProfileTypeOK
      BY DEF EcsTypeOK, ProfileTypeOK
  <2>2. /\ nouri \in [Hosts -> BOOLEAN] /\ keys \in [Hosts -> BOOLEAN]
        /\ web \in [Hosts -> BOOLEAN] /\ pods \in [Hosts -> BOOLEAN]
      BY Zenon
  <2>3. /\ faults \in 0 .. MaxFaults
        /\ access \in [Hosts -> {"none", "explicit", "keys", "web", "profile"}]
        /\ \A h \in Hosts : step[h] = "idle" /\ testEnv[h] = NoFile
      OBVIOUS
  <2>4. \A h \in Hosts : testEnv[h].there = (step[h] = "done")
      BY <2>3 DEF NoFile
  <2> QED
      BY <2>1, <2>2, <2>3, <2>4, Zenon DEF TypeOK
<1>2. KindInv
    BY DEF KindInv, Steps, AtRest, EcsSteps, Ec2Steps, WebSteps, PodSteps
<1>3. SweepInv /\ OwnerInv /\ InUseNotCollected
    BY DEF SweepInv, OwnerInv, OwnSteps, InUseNotCollected, Uses
<1>4. ProfileInv /\ AccessInv /\ FileInv
    BY DEF ProfileInv, ProfileOf, AccessInv, AccessOf, FileInv
<1> QED
    BY <1>1, <1>2, <1>3, <1>4 DEF IInv

(* Every step of the program keeps it.                                     *)
LEMMA NextInv ==
    ASSUME IInv, Next
    PROVE  IInv'
BY TypeStep, KindStep, SweepStep, OwnerStep, InUseStep, ProfileStepInv, AccessStep, FileStep
   DEF IInv

(* And so does a step that changes nothing.                                *)
LEMMA StutterInv ==
    ASSUME IInv, UNCHANGED vars
    PROVE  IInv'
<1> USE DEF IInv, vars, ecsVars, profileVars, testerVars
<1>1. TypeOK' /\ KindInv'
    BY DEF TypeOK, EcsTypeOK, ProfileTypeOK, KindInv
<1>2. SweepInv' /\ OwnerInv' /\ InUseNotCollected'
    BY DEF SweepInv, OwnerInv, InUseNotCollected, Uses, Expired
<1>3. ProfileInv' /\ AccessInv' /\ FileInv'
    BY DEF ProfileInv, ProfileOf, AccessInv, AccessOf, FileInv, Exports
<1> QED
    BY <1>1, <1>2, <1>3

(* The inductive invariant holds of every reachable state.                 *)
THEOREM Invariant == Spec => []IInv
<1>1. Init => IInv
    BY InitInv
<1>2. IInv /\ [Next]_vars => IInv'
    BY NextInv, StutterInv
<1> QED
    BY <1>1, <1>2, PTL DEF Spec

(* Every variable keeps its type, and test-env.sh is there exactly when a   *)
(* setup has succeeded.                                                    *)
THEOREM TypeCorrect == Spec => []TypeOK
<1>1. IInv => TypeOK
    BY DEF IInv
<1> QED
    BY <1>1, Invariant, PTL

(* However the collections of any number of hosts interleave with the       *)
(* tests, none of them takes a service away that is in use and young.       *)
THEOREM CollectionSpares == Spec => []InUseNotCollected
<1>1. IInv => InUseNotCollected
    BY DEF IInv
<1> QED
    BY <1>1, Invariant, PTL

(* A setup that succeeded has verified the access that its name says, and   *)
(* test-env.sh opens no other; ec2 verifies the web identity of an earlier  *)
(* test exactly if its variables are still in the shell.                    *)
THEOREM SetupVerifies == Spec => []VerifiedAsNamed
<1>1. ASSUME IInv, NEW h \in Hosts, testEnv[h].there
      PROVE  /\ kind[h] = "ec2" => /\ access[h] = IF web[h] THEN "web" ELSE "profile"
                                   /\ ~testEnv[h].uri /\ ~testEnv[h].keys
             /\ ReturnsKeys(kind[h]) => testEnv[h].uri # testEnv[h].keys
             /\ kind[h] = "web-identity" => access[h] = "explicit" /\ (~imds[h] \/ noMetadata[h])
  <2>1. step[h] = "done"
    <3>1. testEnv[h].there = (step[h] = "done")
        BY <1>1 DEF IInv, TypeOK
    <3> QED
        BY <1>1, <3>1
  <2>2. testEnv[h] = Exports(h)
      BY <1>1, <2>1 DEF IInv, FileInv
  <2>3. /\ testEnv[h].uri = (ReturnsUser(kind[h]) /\ ~nouri[h])
        /\ testEnv[h].keys = (ReturnsKeys(kind[h]) /\ (nouri[h] \/ ~ReturnsUser(kind[h])))
    <3>1. Exports(h).uri = (ReturnsUser(kind[h]) /\ ~nouri[h])
        BY DEF Exports
    <3>2. Exports(h).keys = (ReturnsKeys(kind[h]) /\ (nouri[h] \/ ~ReturnsUser(kind[h])))
        BY DEF Exports
    <3> QED
        BY <2>2, <3>1, <3>2
  <2>4. kind[h] = "ec2" => ~ReturnsUser(kind[h]) /\ ~ReturnsKeys(kind[h])
      BY DEF ReturnsUser, ReturnsKeys
  <2>5. kind[h] = "ec2" => ~testEnv[h].uri /\ ~testEnv[h].keys
      BY <2>3, <2>4
  <2>6. ReturnsKeys(kind[h]) => testEnv[h].uri # testEnv[h].keys
      BY <2>3
  <2>7. ProfileOf(h) /\ AccessOf(h)
      BY <1>1 DEF IInv, ProfileInv, AccessInv
  <2> QED
      BY <2>1, <2>5, <2>6, <2>7 DEF ProfileOf, AccessOf
<1>2. IInv => VerifiedAsNamed
    BY <1>1 DEF VerifiedAsNamed
<1> QED
    BY <1>2, Invariant, PTL

(* The profile an ec2 test runs with stays, unless the wait of an           *)
(* unassignment was cut short before.                                      *)
THEOREM ProfileStays == Spec => []ProfileOutlastsSetup
<1>1. ASSUME IInv, NEW h \in Hosts, testEnv[h].there, kind[h] = "ec2"
      PROVE  assoc[h] \/ unfinished[h]
  <2>1. testEnv[h].there = (step[h] = "done")
      BY <1>1 DEF IInv, TypeOK
  <2> QED
      BY <1>1, <2>1 DEF IInv, ProfileInv, ProfileOf
<1>2. IInv => ProfileOutlastsSetup
    BY <1>1 DEF ProfileOutlastsSetup
<1> QED
    BY <1>2, Invariant, PTL

(* Whatever its test says, a setup that no call fails and nobody kills      *)
(* leaves neither an active service of its own nor its pods.               *)
THEOREM NothingLeaks == Spec => AssetsReleased
<1> DEFINE Released(h) ==
        /\ step[h] \in {"testing", "stop", "stopping", "podsDown"}
        /\ step'[h] \in AtRest \cup {"write"}
        /\ faults' = faults
        => (at[h] # NoName => status'[at[h]] # "active") /\ ~pods'[h]
<1>1. ASSUME IInv, Next, NEW h \in Hosts,
             step[h] \in {"testing", "stop", "stopping", "podsDown"},
             step'[h] \in AtRest \cup {"write"}, faults' = faults
      PROVE  (at[h] # NoName => status'[at[h]] # "active") /\ ~pods'[h]
  <2> USE DEF IInv, TypeOK, EcsTypeOK, KindInv, EcsSteps, Ec2Steps, WebSteps, PodSteps, AtRest
  <2>1. step'[h] # step[h]
      BY <1>1
  <2>2. ~Fails
      BY <1>1 DEF Fails
  <2>3. (EcsStep(h) /\ UNCHANGED testerVars) \/ TearDownPods(h)
    <3>1. Begin(h) \/ Setup(h) \/ Kill(h)
        BY <1>1, <2>1, OthersKeep, Beside
    <3>2. Begin(h) => step[h] \in AtRest
        BY Zenon DEF Begin
    <3> QED
        BY <1>1, <2>2, <3>1, <3>2 DEF Setup, Kill, ProfileStep, Assign, Associate, WaitProfile,
           LocateInstance, Disassociate, WaitNoProfile, AssumeRole, WebIdentity, Call, CreateUser,
           SetUpPods, WriteTestEnv
  <2>4. CASE TearDownPods(h)
      BY <1>1, <2>2, <2>4 DEF TearDownPods
  <2>5. CASE EcsStep(h) /\ UNCHANGED testerVars
    <3>1. at[h] \in Names /\ ~pods'[h]
        BY <1>1, <2>5 DEF OwnerInv, OwnSteps, EcsStep, ListServices, DescribeServices, Describe,
           Sweep, AwaitInactive, CreateService, AwaitStable, Locate, RunTest, StopContainer,
           testerVars
    <3>2. CASE StopContainer(h)
        BY <1>1, <2>2, <3>1, <3>2 DEF StopContainer, DeleteService, Goto
    <3>3. CASE AwaitInactive(h, "stopping", IF passed[h] THEN "write" ELSE "failed")
        BY <1>1, <2>2, <3>1, <3>3 DEF AwaitInactive, ecsVars
    <3>4. StopContainer(h) \/ AwaitInactive(h, "stopping", IF passed[h] THEN "write" ELSE "failed")
        BY <1>1, <2>5 DEF EcsStep, ListServices, DescribeServices, Describe, Sweep, AwaitInactive,
           CreateService, AwaitStable, Locate, RunTest, Goto
    <3> QED
        BY <3>1, <3>2, <3>3, <3>4
  <2> QED
      BY <2>3, <2>4, <2>5
<1>2. ASSUME UNCHANGED vars, NEW h \in Hosts,
             step[h] \in {"testing", "stop", "stopping", "podsDown"}
      PROVE  step'[h] \notin AtRest \cup {"write"}
    BY <1>2 DEF vars, AtRest
<1>3. IInv /\ [Next]_vars => [\A h \in Hosts : Released(h)]_vars
    BY <1>1, <1>2
<1> QED
    BY <1>3, Invariant, PTL DEF Spec, AssetsReleased
=============================================================================
