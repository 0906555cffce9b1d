------------------------- MODULE OrchestrationProofs -------------------------
(***************************************************************************)
(* Theorems about Orchestration, for any requests, ports, numbers of        *)
(* commands and faults: what is published fits together, implements         *)
(* Published, and stop() leaves what it says it leaves.                     *)
(***************************************************************************)
EXTENDS Orchestration, SequenceTheorems, TLAPS

(* Where the command is, stop() counting as the step that follows it.      *)
StopSteps == {"pidfile", "terminate", "outlog", "forget", "container", "snapshot",
              "cmdline", "images", "names"}
At == IF pc \in StopSteps THEN after ELSE pc

(* The steps of run() alone, from the end of clean_run to the uri.          *)
RunSteps == {"configure", "download", "crypt", "cryptyml", "cryptsh", "deploy", "post",
             "building", "runner", "starting", "recording", "docker", "dockerid", "healthy",
             "yml", "sh", "uri"}
(* Those of start(), which run() also takes.                               *)
StartSteps == {"start", "cleanstart", "launch", "connect"}
Working == At \in RunSteps \/ (At \in StartSteps /\ req.cmd = "run")

CommandInv ==
    /\ pc # "idle" => id # 0 /\ after \in {"clean", "docker", "cleanstart", "raise", "exit0",
                                            "containers"}
    /\ At \in RunSteps \cup {"validate"} => req.cmd = "run"
    /\ At = "clean" => req.cmd \in {"run", "clean"}

(* clean_run removes the uri first, then the files that name it, then what  *)
(* they name.                                                              *)
CleanInv ==
    /\ At = "validate" => Len(left) = 5
    /\ At = "clean" =>
        /\ Len(left) # 5 => uri = 0
        /\ Len(left) \notin {4, 5} => sh = NoFile
        /\ Len(left) \notin {3, 4, 5} => yml = NoFile

(* Until it writes the uri, a run writes the same into both files.          *)
WritingInv ==
    /\ Working => uri = 0
    /\ At \in {"configure", "download", "crypt", "cryptyml", "cryptsh"} => sh = NoFile
    /\ At \in {"configure", "download", "crypt", "cryptyml"} => yml = NoFile
    /\ At \in {"cryptyml", "cryptsh"} => lib
    /\ At = "cryptsh" => yml = [NoFile EXCEPT !.there = TRUE, !.crypt = TRUE]
    /\ Working /\ At \notin {"cryptsh", "sh"} => sh = yml
    /\ At = "sh" => yml = Expand(sh)
    /\ At = "uri" => sh.uri = id
    /\ Working /\ At # "configure" => (req.otel => oteldir)

(* server.pid names the mongo-orchestration that runs; without one nothing  *)
(* is brought up through it; once stop() has looked for it, it is gone.     *)
ServerInv ==
    /\ mo # 0 /\ pidfile # 0 => mo = pidfile
    /\ mo = 0 => \A b \in builders : b.by # "mo"
    /\ pc = "terminate" => mo \in {0, victim}
    /\ pc \in {"outlog", "forget", "container", "snapshot", "cmdline"} /\ victim # 0 => mo = 0
    /\ pc = "cmdline" => mo \in {0, seen.mo}
    /\ pc \in {"images", "names"} => mo = 0
    /\ pc = "names" => box = 0

(* A mongodb-runner that still works has its data directory.               *)
RunnerInv ==
    /\ \A b \in builders : b.by = "runner" => b.dep \in dirs
    /\ outlog.kind = "json" => ~Building(outlog.dep)
    /\ pc \in {"connect", "post"} => outlog.kind = "text"

(* What stop() has not seen belongs to such a mongodb-runner.              *)
SeenInv ==
    pc \in {"cmdline", "images", "names"} /\ victim # 0 =>
        \A p \in Ports : owner[p] = 0 \/ <<p, owner[p]>> \in seen.mongods \/ owner[p] \in dirs

(* Nobody brings up what is published, or what is about to be.             *)
DeploymentInv ==
    /\ \A b \in builders : b.dep <= id
    /\ At \notin {"idle", "building", "starting", "raise"} => ~Building(id)
    /\ uri # 0 => ~Building(uri)
    /\ box # 0 => owner[BoxPort] = 0
    /\ pc \in {"dockerid", "healthy"} => box = id
    /\ pc \in {"recording", "yml", "sh", "uri"} => Up(id)

IInv ==
    /\ TypeOK /\ PublishedFilesAgree
    /\ CommandInv /\ CleanInv /\ WritingInv
    /\ ServerInv /\ RunnerInv /\ SeenInv /\ DeploymentInv

-----------------------------------------------------------------------------
(* Which steps touch the processes, the records and the outputs.           *)
LEMMA ProcessFrame ==
    ASSUME Next
    PROVE  \/ UNCHANGED processes
           \/ TerminateServer \/ StopRecorded \/ StopContainer \/ StopByCommandLine \/ StopSelf
           \/ StopByImage \/ StopByName \/ StopFails
           \/ Launch \/ Post \/ StartRunner \/ StartContainer
           \/ StartBalancer \/ StopBalancer
           \/ MongodFails \/ PortTaken \/ ServerDies \/ Crash
           \/ \E p \in Ports : Spawn(p)
BY DEF Next, Begin, Step, Stop, Run, Succeed, Fail, ReadPidFile, ForgetRecorded, ListProcesses,
   Validate, CleanNext, CleanDone, Configure, Download, MoveLibrary, WriteCryptYml, WriteCryptSh,
   Deploy, Start, CleanStart, Connect, ConnectTimesOut, Answered, RunnerReturns, RecordRunner,
   RecordContainer, ContainerHealthy, WriteYml, WriteSh, WriteUri, TearDown, TearDownRest,
   StepFails

(* Which steps touch the pid files, the logs, the record of the container   *)
(* and the data directories.                                                *)
LEMMA RecordFrame ==
    ASSUME Next
    PROVE  \/ UNCHANGED records
           \/ ReadPidFile \/ StopRecorded \/ ForgetRecorded \/ StopContainer
           \/ CleanStart \/ Launch \/ StartRunner \/ RecordRunner \/ RecordContainer
           \/ StartBalancer \/ StopBalancer
BY DEF Next, Begin, Step, Stop, Run, Succeed, Fail, TerminateServer, ListProcesses,
   StopByCommandLine, StopSelf, StopByImage, StopByName, Validate, CleanNext, CleanDone,
   Configure, Download, MoveLibrary, WriteCryptYml, WriteCryptSh, Deploy, Start, Connect,
   ConnectTimesOut, Post, Answered, RunnerReturns, StartContainer, ContainerHealthy, WriteYml,
   WriteSh, WriteUri, TearDown, TearDownRest, Spawn, StepFails, StopFails, MongodFails,
   PortTaken, Abandon, ServerDies, Crash

(* Which steps touch uri.txt, the expansion files and what they name.       *)
LEMMA OutputFrame ==
    ASSUME Next
    PROVE  \/ UNCHANGED outputs
           \/ CleanNext \/ Configure \/ MoveLibrary \/ WriteCryptYml \/ WriteCryptSh
           \/ WriteYml \/ WriteSh \/ WriteUri
BY DEF Next, Begin, Step, Stop, Run, Succeed, Fail, ReadPidFile, TerminateServer, StopRecorded,
   ForgetRecorded, StopContainer, ListProcesses, StopByCommandLine, StopSelf, StopByImage,
   StopByName, Validate, CleanDone, Download, Deploy, Start, CleanStart, Launch, Connect,
   ConnectTimesOut, Post, Answered, StartRunner, RunnerReturns, RecordRunner, StartContainer,
   RecordContainer, ContainerHealthy, StartBalancer, StopBalancer, TearDown, TearDownRest,
   Spawn, StepFails, StopFails, MongodFails, PortTaken, Abandon, ServerDies, Crash

-----------------------------------------------------------------------------
(* What is left of clean_run's list is its end.                            *)
LEMMA LeftTail ==
    ASSUME CommandType, left # <<>>
    PROVE  /\ Len(left) \in 1 .. 5 /\ Len(Tail(left)) = Len(left) - 1
           /\ Head(left) = CleanOrder[6 - Len(left)]
           /\ \E k \in 0 .. Len(CleanOrder) :
                  Tail(left) = SubSeq(CleanOrder, k + 1, Len(CleanOrder))
<1> DEFINE S == {"uri", "sh", "yml", "lib", "otel"}
<1>1. CleanOrder \in Seq(S) /\ Len(CleanOrder) = 5
    BY DEF CleanOrder
<1>2. PICK k \in 0 .. 5 : left = SubSeq(CleanOrder, k + 1, 5)
    BY <1>1 DEF CommandType
<1>3. k # 5
    BY <1>1, <1>2, SubSeqEmpty
<1>4. k + 1 \in 1 .. Len(CleanOrder) /\ 5 \in k + 1 .. Len(CleanOrder)
    BY <1>1, <1>3
<1>5. Head(left) = CleanOrder[k + 1] /\ Tail(left) = SubSeq(CleanOrder, k + 2, 5)
  <2>1. Tail(left) = SubSeq(CleanOrder, (k + 1) + 1, 5)
      BY <1>1, <1>2, <1>4, HeadTailOfSubSeq
  <2> QED
      BY <1>1, <1>2, <1>4, <2>1, HeadTailOfSubSeq
<1>6. Len(left) = 5 - k /\ Len(Tail(left)) = 5 - (k + 1)
    BY <1>1, <1>2, <1>4, <1>5, SubSeqProperties
<1> QED
    BY <1>1, <1>3, <1>5, <1>6

(* The command's own state keeps its type.                                 *)
LEMMA CommandTypeInv ==
    ASSUME TypeOK, CommandInv, Next
    PROVE  CommandType'
<1> USE RequestsOK DEF TypeOK, CommandType, Goto, End, Quietly, command
<1>1. ASSUME NEW r \in Requests, Begin(r) PROVE CommandType'
  <2>1. r.cmd \in {"run", "start", "stop", "clean", "lbstart", "lbstop", "teardown"}
      BY DEF Request
  <2>2. pc' \in Steps
      BY <1>1, <2>1 DEF Begin, Steps
  <2>3. \E k \in 0 .. Len(CleanOrder) : left' = SubSeq(CleanOrder, k + 1, Len(CleanOrder))
    <3>1. CleanOrder = SubSeq(CleanOrder, 1, 5) /\ <<>> = SubSeq(CleanOrder, 6, 5)
          /\ Len(CleanOrder) = 5
        BY DEF CleanOrder
    <3> QED
        BY <1>1, <3>1 DEF Begin
  <2> QED
      BY SMTT(20), <1>1, <2>2, <2>3 DEF Begin, Ids, Steps
<1>2. CASE CleanNext
  <2>1. \E k \in 0 .. Len(CleanOrder) : left' = SubSeq(CleanOrder, k + 1, Len(CleanOrder))
      BY <1>2, LeftTail DEF CleanNext
  <2> QED
      BY <1>2, <2>1 DEF CleanNext
<1>3. CASE ListProcesses
    BY <1>3 DEF ListProcesses, Mongods, ProcessType, Steps, Ids
<1>4. CASE StopByName
    BY <1>4 DEF StopByName, NoneSeen, Ids
<1>5. CASE Succeed \/ Fail \/ ReadPidFile \/ TerminateServer \/ StopRecorded \/ ForgetRecorded
           \/ StopContainer \/ StopByCommandLine \/ StopSelf \/ StopByImage
    BY <1>5 DEF Succeed, Fail, ReadPidFile, TerminateServer, StopRecorded, ForgetRecorded,
       StopContainer, StopByCommandLine, StopSelf, StopByImage, Steps, FileType
<1>6. CASE Validate \/ CleanDone \/ Configure \/ Download \/ MoveLibrary \/ WriteCryptYml
           \/ WriteCryptSh \/ Deploy \/ Start \/ CleanStart \/ Launch \/ Connect
           \/ ConnectTimesOut
    BY <1>6 DEF Validate, CleanDone, Configure, Download, MoveLibrary, WriteCryptYml,
       WriteCryptSh, Deploy, Start, CleanStart, Launch, Connect, ConnectTimesOut, CallStop, Steps
<1>7. CASE Post \/ Answered \/ StartRunner \/ RunnerReturns \/ RecordRunner \/ StartContainer
           \/ RecordContainer \/ ContainerHealthy \/ WriteYml \/ WriteSh \/ WriteUri
    BY <1>7 DEF Post, Answered, StartRunner, RunnerReturns, RecordRunner, StartContainer,
       RecordContainer, ContainerHealthy, WriteYml, WriteSh, WriteUri, CallStop, Steps
<1>8. CASE StartBalancer \/ StopBalancer \/ TearDown \/ TearDownRest
    BY <1>8 DEF StartBalancer, StopBalancer, TearDown, TearDownRest, CallStop, Steps
<1>9. CASE StepFails \/ StopFails \/ MongodFails \/ PortTaken \/ ServerDies \/ Crash
    BY <1>9 DEF StepFails, StopFails, MongodFails, PortTaken, Abandon, ServerDies, Crash, Fault,
       Steps
<1>10. ASSUME NEW p \in Ports, Spawn(p) PROVE CommandType'
    BY <1>10 DEF Spawn
<1> QED
    BY <1>1, <1>2, <1>3, <1>4, <1>5, <1>6, <1>7, <1>8, <1>9, <1>10 DEF Next, Step, Stop, Run

(* A builder that has started one mongod more is a builder or is gone.     *)
LEMMA SpawnKeepsBuilders ==
    ASSUME ProcessType, NEW b \in builders, NEW p \in Ports
    PROVE  \A c \in Without(b, {p}) :
              /\ c \in [by : {"mo", "runner"}, dep : Ids \ {0}, todo : (SUBSET Ports) \ {{}}]
              /\ \E d \in builders : c.by = d.by /\ c.dep = d.dep
  BY DEF ProcessType, Without

(* Who ends mongods starts none.                                           *)
LEMMA Ends ==
    ASSUME ProcessType, StopRecorded \/ StopByName \/ StopFails \/ MongodFails \/ PortTaken
    PROVE  owner' \in [Ports -> Ids] /\ \A p \in Ports : owner'[p] \in {0, owner[p]}
<1>1. 0 \in Ids /\ owner \in [Ports -> Ids]
    BY RequestsOK DEF ProcessType, Ids
<1>2. CASE StopRecorded
    BY <1>1, <1>2 DEF StopRecorded
<1>3. CASE StopByName
    BY <1>1, <1>3 DEF StopByName
<1>4. CASE StopFails
    BY <1>1, <1>4 DEF StopFails
<1>5. CASE MongodFails \/ PortTaken
    BY <1>1, <1>5 DEF MongodFails, PortTaken, Abandon
<1> QED
    BY <1>2, <1>3, <1>4, <1>5

(* So do the processes.                                                    *)
LEMMA ProcessTypeInv ==
    ASSUME TypeOK, CommandInv, Next
    PROVE  ProcessType'
<1> USE RequestsOK DEF TypeOK, ProcessType, EndServer
<1>0. id \in Ids
    BY DEF CommandType
<1>1. CASE UNCHANGED processes
    BY <1>1 DEF processes
<1>2. CASE TerminateServer \/ StopByCommandLine \/ StopSelf \/ ServerDies \/ Crash
  <2>1. builders' \subseteq builders /\ mo' \in {mo, 0} /\ UNCHANGED <<owner, box, lb>>
      BY <1>2 DEF TerminateServer, StopByCommandLine, StopSelf, ServerDies, Crash
  <2> QED
      BY <2>1 DEF Ids
<1>3. CASE StopRecorded \/ StopByName \/ StopFails
  <2>1. UNCHANGED <<mo, box, lb, builders>>
      BY <1>3 DEF StopRecorded, StopByName, StopFails
  <2> QED
      BY <1>3, <2>1, Ends
<1>4. CASE StopContainer \/ StopByImage \/ StartContainer \/ StartBalancer \/ StopBalancer
           \/ Launch
  <2>1. /\ box' \in {box, 0, id} /\ mo' \in {mo, id} /\ lb' \in {lb, lb \cup {id}, lb \ {lbpid}}
        /\ UNCHANGED <<owner, builders>>
      BY <1>4 DEF StopContainer, StopByImage, StartContainer, StartBalancer, StopBalancer, Launch
  <2> QED
      BY <1>0, <2>1 DEF Ids
<1>5. CASE Post \/ StartRunner
  <2>1. id \in Ids \ {0} /\ Ports \in (SUBSET Ports) \ {{}}
      BY <1>0, <1>5 DEF Post, StartRunner, CommandInv
  <2>2. builders' \subseteq builders \cup
           {[by |-> by, dep |-> id, todo |-> Ports] : by \in {"mo", "runner"}}
      BY <1>5 DEF Post, StartRunner, Build
  <2> QED
      BY <1>5, <2>1, <2>2 DEF Post, StartRunner
<1>6. CASE MongodFails \/ PortTaken
  <2>1. builders' \subseteq builders /\ UNCHANGED <<mo, box, lb>>
      BY <1>6 DEF MongodFails, PortTaken, Abandon
  <2> QED
      BY <1>6, <2>1, Ends
<1>7. ASSUME NEW p \in Ports, Spawn(p) PROVE ProcessType'
  <2>1. PICK b \in builders : owner' = [owner EXCEPT ![p] = b.dep] /\ builders' = Without(b, {p})
      BY <1>7 DEF Spawn
  <2> QED
      BY <1>7, <2>1, SpawnKeepsBuilders DEF Spawn
<1> QED
    BY <1>1, <1>2, <1>3, <1>4, <1>5, <1>6, <1>7, ProcessFrame

(* And the files.                                                          *)
LEMMA FileTypeInv ==
    ASSUME TypeOK, Next
    PROVE  FileType'
<1>1. /\ id \in Ids /\ pidfile \in Ids /\ boxfile \in Ids /\ dirs \in SUBSET Ids
      /\ lbpid \in Ids /\ uri \in Ids /\ sh \in Expansion /\ yml \in Expansion
      /\ outlog \in [kind : {"none", "text", "json"}, dep : Ids] /\ 0 \in Ids
    BY RequestsOK DEF TypeOK, CommandType, FileType, Ids
<1>2. serverlog \in BOOLEAN /\ lbconf \in BOOLEAN /\ lib \in BOOLEAN /\ oteldir \in BOOLEAN
    BY DEF TypeOK, FileType
<1>3. pidfile' \in Ids /\ boxfile' \in Ids /\ dirs' \in SUBSET Ids /\ lbpid' \in Ids
    BY <1>1, RecordFrame DEF records, ReadPidFile, StopRecorded, ForgetRecorded, StopContainer,
       CleanStart, Launch, StartRunner, RecordRunner, RecordContainer, StartBalancer, StopBalancer
<1>4. serverlog' \in BOOLEAN /\ lbconf' \in BOOLEAN
    BY <1>2, RecordFrame, Zenon DEF records, ReadPidFile, StopRecorded, ForgetRecorded,
       StopContainer,
       CleanStart, Launch, StartRunner, RecordRunner, RecordContainer, StartBalancer, StopBalancer
<1>5. outlog' \in [kind : {"none", "text", "json"}, dep : Ids]
  <2>1. outlog' \in {outlog, NoLog, [kind |-> "text", dep |-> 0], [kind |-> "json", dep |-> id]}
      BY RecordFrame DEF records, ReadPidFile, StopRecorded, ForgetRecorded, StopContainer,
         CleanStart, Launch, StartRunner, RecordRunner, RecordContainer, StartBalancer,
         StopBalancer
  <2> QED
      BY <1>1, <2>1 DEF NoLog
<1>6. uri' \in Ids
    BY <1>1, OutputFrame DEF outputs, CleanNext, Configure, MoveLibrary, WriteCryptYml,
       WriteCryptSh, WriteYml, WriteSh, WriteUri
<1>7. lib' \in BOOLEAN /\ oteldir' \in BOOLEAN
    BY <1>2, OutputFrame, Zenon DEF outputs, CleanNext, Configure, MoveLibrary, WriteCryptYml,
       WriteCryptSh, WriteYml, WriteSh, WriteUri
<1>8. sh' \in Expansion /\ yml' \in Expansion
  <2>1. NoFile \in Expansion /\ [NoFile EXCEPT !.there = TRUE, !.crypt = TRUE] \in Expansion
      BY <1>1 DEF NoFile, Expansion
  <2>2. Expand(sh) \in Expansion /\ Expand(yml) \in Expansion
      BY <1>1 DEF Expand, Expansion
  <2>3. /\ sh' \in {sh, NoFile, [NoFile EXCEPT !.there = TRUE, !.crypt = TRUE], Expand(sh)}
        /\ yml' \in {yml, NoFile, [NoFile EXCEPT !.there = TRUE, !.crypt = TRUE], Expand(yml)}
      BY OutputFrame DEF outputs, CleanNext, Configure, MoveLibrary, WriteCryptYml, WriteCryptSh,
         WriteYml, WriteSh, WriteUri
  <2> QED
      BY <1>1, <2>1, <2>2, <2>3
<1> QED
    BY <1>3, <1>4, <1>5, <1>6, <1>7, <1>8 DEF FileType

(* Together: every step keeps every type.                                  *)
LEMMA TypeInv ==
    ASSUME TypeOK, CommandInv, Next
    PROVE  TypeOK'
BY CommandTypeInv, ProcessTypeInv, FileTypeInv DEF TypeOK

-----------------------------------------------------------------------------
(* Only a new command changes what was asked for, and its number.          *)
LEMMA RequestFrame ==
    ASSUME Next
    PROVE  UNCHANGED <<req, id>> \/ \E r \in Requests : Begin(r)
BY DEF Next, Step, Stop, Run, command, CallStop, Succeed, Fail, ReadPidFile, TerminateServer,
   StopRecorded, ForgetRecorded, StopContainer, ListProcesses, StopByCommandLine, StopSelf,
   StopByImage, StopByName, Validate, CleanNext, CleanDone, Configure, Download, MoveLibrary,
   WriteCryptYml, WriteCryptSh, Deploy, Start, CleanStart, Launch, Connect, ConnectTimesOut, Post,
   Answered, StartRunner, RunnerReturns, RecordRunner, StartContainer, RecordContainer,
   ContainerHealthy, WriteYml, WriteSh, WriteUri, StartBalancer, StopBalancer, TearDown,
   TearDownRest, Spawn, StepFails, StopFails, MongodFails, PortTaken, Abandon, ServerDies, Crash

(* Every step keeps CommandInv: who has called stop(), and what goes on.   *)
LEMMA CommandStep ==
    ASSUME TypeOK, CommandInv, Next
    PROVE  CommandInv'
<1> USE DEF CommandInv, At, StopSteps, RunSteps, Goto, End, command
<1>1. ASSUME NEW r \in Requests, Begin(r) PROVE CommandInv'
  <2>1. r.cmd \in {"run", "start", "stop", "clean", "lbstart", "lbstop", "teardown"}
      BY RequestsOK DEF Request
  <2>2. req' = r /\ id' # 0 /\ after' = "exit0"
      BY <1>1 DEF Begin, TypeOK, CommandType, Ids
  <2> QED
      BY <1>1, <2>1, <2>2 DEF Begin
<1>2. CASE UNCHANGED <<pc, after, req, id>>
    BY <1>2
<1>3. CASE Stop \/ StopFails
    BY <1>3 DEF Stop, StopFails, ReadPidFile, TerminateServer, StopRecorded, ForgetRecorded,
       StopContainer, ListProcesses, StopByCommandLine, StopSelf, StopByImage, StopByName
<1>4. CASE Succeed \/ Fail \/ StepFails \/ Crash
    BY <1>4 DEF Succeed, Fail, StepFails, Crash
<1>5. CASE Validate \/ CleanNext \/ CleanDone \/ Configure \/ Download \/ MoveLibrary
           \/ WriteCryptYml \/ WriteCryptSh \/ Deploy
    BY <1>5 DEF Validate, CleanNext, CleanDone, Configure, Download, MoveLibrary,
       WriteCryptYml, WriteCryptSh, Deploy, CallStop
<1>6. CASE Start \/ CleanStart \/ Launch \/ Connect \/ ConnectTimesOut
    BY <1>6 DEF Start, CleanStart, Launch, Connect, ConnectTimesOut, CallStop
<1>7. CASE Post \/ Answered \/ StartRunner \/ RunnerReturns \/ RecordRunner \/ StartContainer
           \/ RecordContainer \/ ContainerHealthy \/ WriteYml \/ WriteSh \/ WriteUri
    BY <1>7 DEF Post, Answered, StartRunner, RunnerReturns, RecordRunner, StartContainer,
       RecordContainer, ContainerHealthy, WriteYml, WriteSh, WriteUri, CallStop
<1>8. CASE StartBalancer \/ StopBalancer \/ TearDown \/ TearDownRest
    BY <1>8 DEF StartBalancer, StopBalancer, TearDown, TearDownRest, CallStop
<1>9. CASE MongodFails \/ PortTaken \/ ServerDies
    BY <1>9 DEF MongodFails, PortTaken, ServerDies, Abandon
<1>10. ASSUME NEW p \in Ports, Spawn(p) PROVE CommandInv'
    BY <1>10 DEF Spawn
<1> QED
    BY <1>1, <1>2, <1>3, <1>4, <1>5, <1>6, <1>7, <1>8, <1>9, <1>10 DEF Next, Step, Run

(* Every step keeps CleanInv: nothing is written while clean_run removes.  *)
LEMMA CleanStep ==
    ASSUME TypeOK, CommandInv, CleanInv, Next
    PROVE  CleanInv'
<1> USE DEF CleanInv, At, StopSteps, Goto, command
<1>1. CASE CleanNext
  <2>1. CleanOrder[1] = "uri" /\ CleanOrder[2] = "sh" /\ CleanOrder[3] = "yml"
      BY DEF CleanOrder
  <2>2. /\ Len(left) \in 1 .. 5 /\ Len(left') = Len(left) - 1
        /\ Head(left) = CleanOrder[6 - Len(left)]
      BY <1>1, LeftTail DEF CleanNext, TypeOK
  <2>3. /\ Len(left) = 5 => Head(left) = "uri"
        /\ Len(left) = 4 => Head(left) = "sh"
        /\ Len(left) = 3 => Head(left) = "yml"
    <3>1. ASSUME NEW n \in 1 .. 5, Len(left) = n, NEW k, 6 - n = k
          PROVE  Head(left) = CleanOrder[k]
        BY <2>2, <3>1
    <3>2. 6 - 5 = 1 /\ 6 - 4 = 2 /\ 6 - 3 = 3
        OBVIOUS
    <3> QED
        BY <2>1, <3>1, <3>2
  <2>4. /\ pc = "clean" /\ pc' = "clean"
        /\ uri' = IF Head(left) = "uri" THEN 0 ELSE uri
        /\ sh' = IF Head(left) = "sh" THEN NoFile ELSE sh
        /\ yml' = IF Head(left) = "yml" THEN NoFile ELSE yml
      BY <1>1 DEF CleanNext
  <2>5. /\ Len(left) # 5 => uri = 0
        /\ Len(left) \notin {4, 5} => sh = NoFile
        /\ Len(left) \notin {3, 4, 5} => yml = NoFile
      BY <2>4
  <2>6. /\ uri' = 0
        /\ Len(left') \notin {4, 5} => sh' = NoFile
        /\ Len(left') \notin {3, 4, 5} => yml' = NoFile
      BY <2>2, <2>3, <2>4, <2>5
  <2> QED
      BY <2>4, <2>6
<1>2. ASSUME NEW r \in Requests, Begin(r) PROVE CleanInv'
  <2>1. Len(CleanOrder) = 5
      BY DEF CleanOrder
  <2>2. r.cmd \in {"run", "start", "stop", "clean", "lbstart", "lbstop", "teardown"}
      BY RequestsOK DEF Request
  <2>3. At' \in {"validate", "clean"} => r.cmd \in {"run", "clean"}
      BY <1>2, <2>2 DEF Begin
  <2>4. r.cmd \in {"run", "clean"} => Len(left') = 5
      BY <1>2, <2>1 DEF Begin
  <2> QED
      BY <2>3, <2>4
<1>3. CASE Validate
    BY <1>3 DEF Validate, CallStop, CommandInv, outputs
<1>4. CASE Stop \/ StopFails
  <2>1. At' \in {At, "idle"} /\ UNCHANGED <<left, outputs>>
    BY <1>4 DEF Stop, StopFails, ReadPidFile, TerminateServer, StopRecorded, ForgetRecorded,
       StopContainer, ListProcesses, StopByCommandLine, StopSelf, StopByImage, StopByName, End,
       CommandInv
  <2> QED
    BY <2>1 DEF outputs
<1>5. CASE Succeed \/ Fail \/ StepFails \/ Crash \/ StartBalancer \/ StopBalancer \/ TearDown
           \/ TearDownRest
  <2>1. At' \notin {"validate", "clean"}
    BY <1>5 DEF Succeed, Fail, StepFails, Crash, StartBalancer, StopBalancer, TearDown,
       TearDownRest, CallStop, End
  <2> QED
    BY <2>1
<1>6. CASE CleanDone \/ Configure \/ Download \/ MoveLibrary
           \/ WriteCryptYml \/ WriteCryptSh \/ Deploy \/ Start \/ CleanStart \/ Launch
           \/ Connect \/ ConnectTimesOut
  <2>1. At' \notin {"validate", "clean"}
    BY <1>6 DEF CleanDone, Configure, Download, MoveLibrary,
       WriteCryptYml, WriteCryptSh, Deploy, CallStop, Start, CleanStart, Launch, Connect,
       ConnectTimesOut
  <2> QED
    BY <2>1
<1>7. CASE Post \/ Answered \/ StartRunner \/ RunnerReturns \/ RecordRunner \/ StartContainer
           \/ RecordContainer \/ ContainerHealthy \/ WriteYml \/ WriteSh \/ WriteUri
  <2>1. At' \notin {"validate", "clean"}
    BY <1>7 DEF Post, Answered, StartRunner, RunnerReturns, RecordRunner, StartContainer,
       RecordContainer, ContainerHealthy, WriteYml, WriteSh, WriteUri, CallStop
  <2> QED
    BY <2>1
<1>8. CASE MongodFails \/ PortTaken \/ ServerDies \/ \E p \in Ports : Spawn(p)
    BY <1>8 DEF MongodFails, PortTaken, ServerDies, Abandon, Spawn, outputs
<1> QED
    BY <1>1, <1>2, <1>3, <1>4, <1>5, <1>6, <1>7, <1>8 DEF Next, Step, Run

(* clean_run withdraws the uri, then the files, then what they name.       *)
LEMMA CleanAgrees ==
    ASSUME TypeOK, CleanInv, PublishedFilesAgree, CleanNext
    PROVE  PublishedFilesAgree'
<1>1. /\ CleanOrder[1] = "uri" /\ CleanOrder[2] = "sh" /\ CleanOrder[3] = "yml"
      /\ CleanOrder[4] = "lib" /\ CleanOrder[5] = "otel"
    BY DEF CleanOrder
<1>2. /\ Len(left) # 5 => uri = 0
      /\ Len(left) \notin {4, 5} => sh = NoFile
      /\ Len(left) \notin {3, 4, 5} => yml = NoFile
    BY DEF CleanNext, CleanInv, At, StopSteps
<1>3. Len(left) \in {1, 2, 3, 4, 5} /\ Head(left) = CleanOrder[6 - Len(left)]
  <2>1. Len(left) \in 1 .. 5 /\ Head(left) = CleanOrder[6 - Len(left)]
      BY LeftTail DEF CleanNext, TypeOK
  <2> QED
      BY <2>1
<1> USE DEF PublishedFilesAgree, UriAgrees, NamedPathsExist
<1>4. CASE Len(left) = 5
  <2>1. Head(left) = "uri"
      BY <1>1, <1>3, <1>4
  <2>2. uri' = 0 /\ UNCHANGED <<sh, yml>> /\ (lib => lib') /\ (oteldir => oteldir')
      BY <2>1, Zenon DEF CleanNext
  <2> QED
      BY <2>2
<1>5. CASE Len(left) = 4
  <2>1. Head(left) = "sh"
      BY <1>1, <1>3, <1>5
  <2>2. UNCHANGED <<uri, yml>> /\ sh' = NoFile /\ (lib => lib') /\ (oteldir => oteldir')
      BY <2>1 DEF CleanNext
  <2> QED
      BY <1>2, <1>5, <2>2 DEF NoFile
<1>6. CASE Len(left) = 3
    BY <1>1, <1>2, <1>3, <1>6 DEF CleanNext, NoFile
<1>7. CASE Len(left) \in {1, 2}
  <2>1. uri = 0 /\ sh = NoFile /\ yml = NoFile
      BY <1>2, <1>7
  <2>2. uri' = 0 /\ sh' = NoFile /\ yml' = NoFile
      BY <2>1 DEF CleanNext
  <2> QED
      BY <2>2 DEF NoFile
<1> QED
    BY <1>3, <1>4, <1>5, <1>6, <1>7

(* A run writes both files alike and the uri last, so they always agree.   *)
LEMMA WritingStep ==
    ASSUME TypeOK, CommandInv, CleanInv, WritingInv, PublishedFilesAgree, Next
    PROVE  WritingInv' /\ PublishedFilesAgree'
<1> USE DEF WritingInv, Working, At, StopSteps, RunSteps, StartSteps, Goto, command,
            PublishedFilesAgree, UriAgrees, NamedPathsExist
<1>1. CASE CleanNext
  <2>1. WritingInv'
      BY <1>1 DEF CleanNext
  <2> QED
      BY <1>1, <2>1, CleanAgrees
<1>2. CASE Configure
    BY <1>2 DEF Configure
<1>3. CASE MoveLibrary
    BY <1>3 DEF MoveLibrary
<1>4. CASE WriteCryptYml
    BY <1>4 DEF WriteCryptYml, NoFile
<1>5. CASE WriteCryptSh
    BY <1>5 DEF WriteCryptSh, NoFile
<1>6. CASE WriteYml
    BY <1>6 DEF WriteYml, Expand, TypeOK, FileType, Expansion
<1>7. CASE WriteSh
    BY <1>7 DEF WriteSh, Expand, TypeOK, FileType, Expansion
<1>8. CASE WriteUri
    BY <1>8 DEF WriteUri
<1>0. UNCHANGED outputs => PublishedFilesAgree'
    BY DEF outputs
<1>9. ASSUME NEW r \in Requests, Begin(r) PROVE WritingInv'
  <2>1. r.cmd \in {"run", "start", "stop", "clean", "lbstart", "lbstop", "teardown"}
      BY RequestsOK DEF Request
  <2> QED
      BY <1>9, <2>1 DEF Begin
<1>10. ASSUME Stop \/ StopFails
      PROVE  WritingInv'
  <2>1. At' \in {At, "idle"} /\ UNCHANGED <<req, id, outputs>>
      BY <1>10 DEF Stop, StopFails, ReadPidFile, TerminateServer, StopRecorded, ForgetRecorded,
         StopContainer, ListProcesses, StopByCommandLine, StopSelf, StopByImage, StopByName, End,
         CommandInv
  <2> QED
      BY <2>1 DEF outputs, Expand
<1>11. ASSUME Succeed \/ Fail \/ StepFails \/ Crash \/ StartBalancer \/ StopBalancer
            \/ TearDown \/ TearDownRest
      PROVE  WritingInv'
  <2>1. At' \in {"idle", "raise", "exit0", "containers"}
      BY <1>11 DEF Succeed, Fail, StepFails, Crash, StartBalancer, StopBalancer, TearDown,
         TearDownRest, CallStop, End
  <2> QED
      BY <2>1
<1>12. ASSUME Validate \/ CleanDone \/ Download \/ Deploy
      PROVE  WritingInv'
    BY <1>12, LeftTail DEF Validate, CleanDone, Download, Deploy, CallStop, outputs, CleanInv
<1>13. ASSUME Start \/ CleanStart \/ Launch \/ Connect \/ ConnectTimesOut
      PROVE  WritingInv'
    BY <1>13 DEF Start, CleanStart, Launch, Connect, ConnectTimesOut, CallStop, outputs
<1>14. ASSUME Post \/ Answered \/ StartRunner \/ RunnerReturns \/ RecordRunner \/ StartContainer
           \/ RecordContainer \/ ContainerHealthy
      PROVE  WritingInv'
    BY <1>14 DEF Post, Answered, StartRunner, RunnerReturns, RecordRunner, StartContainer,
       RecordContainer, ContainerHealthy, CallStop, outputs, CommandInv
<1>15. ASSUME MongodFails \/ PortTaken \/ ServerDies \/ \E p \in Ports : Spawn(p)
      PROVE  WritingInv'
  <2>1. UNCHANGED <<pc, after, req, id, outputs>>
      BY <1>15 DEF MongodFails, PortTaken, ServerDies, Abandon, Spawn
  <2> QED
      BY <2>1 DEF outputs, Expand
<1> QED
    BY <1>1, <1>2, <1>3, <1>4, <1>5, <1>6, <1>7, <1>8, <1>9, <1>10, <1>11, <1>12, <1>13, <1>14,
       <1>15, <1>0, OutputFrame DEF Next, Step, Run

-----------------------------------------------------------------------------
(* server.pid names no other server than the one that is alive.            *)
LEMMA ServerStep ==
    ASSUME TypeOK, CommandInv, ServerInv, Next
    PROVE  ServerInv'
<1> USE DEF ServerInv, Goto, End, EndServer, command
<1>0. CASE ReadPidFile
    BY <1>0 DEF ReadPidFile, processes
<1>1. CASE TerminateServer
    BY <1>1 DEF TerminateServer, records
<1>12. CASE StopRecorded \/ ForgetRecorded \/ StopContainer \/ StopFails
    BY <1>12 DEF StopRecorded, ForgetRecorded, StopContainer, StopFails, processes, records
<1>2. CASE ListProcesses \/ StopByCommandLine \/ StopSelf \/ StopByImage \/ StopByName
    BY <1>2 DEF ListProcesses, StopByCommandLine, StopSelf, StopByImage, StopByName,
       processes, records, CommandInv
<1>3. CASE Launch \/ CleanStart
    BY <1>3 DEF Launch, CleanStart, processes
<1>4. CASE Post \/ StartRunner
    BY <1>4 DEF Post, StartRunner, Build, records
<1>5. CASE MongodFails \/ PortTaken
  <2>1. builders' \subseteq builders /\ UNCHANGED <<pc, victim, seen, mo, box, pidfile>>
      BY <1>5 DEF MongodFails, PortTaken, Abandon, records
  <2> QED
      BY <2>1
<1>6. CASE ServerDies \/ Crash
    BY <1>6 DEF ServerDies, Crash, records
<1>7. ASSUME NEW p \in Ports, Spawn(p) PROVE ServerInv'
  <2>1. UNCHANGED <<pc, victim, seen, mo, box, pidfile>>
      BY <1>7 DEF Spawn, records
  <2>2. \A c \in builders' : \E d \in builders : c.by = d.by
      BY <1>7, SpawnKeepsBuilders DEF Spawn, TypeOK
  <2> QED
      BY <2>1, <2>2
<1>8. ASSUME NEW r \in Requests, Begin(r) PROVE ServerInv'
  <2>1. r.cmd \in {"run", "start", "stop", "clean", "lbstart", "lbstop", "teardown"}
      BY RequestsOK DEF Request
  <2> QED
      BY <1>8, <2>1 DEF Begin, processes, records
<1>9. CASE Succeed \/ Fail \/ StepFails \/ StartBalancer \/ StopBalancer \/ TearDown
           \/ TearDownRest
    BY <1>9 DEF Succeed, Fail, StepFails, StartBalancer, StopBalancer, TearDown,
         TearDownRest, CallStop, processes, records
<1>10. CASE Validate \/ CleanNext \/ CleanDone \/ Configure \/ Download \/ MoveLibrary
            \/ WriteCryptYml \/ WriteCryptSh \/ Deploy \/ Start \/ Connect \/ ConnectTimesOut
    BY <1>10 DEF Validate, CleanNext, CleanDone, Configure, Download, MoveLibrary, WriteCryptYml,
       WriteCryptSh, Deploy, Start, Connect, ConnectTimesOut, CallStop, processes, records
<1>11. CASE Answered \/ RunnerReturns \/ RecordRunner \/ StartContainer \/ RecordContainer
            \/ ContainerHealthy \/ WriteYml \/ WriteSh \/ WriteUri
    BY <1>11 DEF Answered, RunnerReturns, RecordRunner, StartContainer, RecordContainer,
       ContainerHealthy, WriteYml, WriteSh, WriteUri, CallStop, processes, records
<1> QED
    BY <1>0, <1>1, <1>2, <1>3, <1>4, <1>5, <1>6, <1>7, <1>8, <1>9, <1>10, <1>11, <1>12
       DEF Next, Step, Stop, Run

(* Only start() comes to the step in which it waits for the server.        *)
LEMMA ConnectFrame ==
    ASSUME CommandInv, Next
    PROVE  pc' \in {"connect", "post"} => pc' = pc \/ Launch \/ Connect
<1>1. ASSUME NEW r \in Requests, Begin(r) PROVE pc' \notin {"connect", "post"}
  <2>1. r.cmd \in {"run", "start", "stop", "clean", "lbstart", "lbstop", "teardown"}
      BY RequestsOK DEF Request
  <2> QED
      BY <1>1, <2>1 DEF Begin, Goto
<1> QED
    BY <1>1 DEF Next, Step, Stop, Run, CommandInv, Goto, End, command, CallStop, Succeed, Fail,
       ReadPidFile, TerminateServer,
   StopRecorded, ForgetRecorded, StopContainer, ListProcesses, StopByCommandLine, StopSelf,
   StopByImage, StopByName, Validate, CleanNext, CleanDone, Configure, Download, MoveLibrary,
   WriteCryptYml, WriteCryptSh, Deploy, Start, CleanStart, ConnectTimesOut, Post,
   Answered, StartRunner, RunnerReturns, RecordRunner, StartContainer, RecordContainer,
   ContainerHealthy, WriteYml, WriteSh, WriteUri, StartBalancer, StopBalancer, TearDown,
   TearDownRest, Spawn, StepFails, StopFails, MongodFails, PortTaken, Abandon, ServerDies, Crash

(* A mongodb-runner's directory goes only with what out.log records.       *)
LEMMA RunnerStep ==
    ASSUME TypeOK, CommandInv, ServerInv, RunnerInv, DeploymentInv, Next
    PROVE  RunnerInv'
<1> USE DEF RunnerInv, Building, Goto
<1>1. CASE TerminateServer \/ StopByCommandLine \/ StopSelf \/ ServerDies \/ Crash
           \/ MongodFails \/ PortTaken
  <2>1. /\ builders' \subseteq builders /\ UNCHANGED <<dirs, outlog>>
        /\ pc' = pc \/ pc' \notin {"connect", "post"}
      BY <1>1 DEF TerminateServer, StopByCommandLine, StopSelf, ServerDies, Crash, EndServer,
         MongodFails, PortTaken, Abandon, records, End
  <2> QED
      BY <2>1
<1>2. ASSUME NEW p \in Ports, Spawn(p) PROVE RunnerInv'
  <2>1. UNCHANGED <<pc, dirs, outlog>>
      BY <1>2 DEF Spawn, records
  <2>2. \A c \in builders' : \E d \in builders : c.by = d.by /\ c.dep = d.dep
      BY <1>2, SpawnKeepsBuilders DEF Spawn, TypeOK
  <2> QED
      BY <2>1, <2>2
<1>3. CASE Post
    BY <1>3 DEF Post, Build, records
<1>4. CASE StartRunner
    BY <1>4 DEF StartRunner, Build, NoLog
<1>5. CASE StopRecorded
    BY <1>5 DEF StopRecorded
<1>6. CASE ForgetRecorded \/ CleanStart \/ Launch
    BY <1>6 DEF ForgetRecorded, CleanStart, Launch, NoLog, processes
<1>7. CASE RecordRunner
    BY <1>7 DEF RecordRunner, processes, DeploymentInv, At, StopSteps
<1>8. CASE ReadPidFile \/ StopContainer \/ RecordContainer \/ StartBalancer \/ StopBalancer
    BY <1>8 DEF ReadPidFile, StopContainer, RecordContainer, StartBalancer, StopBalancer,
       processes
<1>9. CASE StopByImage \/ StopByName \/ StopFails \/ StartContainer
    BY <1>9, ConnectFrame DEF StopByImage, StopByName, StopFails, StartContainer, records, Launch,
       Connect
<1>10. CASE Connect
    BY <1>10 DEF Connect, processes, records
<1>11. CASE UNCHANGED <<processes, records>> /\ ~Connect /\ ~Launch
    BY <1>11, ConnectFrame DEF processes, records
<1> QED
    BY <1>1, <1>2, <1>3, <1>4, <1>5, <1>6, <1>7, <1>8, <1>9, <1>10, <1>11, ProcessFrame,
       RecordFrame

(* After the listing only a mongodb-runner still starts mongods.           *)
LEMMA SeenStep ==
    ASSUME TypeOK, CommandInv, ServerInv, RunnerInv, SeenInv, Next
    PROVE  SeenInv'
<1> USE DEF SeenInv, Goto
<1>1. CASE ListProcesses
  <2>1. \A p \in Ports : owner[p] = 0 \/ <<p, owner[p]>> \in Mongods
      BY DEF Mongods, TypeOK, ProcessType
  <2> QED
      BY <1>1, <2>1 DEF ListProcesses, processes
<1>2. CASE StopByCommandLine \/ StopSelf \/ StopByImage
    BY <1>2 DEF StopByCommandLine, StopSelf, StopByImage, End, records, command
<1>3. CASE StopByName
    BY <1>3 DEF StopByName, CommandInv
<1>4. ASSUME NEW p \in Ports, Spawn(p) PROVE SeenInv'
  <2>1. PICK b \in builders : owner' = [owner EXCEPT ![p] = b.dep] 
      BY <1>4 DEF Spawn
  <2>2. UNCHANGED <<pc, victim, seen, dirs>>
      BY <1>4 DEF Spawn, command, records
  <2>3. pc \in {"cmdline", "images", "names"} /\ victim # 0 => b.dep \in dirs
      BY DEF ServerInv, RunnerInv, TypeOK, ProcessType
  <2> QED
      BY <2>1, <2>2, <2>3 DEF TypeOK, ProcessType
<1>5. CASE MongodFails \/ PortTaken
    BY <1>5, Ends DEF MongodFails, PortTaken, Abandon, command, records, TypeOK
<1>6. CASE ServerDies
    BY <1>6 DEF ServerDies, command, records
<1>7. CASE pc' \notin {"cmdline", "images", "names"}
    BY <1>7
<1>8. \/ ListProcesses \/ StopByCommandLine \/ StopSelf \/ StopByImage \/ StopByName
      \/ MongodFails \/ PortTaken \/ ServerDies \/ (\E p \in Ports : Spawn(p))
      \/ pc' \notin {"cmdline", "images", "names"}
  <2>1. ASSUME NEW r \in Requests, Begin(r) PROVE pc' \notin {"cmdline", "images", "names"}
    <3>1. r.cmd \in {"run", "start", "stop", "clean", "lbstart", "lbstop", "teardown"}
        BY RequestsOK DEF Request
    <3> QED
        BY <2>1, <3>1 DEF Begin, Goto
  <2> QED
      BY <2>1 DEF Next, Step, Stop, Run, CommandInv, End, CallStop, Succeed, Fail, ReadPidFile,
         TerminateServer, StopRecorded, ForgetRecorded, StopContainer, Validate, CleanNext,
         CleanDone, Configure, Download, MoveLibrary, WriteCryptYml, WriteCryptSh, Deploy, Start,
         CleanStart, Launch, Connect, ConnectTimesOut, Post, Answered, StartRunner, RunnerReturns,
         RecordRunner, StartContainer, RecordContainer, ContainerHealthy, WriteYml, WriteSh,
         WriteUri, StartBalancer, StopBalancer, TearDown, TearDownRest, StepFails, StopFails,
         Crash
<1> QED
    BY <1>1, <1>2, <1>3, <1>4, <1>5, <1>6, <1>7, <1>8

(* A deployment that nobody brings up any more stays up while nothing is    *)
(* stopped.                                                                *)
LEMMA StaysUp ==
    ASSUME TypeOK, NEW d \in Ids \ {0}, Up(d), ~Building(d),
           MongodFails \/ PortTaken \/ (\E p \in Ports : Spawn(p))
    PROVE  Up(d)'
<1>1. UNCHANGED box
    BY DEF MongodFails, PortTaken, Abandon, Spawn
<1>2. CASE \E p \in Ports : Spawn(p)
  <2>1. PICK p \in Ports, b \in builders : owner[p] = 0 /\ owner' = [owner EXCEPT ![p] = b.dep]
      BY <1>2 DEF Spawn, Free
  <2> QED
      BY <1>1, <2>1 DEF Up
<1>3. CASE MongodFails \/ PortTaken
  <2>1. PICK b \in builders :
          \/ owner' = owner
          \/ owner' = [p \in Ports |-> IF owner[p] = b.dep THEN 0 ELSE owner[p]]
      BY <1>3 DEF MongodFails, PortTaken, Abandon
  <2> QED
      BY <1>1, <2>1 DEF Up, Building, TypeOK, ProcessType
<1> QED
    BY <1>2, <1>3

(* Only Post and StartRunner add a builder, one for this command.          *)
LEMMA BuilderDeps ==
    ASSUME TypeOK, Next
    PROVE  \/ \A c \in builders' : \E d \in builders : c.dep = d.dep
           \/ /\ (pc = "post" /\ pc' = "building") \/ (pc = "runner" /\ pc' = "starting")
              /\ \A c \in builders' : c.dep = id \/ c \in builders
<1>1. CASE Post \/ StartRunner
    BY <1>1 DEF Post, StartRunner, Build, Goto
<1>2. ASSUME NEW p \in Ports, Spawn(p)
      PROVE  \A c \in builders' : \E d \in builders : c.dep = d.dep
    BY <1>2, SpawnKeepsBuilders DEF Spawn, TypeOK
<1>3. CASE TerminateServer \/ StopByCommandLine \/ StopSelf \/ ServerDies \/ Crash
    BY <1>3 DEF TerminateServer, StopByCommandLine, StopSelf, ServerDies, Crash, EndServer
<1>4. CASE MongodFails \/ PortTaken
    BY <1>4 DEF MongodFails, PortTaken, Abandon
<1>5. CASE UNCHANGED processes \/ StopRecorded \/ StopContainer \/ StopByImage \/ StopByName
           \/ StopFails \/ Launch \/ StartContainer \/ StartBalancer \/ StopBalancer
    BY <1>5 DEF processes, StopRecorded, StopContainer, StopByImage, StopByName, StopFails,
       Launch,
       StartContainer, StartBalancer, StopBalancer
<1> QED
    BY <1>1, <1>2, <1>3, <1>4, <1>5, ProcessFrame

(* A command leaves the steps in which its deployment is brought up with    *)
(* an answer or for good.                                                  *)
LEMMA Leaves ==
    ASSUME CommandInv, Next, At \in {"idle", "building", "starting", "raise"}
    PROVE  \/ At' \in {"idle", "building", "starting", "raise"}
           \/ ~Building(id) /\ UNCHANGED <<id, builders>>
           \/ \E r \in Requests : Begin(r)
<1> USE DEF At, StopSteps, Goto, End, CommandInv, command
<1>1. CASE Answered \/ RunnerReturns
    BY <1>1 DEF Answered, RunnerReturns, CallStop, processes
<1>2. CASE Stop \/ StopFails
    BY <1>2 DEF Stop, StopFails, ReadPidFile, TerminateServer, StopRecorded, ForgetRecorded,
       StopContainer, ListProcesses, StopByCommandLine, StopSelf, StopByImage, StopByName
<1>3. CASE MongodFails \/ PortTaken \/ ServerDies \/ Crash \/ \E p \in Ports : Spawn(p)
    BY <1>3 DEF MongodFails, PortTaken, ServerDies, Crash, Abandon, Spawn
<1> QED
    BY <1>1, <1>2, <1>3 DEF Next, Step, Run, Succeed, Fail, Validate, CleanNext, CleanDone,
       Configure,
       Download, MoveLibrary, WriteCryptYml, WriteCryptSh, Deploy, Start, CleanStart, Launch,
       Connect, ConnectTimesOut, Post, StartRunner, RecordRunner, StartContainer, RecordContainer,
       ContainerHealthy, WriteYml, WriteSh, WriteUri, StartBalancer, StopBalancer, TearDown,
       TearDownRest, StepFails

(* What is being published was brought up completely, and stays so.        *)
LEMMA DeploymentStep ==
    ASSUME TypeOK, CommandInv, WritingInv, DeploymentInv, Next
    PROVE  DeploymentInv'
<1>1. (\A b \in builders : b.dep <= id)'
  <2>1. id \in Nat /\ id' \in {id, id + 1} /\ \A b \in builders : b.dep \in Nat /\ b.dep <= id
      BY RequestFrame, RequestsOK DEF TypeOK, CommandType, ProcessType, Ids, Begin, DeploymentInv
  <2> QED
      BY <2>1, BuilderDeps
<1>2. (At \notin {"idle", "building", "starting", "raise"} => ~Building(id))'
  <2>1. ASSUME NEW r \in Requests, Begin(r) PROVE ~Building(id)'
    <3>1. id \in Nat /\ id' = id + 1 /\ \A b \in builders' : b.dep \in Nat /\ b.dep <= id
        BY <2>1, RequestsOK DEF TypeOK, CommandType, ProcessType, Ids, Begin, DeploymentInv,
           processes
    <3> QED
        BY <3>1 DEF Building
  <2>2. CASE At \in {"idle", "building", "starting", "raise"}
      BY <2>1, <2>2, Leaves DEF Building
  <2>3. CASE At \notin {"idle", "building", "starting", "raise"} /\ UNCHANGED <<req, id>>
      BY <2>3, BuilderDeps DEF Building, DeploymentInv, At, StopSteps
  <2> QED
      BY <2>1, <2>2, <2>3, RequestFrame
<1>3. (uri # 0 => ~Building(uri))'
  <2>1. CASE WriteUri
      BY <2>1 DEF WriteUri, processes, Building, DeploymentInv, At, StopSteps
  <2>2. CASE ~WriteUri
    <3>1. uri' = 0 \/ uri' = uri
        BY <2>2, OutputFrame DEF outputs, CleanNext, Configure, MoveLibrary, WriteCryptYml,
           WriteCryptSh, WriteYml, WriteSh
    <3>2. pc \in {"post", "runner"} => uri = 0
        BY DEF WritingInv, Working, RunSteps, At, StopSteps
    <3>3. uri # 0 => \A c \in builders' : \E d \in builders : c.dep = d.dep
        BY <3>2, BuilderDeps
    <3> QED
        BY <3>1, <3>3 DEF Building, DeploymentInv
  <2> QED
      BY <2>1, <2>2
<1>4. (box # 0 => owner[BoxPort] = 0)'
  <2>1. owner \in [Ports -> Ids] /\ BoxPort \in Ports /\ (box # 0 => owner[BoxPort] = 0)
      BY RequestsOK DEF TypeOK, ProcessType, DeploymentInv
  <2>2. CASE UNCHANGED <<owner, box>>
      BY <2>1, <2>2
  <2>3. CASE StopRecorded \/ StopByName \/ StopFails \/ MongodFails \/ PortTaken
      BY <2>1, <2>3, Ends DEF TypeOK, StopRecorded, StopByName, StopFails, MongodFails, PortTaken,
         Abandon
  <2>4. CASE StopContainer \/ StopByImage \/ StartContainer
      BY <2>1, <2>4 DEF StopContainer, StopByImage, StartContainer, Free
  <2>5. ASSUME NEW p \in Ports, Spawn(p) PROVE (box # 0 => owner[BoxPort] = 0)'
      BY <2>1, <2>5 DEF Spawn, Free
  <2> QED
      BY <2>2, <2>3, <2>4, <2>5, ProcessFrame DEF processes, TerminateServer, StopByCommandLine,
         StopSelf, Launch, Post, StartRunner, StartBalancer, StopBalancer, ServerDies, Crash
<1>5. (pc \in {"dockerid", "healthy"} => box = id)'
  <2>1. CASE StartContainer \/ RecordContainer
      BY <2>1 DEF StartContainer, RecordContainer, DeploymentInv, command, processes, Goto
  <2>2. \/ StartContainer \/ RecordContainer
        \/ pc' \notin {"dockerid", "healthy"}
        \/ UNCHANGED <<pc, id, box>>
    <3>1. ASSUME NEW r \in Requests, Begin(r) PROVE pc' \notin {"dockerid", "healthy"}
      <4>1. r.cmd \in {"run", "start", "stop", "clean", "lbstart", "lbstop", "teardown"}
          BY RequestsOK DEF Request
      <4> QED
          BY <3>1, <4>1 DEF Begin, Goto
    <3>2. CASE Stop \/ StopFails
        BY <3>2 DEF Stop, StopFails, ReadPidFile, TerminateServer, StopRecorded, ForgetRecorded,
           StopContainer, ListProcesses, StopByCommandLine, StopSelf, StopByImage, StopByName,
           CommandInv, Goto, End
    <3>3. CASE MongodFails \/ PortTaken \/ ServerDies \/ Crash \/ \E p \in Ports : Spawn(p)
        BY <3>3 DEF MongodFails, PortTaken, ServerDies, Crash, Abandon, Spawn, End, command
    <3> QED
        BY <3>1, <3>2, <3>3 DEF Next, Step, Run, Succeed, Fail, Validate, CleanNext, CleanDone,
           Configure, Download, MoveLibrary, WriteCryptYml, WriteCryptSh, Deploy, Start,
           CleanStart,
           Launch, Connect, ConnectTimesOut, Post, Answered, StartRunner, RunnerReturns,
           RecordRunner, ContainerHealthy, WriteYml, WriteSh, WriteUri, StartBalancer,
           StopBalancer, TearDown, TearDownRest, StepFails, CallStop, Goto, End, command,
           processes
  <2> QED
      BY <2>1, <2>2 DEF DeploymentInv
<1>6. (pc \in {"recording", "yml", "sh", "uri"} => Up(id))'
  <2>1. CASE MongodFails \/ PortTaken \/ \E p \in Ports : Spawn(p)
    <3>1. UNCHANGED <<pc, id, after>>
        BY <2>1 DEF MongodFails, PortTaken, Abandon, Spawn, command
    <3>2. pc \in {"recording", "yml", "sh", "uri"} => Up(id) /\ ~Building(id) /\ id \in Ids \ {0}
        BY DEF DeploymentInv, CommandInv, At, StopSteps, TypeOK, CommandType
    <3> QED
        BY <2>1, <3>1, <3>2, StaysUp DEF Up
  <2>2. CASE Answered \/ RunnerReturns \/ ContainerHealthy \/ RecordRunner \/ WriteYml \/ WriteSh
      BY <2>2 DEF Answered, RunnerReturns, ContainerHealthy, RecordRunner, WriteYml, WriteSh,
         DeploymentInv, Up, CallStop, Goto, command, processes
  <2>3. \/ MongodFails \/ PortTaken \/ \E p \in Ports : Spawn(p)
        \/ Answered \/ RunnerReturns \/ ContainerHealthy \/ RecordRunner \/ WriteYml \/ WriteSh
        \/ pc' \notin {"recording", "yml", "sh", "uri"}
        \/ UNCHANGED <<pc, id, box, owner>>
    <3>1. ASSUME NEW r \in Requests, Begin(r) PROVE pc' \notin {"recording", "yml", "sh", "uri"}
      <4>1. r.cmd \in {"run", "start", "stop", "clean", "lbstart", "lbstop", "teardown"}
          BY RequestsOK DEF Request
      <4> QED
          BY <3>1, <4>1 DEF Begin, Goto
    <3>2. CASE Stop \/ StopFails
        BY <3>2 DEF Stop, StopFails, ReadPidFile, TerminateServer, StopRecorded, ForgetRecorded,
           StopContainer, ListProcesses, StopByCommandLine, StopSelf, StopByImage, StopByName,
           CommandInv, Goto, End
    <3>3. CASE ServerDies \/ Crash
        BY <3>3 DEF ServerDies, Crash, End, command
    <3> QED
        BY <3>1, <3>2, <3>3 DEF Next, Step, Run, Succeed, Fail, Validate, CleanNext, CleanDone,
           Configure, Download, MoveLibrary, WriteCryptYml, WriteCryptSh, Deploy, Start,
           CleanStart,
           Launch, Connect, ConnectTimesOut, Post, StartRunner, StartContainer, RecordContainer,
           WriteUri, StartBalancer, StopBalancer, TearDown, TearDownRest, StepFails, CallStop,
           Goto, End, command, processes
  <2> QED
      BY <2>1, <2>2, <2>3 DEF DeploymentInv, Up
<1> QED
    BY <1>1, <1>2, <1>3, <1>4, <1>5, <1>6 DEF DeploymentInv

-----------------------------------------------------------------------------
(* The inductive invariant holds at first,                                 *)
LEMMA InitInv ==
    ASSUME Init
    PROVE  IInv
<1>1. TypeOK
  <2>1. CleanOrder = <<"uri", "sh", "yml", "lib", "otel">> /\ Len(CleanOrder) = 5
      BY DEF CleanOrder
  <2>2. \E k \in 0 .. Len(CleanOrder) : left = SubSeq(CleanOrder, k + 1, Len(CleanOrder))
    <3>1. left = SubSeq(CleanOrder, 5 + 1, Len(CleanOrder)) /\ 5 \in 0 .. Len(CleanOrder)
        BY <2>1, SubSeqEmpty DEF Init
    <3> QED
        BY <3>1
  <2>3. CommandType
      BY <2>2, RequestsOK DEF Init, CommandType, Steps, Ids, NoneSeen
  <2>4. ProcessType
      BY RequestsOK DEF Init, ProcessType, Ids
  <2>5. NoFile \in Expansion
      BY RequestsOK DEF NoFile, Expansion, Ids
  <2>6. 0 \in Ids /\ NoLog \in [kind : {"none", "text", "json"}, dep : Ids]
      BY RequestsOK DEF NoLog, Ids
  <2>7. FileType
      BY <2>5, <2>6, Zenon DEF Init, FileType
  <2> QED
      BY <2>3, <2>4, <2>7 DEF TypeOK
<1>2. PublishedFilesAgree
    BY DEF Init, PublishedFilesAgree, UriAgrees, NamedPathsExist, NoFile
<1>3. CommandInv /\ CleanInv /\ WritingInv
    BY DEF Init, CommandInv, CleanInv, WritingInv, Working, At, StopSteps, RunSteps, StartSteps
<1>4. ServerInv /\ RunnerInv /\ SeenInv /\ DeploymentInv
    BY DEF Init, ServerInv, RunnerInv, SeenInv, DeploymentInv, Building, NoLog, At, StopSteps
<1> QED
    BY <1>1, <1>2, <1>3, <1>4 DEF IInv

(* every step of the program keeps it,                                     *)
LEMMA NextInv ==
    ASSUME IInv, Next
    PROVE  IInv'
BY TypeInv, CommandStep, CleanStep, WritingStep, ServerStep, RunnerStep, SeenStep, DeploymentStep
   DEF IInv

(* and so does a step that changes nothing.                                *)
LEMMA StutterInv ==
    ASSUME IInv, UNCHANGED vars
    PROVE  IInv'
<1> USE DEF vars, command, processes, records, outputs
<1>1. TypeOK'
    BY DEF IInv, TypeOK, CommandType, ProcessType, FileType
<1>2. PublishedFilesAgree'
    BY DEF IInv, PublishedFilesAgree, UriAgrees, NamedPathsExist
<1>3. UNCHANGED <<At, Working>>
    BY DEF At, Working
<1>4. CommandInv' /\ CleanInv'
    BY <1>3 DEF IInv, CommandInv, CleanInv
<1>5. WritingInv'
    BY <1>3 DEF IInv, WritingInv, Expand
<1>6. ServerInv' /\ RunnerInv' /\ SeenInv'
    BY DEF IInv, ServerInv, RunnerInv, SeenInv, Building
<1>7. DeploymentInv'
    BY <1>3 DEF IInv, DeploymentInv, Building, Up
<1> QED
    BY <1>1, <1>2, <1>4, <1>5, <1>6, <1>7 DEF IInv

(* The inductive invariant holds of every reachable state.                 *)
THEOREM Invariant == Spec => []IInv
<1>1. Init => IInv
    BY InitInv
<1>2. IInv /\ [Next]_vars => IInv'
    BY NextInv, StutterInv
<1> QED
    BY <1>1, <1>2, PTL DEF Spec

(* Every variable keeps its type.                                          *)
THEOREM TypeCorrect == Spec => []TypeOK
<1>1. IInv => TypeOK
    BY DEF IInv
<1> QED
    BY <1>1, Invariant, PTL

(* Whatever crashes and fails between any two steps of a run, uri.txt names *)
(* the deployment both expansion files name, and the paths they name exist. *)
THEOREM FilesAgree == Spec => []PublishedFilesAgree
<1>1. IInv => PublishedFilesAgree
    BY DEF IInv
<1> QED
    BY <1>1, Invariant, PTL

(* When stop() has come to its last step no mongo-orchestration and no      *)
(* container is left; and when server.pid named the server, no mongod but   *)
(* those of a mongodb-runner that outlived its command.                    *)
THEOREM StopLeavesNothing == Spec => NothingLeft
<1> DEFINE A == [StopByName =>
                    /\ mo' = 0 /\ box' = 0
                    /\ victim # 0 => \A p \in Ports : owner'[p] \in dirs \cup {0}]_vars
<1>1. IInv /\ [Next]_vars => A
  <2> SUFFICES ASSUME IInv, StopByName
               PROVE  /\ mo' = 0 /\ box' = 0
                      /\ victim # 0 => \A p \in Ports : owner'[p] \in dirs \cup {0}
      OBVIOUS
  <2>1. mo = 0 /\ box = 0 /\ UNCHANGED <<mo, box>>
      BY DEF IInv, StopByName, ServerInv
  <2>2. ASSUME victim # 0, NEW p \in Ports
        PROVE  owner'[p] \in dirs \cup {0}
    <3>1. owner[p] = 0 \/ <<p, owner[p]>> \in seen.mongods \/ owner[p] \in dirs
        BY <2>2 DEF IInv, SeenInv, StopByName
    <3>2. owner'[p] = IF <<p, owner[p]>> \in seen.mongods THEN 0 ELSE owner[p]
        BY DEF StopByName
    <3> QED
        BY <3>1, <3>2
  <2> QED
      BY <2>1, <2>2
<1> QED
    BY <1>1, Invariant, PTL DEF Spec, NothingLeft

-----------------------------------------------------------------------------
(* The refinement: while uri.txt names a deployment that is up, no other    *)
(* comes up; what stops only takes deployments away.                       *)
UpNow == {d \in Ids \ {0} : Up(d)}

(* Nothing is up that was not before, unless a mongod or a container was    *)
(* started.                                                                *)
LEMMA StopsOnly ==
    ASSUME TypeOK, Next, ~StartContainer, \A p \in Ports : ~Spawn(p)
    PROVE  UpNow' \subseteq UpNow
<1>1. BoxPort \in Ports /\ owner \in [Ports -> Ids]
    BY RequestsOK DEF TypeOK, ProcessType
<1>2. CASE UNCHANGED <<owner, box>>
    BY <1>2 DEF UpNow, Up
<1>3. CASE StopRecorded \/ StopByName \/ StopFails \/ MongodFails \/ PortTaken
  <2>1. UNCHANGED box /\ \A p \in Ports : owner'[p] \in {0, owner[p]}
      BY <1>3, Ends DEF TypeOK, StopRecorded, StopByName, StopFails, MongodFails, PortTaken,
         Abandon
  <2> QED
      BY <2>1 DEF UpNow, Up
<1>4. CASE StopContainer \/ StopByImage
  <2>1. UNCHANGED owner /\ box' \in {0, box}
      BY <1>4 DEF StopContainer, StopByImage
  <2> QED
      BY <2>1 DEF UpNow, Up
<1> QED
    BY <1>2, <1>3, <1>4, ProcessFrame DEF processes, TerminateServer, StopByCommandLine,
       StopSelf, Launch, Post, StartRunner, StartBalancer, StopBalancer, ServerDies, Crash

(* A mongod that starts belongs to a deployment nobody has published, and   *)
(* takes a free port, so that nothing that was up is not any more.          *)
LEMMA SpawnsBeside ==
    ASSUME TypeOK, DeploymentInv, NEW p \in Ports, Spawn(p), uri # 0, Up(uri)'
    PROVE  UpNow' \subseteq UpNow
<1>1. PICK b \in builders :
        /\ owner[p] = 0 /\ (p = BoxPort => box = 0)
        /\ owner' = [owner EXCEPT ![p] = b.dep] /\ UNCHANGED <<box, uri>>
    BY DEF Spawn, Free, outputs
<1>2. owner \in [Ports -> Ids] /\ b.dep # uri
    BY <1>1 DEF TypeOK, ProcessType, DeploymentInv, Building
<1>3. owner'[p] = b.dep
    BY <1>1, <1>2
<1>4. box = uri
    BY <1>1, <1>2, <1>3 DEF Up
<1>5. owner[BoxPort] = 0 /\ owner'[BoxPort] = 0 /\ BoxPort \in Ports
    BY <1>1, <1>4, RequestsOK DEF DeploymentInv
<1> QED
    BY <1>1, <1>5 DEF UpNow, Up

(* Orchestration implements Published: a uri appears only after the last    *)
(* one was withdrawn, and only when its deployment is completely up; and    *)
(* while the deployment that uri.txt names is up, no other comes up.        *)
THEOREM Refinement == Spec => KeepsPromise
<1>1. Init => Promise!Init
  <2>1. ASSUME Init PROVE {d \in Ids \ {0} : Up(d)} = {}
      BY <2>1, RequestsOK DEF Init, Up
  <2>2. ASSUME Init PROVE {uri} \ {0} = {}
      BY <2>2 DEF Init
  <2> QED
      BY <2>1, <2>2 DEF Promise!Init
<1>2. IInv /\ [Next]_vars => [Promise!Next]_<<{uri} \ {0}, UpNow>>
  <2> SUFFICES ASSUME IInv, Next
               PROVE  \/ UNCHANGED <<{uri} \ {0}, UpNow>>
                      \/ Promise!Next
    <3>1. UNCHANGED vars => UNCHANGED <<{uri} \ {0}, UpNow>>
        BY DEF vars, processes, outputs, UpNow, Up
    <3> QED
        BY <3>1
  <2> USE DEF IInv
  <2>1. CASE WriteUri
    <3>1. uri = 0 /\ Up(id) /\ id \in Ids \ {0} /\ uri' = id /\ UNCHANGED <<owner, box>>
        BY <2>1 DEF WriteUri, WritingInv, DeploymentInv, CommandInv, Working, At, StopSteps,
           RunSteps, TypeOK, CommandType, processes
    <3>2. Promise!Publish(id)
        BY <3>1 DEF Promise!Publish, Up
    <3> QED
        BY <3>1, <3>2 DEF Promise!Next
  <2>2. CASE CleanNext
    <3>1. uri' \in {0, uri} /\ UNCHANGED <<owner, box>>
        BY <2>2 DEF CleanNext, processes
    <3> QED
        BY <3>1 DEF Promise!Next, Promise!Withdraw, UpNow, Up
  <2>3. CASE ~WriteUri /\ ~CleanNext
    <3>1. UNCHANGED uri
        BY <2>3, OutputFrame DEF outputs, Configure, MoveLibrary, WriteCryptYml, WriteCryptSh,
           WriteYml, WriteSh
    <3>2. uri # 0 /\ Up(uri)' => UpNow' \subseteq UpNow
      <4>1. StartContainer => uri = 0
          BY DEF StartContainer, WritingInv, Working, At, StopSteps, RunSteps
      <4> QED
          BY <4>1, StopsOnly, SpawnsBeside
    <3>3. ({uri} \ {0}) \cap UpNow' # {} => uri # 0 /\ Up(uri)'
        BY <3>1 DEF UpNow, Up
    <3>4. Promise!Change
        BY <3>1, <3>2, <3>3 DEF Promise!Change, UpNow
    <3> QED
        BY <3>4 DEF Promise!Next
  <2> QED
      BY <2>1, <2>2, <2>3
<1> QED
    BY <1>1, <1>2, Invariant, PTL DEF Spec, KeepsPromise, Promise!Spec, UpNow
=============================================================================
