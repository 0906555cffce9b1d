---------------------------- MODULE Orchestration ----------------------------
(***************************************************************************)
(* drivers_orchestration.py and the scripts around it: one command at a     *)
(* time (run, start, stop, clean, the load balancer's start and stop, the   *)
(* teardown) works on the processes and the files of one checkout.          *)
(*                                                                          *)
(* A deployment is a mongod on every port, brought up by mongo-orchestration *)
(* (an HTTP server that outlives the command), by the mongodb-runner CLI (a *)
(* child), or in a local-atlas container.  It is named by the number of the *)
(* command that asked for it; 0 means "none".  A shutdown ends its process: *)
(* terminate, two seconds, kill.                                            *)
(***************************************************************************)
EXTENDS Integers, Sequences

CONSTANTS Ports,        (* the ports of a deployment                       *)
          BoxPort,      (* the one a local-atlas container takes           *)
          Requests,     (* the commands that may be given                  *)
          MaxCommands,  (* bound: commands                                 *)
          MaxFaults     (* bound: crashes, failed downloads, ...           *)

Ids == 0 .. MaxCommands

(* mode: what run deploys with; inArgs: --mongo-orchestration-home is given *)
(* on the command line rather than in the environment.                      *)
Request == [cmd : {"run", "start", "stop", "clean", "lbstart", "lbstop", "teardown"},
            mode : {"mo", "runner", "atlas"},
            otel : BOOLEAN, crypt : BOOLEAN, inArgs : BOOLEAN]

ASSUME RequestsOK ==
    /\ Requests \subseteq Request /\ Requests # {}
    /\ BoxPort \in Ports
    /\ MaxCommands \in Nat \ {0}
    /\ MaxFaults \in Nat

VARIABLES
    pc,       (* the command's next step                                   *)
    req,      (* the command                                               *)
    id,       (* its number                                                *)
    after,    (* the step that follows stop()                              *)
    victim,   (* the pid stop() read from server.pid                       *)
    seen,     (* the processes stop() listed: [mo, mongods]                *)
    left,     (* what clean_run has still to remove                        *)
    outcome,  (* how the last command ended                                *)
    mo,       (* the mongo-orchestration that is alive                     *)
    owner,    (* [Ports -> deployment whose mongod listens there]          *)
    builders, (* who brings a deployment up: [by, dep, todo]               *)
    box,      (* the local-atlas container that is running                 *)
    lb,       (* the haproxies that are running                            *)
    pidfile,  (* server.pid                                                *)
    outlog,   (* out.log: [kind, dep]                                      *)
    boxfile,  (* container_id.txt                                          *)
    serverlog,(* server.log is there                                       *)
    dirs,     (* the data directories of mongodb-runner's deployments      *)
    uri,      (* uri.txt                                                   *)
    sh, yml,  (* mo-expansion.sh, mo-expansion.yml                         *)
    lib,      (* the crypt_shared library is in DRIVERS_TOOLS              *)
    oteldir,  (* the trace directory is there                              *)
    lbconf,   (* haproxy.conf is there                                     *)
    lbpid,    (* haproxy.pid                                               *)
    faults    (* faults so far                                             *)

command == <<req, id, after, victim, seen, left>>
processes == <<mo, owner, builders, box, lb>>
records == <<pidfile, outlog, boxfile, serverlog, dirs, lbconf, lbpid>>
outputs == <<uri, sh, yml, lib, oteldir>>
vars == <<pc, command, outcome, processes, records, outputs, faults>>

NoneSeen == [mo |-> 0, mongods |-> {}]
NoLog == [kind |-> "none", dep |-> 0]
NoFile == [there |-> FALSE, crypt |-> FALSE, uri |-> 0, otel |-> "unset"]

(* Mutant: what names a file is removed after it.                          *)
CleanExpansionsLast == <<"uri", "lib", "otel", "sh", "yml">>
(* The order of clean_run.                                                 *)
CleanOrder == <<"uri", "sh", "yml", "lib", "otel">>

Steps == {"idle", "validate", "pidfile", "terminate", "outlog", "forget", "container",
          "snapshot", "cmdline", "images", "names", "clean", "configure", "download",
          "crypt", "cryptyml", "cryptsh", "deploy", "start", "cleanstart", "launch",
          "connect", "post", "building", "runner", "starting", "recording", "docker",
          "dockerid", "healthy", "yml", "sh", "uri", "raise", "exit0", "teardown",
          "containers", "haproxy"}

Expansion == [there : BOOLEAN, crypt : BOOLEAN, uri : Ids, otel : {"unset", "empty", "dir"}]

CommandType ==
    /\ pc \in Steps /\ after \in Steps
    /\ req \in Requests /\ id \in Ids /\ victim \in Ids
    /\ seen.mo \in Ids /\ seen.mongods \in SUBSET (Ports \X (Ids \ {0}))
    /\ \E k \in 0 .. Len(CleanOrder) : left = SubSeq(CleanOrder, k + 1, Len(CleanOrder))
    /\ outcome \in {"none", "running", "ok", "failed", "killed"}
    /\ faults \in 0 .. MaxFaults

ProcessType ==
    /\ mo \in Ids /\ box \in Ids /\ lb \in SUBSET Ids
    /\ owner \in [Ports -> Ids]
    /\ builders \subseteq [by : {"mo", "runner"}, dep : Ids \ {0}, todo : (SUBSET Ports) \ {{}}]

FileType ==
    /\ pidfile \in Ids /\ boxfile \in Ids /\ serverlog \in BOOLEAN
    /\ outlog \in [kind : {"none", "text", "json"}, dep : Ids]
    /\ dirs \in SUBSET Ids
    /\ lbconf \in BOOLEAN /\ lbpid \in Ids
    /\ uri \in Ids /\ sh \in Expansion /\ yml \in Expansion
    /\ lib \in BOOLEAN /\ oteldir \in BOOLEAN

TypeOK == CommandType /\ ProcessType /\ FileType

Init ==
    /\ pc = "idle" /\ after = "idle" /\ req \in Requests /\ id = 0
    /\ victim = 0 /\ seen = NoneSeen /\ left = <<>>
    /\ outcome = "none"
    /\ mo = 0 /\ owner = [p \in Ports |-> 0] /\ builders = {} /\ box = 0 /\ lb = {}
    /\ pidfile = 0 /\ outlog = NoLog /\ boxfile = 0 /\ serverlog = FALSE
    /\ dirs = {} /\ lbconf = FALSE /\ lbpid = 0
    /\ uri = 0 /\ sh = NoFile /\ yml = NoFile /\ lib = FALSE /\ oteldir = FALSE
    /\ faults = 0

-----------------------------------------------------------------------------
Goto(step) == pc' = step
End(how) == pc' = "idle" /\ outcome' = how
Fault == faults < MaxFaults /\ faults' = faults + 1
(* A step that goes on, or one that changes only some of the files.        *)
Quietly == UNCHANGED <<outcome, faults>>

Begin(r) ==
    /\ pc = "idle"
    /\ id < MaxCommands
    /\ req' = r /\ id' = id + 1
    /\ outcome' = "running"
    /\ after' = "exit0"
    /\ left' = IF r.cmd \in {"run", "clean"} THEN CleanOrder ELSE <<>>
    /\ Goto(CASE r.cmd = "run" -> "validate"
              [] r.cmd = "stop" -> "pidfile"
              [] r.cmd \in {"lbstart", "lbstop"} -> "haproxy"
              [] OTHER -> r.cmd)
    /\ UNCHANGED <<victim, seen, processes, records, outputs, faults>>

Succeed ==
    /\ pc = "exit0"
    /\ End("ok")
    /\ UNCHANGED <<command, processes, records, outputs, faults>>

Fail ==
    /\ pc = "raise"
    /\ End("failed")
    /\ UNCHANGED <<command, processes, records, outputs, faults>>

-----------------------------------------------------------------------------
(* stop().                                                                 *)

CallStop(next) == Goto("pidfile") /\ after' = next /\ UNCHANGED <<req, id, victim, seen, left>>

(* Mutant: server.pid is removed and its process is not looked at.          *)
ReadPidFileOnly ==
    /\ pc = "pidfile"
    /\ Goto("outlog")
    /\ victim' = pidfile
    /\ pidfile' = 0
    /\ UNCHANGED <<req, id, after, seen, left, processes, outlog, boxfile, serverlog, dirs,
                   lbconf, lbpid, outputs>> /\ Quietly

(* When mongo-orchestration ends, it brings nothing up any more.            *)
EndServer ==
    /\ mo' = 0
    /\ builders' = {b \in builders : b.by # "mo"}

ReadPidFile ==
    /\ pc = "pidfile"
    /\ IF pidfile = 0 THEN Goto("outlog") ELSE Goto("terminate")
    /\ victim' = pidfile
    /\ pidfile' = 0
    /\ UNCHANGED <<req, id, after, seen, left, processes, outlog, boxfile, serverlog, dirs,
                   lbconf, lbpid, outputs>> /\ Quietly

TerminateServer ==
    /\ pc = "terminate"
    /\ IF mo = victim THEN EndServer ELSE UNCHANGED <<mo, builders>>
    /\ Goto("outlog")
    /\ UNCHANGED <<command, owner, box, lb, records, outputs>> /\ Quietly

(* out.log as the serialized cluster of mongodb-runner.                    *)
StopRecorded ==
    /\ pc = "outlog"
    /\ IF outlog.kind = "json"
       THEN /\ owner' = [p \in Ports |-> IF owner[p] = outlog.dep THEN 0 ELSE owner[p]]
            /\ dirs' = dirs \ {outlog.dep}
            /\ Goto("forget")
       ELSE UNCHANGED <<owner, dirs>> /\ Goto("container")
    /\ UNCHANGED <<command, mo, builders, box, lb, pidfile, outlog, boxfile, serverlog,
                   lbconf, lbpid, outputs>> /\ Quietly

ForgetRecorded ==
    /\ pc = "forget"
    /\ outlog' = NoLog
    /\ Goto("container")
    /\ UNCHANGED <<command, processes, pidfile, boxfile, serverlog, dirs, lbconf, lbpid, outputs>>
    /\ Quietly

StopContainer ==
    /\ pc = "container"
    /\ box' = IF boxfile # 0 /\ box = boxfile THEN 0 ELSE box
    /\ boxfile' = 0
    /\ Goto("snapshot")
    /\ UNCHANGED <<command, mo, owner, builders, lb, pidfile, outlog, serverlog, dirs,
                   lbconf, lbpid, outputs>> /\ Quietly

Mongods == {m \in Ports \X (Ids \ {0}) : owner[m[1]] = m[2]}

ListProcesses ==
    /\ pc = "snapshot"
    /\ seen' = [mo |-> mo, mongods |-> Mongods]
    /\ Goto("cmdline")
    /\ UNCHANGED <<req, id, after, victim, left, processes, records, outputs>> /\ Quietly

(* Every process with "mongo-orchestration" in an argument.                *)
StopByCommandLine ==
    /\ pc = "cmdline"
    /\ ~req.inArgs
    /\ IF mo # 0 /\ mo = seen.mo THEN EndServer ELSE UNCHANGED <<mo, builders>>
    /\ Goto("images")
    /\ UNCHANGED <<command, owner, box, lb, records, outputs>> /\ Quietly

(* ... which is this very command when the option is among its arguments.  *)
StopSelf ==
    /\ pc = "cmdline"
    /\ req.inArgs
    /\ \/ IF mo # 0 /\ mo = seen.mo THEN EndServer ELSE UNCHANGED <<mo, builders>>
       \/ UNCHANGED <<mo, builders>>
    /\ End("killed")
    /\ UNCHANGED <<command, owner, box, lb, records, outputs, faults>>

(* Mutant: the names of the servers are not among those looked for.         *)
StopByOldName ==
    /\ pc = "names"
    /\ Goto(after)
    /\ victim' = 0 /\ seen' = NoneSeen
    /\ UNCHANGED <<req, id, after, left, processes, records, outputs>> /\ Quietly

StopByImage ==
    /\ pc = "images"
    /\ box' = 0
    /\ Goto("names")
    /\ UNCHANGED <<command, mo, owner, builders, lb, records, outputs>> /\ Quietly

StopByName ==
    /\ pc = "names"
    /\ owner' = [p \in Ports |-> IF <<p, owner[p]>> \in seen.mongods THEN 0 ELSE owner[p]]
    /\ Goto(after)
    /\ victim' = 0 /\ seen' = NoneSeen
    /\ UNCHANGED <<req, id, after, left, mo, builders, box, lb, records, outputs>> /\ Quietly

(* shutil.rmtree of a data directory fails: some of the servers are ended,  *)
(* and out.log is still there.                                             *)
StopFails ==
    /\ pc = "outlog" /\ outlog.kind = "json"
    /\ Fault
    /\ \E some \in (SUBSET Ports) \ {{}} :
        owner' = [p \in Ports |-> IF p \in some /\ owner[p] = outlog.dep THEN 0 ELSE owner[p]]
    /\ End("failed")
    /\ UNCHANGED <<command, mo, builders, box, lb, records, outputs>>

Stop ==
    \/ ReadPidFile \/ TerminateServer \/ StopRecorded \/ ForgetRecorded \/ StopContainer
    \/ ListProcesses \/ StopByCommandLine \/ StopSelf \/ StopByImage \/ StopByName

-----------------------------------------------------------------------------
(* run().                                                                  *)

Validate ==
    /\ pc = "validate"
    /\ IF req.otel /\ req.mode = "atlas"
       THEN Goto("raise") /\ UNCHANGED command
       ELSE CallStop("clean")
    /\ UNCHANGED <<processes, records, outputs>> /\ Quietly

CleanNext ==
    /\ pc = "clean"
    /\ left # <<>>
    /\ left' = Tail(left)
    /\ uri' = IF Head(left) = "uri" THEN 0 ELSE uri
    /\ sh' = IF Head(left) = "sh" THEN NoFile ELSE sh
    /\ yml' = IF Head(left) = "yml" THEN NoFile ELSE yml
    /\ lib' = (lib /\ Head(left) # "lib")
    /\ oteldir' = (oteldir /\ Head(left) # "otel")
    /\ UNCHANGED <<pc, req, id, after, victim, seen, processes, records>> /\ Quietly

CleanDone ==
    /\ pc = "clean"
    /\ left = <<>>
    /\ Goto(IF req.cmd = "run" THEN "configure" ELSE "cleanstart")
    /\ UNCHANGED <<command, processes, records, outputs>> /\ Quietly

Configure ==
    /\ pc = "configure"
    /\ oteldir' = (oteldir \/ req.otel)
    /\ Goto("download")
    /\ UNCHANGED <<command, processes, records, uri, sh, yml, lib>> /\ Quietly

Download ==
    /\ pc = "download"
    /\ Goto(IF req.crypt THEN "crypt" ELSE "deploy")
    /\ UNCHANGED <<command, processes, records, outputs>> /\ Quietly

(* shutil.move does not replace what is there.                             *)
MoveLibrary ==
    /\ pc = "crypt"
    /\ Goto(IF lib THEN "raise" ELSE "cryptyml")
    /\ lib' = TRUE
    /\ UNCHANGED <<command, processes, records, uri, sh, yml, oteldir>> /\ Quietly

WriteCryptYml ==
    /\ pc = "cryptyml"
    /\ yml' = [NoFile EXCEPT !.there = TRUE, !.crypt = TRUE]
    /\ Goto("cryptsh")
    /\ UNCHANGED <<command, processes, records, uri, sh, lib, oteldir>> /\ Quietly

WriteCryptSh ==
    /\ pc = "cryptsh"
    /\ sh' = [NoFile EXCEPT !.there = TRUE, !.crypt = TRUE]
    /\ Goto("deploy")
    /\ UNCHANGED <<command, processes, records, uri, yml, lib, oteldir>> /\ Quietly

(* mongodb-runner gives way to mongo-orchestration for old servers and on   *)
(* hosts that cannot run it.                                                *)
Deploy ==
    /\ pc = "deploy"
    /\ \/ req.mode = "atlas" /\ CallStop("docker")
       \/ req.mode = "runner" /\ Goto("runner") /\ UNCHANGED command
       \/ req.mode # "atlas" /\ Goto("start") /\ UNCHANGED command
    /\ UNCHANGED <<processes, records, outputs>> /\ Quietly

(* The config, a download, npm or docker fails; nothing is stopped.        *)
StepFails ==
    /\ pc \in {"configure", "download", "crypt", "deploy", "launch", "docker", "healthy",
              "teardown"}
    /\ Fault
    /\ Goto("raise")
    /\ UNCHANGED <<command, outcome, processes, records, outputs>>

-----------------------------------------------------------------------------
(* start().                                                                *)

Start ==
    /\ pc = "start"
    /\ IF pidfile # 0 THEN CallStop("cleanstart")
                      ELSE Goto("cleanstart") /\ UNCHANGED command
    /\ UNCHANGED <<processes, records, outputs>> /\ Quietly

CleanStart ==
    /\ pc = "cleanstart"
    /\ outlog' = NoLog /\ serverlog' = FALSE /\ pidfile' = 0
    /\ Goto(IF req.cmd = "clean" THEN "exit0" ELSE "launch")
    /\ UNCHANGED <<command, processes, boxfile, dirs, lbconf, lbpid, outputs>> /\ Quietly

(* A server that is still there keeps its port, and the new one ends.      *)
Launch ==
    /\ pc = "launch"
    /\ outlog' = [kind |-> "text", dep |-> 0]
    /\ serverlog' = TRUE
    /\ IF mo = 0 THEN mo' = id /\ pidfile' = id ELSE UNCHANGED <<mo, pidfile>>
    /\ Goto("connect")
    /\ UNCHANGED <<command, owner, builders, box, lb, boxfile, dirs, lbconf, lbpid, outputs>>
    /\ Quietly

(* Whoever listens on 8889 will do.                                        *)
Connect ==
    /\ pc = "connect"
    /\ mo # 0
    /\ Goto(IF req.cmd = "run" THEN "post" ELSE "exit0")
    /\ UNCHANGED <<command, processes, records, outputs>> /\ Quietly

ConnectTimesOut ==
    /\ pc = "connect"
    /\ mo = 0
    /\ CallStop("raise")
    /\ UNCHANGED <<processes, records, outputs>> /\ Quietly

-----------------------------------------------------------------------------
(* Bringing a deployment up.                                               *)

Build(by) == builders' = builders \cup {[by |-> by, dep |-> id, todo |-> Ports]}
Building(d) == \E b \in builders : b.dep = d
Up(d) == (\A p \in Ports : owner[p] = d) \/ box = d
Free(p) == owner[p] = 0 /\ (p = BoxPort => box = 0)

Post ==
    /\ pc = "post"
    /\ IF mo = 0 THEN Goto("raise") /\ UNCHANGED builders
                 ELSE Goto("building") /\ Build("mo")
    /\ UNCHANGED <<command, mo, owner, box, lb, records, outputs>> /\ Quietly

(* Mutant: an HTTP error is taken for an answer.                           *)
AnsweredWhatever ==
    /\ pc = "building"
    /\ ~Building(id)
    /\ Goto(IF mo # 0 THEN "yml" ELSE "raise")
    /\ UNCHANGED <<command, processes, records, outputs>> /\ Quietly

(* The answer: the deployment's uri, an HTTP error that stops everything,   *)
(* or a broken connection that stops nothing.                               *)
Answered ==
    /\ pc = "building"
    /\ ~Building(id)
    /\ \/ Up(id) /\ Goto("yml") /\ UNCHANGED command
       \/ ~Up(id) /\ mo # 0 /\ CallStop("raise")
       \/ mo = 0 /\ Goto("raise") /\ UNCHANGED command
    /\ UNCHANGED <<processes, records, outputs>> /\ Quietly

StartRunner ==
    /\ pc = "runner"
    /\ outlog' = NoLog
    /\ serverlog' = TRUE
    /\ dirs' = dirs \cup {id}
    /\ Build("runner")
    /\ Goto("starting")
    /\ UNCHANGED <<command, mo, owner, box, lb, pidfile, boxfile, lbconf, lbpid, outputs>>
    /\ Quietly

(* The runner's own cluster file is removed before out.log is written.     *)
RunnerReturns ==
    /\ pc = "starting"
    /\ ~Building(id)
    /\ Goto(IF Up(id) THEN "recording" ELSE "raise")
    /\ UNCHANGED <<command, processes, records, outputs>> /\ Quietly

RecordRunner ==
    /\ pc = "recording"
    /\ outlog' = [kind |-> "json", dep |-> id]
    /\ Goto("yml")
    /\ UNCHANGED <<command, processes, pidfile, boxfile, serverlog, dirs, lbconf, lbpid, outputs>>
    /\ Quietly

StartContainer ==
    /\ pc = "docker"
    /\ IF box = 0 /\ Free(BoxPort) THEN box' = id /\ Goto("dockerid")
                                ELSE UNCHANGED box /\ Goto("raise")
    /\ UNCHANGED <<command, mo, owner, builders, lb, records, outputs>> /\ Quietly

RecordContainer ==
    /\ pc = "dockerid"
    /\ boxfile' = id
    /\ Goto("healthy")
    /\ UNCHANGED <<command, processes, pidfile, outlog, serverlog, dirs, lbconf, lbpid, outputs>>
    /\ Quietly

ContainerHealthy ==
    /\ pc = "healthy"
    /\ Goto("yml")
    /\ UNCHANGED <<command, processes, records, outputs>> /\ Quietly

Expand(file) == [file EXCEPT !.there = TRUE, !.uri = id,
                             !.otel = IF req.otel THEN "dir" ELSE "empty"]

WriteYml ==
    /\ pc = "yml"
    /\ yml' = Expand(yml)
    /\ Goto("sh")
    /\ UNCHANGED <<command, processes, records, uri, sh, lib, oteldir>> /\ Quietly

WriteSh ==
    /\ pc = "sh"
    /\ sh' = Expand(sh)
    /\ Goto("uri")
    /\ UNCHANGED <<command, processes, records, uri, yml, lib, oteldir>> /\ Quietly

WriteUri ==
    /\ pc = "uri"
    /\ uri' = id
    /\ Goto("exit0")
    /\ UNCHANGED <<command, processes, records, sh, yml, lib, oteldir>> /\ Quietly

Run ==
    \/ Validate \/ CleanNext \/ CleanDone \/ Configure \/ Download \/ MoveLibrary
    \/ WriteCryptYml \/ WriteCryptSh \/ Deploy
    \/ Start \/ CleanStart \/ Launch \/ Connect \/ ConnectTimesOut
    \/ Post \/ Answered \/ StartRunner \/ RunnerReturns \/ RecordRunner
    \/ StartContainer \/ RecordContainer \/ ContainerHealthy
    \/ WriteYml \/ WriteSh \/ WriteUri

-----------------------------------------------------------------------------
(* run-load-balancer.sh and teardown.sh.                                   *)

(* Without MONGODB_URI nothing is done; a second haproxy takes the ports     *)
(* beside the first one, or cannot.                                        *)
StartBalancer ==
    /\ pc = "haproxy" /\ req.cmd = "lbstart"
    /\ \/ UNCHANGED <<lbconf, lbpid, lb>> /\ Goto("raise")
       \/ lbconf' = TRUE /\ lb' = lb \cup {id} /\ lbpid' = id /\ Goto("exit0")
       \/ lbconf' = TRUE /\ lb # {} /\ UNCHANGED <<lb, lbpid>> /\ Goto("raise")
    /\ UNCHANGED <<command, mo, owner, builders, box, pidfile, outlog, boxfile, serverlog,
                   dirs, outputs>> /\ Quietly

StopBalancer ==
    /\ pc = "haproxy" /\ req.cmd = "lbstop"
    /\ IF lbpid # 0 THEN lb' = lb \ {lbpid} /\ lbconf' = FALSE /\ lbpid' = 0
                    ELSE UNCHANGED <<lb, lbconf, lbpid>>
    /\ Goto("exit0")
    /\ UNCHANGED <<command, mo, owner, builders, box, pidfile, outlog, boxfile, serverlog,
                   dirs, outputs>> /\ Quietly

(* The load balancer's script is looked for under /.evergreen; docker rm    *)
(* does not remove what is running.                                         *)
TearDown ==
    /\ pc = "teardown"
    /\ \/ serverlog /\ CallStop("containers")
       \/ ~serverlog /\ Goto("containers") /\ UNCHANGED command
    /\ UNCHANGED <<processes, records, outputs>> /\ Quietly

TearDownRest ==
    /\ pc = "containers"
    /\ Goto(IF lbconf THEN "raise" ELSE "exit0")
    /\ UNCHANGED <<command, processes, records, outputs>> /\ Quietly

Step ==
    \/ Succeed \/ Fail \/ Stop \/ Run
    \/ StartBalancer \/ StopBalancer \/ TearDown \/ TearDownRest

-----------------------------------------------------------------------------
(* What happens beside the command.                                        *)

(* Mutant: who has started the last mongod does not say so.                *)
SpawnUnreported(p) ==
    /\ \E b \in builders :
        /\ p \in b.todo
        /\ Free(p)
        /\ owner' = [owner EXCEPT ![p] = b.dep]
        /\ builders' = (builders \ {b}) \cup {[b EXCEPT !.todo = @ \ {p}]}
    /\ UNCHANGED <<pc, command, outcome, mo, box, lb, records, outputs, faults>>

(* mongo-orchestration or mongodb-runner starts the next mongod.           *)
Without(b, ports) ==
    (builders \ {b}) \cup (IF b.todo \subseteq ports THEN {} ELSE {[b EXCEPT !.todo = @ \ ports]})

Spawn(p) ==
    /\ \E b \in builders :
        /\ p \in b.todo
        /\ Free(p)
        /\ owner' = [owner EXCEPT ![p] = b.dep]
        /\ builders' = Without(b, {p})
    /\ UNCHANGED <<pc, command, outcome, mo, box, lb, records, outputs, faults>>

(* Who gives up removes what it had started, or does not.                  *)
Abandon(b) ==
    /\ builders' = builders \ {b}
    /\ \/ UNCHANGED owner
       \/ owner' = [p \in Ports |-> IF owner[p] = b.dep THEN 0 ELSE owner[p]]
    /\ UNCHANGED <<pc, command, outcome, mo, box, lb, records, outputs>>

PortTaken == \E b \in builders : (\E p \in b.todo : ~Free(p)) /\ Abandon(b) /\ UNCHANGED faults

MongodFails == Fault /\ \E b \in builders : Abandon(b)

ServerDies ==
    /\ mo # 0
    /\ Fault
    /\ EndServer
    /\ UNCHANGED <<pc, command, outcome, owner, box, lb, records, outputs>>

(* The command is killed, and mongodb-runner, its child, with it or not.   *)
Crash ==
    /\ pc # "idle"
    /\ Fault
    /\ End("killed")
    /\ builders' \in {builders, {b \in builders : b.by = "mo"}}
    /\ UNCHANGED <<command, mo, owner, box, lb, records, outputs>>

Next ==
    \/ \E r \in Requests : Begin(r)
    \/ Step
    \/ \E p \in Ports : Spawn(p)
    \/ PortTaken
    \/ StepFails \/ StopFails \/ MongodFails \/ ServerDies \/ Crash

(* A command that was given goes on, and so does who brings a deployment    *)
(* up; nobody has to give a command.                                        *)
Fairness == WF_vars(Step) /\ WF_vars(PortTaken) /\ \A p \in Ports : WF_vars(Spawn(p))

Spec == Init /\ [][Next]_vars
FairSpec == Spec /\ Fairness

-----------------------------------------------------------------------------
(* Whoever reads uri.txt finds the same deployment in both expansion files, *)
(* with the trace directory of that run: they are written before it and     *)
(* removed after it.                                                        *)
UriAgrees ==
    uri # 0 => sh.uri = uri /\ yml.uri = uri /\ sh.otel = yml.otel /\ sh.crypt = yml.crypt

(* A path the expansion files name exists: the library and the trace        *)
(* directory are there before they are named and go after their names.      *)
NamedPathsExist ==
    \A file \in {sh, yml} :
        (file.crypt => lib) /\ (file.otel = "dir" => oteldir)

(* What is published fits together at every step of a run and of clean_run, *)
(* and after a crash between any two of them.                               *)
PublishedFilesAgree == UriAgrees /\ NamedPathsExist

(* What a run could not clean up is never published with its deployment: a  *)
(* mongod of an earlier command on one of the ports fails the run instead.  *)
Promise == INSTANCE Published WITH
    Deployments <- Ids \ {0},
    published <- {uri} \ {0},
    up <- {d \in Ids \ {0} : Up(d)}

KeepsPromise == Promise!Spec

(* However commands and servers died before: once nobody they left behind   *)
(* brings a deployment up, the next run succeeds.                           *)
Heals ==
    \A n \in Ids :
        (/\ faults = MaxFaults /\ builders = {} /\ id = n
         /\ pc = "validate" /\ ~(req.otel /\ req.mode = "atlas"))
        ~> (id = n /\ outcome = "ok")

(* Where server.pid still named the server, stop() leaves no mongod but      *)
(* those of a mongodb-runner that outlived its command; and in any case no   *)
(* server and no container, whichever of the records were lost.             *)
NothingLeft ==
    [][StopByName =>
        /\ mo' = 0 /\ box' = 0
        /\ victim # 0 => \A p \in Ports : owner'[p] \in dirs \cup {0}]_vars

(* The teardown stops the load balancer.                                   *)
BalancerStopped ==
    req.cmd = "teardown" /\ pc = "idle" /\ outcome # "killed" /\ id # 0 => lb = {}
=============================================================================
