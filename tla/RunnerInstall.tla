--------------------------- MODULE RunnerInstall ---------------------------
(***************************************************************************)
(* mongodb_runner.py as drivers_orchestration.run() uses it: whether the     *)
(* host can run mongodb-runner is found out by installing the committed pin  *)
(* set with npm, into a directory that outlives the run; the servers of the  *)
(* run are then wrapped so that their output reaches the log directory.      *)
(*                                                                          *)
(* Runs follow each other on one host.  Between them the pin sets may be     *)
(* updated and node-artifacts may be deleted; a run may be killed anywhere.  *)
(***************************************************************************)
EXTENDS Integers

CONSTANTS Servers,     (* the binaries that are wrapped: mongod, mongos      *)
          PinSets,     (* the version directories beside "default"           *)
          MaxRuns,     (* bound: runs                                        *)
          MaxCommits,  (* bound: updates of a pin set                        *)
          MaxFaults    (* bound: kills and network failures                  *)

ASSUME RunnerAssumption ==
    /\ "default" \notin PinSets
    /\ MaxRuns \in Nat /\ MaxCommits \in Nat /\ MaxFaults \in Nat

Nodes == {"none", "old", "new"}
Requests == [version : PinSets \cup {"other", "unsupported"}, dev : BOOLEAN, sourced : BOOLEAN]

Sets == PinSets \cup {"default"}
Versions == 0 .. MaxCommits
(* The digests of the two files of a set, one for each commit of the set.   *)
Digests == Sets \X (0 .. MaxCommits)
(* version: the runner and driver versions; digest: of package.json and     *)
(* package-lock.json; needs: the oldest Node that every package accepts;    *)
(* sound: npm can install it.                                               *)
Pin == [version : Versions, digest : Digests, needs : {"old", "new"}, sound : BOOLEAN]
Messages == {"none", "no npm", "EBADENGINE", "integrity", "network"}

VARIABLES
    host,      (* [glibc, node]: its C library, the Node it has on PATH     *)
    pins,      (* the committed pin sets                                    *)
    revs,      (* updates so far                                            *)
    artifacts, (* the Node in node-artifacts                                *)
    trees,     (* [directory under TMPDIR -> the tree installed in it]      *)
    bin,       (* [server -> what the binaries directory holds under its name and under -real] *)
    pc, run, req,
    ours,      (* node-artifacts is first on this run's PATH                *)
    probing,   (* the install is _mongodb_runner_supported's                *)
    retried,   (* Node was installed and npm is given its second chance     *)
    message,   (* what npm ci said                                          *)
    first,     (* [said, node]: what it said the first time, on which Node  *)
    wrapped,   (* the servers _tee_wrap_server_binaries is done with        *)
    outcome,   (* how the run ended                                         *)
    faults

machine == <<host, pins, revs, artifacts, trees, bin>>
process == <<pc, run, req, ours, probing, retried, message, first, wrapped, outcome>>
vars == <<machine, process, faults>>

NoTree == [state |-> "none", digest |-> <<"default", 0>>]
NoTry == [said |-> "none", node |-> "none"]
NoBinary == [file |-> "none", of |-> 0, real |-> 0]

Steps == {"idle", "clean", "download", "choose", "probe", "wrap", "create", "fill", "chmod",
          "install", "npm", "linked", "node", "failed", "launch", "fallback"}

TypeOK ==
    /\ host \in [glibc : {"old", "new"}, node : Nodes]
    /\ pins \in [Sets -> Pin]
    /\ revs \in 0 .. MaxCommits
    /\ artifacts \in Nodes
    /\ trees \in [Versions \X Digests ->
                    [state : {"none", "linked", "whole"}, digest : Digests]]
    /\ bin \in [Servers -> [file : {"none", "server", "torn", "text", "wrapper"},
                            of : 0 .. MaxRuns, real : 0 .. MaxRuns]]
    /\ pc \in Steps /\ run \in 0 .. MaxRuns /\ req \in Requests
    /\ ours \in BOOLEAN /\ probing \in BOOLEAN /\ retried \in BOOLEAN
    /\ message \in Messages /\ first \in [said : Messages, node : Nodes]
    /\ wrapped \in SUBSET Servers
    /\ outcome \in {"none", "running", "runner", "mo", "failed", "killed"}
    /\ faults \in 0 .. MaxFaults

Init ==
    /\ host \in [glibc : {"old", "new"}, node : Nodes]
    /\ pins \in {p \in [Sets -> Pin] :
                    \A s \in Sets : p[s].version = 0 /\ p[s].digest = <<s, 0>>}
    /\ revs = 0 /\ artifacts = "none"
    /\ trees = [d \in Versions \X Digests |-> NoTree]
    /\ bin = [s \in Servers |-> NoBinary]
    /\ pc = "idle" /\ run = 0 /\ req \in Requests
    /\ ours = FALSE /\ probing = FALSE /\ retried = FALSE
    /\ message = "none" /\ first = NoTry /\ wrapped = {}
    /\ outcome = "none" /\ faults = 0

-----------------------------------------------------------------------------
(* _pin_dir: a directory named for the version wins over the default.       *)
PinDir(version) == IF version \in PinSets THEN version ELSE "default"
PinOf == pins[PinDir(req.version)]

(* Mutant: the directory is named by the versions alone.                    *)
InstallDirByVersion(pin) == <<pin.version, <<"default", 0>>>>
InstallDir(pin) == <<pin.version, pin.digest>>

(* shutil.which("node"), and with it npm.                                   *)
NodeOnPath == IF ours /\ artifacts # "none" THEN artifacts ELSE host.node
Accepts(pin, node) == node = "new" \/ (node = "old" /\ pin.needs = "old")
(* Mutant: whatever the index calls the latest.                             *)
NodeForAny(h) == "latest"
(* What install-node.sh installs on this host.                              *)
NodeFor(h) == IF h.glibc = "old" THEN "old" ELSE "new"

(* Mutant: any failure of npm is the host's.                                *)
HostLacksAnything(m) == m # "none"
HostLacksSupport(m) == m \in {"no npm", "EBADENGINE"}

Fault == faults < MaxFaults /\ faults' = faults + 1
Goto(step) == pc' = step
End(how) == pc' = "idle" /\ outcome' = how

-----------------------------------------------------------------------------
(* Between the runs.                                                        *)

(* A commit updates a pin set: only the lockfile, or the versions too.      *)
UpdatePin(set, pin) ==
    /\ pc = "idle"
    /\ revs < MaxCommits
    /\ revs' = revs + 1
    /\ pin.digest = <<set, revs + 1>>
    /\ pin.version \in {pins[set].version, revs + 1}
    /\ pins' = [pins EXCEPT ![set] = pin]
    /\ UNCHANGED <<host, artifacts, trees, bin, process, faults>>

(* The docker entrypoints delete node-artifacts.                            *)
DeleteNode ==
    /\ pc = "idle"
    /\ artifacts # "none"
    /\ artifacts' = "none"
    /\ UNCHANGED <<host, pins, revs, trees, bin, process, faults>>

Begin(r) ==
    /\ pc = "idle"
    /\ run < MaxRuns
    /\ run' = run + 1 /\ req' = r
    /\ ours' = r.sourced
    /\ retried' = FALSE /\ message' = "none" /\ first' = NoTry /\ wrapped' = {}
    /\ outcome' = "running"
    /\ Goto("clean")
    /\ UNCHANGED <<machine, probing, faults>>

-----------------------------------------------------------------------------
(* run()                                                                    *)

(* Mutant: the servers are left for the download to overwrite.              *)
KeepBinaries(b) == b
EmptyBinaries(b) == [s \in Servers |-> NoBinary]
CleanRun ==
    /\ pc = "clean"
    /\ bin' = EmptyBinaries(bin)
    /\ Goto("download")
    /\ UNCHANGED <<host, pins, revs, artifacts, trees, run, req, ours, probing,
                   retried, message, first, wrapped, outcome, faults>>

(* The archive, or the copy of --existing-binaries-dir.                     *)
Download ==
    /\ pc = "download"
    /\ bin' = [s \in Servers |-> [file |-> "server", of |-> run, real |-> bin[s].real]]
    /\ Goto("choose")
    /\ UNCHANGED <<host, pins, revs, artifacts, trees, run, req, ours, probing,
                   retried, message, first, wrapped, outcome, faults>>

(* 3.6 and 4.0 go to mongo-orchestration; the dev runner needs a node only. *)
Choose ==
    /\ pc = "choose"
    /\ probing' = TRUE
    /\ Goto(CASE req.version = "unsupported" -> "fallback"
              [] req.dev /\ NodeOnPath = "none" -> "fallback"
              [] req.dev /\ NodeOnPath # "none" -> "wrap"
              [] OTHER -> "probe")
    /\ UNCHANGED <<machine, run, req, ours, retried, message, first, wrapped, outcome, faults>>

(* _install_mongodb_runner: a shim that is there, and a node to run it.     *)
Cached == trees[InstallDir(PinOf)].state # "none" /\ NodeOnPath # "none"
Reuse ==
    /\ pc \in {"probe", "install"}
    /\ Cached
    /\ Goto(IF probing THEN "wrap" ELSE "launch")
    /\ UNCHANGED <<machine, run, req, ours, probing, retried, message, first,
                   wrapped, outcome, faults>>

Install ==
    /\ pc \in {"probe", "install"}
    /\ ~Cached
    /\ retried' = FALSE /\ message' = "none" /\ first' = NoTry
    /\ Goto("npm")
    /\ UNCHANGED <<machine, run, req, ours, probing, wrapped, outcome, faults>>

(* npm ci finds no npm, or a Node the packages do not accept: nothing of    *)
(* the directory has changed then.                                          *)
Refuse(m) ==
    /\ message' = m
    /\ first' = IF retried THEN first ELSE [said |-> m, node |-> NodeOnPath]
    /\ Goto(IF retried THEN "failed" ELSE "node")
NpmRefuses ==
    /\ pc = "npm"
    /\ ~Accepts(PinOf, NodeOnPath)
    /\ Refuse(IF NodeOnPath = "none" THEN "no npm" ELSE "EBADENGINE")
    /\ UNCHANGED <<machine, run, req, ours, probing, retried, wrapped, outcome, faults>>

(* It removes node_modules first; a package that cannot be had ends it.     *)
NpmFails ==
    /\ pc = "npm"
    /\ Accepts(PinOf, NodeOnPath)
    /\ IF PinOf.sound THEN Fault /\ Refuse("network")
                      ELSE Refuse("integrity") /\ UNCHANGED faults
    /\ trees' = [trees EXCEPT ![InstallDir(PinOf)] = NoTree]
    /\ UNCHANGED <<host, pins, revs, artifacts, bin, run, req, ours, probing,
                   retried, wrapped, outcome>>

(* The shims are linked before the packages' own scripts have run.          *)
NpmLinks ==
    /\ pc = "npm"
    /\ Accepts(PinOf, NodeOnPath) /\ PinOf.sound
    /\ trees' = [trees EXCEPT ![InstallDir(PinOf)] = [state |-> "linked", digest |-> PinOf.digest]]
    /\ Goto("linked")
    /\ UNCHANGED <<host, pins, revs, artifacts, bin, run, req, ours, probing,
                   retried, message, first, wrapped, outcome, faults>>
NpmEnds ==
    /\ pc = "linked"
    /\ trees' = [trees EXCEPT ![InstallDir(PinOf)].state = "whole"]
    /\ message' = "none"
    /\ Goto(IF probing THEN "wrap" ELSE "launch")
    /\ UNCHANGED <<host, pins, revs, artifacts, bin, run, req, ours, probing,
                   retried, first, wrapped, outcome, faults>>

(* install-node.sh empties node-artifacts unless it has that Node, and ends  *)
(* at the first command that fails: before the Node is in place, or when     *)
(* the Node and its node-version.txt are and their npm cannot be upgraded.   *)
NodeScriptFails ==
    /\ artifacts # NodeFor(host)
    /\ Fault
    /\ artifacts' \in {"none", NodeFor(host)}

(* _install_node: PATH is changed only when the script has succeeded.       *)
InstallNode ==
    /\ pc = "node"
    /\ \/ /\ artifacts' = NodeFor(host)
          /\ ours' = TRUE /\ retried' = TRUE
          /\ Goto("npm")
          /\ UNCHANGED faults
       \/ /\ NodeScriptFails
          /\ Goto("failed")
          /\ UNCHANGED <<ours, retried>>
    /\ UNCHANGED <<host, pins, revs, trees, bin, run, req, probing, message,
                   first, wrapped, outcome>>

(* The RuntimeError: only the probe looks at what it says.                  *)
InstallFails ==
    /\ pc = "failed"
    /\ IF probing /\ HostLacksSupport(message)
         THEN Goto("fallback") /\ UNCHANGED outcome
         ELSE End("failed")
    /\ UNCHANGED <<machine, run, req, ours, probing, retried, message, first, wrapped, faults>>

-----------------------------------------------------------------------------
(* start_mongodb_runner: _tee_wrap_server_binaries, then the install again. *)

Wrap(s) ==
    /\ pc = "wrap" /\ s \in Servers \ wrapped
    /\ wrapped' = wrapped \cup {s}
    /\ IF bin[s].file = "none" \/ bin[s].real # 0
         THEN pc' = pc /\ UNCHANGED bin
         ELSE /\ bin' = [bin EXCEPT ![s] = [file |-> "none", of |-> 0, real |-> bin[s].of]]
              /\ Goto("create")
    /\ UNCHANGED <<host, pins, revs, artifacts, trees, run, req, ours, probing,
                   retried, message, first, outcome, faults>>

(* The wrapper is opened, written, and made executable.                     *)
Writing(from, to, step) ==
    /\ bin' = [s \in Servers |->
                 IF bin[s].file = from /\ bin[s].real # 0
                   THEN [file |-> to, of |-> run, real |-> bin[s].real] ELSE bin[s]]
    /\ Goto(step)
    /\ UNCHANGED <<host, pins, revs, artifacts, trees, run, req, ours, probing,
                   retried, message, first, wrapped, outcome, faults>>
CreateWrapper == pc = "create" /\ Writing("none", "torn", "fill")
FillWrapper == pc = "fill" /\ Writing("torn", "text", "chmod")
MakeExecutable == pc = "chmod" /\ Writing("text", "wrapper", "wrap")

AllWrapped ==
    /\ pc = "wrap" /\ wrapped = Servers
    /\ probing' = FALSE
    /\ Goto(IF req.dev THEN "launch" ELSE "install")
    /\ UNCHANGED <<machine, run, req, ours, retried, message, first, wrapped, outcome, faults>>

Launch ==
    /\ pc = "launch"
    /\ End("runner")
    /\ UNCHANGED <<machine, run, req, ours, probing, retried, message, first, wrapped, faults>>

(* run() goes on with mongo-orchestration, on the servers as they are.      *)
FallBack ==
    /\ pc = "fallback"
    /\ End("mo")
    /\ UNCHANGED <<machine, run, req, ours, probing, retried, message, first, wrapped, faults>>

(* The job is killed; npm's child ends with it.                             *)
Killed ==
    /\ pc # "idle"
    /\ Fault
    /\ End("killed")
    /\ UNCHANGED <<machine, run, req, ours, probing, retried, message, first, wrapped>>

Step ==
    \/ CleanRun \/ Download \/ Choose \/ Reuse \/ Install
    \/ NpmRefuses \/ NpmFails \/ NpmLinks \/ NpmEnds \/ InstallNode \/ InstallFails
    \/ (\E s \in Servers : Wrap(s)) \/ CreateWrapper \/ FillWrapper \/ MakeExecutable
    \/ AllWrapped \/ Launch \/ FallBack

Next ==
    \/ \E r \in Requests : Begin(r)
    \/ \E set \in Sets, pin \in Pin : UpdatePin(set, pin)
    \/ DeleteNode
    \/ Step
    \/ Killed

Spec == Init /\ [][Next]_vars

-----------------------------------------------------------------------------
(* Whatever was installed, updated, deleted or killed in earlier runs, the   *)
(* tree a runner is started from is the one of the pin set as committed.     *)
RunsTheCommittedPin ==
    pc = "launch" /\ ~req.dev =>
        /\ trees[InstallDir(PinOf)].state # "none"
        /\ trees[InstallDir(PinOf)].digest = PinOf.digest

(* A run that falls back because npm failed was refused a Node: without the *)
(* second chance, the one that npm was first run with, and it takes a fault *)
(* for install-node.sh to withhold the other; after the second chance, the  *)
(* one that install-node.sh gives this host, and the first one too unless   *)
(* npm broke off there on a network failure or a pin set that cannot be     *)
(* installed. That exception is the code's: only the last message is looked *)
(* at, so a failed integrity check on a Node that the packages accept does  *)
(* end in the fallback when the installed Node is then refused, where the   *)
(* docstring at mongodb_runner.py:168 says that it must not be swallowed.   *)
FallsBackForTheNode ==
    pc = "fallback" /\ message # "none" =>
        /\ Accepts(PinOf, first.node) => retried /\ (first.said = "network" \/ ~PinOf.sound)
        /\ IF retried THEN ~Accepts(PinOf, NodeFor(host)) ELSE faults > 0

(* What resolve_server_binary hands out.                                    *)
ServerNamed(s) == IF bin[s].real # 0 THEN bin[s].real
                  ELSE IF bin[s].file = "server" THEN bin[s].of ELSE 0

(* When a run reaches its deployment, every server is the one this run has   *)
(* downloaded, under the name resolve_server_binary finds and behind an      *)
(* executable wrapper, though an earlier run was killed between the renaming *)
(* of a binary and the chmod of its wrapper.                                 *)
DeploysItsOwnServers ==
    /\ pc \in {"launch", "fallback"} => \A s \in Servers : ServerNamed(s) = run
    /\ pc = "launch" => \A s \in Servers : bin[s].file = "wrapper"
=============================================================================
