------------------------ MODULE RunnerInstallProofs -------------------------
(***************************************************************************)
(* What RunnerInstall promises, for any servers, pin sets and numbers of     *)
(* runs, commits and faults.                                                *)
(***************************************************************************)
EXTENDS RunnerInstall, TLAPS

(* The phases of a run: up to the choice, the probe, the wrapping, and the  *)
(* install and launch behind it.                                            *)
Early == {"clean", "download", "choose"}
Npm == {"npm", "linked", "node", "failed"}
Wrapping == {"wrap", "create", "fill", "chmod"}
Probes == pc = "probe" \/ (pc \in Npm /\ probing)
Finishes == pc \in {"install", "launch"} \/ (pc \in Npm /\ ~probing)

Numbered == pc # "idle" => run > 0
ProbingKnown == /\ pc \in {"probe", "fallback"} \cup Wrapping => probing
                /\ pc \in {"install", "launch"} => ~probing

(* A tree stands in the directory of its digest, and the one of the pin set *)
(* is there when the runner is launched.                                    *)
TreesInPlace == \A d \in Versions \X Digests : trees[d].state # "none" => trees[d].digest = d[2]
TreeThere == pc = "linked" \/ (pc = "launch" /\ ~req.dev) => trees[InstallDir(PinOf)].state # "none"

(* node-artifacts holds nothing but the host's Node, on PATH from the       *)
(* second chance on.                                                        *)
OneNode == artifacts \in {"none", NodeFor(host)}
SecondChance == pc # "idle" /\ retried => ours /\ artifacts = NodeFor(host)
FirstChance == pc = "node" => ~retried
Silent == pc \in Early => message = "none"
(* How the first npm ended: on a Node that is refused, or on the network or *)
(* a pin set that cannot be installed.                                      *)
Refused == pc \in {"node", "failed"} \/ (pc = "fallback" /\ message # "none")
FirstTry ==
    /\ Refused \/ (pc # "idle" /\ retried) =>
         (Accepts(PinOf, first.node) =>
            first.said = "network" \/ (first.said = "integrity" /\ ~PinOf.sound))
    /\ Refused /\ ~retried => message = first.said
(* The host is blamed for nothing but its Node.                             *)
Blamed ==
    /\ pc \in {"failed", "fallback"} /\ HostLacksSupport(message) =>
         IF retried THEN ~Accepts(PinOf, NodeFor(host)) ELSE faults > 0
    /\ pc = "fallback" /\ message # "none" => HostLacksSupport(message)

(* The binaries, phase by phase.                                            *)
Plain(s) == bin[s].file = "server" /\ bin[s].of = run /\ bin[s].real = 0
Behind(s, files) == bin[s].real = run /\ bin[s].file \in files
Half == CASE pc = "create" -> {"none"} [] pc = "fill" -> {"torn"} [] pc = "chmod" -> {"text"}
          [] OTHER -> {}
Binaries ==
    /\ pc = "download" => \A s \in Servers : bin[s] = NoBinary
    /\ pc \in {"choose", "fallback"} \/ Probes => \A s \in Servers : Plain(s)
    /\ pc \in Wrapping => /\ \A s \in Servers \ wrapped : Plain(s)
                          /\ \A s \in wrapped : Behind(s, {"wrapper"} \cup Half)
    /\ Finishes => \A s \in Servers : Behind(s, {"wrapper"})
NotYetWrapped == pc \in Early \/ Probes => wrapped = {}

IInv ==
    /\ TypeOK
    /\ Numbered /\ ProbingKnown
    /\ TreesInPlace /\ TreeThere
    /\ OneNode /\ SecondChance /\ FirstChance /\ Silent /\ FirstTry /\ Blamed
    /\ Binaries /\ NotYetWrapped

-----------------------------------------------------------------------------
(* A new host has run nothing.                                              *)
LEMMA InitInv == Init => IInv
<1> SUFFICES ASSUME Init PROVE IInv
    OBVIOUS
<1> USE RunnerAssumption DEF Init
<1>1. TypeOK
  <2>1. pins \in [Sets -> Pin] /\ host \in [glibc : {"old", "new"}, node : Nodes]
      OBVIOUS
  <2>2. trees \in [Versions \X Digests -> [state : {"none", "linked", "whole"}, digest : Digests]]
      BY DEF NoTree, Digests, Sets
  <2>3. bin \in [Servers -> [file : {"none", "server", "torn", "text", "wrapper"},
                            of : 0 .. MaxRuns, real : 0 .. MaxRuns]]
      BY DEF NoBinary
  <2>4. revs \in 0 .. MaxCommits /\ run \in 0 .. MaxRuns /\ faults \in 0 .. MaxFaults
      OBVIOUS
  <2>5. artifacts \in Nodes /\ pc \in Steps /\ req \in Requests
        /\ message \in Messages /\ first \in [said : Messages, node : Nodes]
      BY DEF Nodes, Steps, Messages, NoTry
  <2> QED
      BY ONLY <2>1, <2>2, <2>3, <2>4, <2>5, Init DEF TypeOK, Init
<1>2. TreesInPlace /\ TreeThere
    BY DEF TreesInPlace, TreeThere, NoTree
<1>3. OneNode /\ SecondChance /\ FirstChance /\ Silent /\ FirstTry /\ Blamed
    BY DEF OneNode, SecondChance, FirstChance, Silent, FirstTry, Refused, Blamed, Early
<1>4. Numbered /\ ProbingKnown /\ Binaries /\ NotYetWrapped
    BY DEF Numbered, ProbingKnown, Binaries, NotYetWrapped, Probes, Finishes, Early, Wrapping, Npm
<1> QED
    BY <1>1, <1>2, <1>3, <1>4 DEF IInv

-----------------------------------------------------------------------------
(* The directory of the pin set of a run, and what is in it.                *)
LEMMA PinType ==
    ASSUME TypeOK
    PROVE  PinOf \in Pin /\ InstallDir(PinOf) \in Versions \X Digests
<1>1. PinDir(req.version) \in Sets
    BY DEF PinDir, Sets
<1>2. PinOf \in Pin
    BY <1>1 DEF PinOf, TypeOK
<1> QED
    BY <1>2 DEF InstallDir, Pin

(* Every step keeps the types; a run begins only within its bound.          *)
LEMMA TypeStep ==
    ASSUME TypeOK, Numbered, Next
    PROVE  TypeOK'
<1> USE RunnerAssumption DEF TypeOK, machine, process, Goto, End, Steps
<1>1. ASSUME NEW r \in Requests, Begin(r)
      PROVE  TypeOK'
  <2>1. run' \in 0 .. MaxRuns
      BY <1>1 DEF Begin
  <2>2. r.sourced \in BOOLEAN
      BY DEF Requests
  <2>3. ours' \in BOOLEAN /\ retried' \in BOOLEAN /\ message' \in Messages
        /\ first' \in [said : Messages, node : Nodes]
      BY <1>1, <2>2 DEF Begin, Messages, Nodes, NoTry
  <2> QED
      BY <1>1, <2>1, <2>3 DEF Begin
<1>2. ASSUME NEW set \in Sets, NEW pin \in Pin, UpdatePin(set, pin)
      PROVE  TypeOK'
    BY <1>2 DEF UpdatePin
<1>3. CASE DeleteNode \/ Killed
    BY <1>3 DEF DeleteNode, Killed, Fault, Nodes
<1>4. CASE CleanRun \/ Download
  <2>1. bin' \in [Servers -> [file : {"none", "server", "torn", "text", "wrapper"},
                            of : 0 .. MaxRuns, real : 0 .. MaxRuns]]
      BY <1>4 DEF CleanRun, Download, EmptyBinaries, NoBinary
  <2> QED
      BY <1>4, <2>1 DEF CleanRun, Download
<1>5. CASE Choose \/ Reuse \/ AllWrapped \/ Launch \/ FallBack \/ InstallFails
    BY <1>5 DEF Choose, Reuse, AllWrapped, Launch, FallBack, InstallFails
<1>6. CASE Install \/ NpmRefuses
  <2>1. NodeOnPath \in Nodes
      BY DEF NodeOnPath
  <2>2. NoTry \in [said : Messages, node : Nodes]
      BY DEF NoTry, Messages, Nodes
  <2>3. CASE Install
      BY <2>2, <2>3 DEF Install, Messages
  <2>4. CASE NpmRefuses
    <3>1. \E m \in Messages : Refuse(m)
        BY <2>4 DEF NpmRefuses, Messages
    <3>2. message' \in Messages /\ first' \in [said : Messages, node : Nodes] /\ pc' \in Steps
        BY <2>1, <3>1 DEF Refuse
    <3> QED
        BY <2>4, <3>2 DEF NpmRefuses
  <2> QED
      BY <1>6, <2>3, <2>4
<1>7. CASE NpmFails
  <2>1. NoTree \in [state : {"none", "linked", "whole"}, digest : Digests]
      BY DEF NoTree, Digests, Sets
  <2>2. trees' \in [Versions \X Digests -> [state : {"none", "linked", "whole"}, digest : Digests]]
      BY <1>7, <2>1, PinType DEF NpmFails
  <2>3. /\ message' \in Messages /\ first' \in [said : Messages, node : Nodes]
        /\ pc' \in Steps /\ faults' \in 0 .. MaxFaults
    <3>1. faults' \in 0 .. MaxFaults
        BY <1>7 DEF NpmFails, Fault
    <3>2. \E m \in Messages : Refuse(m)
        BY <1>7 DEF NpmFails, Messages
    <3>3. NodeOnPath \in Nodes
        BY DEF NodeOnPath
    <3> QED
        BY <3>1, <3>2, <3>3 DEF Refuse
  <2> QED
      BY <1>7, <2>2, <2>3 DEF NpmFails
<1>8. CASE NpmLinks
    BY <1>8, PinType DEF NpmLinks, Pin
<1>9. CASE NpmEnds
    BY ZenonT(30), <1>9, PinType DEF NpmEnds, Messages
<1>10. CASE InstallNode
  <2>1. artifacts' \in Nodes /\ pc' \in Steps /\ faults' \in 0 .. MaxFaults
        /\ ours' \in BOOLEAN /\ retried' \in BOOLEAN
    <3>1. faults' \in 0 .. MaxFaults
        BY <1>10 DEF InstallNode, NodeScriptFails, Fault
    <3>2. artifacts' \in Nodes /\ pc' \in Steps
        BY <1>10 DEF InstallNode, NodeScriptFails, NodeFor, Nodes
    <3>3. ours' \in BOOLEAN /\ retried' \in BOOLEAN
        BY <1>10 DEF InstallNode
    <3> QED
        BY <3>1, <3>2, <3>3
  <2> QED
      BY <1>10, <2>1 DEF InstallNode
<1>11. ASSUME NEW s \in Servers, Wrap(s)
       PROVE  TypeOK'
    BY <1>11 DEF Wrap
<1>12. CASE CreateWrapper \/ FillWrapper \/ MakeExecutable
  <2>1. PICK from \in {"none", "torn", "text"}, to \in {"torn", "text", "wrapper"},
             step \in {"fill", "chmod", "wrap"} : Writing(from, to, step)
      BY <1>12 DEF CreateWrapper, FillWrapper, MakeExecutable
  <2>2. bin' \in [Servers -> [file : {"none", "server", "torn", "text", "wrapper"},
                            of : 0 .. MaxRuns, real : 0 .. MaxRuns]]
      BY <2>1 DEF Writing
  <2> QED
      BY <2>1, <2>2 DEF Writing
<1> QED
    BY <1>1, <1>2, <1>3, <1>4, <1>5, <1>6, <1>7, <1>8, <1>9, <1>10, <1>11, <1>12 DEF Next, Step

-----------------------------------------------------------------------------
(* Which phase a run is in says what it has done so far.                    *)
Phase == Numbered /\ ProbingKnown /\ NotYetWrapped /\ FirstChance /\ Silent

(* Every step keeps what each phase of a run knows of its binaries and of   *)
(* the tree it probes.                                                      *)
LEMMA PhaseStep ==
    ASSUME TypeOK, Phase, Next
    PROVE  Phase'
<1> USE DEF Phase, Numbered, ProbingKnown, NotYetWrapped, FirstChance, Silent, Probes, Early,
            Npm, Wrapping, machine, process, Goto, End
<1> run \in Nat
    BY RunnerAssumption DEF TypeOK
<1>1. ASSUME NEW r \in Requests, Begin(r)
      PROVE  Phase'
    BY <1>1 DEF Begin
<1>2. ASSUME NEW set \in Sets, NEW pin \in Pin, UpdatePin(set, pin)
      PROVE  Phase'
    BY <1>2 DEF UpdatePin
<1>3. CASE DeleteNode \/ Killed
    BY <1>3 DEF DeleteNode, Killed
<1>4. CASE CleanRun \/ Download \/ Choose
    BY <1>4 DEF CleanRun, Download, Choose
<1>5. CASE Reuse \/ Install \/ InstallFails \/ InstallNode
    BY <1>5 DEF Reuse, Install, InstallFails, InstallNode
<1>6. CASE NpmRefuses \/ NpmFails \/ NpmLinks \/ NpmEnds
  <2>1. CASE NpmRefuses \/ NpmFails
    <3>1. /\ pc = "npm" /\ pc' = IF retried THEN "failed" ELSE "node"
          /\ UNCHANGED <<run, probing, retried, wrapped>>
        BY <2>1 DEF NpmRefuses, NpmFails, Refuse
    <3> QED
        BY <3>1
  <2>2. CASE NpmLinks \/ NpmEnds
      BY <2>2 DEF NpmLinks, NpmEnds
  <2> QED
      BY <1>6, <2>1, <2>2
<1>7. ASSUME NEW s \in Servers, Wrap(s)
      PROVE  Phase'
    BY <1>7 DEF Wrap
<1>8. CASE CreateWrapper \/ FillWrapper \/ MakeExecutable
    BY <1>8 DEF CreateWrapper, FillWrapper, MakeExecutable, Writing
<1>9. CASE AllWrapped \/ Launch \/ FallBack
    BY <1>9 DEF AllWrapped, Launch, FallBack
<1> QED
    BY <1>1, <1>2, <1>3, <1>4, <1>5, <1>6, <1>7, <1>8, <1>9 DEF Next, Step

-----------------------------------------------------------------------------
(* Only npm touches the trees, and only the one of this run's pin set.      *)
LEMMA TreeStep ==
    ASSUME TypeOK, TreesInPlace, TreeThere, Next
    PROVE  TreesInPlace' /\ TreeThere'
<1> USE DEF TreesInPlace, TreeThere, machine, process, Goto, End
<1>1. ASSUME UNCHANGED trees, pc' \notin {"linked", "launch"}
      PROVE  TreesInPlace' /\ TreeThere'
    BY <1>1
<1>2. ASSUME NEW r \in Requests, Begin(r)
      PROVE  TreesInPlace' /\ TreeThere'
    BY <1>1, <1>2 DEF Begin
<1>3. ASSUME NEW set \in Sets, NEW pin \in Pin, UpdatePin(set, pin)
      PROVE  TreesInPlace' /\ TreeThere'
    BY <1>1, <1>3 DEF UpdatePin
<1>4. CASE DeleteNode \/ Killed \/ CleanRun \/ Download \/ Choose \/ Install \/ InstallFails
           \/ InstallNode \/ NpmRefuses \/ Launch \/ FallBack
    BY <1>1, <1>4 DEF DeleteNode, Killed, CleanRun, Download, Choose, Install, InstallFails,
       InstallNode, NpmRefuses, Refuse, Launch, FallBack
<1>5. CASE Reuse
    BY <1>5 DEF Reuse, Cached, PinOf
<1>6. CASE NpmFails
  <2>1. pc' \notin {"linked", "launch"}
      BY <1>6 DEF NpmFails, Refuse
  <2>2. trees' = [trees EXCEPT ![InstallDir(PinOf)] = NoTree]
      BY <1>6 DEF NpmFails
  <2> QED
      BY <2>1, <2>2 DEF NoTree, TypeOK
<1>7. CASE NpmLinks
  <2>1. /\ trees' = [trees EXCEPT ![InstallDir(PinOf)] = [state |-> "linked", digest |-> PinOf.digest]]
        /\ InstallDir(PinOf)' = InstallDir(PinOf)
      BY <1>7 DEF NpmLinks, PinOf, InstallDir
  <2>2. InstallDir(PinOf) \in Versions \X Digests /\ InstallDir(PinOf)[2] = PinOf.digest
      BY PinType DEF InstallDir
  <2> QED
      BY <2>1, <2>2 DEF TypeOK
<1>8. CASE NpmEnds
  <2>1. /\ trees' = [trees EXCEPT ![InstallDir(PinOf)].state = "whole"]
        /\ InstallDir(PinOf)' = InstallDir(PinOf) /\ pc = "linked"
      BY <1>8 DEF NpmEnds, PinOf, InstallDir
  <2> QED
      BY <2>1, PinType DEF TypeOK
<1>9. ASSUME NEW s \in Servers, Wrap(s)
      PROVE  TreesInPlace' /\ TreeThere'
    BY <1>1, <1>9 DEF Wrap
<1>10. CASE CreateWrapper \/ FillWrapper \/ MakeExecutable
    BY <1>1, <1>10 DEF CreateWrapper, FillWrapper, MakeExecutable, Writing
<1>11. CASE AllWrapped
    BY <1>11 DEF AllWrapped
<1> QED
    BY <1>2, <1>3, <1>4, <1>5, <1>6, <1>7, <1>8, <1>9, <1>10, <1>11 DEF Next, Step

-----------------------------------------------------------------------------
(* What is known of the Node when npm has failed.                           *)
NodeKnown == OneNode /\ SecondChance /\ FirstTry /\ Blamed

(* Every step keeps what a run knows of the Node it has and of the blame.   *)
LEMMA NodeStep ==
    ASSUME TypeOK, Phase, NodeKnown, Next
    PROVE  NodeKnown'
<1>0. faults \in Nat /\ faults + 1 > 0
  <2>1. faults \in 0 .. MaxFaults /\ MaxFaults \in Nat
      BY RunnerAssumption DEF TypeOK
  <2> QED
      BY ONLY <2>1
<1> USE DEF NodeKnown, OneNode, SecondChance, FirstTry, Refused, Blamed, HostLacksSupport,
            machine, process, Goto, End
<1>1. ASSUME UNCHANGED <<host, pins, req, artifacts, ours, retried, first>>, pc # "idle" \/ pc' = "idle",
             pc' \notin {"node", "failed", "fallback"}
      PROVE  NodeKnown'
    BY <1>1 DEF PinOf
<1>2. ASSUME NEW r \in Requests, Begin(r)
      PROVE  NodeKnown'
    BY <1>2 DEF Begin
<1>3. ASSUME NEW set \in Sets, NEW pin \in Pin, UpdatePin(set, pin)
      PROVE  NodeKnown'
    BY <1>3 DEF UpdatePin
<1>4. CASE DeleteNode
    BY <1>4 DEF DeleteNode
<1>5. CASE Killed \/ CleanRun \/ Download \/ Reuse \/ NpmLinks \/ NpmEnds \/ AllWrapped
           \/ Launch \/ FallBack
    BY <1>1, <1>5 DEF Killed, CleanRun, Download, Reuse, NpmLinks, NpmEnds, AllWrapped, Launch,
       FallBack
<1>6. CASE Choose
    BY <1>6 DEF Choose, Phase, Silent, Early, PinOf
<1>7. CASE Install
    BY <1>7 DEF Install
<1>8. CASE NpmRefuses \/ NpmFails
  <2>1. PICK m \in Messages :
             /\ Refuse(m) /\ pc = "npm"
             /\ Accepts(PinOf, NodeOnPath) => m = "network" \/ (m = "integrity" /\ ~PinOf.sound)
             /\ ~Accepts(PinOf, NodeOnPath) => m \in {"no npm", "EBADENGINE"}
             /\ UNCHANGED <<host, pins, req, artifacts, ours, retried>>
      BY <1>8 DEF NpmRefuses, NpmFails, Messages
  <2>2. PinOf' = PinOf /\ Accepts(PinOf, first.node)' = Accepts(PinOf, first'.node)
      BY <2>1 DEF PinOf, Accepts
  <2>3. CASE retried
    <3>1. pc' = "failed" /\ message' = m /\ first' = first
        BY <2>1, <2>3 DEF Refuse
    <3>2. NodeOnPath = NodeFor(host)
        BY <2>1, <2>3 DEF NodeOnPath, NodeFor
    <3> QED
        BY <2>1, <2>2, <2>3, <3>1, <3>2
  <2>4. CASE ~retried
    <3>1. pc' = "node" /\ message' = m /\ first' = [said |-> m, node |-> NodeOnPath]
        BY <2>1, <2>4 DEF Refuse
    <3> QED
        BY <2>1, <2>2, <2>4, <3>1
  <2> QED
      BY <2>3, <2>4
<1>9. CASE InstallNode
  <2>1. /\ UNCHANGED <<host, pins, req, message, first>>
        /\ pc = "node" /\ ~retried /\ pc' \in {"npm", "failed"}
      BY <1>9 DEF InstallNode, Phase, FirstChance
  <2>2. PinOf' = PinOf
      BY <2>1 DEF PinOf
  <2>3. CASE pc' = "npm"
    <3>1. artifacts' = NodeFor(host) /\ ours' /\ retried'
        BY <1>9, <2>3 DEF InstallNode
    <3> QED
        BY <2>1, <2>2, <2>3, <3>1 DEF NodeFor
  <2>4. CASE pc' = "failed"
    <3>1. artifacts' \in {"none", NodeFor(host)} /\ faults' = faults + 1 /\ ~retried'
        BY <1>9, <2>1, <2>4 DEF InstallNode, NodeScriptFails, Fault
    <3>2. faults' > 0
        BY ONLY <1>0, <3>1
    <3> QED
        BY <2>1, <2>2, <2>4, <3>1, <3>2
  <2> QED
      BY <2>1, <2>3, <2>4
<1>10. CASE InstallFails
  <2>1. /\ pc = "failed" /\ UNCHANGED <<host, pins, req, artifacts, ours, retried, message, first, faults>>
        /\ pc' = "idle" \/ (pc' = "fallback" /\ HostLacksSupport(message))
      BY <1>10 DEF InstallFails
  <2>2. PinOf' = PinOf
      BY <2>1 DEF PinOf
  <2> QED
      BY <2>1, <2>2
<1>11. ASSUME NEW s \in Servers, Wrap(s)
       PROVE  NodeKnown'
    BY <1>1, <1>11 DEF Wrap
<1>12. CASE CreateWrapper \/ FillWrapper \/ MakeExecutable
    BY <1>1, <1>12 DEF CreateWrapper, FillWrapper, MakeExecutable, Writing
<1> QED
    BY <1>2, <1>3, <1>4, <1>5, <1>6, <1>7, <1>8, <1>9, <1>10, <1>11, <1>12 DEF Next, Step

-----------------------------------------------------------------------------
(* Wrapping takes the servers of the run one after the other.               *)
LEMMA BinariesStep ==
    ASSUME TypeOK, Phase, Binaries, Next
    PROVE  Binaries'
<1> USE DEF Binaries, Plain, Behind, Half, Probes, Finishes, Npm, Wrapping, machine, process,
            Goto, End
<1>1. ASSUME UNCHANGED <<bin, run, wrapped, probing>>, pc' \in Npm \cup {"probe", "install", "launch", "fallback"},
             Probes' \/ pc' = "fallback" => Probes \/ pc \in {"choose", "fallback"},
             Finishes' => Finishes
      PROVE  Binaries'
    BY <1>1
<1>2. ASSUME UNCHANGED bin, pc' \in {"idle", "clean"}
      PROVE  Binaries'
    BY <1>2
<1>3. ASSUME NEW r \in Requests, Begin(r)
      PROVE  Binaries'
    BY <1>2, <1>3 DEF Begin
<1>4. CASE DeleteNode \/ Killed \/ Launch \/ FallBack \/ \E set \in Sets, pin \in Pin : UpdatePin(set, pin)
    BY <1>2, <1>4 DEF DeleteNode, Killed, Launch, FallBack, UpdatePin
<1>5. CASE CleanRun
    BY <1>5 DEF CleanRun, EmptyBinaries
<1>6. CASE Download
  <2>1. /\ bin' = [s \in Servers |-> [file |-> "server", of |-> run, real |-> bin[s].real]]
        /\ pc' = "choose" /\ run' = run /\ \A s \in Servers : bin[s] = NoBinary
      BY <1>6 DEF Download
  <2> QED
      BY <2>1 DEF NoBinary
<1>7. CASE Choose
  <2>1. /\ pc' \in {"fallback", "wrap", "probe"} /\ UNCHANGED <<bin, run, wrapped>>
        /\ \A s \in Servers : Plain(s)
      BY <1>7 DEF Choose
  <2>2. wrapped = {}
      BY <1>7 DEF Choose, Phase, NotYetWrapped, Early
  <2> QED
      BY <2>1, <2>2
<1>8. CASE Reuse \/ NpmEnds
  <2>1. /\ UNCHANGED <<bin, run, wrapped, probing>>
        /\ pc \in {"probe", "install", "linked"} /\ pc' = IF probing THEN "wrap" ELSE "launch"
      BY <1>8 DEF Reuse, NpmEnds
  <2>2. CASE probing
    <3>1. (\A s \in Servers : Plain(s)) /\ wrapped = {}
        BY <2>1, <2>2 DEF Phase, ProbingKnown, NotYetWrapped
    <3> QED
        BY <2>1, <2>2, <3>1
  <2>3. CASE ~probing
      BY <2>1, <2>3 DEF Phase, ProbingKnown
  <2> QED
      BY <2>2, <2>3
<1>9. CASE Install \/ NpmRefuses \/ NpmFails \/ NpmLinks \/ InstallNode \/ InstallFails
  <2>1. /\ UNCHANGED <<bin, run, wrapped, probing>>
        /\ pc \in Npm \cup {"probe", "install"} /\ pc' \in Npm \cup {"fallback", "idle"}
        /\ pc' = "fallback" => probing /\ pc = "failed"
      BY <1>9 DEF Install, NpmRefuses, NpmFails, NpmLinks, InstallNode, InstallFails, Refuse
  <2> QED
      BY <2>1 DEF Phase, ProbingKnown
<1>10. ASSUME NEW s \in Servers, Wrap(s)
       PROVE  Binaries'
  <2>1. pc = "wrap" /\ Plain(s) /\ run > 0 /\ s \notin wrapped /\ \A t \in wrapped : Behind(t, {"wrapper"})
      BY <1>10 DEF Wrap, Phase, Numbered
  <2>2. /\ bin' = [bin EXCEPT ![s] = [file |-> "none", of |-> 0, real |-> run]]
        /\ wrapped' = wrapped \cup {s} /\ pc' = "create" /\ run' = run
      BY <1>10, <2>1 DEF Wrap
  <2>3. bin'[s] = [file |-> "none", of |-> 0, real |-> run] /\ \A t \in Servers \ {s} : bin'[t] = bin[t]
      BY <2>2 DEF TypeOK
  <2>4. wrapped' \subseteq Servers
      BY <2>2 DEF TypeOK
  <2> QED
      BY <2>1, <2>2, <2>3, <2>4
<1>11. CASE CreateWrapper \/ FillWrapper \/ MakeExecutable
  <2>1. PICK from \in {"none", "torn", "text"}, to \in {"torn", "text", "wrapper"},
             step \in {"fill", "chmod", "wrap"} :
             /\ Writing(from, to, step)
             /\ pc \in {"create", "fill", "chmod"} /\ Half = {from}
             /\ to # "wrapper" => step # "wrap"
             /\ step = "fill" => to = "torn"
             /\ step = "chmod" => to = "text"
             /\ step = "wrap" => to = "wrapper"
      BY <1>11 DEF CreateWrapper, FillWrapper, MakeExecutable
  <2>2. /\ bin' = [s \in Servers |-> IF bin[s].file = from /\ bin[s].real # 0
                                     THEN [file |-> to, of |-> run, real |-> bin[s].real] ELSE bin[s]]
        /\ pc' = step /\ UNCHANGED <<run, wrapped, probing>>
      BY <2>1 DEF Writing
  <2>3. run # 0 /\ wrapped \subseteq Servers
      BY <2>1, RunnerAssumption DEF Phase, Numbered, TypeOK
  <2>4. ASSUME NEW s \in Servers \ wrapped
        PROVE  Plain(s)'
      BY <2>1, <2>2, <2>4
  <2>5. ASSUME NEW s \in wrapped
        PROVE  Behind(s, {"wrapper", to})'
      BY <2>1, <2>2, <2>3, <2>5
  <2>6. {"wrapper", to} \subseteq {"wrapper"} \cup Half'
      BY <2>1, <2>2
  <2> QED
      BY <2>1, <2>2, <2>4, <2>5, <2>6
<1>12. CASE AllWrapped
  <2>1. /\ pc = "wrap" /\ wrapped = Servers /\ pc' \in {"launch", "install"}
        /\ UNCHANGED <<bin, run>> /\ ~probing'
      BY <1>12 DEF AllWrapped
  <2> QED
      BY <2>1
<1> QED
    BY <1>3, <1>4, <1>5, <1>6, <1>7, <1>8, <1>9, <1>10, <1>11, <1>12 DEF Next, Step

-----------------------------------------------------------------------------
(* Every step preserves the whole invariant, and so does a stutter.         *)
LEMMA NextInv ==
    ASSUME IInv, [Next]_vars
    PROVE  IInv'
<1>1. CASE Next
    BY <1>1, TypeStep, PhaseStep, TreeStep, NodeStep, BinariesStep DEF IInv, Phase, NodeKnown
<1>2. CASE UNCHANGED vars
  <2> USE <1>2 DEF vars, machine, process
  <2>1. TypeOK'
      BY DEF IInv, TypeOK
  <2>2. TreesInPlace' /\ TreeThere'
      BY DEF IInv, TreesInPlace, TreeThere, PinOf
  <2>3. OneNode' /\ SecondChance' /\ FirstChance' /\ Silent' /\ FirstTry' /\ Blamed'
      BY DEF IInv, OneNode, SecondChance, FirstChance, Silent, FirstTry, Refused, Blamed, PinOf
  <2>4. Numbered' /\ ProbingKnown' /\ NotYetWrapped'
      BY DEF IInv, Numbered, ProbingKnown, NotYetWrapped, Probes
  <2>5. Binaries'
      BY DEF IInv, Binaries, Probes, Finishes, Plain, Behind, Half
  <2> QED
      BY <2>1, <2>2, <2>3, <2>4, <2>5 DEF IInv
<1> QED
    BY <1>1, <1>2

(* The inductive invariant holds of every host.                             *)
LEMMA Invariant == Spec => []IInv
<1> QED
    BY InitInv, NextInv, PTL DEF Spec

(* Every reachable state is well typed.                                     *)
THEOREM TypeCorrect == Spec => []TypeOK
<1>1. IInv => TypeOK
    BY DEF IInv
<1> QED
    BY <1>1, Invariant, PTL

(* The tree a runner is started from is the one of the pin set as committed, *)
(* whatever was installed, updated, deleted or killed before.               *)
THEOREM Committed == Spec => []RunsTheCommittedPin
<1>1. IInv => RunsTheCommittedPin
  <2> SUFFICES ASSUME IInv, pc = "launch", ~req.dev
               PROVE  /\ trees[InstallDir(PinOf)].state # "none"
                      /\ trees[InstallDir(PinOf)].digest = PinOf.digest
      BY DEF RunsTheCommittedPin
  <2>1. trees[InstallDir(PinOf)].state # "none"
      BY DEF IInv, TreeThere
  <2>2. InstallDir(PinOf)[2] = PinOf.digest
      BY DEF InstallDir
  <2> QED
      BY <2>1, <2>2, PinType DEF IInv, TreesInPlace
<1> QED
    BY <1>1, Invariant, PTL

(* A run falls back after a failure of npm only if it was refused a Node:   *)
(* the one npm was first run with, unless npm broke off there on a network   *)
(* failure or a pin set that cannot be installed; and the one that can be    *)
(* installed, if it was.                                                    *)
THEOREM NodeToBlame == Spec => []FallsBackForTheNode
<1>1. IInv => FallsBackForTheNode
  <2> SUFFICES ASSUME IInv, pc = "fallback", message # "none"
               PROVE  /\ Accepts(PinOf, first.node) =>
                            retried /\ (first.said = "network" \/ ~PinOf.sound)
                      /\ IF retried THEN ~Accepts(PinOf, NodeFor(host)) ELSE faults > 0
      BY DEF FallsBackForTheNode
  <2>1. HostLacksSupport(message) /\ Refused
      BY DEF IInv, Blamed, Refused
  <2>2. IF retried THEN ~Accepts(PinOf, NodeFor(host)) ELSE faults > 0
      BY <2>1 DEF IInv, Blamed
  <2>3. ASSUME Accepts(PinOf, first.node)
        PROVE  retried /\ (first.said = "network" \/ ~PinOf.sound)
    <3>1. first.said = "network" \/ (first.said = "integrity" /\ ~PinOf.sound)
        BY <2>1, <2>3 DEF IInv, FirstTry
    <3>2. ~retried => message = first.said
        BY <2>1 DEF IInv, FirstTry
    <3> QED
        BY <2>1, <3>1, <3>2 DEF HostLacksSupport
  <2> QED
      BY <2>2, <2>3
<1> QED
    BY <1>1, Invariant, PTL

(* When a run reaches its deployment, every server is its own, and behind a *)
(* wrapper when mongodb-runner starts it.                                   *)
THEOREM OwnServers == Spec => []DeploysItsOwnServers
<1>1. IInv => DeploysItsOwnServers
  <2> SUFFICES ASSUME IInv
               PROVE  DeploysItsOwnServers
      OBVIOUS
  <2>1. pc \in {"launch", "fallback"} => run # 0
      BY RunnerAssumption DEF IInv, Numbered, TypeOK
  <2> QED
      BY <2>1 DEF IInv, Binaries, Finishes, Plain, Behind, ServerNamed, DeploysItsOwnServers
<1> QED
    BY <1>1, Invariant, PTL
=============================================================================
