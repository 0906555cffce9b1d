---------------------------- MODULE MCAlgorithms ----------------------------
(***************************************************************************)
(* The pure parts of the tools on every input of a small size: one job is    *)
(* chosen, done in one step, and its answer is held against a definition     *)
(* that is written the other way round.                                      *)
(***************************************************************************)
EXTENDS BuildSelection, ArchiveMembers, ClusterOptions, OcspResponder, FiniteSetsExt

CONSTANTS Depth,     (* names in a path and in a pattern                    *)
          Minor,     (* the last minor number: 0 is the stable series       *)
          Patch,     (* the last patch level of a series                    *)
          Candidate, (* the last candidate of a release                     *)
          Builds,    (* archives in the table                               *)
          Ports,     (* ports of the processes of a deployment              *)
          Members,   (* members of a shard or a replica set                 *)
          Groups,    (* shards of a cluster, the config servers' included   *)
          Items,     (* certificates and extensions of an OCSP request      *)
          Noon,      (* the last half second at which a request arrives     *)
          Validity,  (* the longest validity of a response, in seconds      *)
          Delay      (* the half seconds a response may take                *)

(* A response is made before the shortest validity, a second, is over; two   *)
(* digits of a rank are the patch level's.                                  *)
ASSUME InputsOK ==
    /\ Depth \in Nat /\ Minor \in Nat /\ Patch \in 0 .. 99 /\ Candidate \in Nat
    /\ Ports \cap {"yes", "no"} = {} /\ Members \in Nat /\ Groups \in Nat
    /\ Items \in Nat /\ Noon \in Nat /\ Validity \in Nat \ {0} /\ Delay \in 0 .. 2

VARIABLES job, answer
vars == <<job, answer>>

NotYet == [kind |-> "not yet"]
SeqsUpTo(S, n) == UNION {[1 .. k -> S] : k \in 0 .. n}

(* Releases and candidates of a stable and of rapid series; a row of each   *)
(* component.                                                               *)
VersionUniverse ==
    {[base |-> <<8, m, p>>, tag |-> t, num |-> IF t = "none" THEN 0 ELSE n] :
        m \in 0 .. Minor, p \in 0 .. Patch, t \in {"none", "rc"}, n \in 0 .. Candidate}
Tables ==
    LET archives == {[version |-> v, target |-> "macos", component |-> "archive"] :
                        v \in VersionUniverse}
        shared == {[version |-> v, target |-> "macos", component |-> "crypt_shared"] :
                        v \in {w \in VersionUniverse : w.base[3] = 0 /\ w.tag = "none"}}
    IN {a \cup s : a \in UNION {kSubset(k, archives) : k \in 1 .. Builds},
                   s \in UNION {kSubset(k, shared) : k \in {0, 1}}}
Asked ==
    {[word |-> w, series |-> <<>>, exact |-> LatestRelease.exact] :
        w \in {"latest-release", "latest-stable", "rapid"}}
      \cup {[word |-> "", series |-> s, exact |-> LatestRelease.exact] :
              s \in {<<8>>} \cup {<<8, m>> : m \in 0 .. Minor}}
      \cup {[word |-> "", series |-> v.base, exact |-> v] :
              v \in {w \in VersionUniverse : w.num = 0}}

PathJobs == [kind : {"extract"}, path : SeqsUpTo({"a", "b"}, Depth) \ {<<>>},
             pattern : SeqsUpTo({"a", "*", "**"}, Depth), strip : 0 .. 2,
             dir : BOOLEAN, test : BOOLEAN]

Params == [plain : {<<<<"port", n>>>> : n \in Ports}
                     \cup {<<<<"ipv6", "no">>, <<"port", n>>, <<role, "yes">>>> :
                             n \in Ports, role \in {"shardsvr", "configsvr"}},
           set : {<<>>, <<<<"other", "1">>>>, <<<<"enableTestCommands", "0">>>>}]
Roles == {<<"shardsvr", "yes">>, <<"configsvr", "yes">>}
Given(pair, params) == \E i \in DOMAIN params.plain : params.plain[i] = pair
RoleOf(params) == IF Given(<<"shardsvr", "yes">>, params) THEN "shardsvr"
                  ELSE IF Given(<<"configsvr", "yes">>, params) THEN "configsvr" ELSE "none"
PlainParams == {p \in Params : RoleOf(p) = "none"}
ShardSeqs == SeqsUpTo({p \in Params : p.set # <<<<"other", "1">>>>}, Members) \ {<<>>}
OneRole(shard) == \A i, j \in DOMAIN shard : RoleOf(shard[i]) = RoleOf(shard[j])
Top == << <<"auth_key", "secret">>, <<"journal", "yes">>, <<"quiet", "no">> >>
FileOf(topology, params, members, shards, routers, ssl) ==
    [kind |-> "cluster", topology |-> topology, top |-> IF ssl = <<>> THEN <<>> ELSE Top,
     login |-> ssl # <<>>, procParams |-> params, members |-> members, shards |-> shards, routers |-> routers,
     sslParams |-> ssl]
(* What a file may leave out.                                               *)
Optional(S) == {<<>>} \cup {<<x>> : x \in S}
Ssl == {<<>>, <<<<"sslPEMKeyFile", "pem">>, <<"sslWeakCertificateValidation", "yes">>>>}
Rs == [arbiter : BOOLEAN, priority : {"none", "0", "2"}]
ReplicaSets == SeqsUpTo([procParams : Optional(PlainParams), rs : Rs], Members) \ {<<>>}
ShardLists == {t \in SeqsUpTo({u \in ShardSeqs : OneRole(u)}, Groups) :
                 \A i, j \in DOMAIN t : IsConfigSrv(t[i]) /\ IsConfigSrv(t[j]) => i = j}
Routers == {<<p>> : p \in PlainParams}
ClusterJobs ==
    {FileOf("standalone", p, <<>>, <<>>, <<>>, ssl) : p \in Optional(PlainParams), ssl \in Ssl}
      \cup {FileOf("replset", <<>>, m, <<>>, <<>>, ssl) : m \in ReplicaSets, ssl \in Ssl}
      \cup {FileOf("sharded", <<>>, <<>>, s, r, ssl) :
              s \in ShardLists, r \in Routers, ssl \in Ssl}

Types == {"valid", "revoked", "valid-delegate", "revoked-delegate"}
Extension == [id : {"nonce", "other"}, critical : BOOLEAN, value : {"n"}]
OcspJobs == [kind : {"ocsp"}, type : Types, seconds : 1 .. Validity, from : 0 .. Noon,
             took : 0 .. Delay,
             request : [serials : SeqsUpTo({1, 2}, Items), host : BOOLEAN,
                        extensions : SeqsUpTo(Extension, Items)]]
ServerFor(j) == [fault |-> ServerOf(j.type).fault, delegate |-> ServerOf(j.type).delegate,
                 seconds |-> j.seconds]

Jobs(kind) ==
    CASE kind = "extract" -> PathJobs
      [] kind = "cluster" -> ClusterJobs
      [] kind = "ocsp" -> OcspJobs
      [] kind = "select" -> [kind : {"select"}, rows : Tables, asked : Asked,
                             target : {"macos", "osx"},
                             component : {"archive", "archive-debug", "crypt_shared"}]

Init == /\ \E kind \in {"extract", "cluster", "ocsp", "select"} : job \in Jobs(kind)
        /\ answer = NotYet

Select == /\ job.kind = "select" /\ answer = NotYet
          /\ answer' = ChooseBuild(job.rows, job.asked, job.target, job.component)
          /\ UNCHANGED job
Extract == /\ job.kind = "extract" /\ answer = NotYet
           /\ answer' = MaybeExtract(job.path, job.pattern, job.strip, job.dir, job.test)
           /\ UNCHANGED job
Translate == /\ job.kind = "cluster" /\ answer = NotYet
             /\ answer' = GetClusterOptions(job)
             /\ UNCHANGED job
Respond == /\ job.kind = "ocsp" /\ answer = NotYet
           /\ answer' = Handle(job.request, ServerFor(job), job.from, job.from + job.took)
           /\ UNCHANGED job

Next == Select \/ Extract \/ Translate \/ Respond
Spec == Init /\ [][Next]_vars

Done(kind) == answer # NotYet /\ job.kind = kind

-----------------------------------------------------------------------------
(* mongodl takes the newest row of those asked for, where a release comes    *)
(* after its candidates and latest-stable knows no candidate at all.  Only   *)
(* crypt_shared may be another version than asked: the newest there is, when *)
(* nothing fits.                                                            *)
Rank(v) == 100 * v.base[2] + v.base[3]
Later(v, w) ==
    \/ Rank(v) > Rank(w)
    \/ Rank(v) = Rank(w) /\ v.tag = "none" /\ w.tag # "none"
    \/ Rank(v) = Rank(w) /\ v.tag = w.tag /\ v.num > w.num
Wanted(v) ==
    CASE job.asked.word = "latest-stable" -> v.tag = "none"
      [] job.asked.word = "rapid" -> v.base[2] # 0
      [] job.asked.word = "latest-release" -> TRUE
      [] Len(job.asked.series) = 3 -> v = job.asked.exact
      [] OTHER -> \A i \in DOMAIN job.asked.series : v.base[i] = job.asked.series[i]
Rows(component, target) == {r \in job.rows : r.component = component /\ r.target = target}
NewestThatFits ==
    Done("select") =>
        LET component == IF job.component = "archive-debug" THEN "archive" ELSE job.component
            wanted == {r \in Rows(component, job.target) : Wanted(r.version)}
            mayFallBack == component = "crypt_shared" /\ job.asked.word # "latest-release"
            allowed == IF wanted = {} /\ mayFallBack THEN Rows(component, "macos") ELSE wanted
        IN IF allowed = {} THEN answer = NoBuild
           ELSE answer # NoBuild /\ answer.row \in allowed
                /\ \A r \in allowed : ~Later(r.version, answer.row.version)

(* "The component to download. Use --list to list available components."     *)
(* (mongodl.py:1305): whatever --list offers can be downloaded, for which    *)
(* its checksum has to be that of the file the url names.                    *)
OfferedCanBeVerified ==
    Done("select") /\ answer # NoBuild => answer.sha256 = answer.url

(* A pattern matches the first n names of a path when it takes all of them,  *)
(* "**" standing for any number of names in between, and for one at least at *)
(* its end.                                                                 *)
Matches(n, path, pattern) ==
    \E at \in [1 .. Len(pattern) + 1 -> 1 .. n + 1] :
        /\ at[1] = 1 /\ at[Len(pattern) + 1] = n + 1
        /\ \A k \in DOMAIN pattern :
             /\ at[k] <= n
             /\ IF pattern[k] = "**"
                THEN at[k + 1] >= at[k]
                ELSE at[k + 1] = at[k] + 1 /\ pattern[k] \in {"*", path[at[k]]}
(* A member is extracted exactly when a name is left of its path and the     *)
(* pattern matches the whole path or a directory the member lies in; it goes *)
(* where the path leads without its first names, and nothing is made in a    *)
(* test.  In two points this is the code's word and not the help's: there,   *)
(* the full path alone is matched (mongodl.py:1309-1313), by which the       *)
(* directories below Len(path) would not count, and only a path of fewer     *)
(* names than are stripped is ignored (:1327), by which the stripped path    *)
(* could be empty.                                                          *)
ExtractsWhatMatches ==
    Done("extract") =>
        /\ answer.count = 1 <=>
             /\ Len(job.path) > job.strip
             /\ \E n \in 0 .. Len(job.path) : Matches(n, job.path, job.pattern)
        /\ answer.made # "nothing" => ~job.test /\ answer.count = 1
        /\ answer.count = 1 => \A i \in 1 .. Len(job.path) - job.strip :
                                  answer.dest[i] = job.path[job.strip + i]

(* The arguments of a process whose parameters are params: what is false and *)
(* the role are left out, and one argument decides about test commands.      *)
Decides(arg) == arg[1] = "setParameter" /\ arg[2] = "enableTestCommands"
Says(args, params) ==
    /\ \A i \in DOMAIN params.plain :
         LET p == params.plain[i]
         IN IF p[2] = "no" \/ p \in Roles
            THEN \A k \in DOMAIN args : args[k][1] # p[1]
            ELSE \E k \in DOMAIN args : args[k] = IF p[2] = "yes" THEN <<p[1]>> ELSE p
    /\ \A i \in DOMAIN params.set :
         \E k \in DOMAIN args : args[k] = <<"setParameter">> \o params.set[i]
    /\ \E k \in DOMAIN args : \A l \in DOMAIN args : Decides(args[l]) <=> l = k
(* A process without parameters is told none, nor about test commands.      *)
SaysGiven(args, given) ==
    IF given = <<>> THEN \A k \in DOMAIN args : args[k][1] # "setParameter"
                    ELSE Says(args, given[1])
SaysAll(shard, members) ==
    Len(shard) = Len(members) /\ \A i \in DOMAIN members : Says(shard[i], members[i])
(* The members in their order, with their priorities: the file's own, or     *)
(* none for an arbiter.                                                     *)
ReplicaSetDeployed ==
    /\ Len(answer.rsMembers) = Len(job.members)
    /\ \A i \in DOMAIN job.members :
         LET in == job.members[i]  out == answer.rsMembers[i]
         IN /\ SaysGiven(out.args, in.procParams)
            /\ in.rs.priority # "none" => out.priority = in.rs.priority
            /\ in.rs.priority = "none" => (out.priority = "0" <=> in.rs.arbiter)
            /\ out.arbiterOnly = in.rs.arbiter
(* Config servers take the first place, the others the next in their order.  *)
ShardsDeployed ==
    LET config == {i \in DOMAIN job.shards : RoleOf(job.shards[i][1]) = "configsvr"}
        place(i) == IF i \in config THEN 1
                    ELSE IF \E c \in config : c < i THEN i ELSE i + 1
    IN /\ Len(answer.shards) = Len(job.shards) + (IF config = {} THEN 1 ELSE 0)
       /\ \A i \in DOMAIN job.shards : SaysAll(answer.shards[place(i)], job.shards[i])
       /\ Len(answer.mongosArgs) = Len(job.routers)
       /\ \A i \in DOMAIN job.routers : Says(answer.mongosArgs[i], job.routers[i])
(* The rest of the file's top level is for every process.                    *)
TopTold ==
    \A i \in DOMAIN job.top :
        LET p == job.top[i]
        IN IF p[2] = "no" THEN \A k \in DOMAIN answer.args : answer.args[k][1] # p[1]
           ELSE \E k \in DOMAIN answer.args :
                  answer.args[k] = CASE p[1] = "auth_key" -> <<"keyFile", "path">>
                                     [] p[1] # "auth_key" /\ p[2] = "yes" -> <<p[1]>>
                                     [] OTHER -> p
(* Every process of the file is started once, on its port and with its       *)
(* parameters, by the kind the file gives it and not by an argument: the     *)
(* config servers first, the data shards in their order, an arbiter that     *)
(* cannot be elected unless the file gives it a priority.  What the file     *)
(* sets to false is left out.  Test commands are enabled in each process     *)
(* that has procParams, unless these decide; the others have no parameters   *)
(* and test commands are not enabled in them.                               *)
DeploysWhatIsDescribed ==
    Done("cluster") =>
        /\ TopTold
        /\ job.topology = "standalone" => SaysGiven(answer.args, job.procParams)
        /\ job.topology = "replset" => ReplicaSetDeployed
        /\ job.topology = "sharded" => ShardsDeployed

(* A client of RFC 6960 that asks for one certificate, by a SHA-1 id, and    *)
(* trusts the CA alone concludes what the SERVER_TYPE promises, from an      *)
(* answer that is still valid and is to its own nonce; a critical extension  *)
(* that the responder does not know gets no status at all.                   *)
Signed(r) == \/ r.signedBy = "CA" /\ r.certs = {}
             \/ r.signedBy = "delegate" /\ r.signedBy \in r.certs
Verdict(r, now) ==
    IF r.status # "successful" THEN "none"
    ELSE IF ~Signed(r) \/ r.responder # r.signedBy THEN "bad signature"
    ELSE IF ~(r.thisUpdate <= Seconds(now) /\ Seconds(now) <= r.nextUpdate) THEN "stale"
    ELSE IF r.certId # [hash |-> "sha1", issuer |-> "CA", serial |-> job.request.serials[1]]
    THEN "other certificate"
    ELSE r.certStatus.name
Sent(nonce) == \E i \in DOMAIN job.request.extensions :
                  job.request.extensions[i].id = "nonce"
                  /\ job.request.extensions[i].value = nonce
Strange == \E i \in DOMAIN job.request.extensions :
              job.request.extensions[i].id = "other" /\ job.request.extensions[i].critical
ClientConcludes ==
    Done("ocsp") =>
        LET verdict == Verdict(answer, job.from + job.took)
        IN IF ~job.request.host \/ job.request.serials = <<>> \/ Strange
           THEN verdict = "none"
           ELSE /\ verdict = IF job.type \in {"valid", "valid-delegate"} THEN "good" ELSE "revoked"
                /\ answer.nonce # "" <=> Sent("n")
=============================================================================
