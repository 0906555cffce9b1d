# A verification project for drivers-evergreen-tools

The repository holds the tools with which the MongoDB driver teams prepare a
host, start a deployment, put proxies and mock services around it and take all
of it down again. Nearly everything is under `.evergreen/` (paths below are
relative to it). This directory models, in TLA+, the parts of it that keep
state across processes, threads, crashes or retries; checks them with TLC; and
proves theorems about them with TLAPS.

- [What the system is](#what-the-system-is)
- [What is modelled, and how it corresponds to the code](#what-is-modelled)
- [What the runs check and show](#the-runs)
- [What is proved](#what-is-proved)
- [What is not modelled](#what-is-not-modelled)
- [Plan](#plan)

## What the system is

`PROJECT.json` lists every component with its sources and its status, and every
hazard at its line. In short:

| component | state it keeps | operations | hard because |
|---|---|---|---|
| archive cache and download (`mongodl.py`) | the cache directory, an SQLite database of validators and of the imported manifest | refresh, lookup, download, verify, expand, retry | crashes between file and row, conditional requests, two processes on one directory, a server that publishes meanwhile |
| access to server artifacts (`server_artifacts.py`, `mongosh_dl.py`) | credentials in the environment | resolve credentials, presign, fetch and verify signatures | urls that expire while a download is retried, two uploads that belong together |
| shaping proxy (`mongoproxy/`) | `pendingMap`, two goroutines per connection | strip and remember an instruction; dole out a reply | the goroutines meet only in the map; TCP is a stream |
| orchestration (`orchestration/`, `run-*.sh`, `teardown.sh`) | pid files, logs, `uri.txt`, the expansion files, processes, containers | run, start, stop, clean, teardown, load balancer | every step may be the last one of a killed command, and the next command starts from the wreckage |
| SOCKS5 and KMS proxies (`socks5srv.py`, `csfle/kms_http_proxy.py`) | a handshake and two sockets per connection | handshake, connect, pipe both ways | half-closed streams, blocking writes, bytes that wait inside TLS |
| mongodb-runner bridge (`orchestration/mongodb_runner.py`) | the installed runner under TMPDIR, `node-artifacts`, the renamed server binaries | install, install Node, fall back, wrap, translate a config | a cache that outlives the run it was checked by; killed between two renames |
| AWS authentication tests (`auth_aws/`) | an instance profile, the services of a shared ECS cluster, `test-env.sh` | assign, unassign, poll; collect, create, test, stop | metadata that follows late; hosts that collect each other's services |
| OCSP responder (`ocsp/`) | none | answer a request | validity windows at the resolution of a second |
| KMS failpoint server (`csfle/kms_failpoint_server.py`) | the failures that are left | set, reset, answer, fail | - |
| CSFLE servers (`csfle/*.sh`) | pid files of half a dozen servers | start, await, stop | stale pid files |
| happy-eyeballs server | a control connection and pairs of ports | listen, slow down, report | two ports that race |
| cloud resources (Atlas, serverless, Azure, GCP, ECS, instance profiles) | a name in a secrets file, a resource somewhere else | create, poll, delete | the script may die between creation and record |
| retries and installation (`retry-with-backoff.sh`, `install-node.sh`, ...) | a marker file | attempt, wait, install | the marker must come last |
| mock KMS and IMDS servers, secrets, GitHub app, release, CI configuration, performance comparison | none, or a file written once | request and response | - |

How they interact: `run-mongodb.sh` and `run-orchestration.sh` call
`drivers-orchestration run`, which calls `mongodl` and `mongosh_dl` for the
binaries (through the shared cache directory), then mongo-orchestration over
HTTP, the mongodb-runner CLI as a child, or docker; it leaves `uri.txt` and the
expansion files for whoever starts the tests. `run-load-balancer.sh` and
`start-mongoproxy.sh` put processes between the driver and the deployment.
`teardown.sh` works from the files the others left.

What makes each part correct:

- cache: a file that is handed out is one whole version, as new as the
  server's when the call began; the tables are the recorded version of the manifest
  they were imported from; no crash leaves a cache the next run of that manifest
  fails on; what is extracted is what was verified.
- proxy: an instruction shapes the reply of its own command; towards the client
  the bytes are a stream without hole, repetition or swap; nobody waits for ever.
- orchestration: a published uri names a deployment that came up completely; the
  files agree with each other and name only what exists; stop leaves nothing;
  whatever died, the next run succeeds.
- tunnels: a byte pipe in each direction until either side closes, and the
  bytes that were sent before the close arrive.
- server artifacts: an unverified build is handed out for a reason only; the
  deprecated public host is the last resort.
- mongodb-runner: what runs is what is committed; the host is blamed for its Node
  only; the servers that are deployed are those that were downloaded.
- AWS tests: a setup that succeeds has verified the access its name says; what was
  created is deleted, at the latest by the collection of a later test.
- the pure parts: the newest build that fits; the members that match; the
  deployment the file describes; the status the certificate was given.

## What is modelled

### DownloadCache (`mongodl.py`), with CachedDownload and DownloadCacheProofs

The state is the cache directory (`files`), the committed rows (`row`, `tables`),
the SQLite locks and uncommitted writes (`readers`, `writer`, `tx`), and per
process the step (`pc`) and the locals (`job`). `MONGODB_DOWNLOAD_SOURCE` may name
another manifest for every run (`Manifests`, chosen by `Start`): each url has its own file
and row, but there is one set of tables, so `origin` says which manifest the committed
tables came from and `Lists` what each version of each manifest lists. A version number stands for a
content with its validators. One action is one step between two points at which
another process, a crash or the server can be seen: reading the row, sending the
conditional request, opening the file (which truncates it), copying, comparing
the size, writing the row, importing, committing, resolving the url, checking
the SHA-256 or the signature, expanding. `Raise` is every exception: outside the
retry loop it ends the run, inside it starts the next attempt. The environment:
`Publish` and `PublishSig` (the two uploads of a latest build are not one),
`Crash` (which rolls the transaction back), `Evict` (a file deleted by hand), and
a body that ends early.

`CachedDownload` is what callers of `download_file` may rely on, with no cache in
sight: a call that returns hands over one whole version no older than the
server's when the call began, and the file stays while it is used. `DownloadCache`
is shown to implement it (`KeepsPromise`).

SQLite is modelled from how the code uses it: a deferred transaction that takes
a read lock at its first read and the write lock at its first write, and fails
when it cannot (the busy timeout and the error are the same outcome here).

### MongoProxy (`mongoproxy/proxy.go`, `testdsl.go`), with BytePipe and MongoProxyProofs

`up` and `held` are the state of `proxyClientToMongo`, `down`, `buf` and `acts`
that of `proxyMongoToClient`, `pendingMap` the map between them. The up side
forwards a message, or takes its instruction out, puts it in the map and only
then writes the command (two steps: the down side runs between them). The down
side reads a reply, takes whatever instruction is pending, performs the actions
with their sleeps, sends the rest and copies the stream from then on. A reply is
a few units, so what `sendBytes` released can be counted; amounts and delays are
naturals, since the proxy treats a negative one as it treats none. `BytePipe` is a byte
stream; the proxy refines it towards the client (`RepliesInOrder`).

Assumed of `handleConnection`: writes to a closed peer are ignored where the code
ignores them. Messages whose length field lies are outside the model.

### Orchestration (`drivers_orchestration.py`, `mongodb_runner.py`, `otel.py`, `run-load-balancer.sh`, `teardown.sh`), with Published and OrchestrationProofs

One command at a time, as the scripts are used; a command is a sequence of steps
(`pc`), each of which changes one process or one file, and may be killed between
any two (`Crash`). A deployment is known by the number of the command that asked
for it, so a file that names it (`uri`, `outlog`, `pidfile`, `boxfile`) can be told
from a stale one. `builders` are mongo-orchestration bringing a deployment up
over HTTP, and the mongodb-runner CLI, which may outlive the command that
started it. `stop()` is the subroutine it is in the code: `after` says where it
returns to, `seen` is the list of processes it takes once. The expansion files are
modelled by what they name: the library, the uri and the trace directory.

`Published` is the promise to whoever reads `uri.txt`: the deployment was
completely up when its uri appeared, a uri is withdrawn before the next appears,
and nothing comes up beside the deployment it names while that is up.

Left out: pids that are reused, mongods that die by themselves, the contents of
the configs, `results.json`, Windows.

### RunnerInstall (`mongodb_runner.py`, `drivers_orchestration.py`), with RunnerInstallProofs

Runs follow each other on one host and share what outlives them: the `trees` that
npm installed, one directory for every pair of a version and a digest of the pin
set, and `node-artifacts`. `host` is the C library and the Node the host came with.
A run empties its binaries directory, downloads, chooses; the choice is made by
installing (`probing`), npm's failure is a `message`, `InstallNode` gives it a second
chance with another Node (the script may fail before that Node is in place, or after it,
when only the upgrade of its npm failed; the PATH changes only when the whole script
succeeded), `first` remembers what npm said at the first attempt and on which Node, and
`InstallFails` is the one place that reads the message
to decide between falling back and failing. `_tee_wrap_server_binaries` is four
steps for each server, since a kill between the rename and the chmod leaves a
binary under its other name. Then the install is asked for once more and the
runner is launched (what happens from there is in Orchestration). Between runs a
pin set may be updated and `node-artifacts` deleted, as the docker entrypoints do.

npm is modelled from how the code uses it: it refuses a Node the packages do not
accept before it touches anything, removes the tree before it fetches, and links
the shims before it is done.

### ServerArtifacts (`server_artifacts.py`, the retry loop of `mongodl.py`), with ServerArtifactsProofs

One download of a latest build. The stages `Ambient`, `Vault`, `ArtifactsRole` and
`SecretsRole` are those of `_resolve_s3_client`; they are gone through once for the
archive, before the retry loop, and again for every signature (`purpose`). A url
has the identity it was signed for and a number of ticks to live. What an identity
may do is a set of permissions (`rights`); `HasAccess` is the probe, to which an
absent object looks like a missing permission unless `list` is among them. `Retry`
is every exception inside the loop. The environment publishes a build and, apart
from it, its signature, takes a permission away, and lets the url age.

`history` variables remember what the code cannot know: that a permission was
lost, that a probe was misled, that a signature which was there was overlooked.

### AwsTester, with AwsHosts, EcsServices, InstanceProfile and AwsTesterProofs (`auth_aws/`)

`AwsHosts` is what the three share: a `step` for each host and a bound on failing
calls; whatever raises ends the tester. `InstanceProfile` is the assignment and the
unassignment of a host's profile: EC2 has the association (`assoc`), the metadata
follows some time later (`imds`), the scripts poll it (`retry`). `EcsServices` is
`container_tester.py` on the one cluster all hosts share: list, describe and delete
what is too old, create a service, wait, test, stop in `finally`. The list is the first
page of `list_services` only, so a collection may not see every service. `AwsTester` is
`aws_tester.py`: the kinds of setup, what each returns, and `test-env.sh`, which
`handle_creds` writes and `aws_setup.sh` removes first. The setup script is sourced, and
sources `test-env.sh` at its end: it unsets the three key variables, but what
web-identity exported stays in that shell (`web`) for the next setup in it. A driver
looks for keys, then for a web identity, then at the metadata (`CreateUser`).

Left out: what the tests inside the container and the pods do, the tokens of the
OIDC script, and the kinds `regular` and `session-creds`, whose steps and ends are those
of `assume-role` and `env-creds`.

### BuildSelection, ArchiveMembers, ClusterOptions, OcspResponder, with AlgorithmsProofs

Pure functions, as operators or recursive functions: which row of the table
mongodl takes and which url and checksum it makes of it; which members of an
archive match a test pattern and where they go (the recursion accepts a path when the
pattern matches it or its first names, that is, a directory the member lies in); the config mongodb-runner gets for an
orchestration file, in which `procParams` may be missing, the top level may hold
anything, and a member may have a priority; the answer of the OCSP responder, with its two clock readings.
`MCAlgorithms` chooses an input, computes the answer in one step, and compares it
with a definition written the other way round: a rank instead of a comparison, an
alignment instead of a recursion, the processes of the file instead of the options,
what a client of RFC 6960 concludes instead of how the answer is built.

### Tunnel (`socks5srv.py`, `csfle/kms_http_proxy.py`), with TunnelProofs

One connection: the dialogue of `Socks5Handler.handle` or `do_CONNECT` (`pc` from
`greeting` or `request` to `reply`, one action per message or address), then
`raw_proxy` or `_tunnel`, which are one loop: `Select` remembers the sides that can
be read (`ready`), `Recv` takes at most a chunk from the next of them into `hold`,
`Send` is `sendall`, which writes what fits until nothing is left while nothing
else is served. Bytes are counted, not told apart: one thread moves them in the
order they came. `wire` and `out` are the receive and send buffers of the proxy's
sockets, `pending` the bytes a TLS socket has decrypted and not handed out; the
kernel knows of `wire` only, which is what `select` sees. The ends write, read,
shut down or close at any time.

Left out: a client that sends data before it was told of success, the remapping
of addresses, the counter behind `/metrics`, the order in which `errored` sockets
are noticed. `GiveUp` shows that `socks5srv.py:151` returns the last, closed socket
when every address refused, so that the client is told of success and then
disconnected.

## The runs

All with 2 workers in well under a minute each, but `cache` in about one and a half and
`aws` in about two.

| run | asks | bounds |
|---|---|---|
| `cache` | one process, both kinds of archives: `CacheCoherent`, `ImportedIsRecorded`, `ExtractedAsAsked`, the refinement, that runs end and that the cache heals | two manifests, one of them chosen for every run: `full.json`, which grows, and a mirror with a newer listing that stays as it is (`Growing`; enough for the tables of one to be under the validators of the other); two versions of every other url (one replacement is what makes validators and files disagree), two faults (one to break, one to break the repair), one retry |
| `shared` | two processes: refreshes are serialised by the read lock (`NoLostRefresh`) | one manifest, one latest archive, no retry, one fault; symmetric processes |
| `proxy` | a driver that waits for its replies, or a client that pipelines anything: units released at each pause, instruction, command and reply belong together, the stream refines `BytePipe`, a driver's replies arrive | three messages (before, at, and after the first instruction), replies of three units |
| `orchestration` | any three commands of eleven kinds with two faults: the files agree and name what exists, keep the promise; what stop leaves; the next run succeeds | two ports, one of them the container's; three commands are one to build, one to break, one to look |
| `tunnel` | a connection through each proxy, with and without password and TLS: nothing lost or doubled, everything passed on before a close, nothing sent for a stranger, every byte arrives unless it waits in TLS | three bytes each way; two per recv, so that a record of three leaves one behind and two do not fit into a buffer (of two) that holds one |
| `aws` | two hosts test again and again: a setup verified what its name says, the profile is not an echo, no service in use is collected, what was created is released, a leak stays only while the collections find more than a page | two service names are enough for one in use and one that leaked; a page holds one, so that there can be more than a page; one fault; one poll, since only the last one is special; one host goes through every kind, the other has ecs alone, so that the second collector is there |
| `artifacts` | every set of permissions, every state of gpg: acceptance for a reason, a broken gpg is met once, the legacy host last | one retry, one tick of life (a url is good or expired), two builds, one permission taken away |
| `runner` | two runs on every host with every pin set: the committed pin, the blame for the Node, the deployed servers | two servers (one wrapped, one not yet), one version directory beside the default, one update, one fault |
| `algorithms` | the four pure parts on every small input | paths and patterns of up to three names, tables of up to three archives and one library, two shards of two members on two ports, two certificates and two extensions, a response that takes up to a second of a validity of one or two |
| `teardown_lb` | violated: the teardown stops the load balancer | no fault |
| `profile` | violated: a run whose identity cannot be loaded still gets a url | no change of permissions |
| `debug_symbols` | violated: what `--list` offers can be verified | one archive |

The violated ones are findings, each with the line it contradicts in
`PROJECT.json`:

1. `teardown.sh:25` the load balancer is never stopped, and the rest of the teardown does not happen.
2. `server_artifacts.py:121` an identity that cannot be loaded (`ProfileNotFound`, an expired
   SSO session) escapes from the first stage; the handler that is commented for it
   sits around the second.
3. `mongodl.py:824` the debug symbols are compared with the checksum of the archive.

### Met while modelling

In the models, and not given a run of their own:

- `mongodl.py:665`: a cached file is deleted by hand (`Evict`), then the body that
  replaces it is cut short: the old row vouches for a partial file, which the next
  304 hands out. `Coherent` has the hypothesis `~Evictable` for this reason.
- `mongodl.py:690`: two processes refresh one cache: one imports the file the other has
  just overwritten with an older manifest, under the newer validators. The
  hypothesis `OneProcess` of `Coherent` and `Imported`.
- `mongodl.py:690`: with `MONGODB_DOWNLOAD_SOURCE` naming A, then B, then A again, the third
  run is answered 304 for A and keeps the tables of B ("We still have a good cache";
  the docstring promises to "Sync the content of the MongoDB full.json downloads
  list"). `ImportedIsRecorded` therefore speaks of the manifest the tables came from, and
  `Heals` excepts the runs whose manifest is `Displaced`; the mirror of the run `cache`
  makes both happen.
- `mongodl.py:1081`: a pattern that ends before the path accepts it (an empty pattern
  always matches), so `--only bin` extracts all that is in `bin`. The help says that "The
  full archive member path is matched" (`mongodl.py:1309-1313`). It also says that a path of "fewer
  than N components" is ignored (`:1327`); the code ignores those of exactly N too, since nothing
  would be left of them. `ExtractsWhatMatches` states what the code does.
- `orchestration/mongodb_runner.py:393` and `:414`: a standalone or a member without `procParams`
  does not get `enableTestCommands`, whereas one with an empty `procParams` does.
- `mongoproxy/proxy.go:305`: only the first instruction of a connection is applied
  (`CopyRest`); a `proxyTest` field without actions is forwarded (`mongoproxy/testdsl.go:36`,
  the README says the field does not reach the server).
- `mongoproxy/proxy.go:265`: an instruction on a command the server does not answer (an
  unacknowledged write) stays in the map and shapes the reply to the next command.
  `InstructionsPaired` is therefore about clients that wait for their replies and put
  instructions on commands that have one.
- `drivers_orchestration.py:893`: `stop` terminates itself when it is given
  `--mongo-orchestration-home` (`StopSelf`).
- `csfle/kms_http_proxy.py:138`: over TLS the rest of a record waits where `select` does
  not see it; `DeliveredUnlessBuffered` makes the exception.
- `mongodb_runner.py:220`: a runner installed with the Node of `node-artifacts` is reused
  by a run that has only the host's older one (`Reuse` looks for any node).
- `mongodb_runner.py:229`: an integrity failure on a Node the packages accept, followed by
  EBADENGINE on the one from `install-node.sh`, does fall back: only the last message
  is looked at. The docstring (`:168-170`) says that a failed integrity check "points at the pin's
  content, not the host, and must not be swallowed here", and the test
  (`tests/test-mongodb-runner.sh:67-69`) that "A silent fallback on a host that could have used
  mongodb-runner would hide a broken pin set." `FallsBackForTheNode` names this case as
  its one exception; in `runner` it occurs.
- `install-node.sh:158-166`: when the upgrade of npm fails, Node and `node-version.txt` are in
  place, so the next run takes that Node with the npm that came with it.
- `auth_aws/aws_setup.sh:24-31` ("Remove any AWS creds that might be set in the parent env."):
  `AWS_WEB_IDENTITY_TOKEN_FILE` and `AWS_ROLE_ARN` are not removed, nor by `setup_ec2`
  (`aws_tester.py:109`, which pops two keys). After web-identity in the same shell, ec2 verifies
  the web identity and not the profile; `VerifiedAsNamed` names the exception.
- `auth_aws/lib/container_tester.py:264` ("Delete all ECS services over then a given threshold."):
  the first page of `list_services` only, so a leak that is never on that page stays.
  `LeaksCollected` promises nothing while the collections find more than a page.
- `aws_assign_instance_profile.py:61`: a profile that shows at the last poll is taken for a
  timeout.
- `docker rm` does not remove running containers (`docker/teardown.sh:21`, "Kill all
  containers"); `clean` removes `server.log`, by whose presence `teardown.sh:16` knows that
  something is running; `socks5srv.py:151` returns the last, closed socket.

### Fairness

Weak fairness of a process's own steps only (`Step(p)`, a goroutine, the
thread of a tunnel, a command that was given, a builder). Nobody has to start, send,
publish, close or give a command, and no fault has to happen: the liveness properties
say what follows from a program that is scheduled. The server that answers the
shaping proxy is fair, since a reply that never comes is no fault of the proxy, and
so are the ends of a tunnel in reading what was sent to them. In `aws` tests are also
started again and again, and services age and drain: the collection of
leaked services relies on a next test, in the code as in `LeaksCollected`. Which services are on the
first page is not fair to anybody: `LeaksCollected` says that a service leaked for ever means
collections that find more than a page again and again. Deadlock
is not checked: every run ends when its bound on commands, faults or versions is
used up.

Every property of a passing run has a mutant: a definition that is named in
`PROJECT.json` "map", changed as a plausible bug would change it, and TLC finds the
property violated with it. The mutants stand next to what they mutate.

## What is proved

`DownloadCacheProofs`, for any processes, archives, number of versions, retries
and faults:

- `TypeCorrect`: `Spec => []TypeOK`, the retrier's count included. `TypeOK` is
  inductive by itself: the steps share two ways of failing, `Abort` and `Raise`,
  for which `AbortType` and `RaiseType` are proved once.
- `Serialised`: `Spec => []NoLostRefresh`, for any number of processes and with deleted
  files.
- `Coherent`: `Spec => []CacheCoherent`, `Imported`: `Spec => []ImportedIsRecorded`,
  `AsAsked`: `Spec => []ExtractedAsAsked` and `Refinement`: `Spec => KeepsPromise` (the
  cache implements `CachedDownload`), when one process uses the cache at a time and
  nobody deletes its files. Neither hypothesis can go (see Met while modelling).

`NoLostRefresh` follows from `LockInv`: a refresh is inside the read lock from its lookup
to its commit, and the committed row is the one it read. It is shown in two halves.
`OwnLock` is the step of the process itself: an exception while it refreshes ends the
run and drops the lock. `Bystander` is the step seen by the others: their locals and
locks stay, and no row of a manifest changes while any of them is inside the lock, whichever
manifest it refreshes. `TypesAndLocks` proves it together with `TypeOK`: that the url a commit
makes the `origin` is a manifest (`OnlyManifests`) follows from the lock.

`CacheCoherent` is not inductive: that writing the row is right depends on what
the process found out before. `IInv` adds it. `CacheInv` says a row that disagrees
with its file is older than the server's version, so the server will not answer
304 to it; `StepInv(p)` says what each step knows: an answer 200 means the
validators that were sent are out of date, so the file that is about to be
truncated is one that no row may vouch for any more; the file is whole when the row
is written and stays so until the transaction commits. `OwnStep` shows it of each
step of a process, `PublishInv` of the server's, where versions only grow.

`AskedInv` adds what a run knows of the file it asked for: what the server answered, and
what it uses, is no older than the server's version when the call began. The step
that matters is the 304 (`OwnAsked`): the validators sent are those of the row, the server
still has that version, so by `CacheInv` the file is that version, whole. The
refinement needs both invariants. `Move(p)` lists what a step can look like to a caller
of `download_file`, `OwnMove` shows that every step is one of them, and `MoveIsPromised`
that each is a step of `CachedDownload` or a stutter.

From assumption `ConstantsOK`, which TLC evaluates in every run.

`TunnelProofs`, for any sizes of chunks, records and buffers, any number of
addresses and of bytes, from assumption `ProxiesOK`:

- `TypeCorrect`, `NoByteLost`, `LastWords` and `Guarded`: `TypeOK`, `NothingLost`,
  `LastWordsForwarded` and `OnlyForTheKnown`.

Their common invariant `IInv` is stronger in three ways. `Balance` counts the bytes
also after the end, since what is left of them bounds what may still be read;
without it `TypeOK` is not inductive. `PendingInTls` says that only a TLS socket holds
bytes of its own, so an empty `recv` means that nothing is left anywhere; `EndedDry`
remembers that. `StrangerWaits` says where in the dialogue a client without the
password can be. `RecvTakes` is the arithmetic of one `recv`; there is one lemma for
each kind of step.

`RunnerInstallProofs`, for any servers, pin sets, and numbers of runs, updates and
faults, from assumption `RunnerAssumption`:

- `TypeCorrect`, `Committed`, `NodeToBlame` and `OwnServers`: `TypeOK`,
  `RunsTheCommittedPin`, `FallsBackForTheNode` and `DeploysItsOwnServers`.

The safety properties speak of the launch and of the fallback only; `IInv` follows them
back through the run. `TreesInPlace`: a tree stands in the directory of its own digest,
whoever installed it. `OneNode`: a host has one Node that `install-node.sh` can give it,
and a retried install ran on it (`SecondChance`); `FirstTry` keeps what `first` says true of
the Node it names, whatever happened since, and `Blamed` carries what npm's last message means. `Binaries` is the state of every server in every phase, `Half` the
wrapper that is being written. One lemma for each of these, with a step for each action.

`ServerArtifactsProofs`, for any number of retries and versions and any life of a url,
from assumption `BoundsOK`:

- `TypeCorrect`, `Verified` and `LegacyIsLast`: `TypeOK`, `VerificationHolds` and
  `LegacyOnlyWithoutAccess`.

The third stage presigns without a probe, so that a signature is not overlooked rests
on an argument across two resolutions: whoever read the archive through a role reads
what is beside it through the same role (`Reached`), and whoever read it as the ambient
identity is never sent to a later stage for the signature, because the archive it
just read keeps the probe from being misled. `StagesPassed` says what is known of the
permissions when a stage is left.

`OrchestrationProofs`, for any requests, ports, numbers of commands and faults, from
assumption `RequestsOK`:

- `TypeCorrect` and `FilesAgree`: `TypeOK` and `PublishedFilesAgree`.
- `StopLeavesNothing`: `Spec => NothingLeft`, an action property.
- `Refinement`: `Spec => KeepsPromise`, that is, Orchestration implements `Published`.

What the files say depends on where the command is, and `stop()` is called from several
places, so the invariant is about `At`: the step `stop()` returns to. `CommandInv` says
which command takes which steps; `CleanInv` how far clean_run is through `CleanOrder` (the
uri first, then the files that name it, then what they name); `WritingInv` that until a
run writes the uri it writes the same into both files; `ServerInv` and `RunnerInv` that
the pid file and the data directories know of whoever still builds; `SeenInv` that what
stop() has not seen belongs to a runner whose directory is there; `DeploymentInv` that
nobody brings up what is published. The frame lemmas (`ProcessFrame`, `RecordFrame`,
`OutputFrame`) say once which steps touch what, so that the proof of each part speaks only
of the steps that can disturb it. In the refinement the stops only take deployments away
(`StopsOnly`), and a mongod that starts is up beside nothing that is published
(`SpawnsBeside`).

`AwsTesterProofs`, for any hosts, services, kinds of test, threshold and faults:

- `TypeCorrect`, `CollectionSpares`, `SetupVerifies` and `ProfileStays`: `TypeOK`,
  `InUseNotCollected`, `VerifiedAsNamed` and `ProfileOutlastsSetup`.
- `NothingLeaks`: `Spec => AssetsReleased`, an action property.

Hosts share the cluster, so the invariant is about pairs of them. `SweepInv`: what a host
has listed for deletion is expired and stays so, however long it takes to get there,
because the name of a service is not given away before it is gone. `OwnerInv`: a service
has one owner from its creation until its host forgets it. `ProfileInv`: the metadata may
lag behind EC2 only while a change was not awaited to its end (`unfinished`, what a fault
leaves); `AccessInv` and `FileInv` carry how the user was verified to the file that is
written. `KindInv` says whose each step is; `Actors` and `OthersKeep` reduce a step of
the system to a step of one host that leaves the others as they were.

`MongoProxyProofs`, for any connections, commands, instructions, reply length and number
of commands, from assumption `TemplatesOK`:

- `TypeCorrect`, `Paired` and `PausesShow`: `TypeOK`, `InstructionsPaired` and
  `PauseShowsExactly`.
- `OneStream`: `Spec => RepliesInOrder`, that is, towards the client the proxy implements
  `BytePipe`.

`InstructionsPaired` says nothing of how an instruction finds its reply: the goroutines
meet only in a map with one slot. The proof has three parts. `OrderInv`: commands and
replies overtake nobody, from the client's pipe to what the client has got. `ReplyInv`:
the buffer is the rest of the reply that is being doled out, and what the client has is
the units before it. `PatientInv`: a client that waits has at most its last command
without a reply, so what is pending can only be that one's. The lemmas about
sequences say what `Append`, `Tail` and a write do to the order; `Grows` is what a step may
do to what the others see.

In the refinement the stream is a concatenation of replies of equal length, so the unit at
a position is found by division. `Division` to `DivisionOfLess` are the arithmetic,
`ConcatHead` and `ConcatAppend` what a concatenation loses or gains, and `StreamStep` shows
that a step writes at the end of the stream, delivers its beginning, or leaves it.

`AlgorithmsProofs`, from assumption `InputsOK`:

- `NewestChosen`: `Spec => []NewestThatFits`, for tables of any size over any numbers of
  series, patch levels (below 100, as in the rank) and candidates of one major version.
- `ExtractedAsMatched`: `Spec => []ExtractsWhatMatches`, for paths and patterns of any length.
- `Concludes`: `Spec => []ClientConcludes`, for requests of any number of certificates and
  extensions, any clock and any validity; the response takes at most a second, since one
  that takes longer than the shortest validity is stale when it is made.
- `DeploysAsDescribed`: `Spec => []DeploysWhatIsDescribed`, for replica sets and shards of
  any number of members, clusters of any number of shards, and any ports, with or without
  `procParams` where the code allows both, in files with one shard of config servers at most.

`LessIsEarlier` shows that the comparison of the columns, where 9999 stands for the
absence of a tag, is the order of the ranks; that a first row exists and that none is
later (`NewestIsNewest`) rests on `Greatest`: a bounded set of numbers has a greatest.
`FitsIsWanted` relates the conditions of the query to what was asked for. `TestsAlignment`
is about the recursion of `_test_pattern`: the alignments solve its equation
(`AlignedFurther`), so it has a solution, and two solutions do not differ, because there
would be a last part of the pattern at which they do. `LinesUpToAName` turns such an alignment
into a match of the first names of the path. `StillValid` is the arithmetic of
the half seconds, `NonceIsSent` the loop over the extensions.

`_get_cluster_options` is loops that append to a list, so its proof is about loops first:
`LoopRuns` shows that the recursive function which stands for a loop exists, `Kept` that
what its steps keep holds at its end (the library's induction takes an operator as its
parameter, and `Greatest` does instead). A list of arguments is then known by what is in it
and by what is there once: `ConcatIn`, `ConcatOnce` and `RemovedOnce` say what an append
and `list.remove` do to that. `Handled` is what `_handle_proc_params` tells a process, and
holds for all dictionaries, not only those of the jobs; `MemberSays`, `GivenSays` and `CommonSays`
compare it with the file once the role is removed or other arguments are around it.
`Mute` is a list that sets no parameter, `Calm` one that sets none twice; `Joined` says what they
become when put together, and `CommonTold` that what all processes share says the top level
and sets nothing, so that it disturbs no comparison. `ShardsAre` is the loop over the shards:
where each is after every step, wherever the config servers come in the file.

Only model-checked, and why: liveness (`RunEnds`, `CommandsComplete`, `LeaksCollected`,
`DeliveredUnlessBuffered`, and `Heals` of both modules) rests on fairness, which is out of
the prover's reach.

## What is not modelled

`PROJECT.json` gives the reason for each component. The pure mock servers, the
one-shot scripts and the generators have no state a second actor could meet; the
KMS failpoint server answers one connection at a time in one thread, so its two
counters are sequential; the cloud scripts are one call to create, a loop that waits,
one call to delete, around a service that holds the state; the performance comparison
computes with real numbers. The CSFLE servers' pid files and the happy-eyeballs
server are the parts left with behaviour of their own.

## Plan

Done: `DownloadCache` (refining `CachedDownload`), `MongoProxy` (refining `BytePipe`),
`Orchestration` (refining `Published`), `Tunnel`, `RunnerInstall`, `ServerArtifacts`, the AWS
tests, the algorithms; the proofs above. Each module is written to be proved about:
constants with named assumptions, one action per operation, no recursive operators in
what has or will have theorems.

Every safety invariant, action property and refinement that the passing runs check is a
theorem.

Modules to write next: the CSFLE servers' pid files (`csfle/start-servers.sh`,
`stop-servers.sh`), the pairs of ports of `happy_eyeballs/server.py`, the lookup of
`AddressRemapper`. Each is small; the first has the stale pid files that would earn a proof.
