---------------------------- MODULE DownloadCache ----------------------------
(***************************************************************************)
(* The download cache of mongodl.py: a directory of files beside an SQLite  *)
(* database that remembers, per url, the validators (ETag, Last-Modified)   *)
(* of the content the file is supposed to hold.  A run of mongodl refreshes *)
(* a manifest (full.json, or what MONGODB_DOWNLOAD_SOURCE names) inside one *)
(* database transaction, looks the wanted archive up in the imported        *)
(* tables, downloads it through the cache, checks it (SHA-256 of a released *)
(* build, detached signature of a latest build) and expands it, retrying    *)
(* the last three.  Each manifest url has a row of its own, but there is    *)
(* one set of tables for all of them.                                       *)
(*                                                                          *)
(* A version number stands for a content together with its validators.      *)
(* Version 0 means "none".  All versions of a url have the same length, so  *)
(* the size check sees exactly a short or truncated file.                   *)
(***************************************************************************)
EXTENDS Integers

CONSTANTS Procs,      (* the mongodl processes that share the cache        *)
          Archives,   (* urls of the archives a run may want               *)
          Released,   (* those listed in the manifest; the rest are latest *)
          Manifests,  (* urls MONGODB_DOWNLOAD_SOURCE may name             *)
          Lists,      (* Lists[s][m][a]: version of a whose sum version m   *)
                      (* of manifest s has, 0 when a is not listed         *)
          NoProc,     (* nobody holds the database's write lock            *)
          Retries,    (* --retries                                         *)
          Evictable,  (* TRUE when cached files may be deleted by hand     *)
          Amazon2023, (* TRUE on the host whose gpg failure is tolerated   *)
          Growing,    (* bound: the urls that get later versions           *)
          MaxVersion, (* bound: versions published per url                 *)
          MaxFaults   (* bound: crashes, lost requests, short bodies, ...  *)

Urls == Archives \cup Manifests
Latest == Archives \ Released
Versions == 0 .. MaxVersion

ASSUME ConstantsOK ==
    /\ Released \subseteq Archives
    /\ Archives # {}
    /\ Manifests # {}
    /\ Manifests \cap Archives = {}
    /\ Growing \subseteq Urls
    /\ NoProc \notin Procs
    /\ Retries \in Nat
    /\ MaxVersion \in Nat \ {0}
    /\ MaxFaults \in Nat
    /\ Evictable \in BOOLEAN
    /\ Amazon2023 \in BOOLEAN
    /\ Lists \in [Manifests -> [1 .. MaxVersion -> [Released -> Versions]]]

VARIABLES
    current,  (* [Urls -> version]: what the server serves                 *)
    sig,      (* [Latest -> version]: the build the published .sig signs   *)
    row,      (* [Urls -> version]: committed rows of mdl_http_downloads   *)
    files,    (* [Urls -> File]: the cached files                          *)
    tables,   (* the manifest version the committed mdl_* tables hold,     *)
    origin,   (* and the manifest they were imported from                  *)
    readers,  (* processes inside the refresh transaction's read lock      *)
    writer,   (* the process that holds the write lock, or NoProc          *)
    tx,       (* [Procs -> [row, tables]]: writes not yet committed        *)
    pc,       (* [Procs -> step]                                           *)
    job,      (* [Procs -> Job]: the locals of a run                       *)
    out,      (* [Procs -> how the last run ended and what it extracted]   *)
    faults    (* faults so far                                             *)

server == <<current, sig>>
database == <<row, tables, origin, readers, writer, tx>>
vars == <<current, sig, row, files, tables, origin, readers, writer, tx, pc, job, out, faults>>

File == [ver : Versions, whole : BOOLEAN]
NoFile == [ver |-> 0, whole |-> FALSE]
Whole(v) == [ver |-> v, whole |-> TRUE]
Truncated(v) == [ver |-> v, whole |-> FALSE]

Steps == {"idle", "lookup", "request", "open", "copy", "size", "record",
          "import", "commit", "resolve", "check", "expand"}

(* goal: the archive wanted; url: the one download_file works on; sent: the *)
(* validator in the request; got: the one in the answer; want: the version  *)
(* whose SHA-256 the manifest gave; attempt: DownloadRetrier.attempt; floor *)
(* is a history variable, the server's version when download_file began.    *)
Job == [goal : Archives, url : Urls, sent : Versions, got : Versions,
        want : Versions, attempt : 0 .. Retries, floor : Versions]

Outcome == [status : {"none", "running", "ok", "failed"}, file : File]

TypeOK ==
    /\ current \in [Urls -> 1 .. MaxVersion]
    /\ sig \in [Latest -> Versions]
    /\ row \in [Urls -> Versions]
    /\ files \in [Urls -> File]
    /\ tables \in Versions
    /\ origin \in Manifests
    /\ readers \in SUBSET Procs
    /\ writer \in Procs \cup {NoProc}
    /\ tx \in [Procs -> [row : Versions, tables : Versions]]
    /\ pc \in [Procs -> Steps]
    /\ job \in [Procs -> Job]
    /\ out \in [Procs -> Outcome]
    /\ faults \in 0 .. MaxFaults

Init ==
    /\ current = [u \in Urls |-> 1]
    /\ sig = [a \in Latest |-> 0]
    /\ row = [u \in Urls |-> 0]
    /\ files = [u \in Urls |-> NoFile]
    /\ tables = 0
    /\ origin \in Manifests
    /\ readers = {}
    /\ writer = NoProc
    /\ tx = [p \in Procs |-> [row |-> 0, tables |-> 0]]
    /\ pc = [p \in Procs |-> "idle"]
    /\ \E a \in Archives, s \in Manifests :
         job = [p \in Procs |-> [goal |-> a, url |-> s, sent |-> 0, got |-> 0,
                                 want |-> 0, attempt |-> 0, floor |-> 0]]
    /\ out = [p \in Procs |-> [status |-> "none", file |-> NoFile]]
    /\ faults = 0

-----------------------------------------------------------------------------
(* The steps of one process.                                               *)

Goto(p, step) == pc' = [pc EXCEPT ![p] = step]
Refreshing(p) == job[p].url \in Manifests
Cached(p) == files[job[p].url]

Fault == faults < MaxFaults /\ faults' = faults + 1

(* The connection drops the transaction: what it wrote is rolled back.     *)
Rollback(p) ==
    /\ readers' = readers \ {p}
    /\ writer' = IF writer = p THEN NoProc ELSE writer
    /\ tx' = [tx EXCEPT ![p] = [row |-> 0, tables |-> 0]]
    /\ UNCHANGED <<row, tables, origin>>

(* The run is over without an extracted archive.                           *)
Abort(p) ==
    /\ Goto(p, "idle")
    /\ out' = [out EXCEPT ![p] = [status |-> "failed", file |-> NoFile]]
    /\ Rollback(p)
    /\ UNCHANGED job

(* Mutant: one attempt too many.                                           *)
RaiseTooOften(p) ==
    \/ /\ Refreshing(p) \/ job[p].attempt > Retries
       /\ Abort(p)
    \/ /\ ~Refreshing(p)
       /\ job[p].attempt <= Retries
       /\ job' = [job EXCEPT ![p].attempt = @ + 1]
       /\ Goto(p, "lookup")
       /\ UNCHANGED <<database, out>>

(* Mutant: the attempts are not counted.                                   *)
RaiseForever(p) ==
    \/ Refreshing(p) /\ Abort(p)
    \/ ~Refreshing(p) /\ Goto(p, "lookup") /\ UNCHANGED <<database, job, out>>

(* An exception: the refresh is not retried, the archive's download is as   *)
(* long as the retrier has attempts left.                                   *)
Raise(p) ==
    \/ /\ Refreshing(p) \/ job[p].attempt >= Retries
       /\ Abort(p)
    \/ /\ ~Refreshing(p)
       /\ job[p].attempt < Retries
       /\ job' = [job EXCEPT ![p].attempt = @ + 1]
       /\ Goto(p, "lookup")
       /\ UNCHANGED <<database, out>>

Start(p) ==
    /\ pc[p] = "idle"
    /\ \E a \in Archives, s \in Manifests :
         job' = [job EXCEPT ![p] = [goal |-> a, url |-> s, sent |-> 0, got |-> 0,
                                    want |-> 0, attempt |-> 0, floor |-> 0]]
    /\ out' = [out EXCEPT ![p] = [status |-> "running", file |-> NoFile]]
    /\ Goto(p, "lookup")
    /\ UNCHANGED <<server, database, files, faults>>

(* Mutant: the refresh begins its transaction only when it writes.         *)
LookupUnlocked(p) ==
    /\ pc[p] = "lookup"
    /\ job' = [job EXCEPT ![p].sent = IF Cached(p) = NoFile THEN 0 ELSE row[job[p].url],
                          ![p].floor = current[job[p].url]]
    /\ Goto(p, "request")
    /\ UNCHANGED <<server, database, files, out, faults>>

(* The remembered validators, sent only when the file is there.            *)
Lookup(p) ==
    /\ pc[p] = "lookup"
    /\ job' = [job EXCEPT ![p].sent = IF Cached(p) = NoFile THEN 0 ELSE row[job[p].url],
                          ![p].floor = current[job[p].url]]
    /\ readers' = IF Refreshing(p) THEN readers \cup {p} ELSE readers
    /\ Goto(p, "request")
    /\ UNCHANGED <<server, row, tables, origin, writer, tx, files, out, faults>>

Unchanged(p) == job[p].sent # 0 /\ job[p].sent = current[job[p].url]

(* 304: the file must be there, and is returned as it is.                  *)
NotModified(p) ==
    /\ pc[p] = "request"
    /\ Unchanged(p)
    /\ \/ /\ Cached(p) # NoFile
          /\ Goto(p, IF Refreshing(p) THEN "commit" ELSE "check")
          /\ UNCHANGED <<database, job, out>>
       \/ Cached(p) = NoFile /\ Raise(p)
    /\ UNCHANGED <<server, files, faults>>

(* Mutant: an archive's validators are recorded before its download.       *)
ModifiedRecordedFirst(p) ==
    /\ pc[p] = "request"
    /\ ~Unchanged(p)
    /\ job' = [job EXCEPT ![p].got = current[job[p].url]]
    /\ row' = IF Refreshing(p) THEN row ELSE [row EXCEPT ![job[p].url] = current[job[p].url]]
    /\ Goto(p, "open")
    /\ UNCHANGED <<server, tables, origin, readers, writer, tx, files, out, faults>>

Modified(p) ==
    /\ pc[p] = "request"
    /\ ~Unchanged(p)
    /\ job' = [job EXCEPT ![p].got = current[job[p].url]]
    /\ Goto(p, "open")
    /\ UNCHANGED <<server, database, files, out, faults>>

RequestFails(p) ==
    /\ pc[p] = "request"
    /\ Fault
    /\ Raise(p)
    /\ UNCHANGED <<server, files>>

(* dest.open("wb") truncates whatever the file held.                       *)
Open(p) ==
    /\ pc[p] = "open"
    /\ files' = [files EXCEPT ![job[p].url] = Truncated(job[p].got)]
    /\ Goto(p, "copy")
    /\ UNCHANGED <<server, database, job, out, faults>>

Copy(p) ==
    /\ pc[p] = "copy"
    /\ files' = [files EXCEPT ![job[p].url] = Whole(job[p].got)]
    /\ Goto(p, "size")
    /\ UNCHANGED <<server, database, job, out, faults>>

(* The server closed early: the body is shorter than its Content-Length.   *)
CopyShort(p) ==
    /\ pc[p] = "copy"
    /\ Fault
    /\ Goto(p, "size")
    /\ UNCHANGED <<server, database, files, job, out>>

(* Mutant: the size is not checked.                                        *)
CheckSizeSkipped(p) ==
    /\ pc[p] = "size"
    /\ Goto(p, "record")
    /\ UNCHANGED <<server, database, files, job, out, faults>>

CheckSize(p) ==
    /\ pc[p] = "size"
    /\ \/ Cached(p).whole /\ Goto(p, "record") /\ UNCHANGED <<database, job, out>>
       \/ ~Cached(p).whole /\ Raise(p)
    /\ UNCHANGED <<server, files, faults>>

(* Mutant: the manifest's row is committed apart from its import.          *)
RecordCommitted(p) ==
    /\ Refreshing(p) /\ writer = NoProc
    /\ writer' = p
    /\ tx' = [tx EXCEPT ![p].row = job[p].got]
    /\ row' = [row EXCEPT ![job[p].url] = job[p].got]
    /\ Goto(p, "import")
    /\ UNCHANGED <<tables, origin, readers, job, out>>

(* INSERT OR REPLACE: part of the refresh transaction for the manifest,     *)
(* autocommitted for an archive.                                            *)
RecordInTransaction(p) ==
    /\ Refreshing(p) /\ writer = NoProc
    /\ writer' = p
    /\ tx' = [tx EXCEPT ![p].row = job[p].got]
    /\ Goto(p, "import")
    /\ UNCHANGED <<row, tables, origin, readers, job, out>>

RecordAtOnce(p) ==
    /\ ~Refreshing(p) /\ writer = NoProc /\ readers = {}
    /\ row' = [row EXCEPT ![job[p].url] = job[p].got]
    /\ Goto(p, "check")
    /\ UNCHANGED <<tables, origin, readers, writer, tx, job, out>>

(* OperationalError: database is locked.                                   *)
RecordBusy(p) ==
    /\ writer # NoProc \/ (~Refreshing(p) /\ readers # {})
    /\ Raise(p)

Record(p) ==
    /\ pc[p] = "record"
    /\ RecordInTransaction(p) \/ RecordAtOnce(p) \/ RecordBusy(p)
    /\ UNCHANGED <<server, files, faults>>

(* import_json_file rebuilds the tables from the file as it is by then.    *)
ImportFile(p) ==
    /\ Cached(p).whole
    /\ tx' = [tx EXCEPT ![p].tables = Cached(p).ver]
    /\ Goto(p, "commit")
    /\ UNCHANGED <<row, tables, origin, readers, writer, job, out>>

Import(p) ==
    /\ pc[p] = "import"
    /\ ImportFile(p) \/ (~Cached(p).whole /\ Raise(p))
    /\ UNCHANGED <<server, files, faults>>

(* sys.exit(1) on an unknown target under VALIDATE_DISTROS.                *)
ImportExits(p) ==
    /\ pc[p] = "import"
    /\ Fault
    /\ Abort(p)
    /\ UNCHANGED <<server, files>>

(* COMMIT needs every other reader gone; after a 304 there is nothing to    *)
(* write and the transaction just ends, whichever manifest the tables hold. *)
CommitTables(p) ==
    /\ writer = p /\ readers \subseteq {p}
    /\ row' = [row EXCEPT ![job[p].url] = tx[p].row]
    /\ tables' = tx[p].tables
    /\ origin' = job[p].url
    /\ writer' = NoProc
    /\ tx' = [tx EXCEPT ![p] = [row |-> 0, tables |-> 0]]
    /\ readers' = readers \ {p}
    /\ Goto(p, "resolve")
    /\ UNCHANGED <<job, out>>

CommitNothing(p) ==
    /\ writer # p
    /\ readers' = readers \ {p}
    /\ Goto(p, "resolve")
    /\ UNCHANGED <<row, tables, origin, writer, tx, job, out>>

Commit(p) ==
    /\ pc[p] = "commit"
    /\ \/ CommitTables(p) \/ CommitNothing(p)
       \/ writer = p /\ ~(readers \subseteq {p}) /\ Raise(p)
    /\ UNCHANGED <<server, files, faults>>

(* The version the tables list for the archive, 0 when they do not.        *)
Listed(a) == IF tables = 0 THEN 0 ELSE Lists[origin][tables][a]

Resolve(p) ==
    /\ pc[p] = "resolve"
    /\ \/ /\ job[p].goal \in Released /\ Listed(job[p].goal) # 0
          /\ job' = [job EXCEPT ![p].url = job[p].goal, ![p].want = Listed(job[p].goal)]
          /\ Goto(p, "lookup")
          /\ UNCHANGED <<database, out>>
       \/ /\ job[p].goal \in Latest
          /\ job' = [job EXCEPT ![p].url = job[p].goal]
          /\ Goto(p, "lookup")
          /\ UNCHANGED <<database, out>>
       \/ job[p].goal \in Released /\ Listed(job[p].goal) = 0 /\ Abort(p)
    /\ UNCHANGED <<server, files, faults>>

(* Mutant: the sum of a released archive is not compared.                  *)
GenuineUnchecked(p) ==
    IF job[p].goal \in Released THEN TRUE
    ELSE sig[job[p].goal] = 0 \/ Cached(p) = Whole(sig[job[p].goal])

Genuine(p) ==
    IF job[p].goal \in Released
    THEN Cached(p) = Whole(job[p].want)
    ELSE sig[job[p].goal] = 0 \/ Cached(p) = Whole(sig[job[p].goal])

Check(p) ==
    /\ pc[p] = "check"
    /\ \/ Genuine(p) /\ Goto(p, "expand") /\ UNCHANGED <<database, job, out>>
       \/ ~Genuine(p) /\ Raise(p)
    /\ UNCHANGED <<server, files, faults>>

(* GpgEnvironmentError: never retried, tolerated on Amazon Linux 2023.     *)
GpgUnusable(p) ==
    /\ pc[p] = "check"
    /\ job[p].goal \in Latest /\ sig[job[p].goal] # 0
    /\ Fault
    /\ \/ ~Amazon2023 /\ Abort(p)
       \/ Amazon2023 /\ Goto(p, "expand") /\ UNCHANGED <<database, job, out>>
    /\ UNCHANGED <<server, files>>

Expand(p) ==
    /\ pc[p] = "expand"
    /\ \/ /\ Cached(p).whole
          /\ out' = [out EXCEPT ![p] = [status |-> "ok", file |-> Cached(p)]]
          /\ Goto(p, "idle")
          /\ UNCHANGED <<database, job>>
       \/ ~Cached(p).whole /\ Raise(p)
    /\ UNCHANGED <<server, files, faults>>

(* Killed at any point: the files stay as they are, the journal undoes the  *)
(* transaction.                                                             *)
Crash(p) ==
    /\ pc[p] # "idle"
    /\ Fault
    /\ Abort(p)
    /\ UNCHANGED <<server, files>>

Step(p) ==
    \/ Lookup(p) \/ NotModified(p) \/ Modified(p)
    \/ Open(p) \/ Copy(p) \/ CheckSize(p) \/ Record(p)
    \/ Import(p) \/ Commit(p) \/ Resolve(p) \/ Check(p) \/ Expand(p)

Disturbance(p) ==
    RequestFails(p) \/ CopyShort(p) \/ ImportExits(p) \/ GpgUnusable(p) \/ Crash(p)

-----------------------------------------------------------------------------
(* The world outside.  A version never comes back once it was replaced.    *)

Publish(u) ==
    /\ u \in Growing /\ current[u] < MaxVersion
    /\ current' = [current EXCEPT ![u] = @ + 1]
    /\ UNCHANGED <<sig, database, files, pc, job, out, faults>>

(* The signature of a latest build is uploaded apart from the build.       *)
PublishSig(a) ==
    /\ sig[a] # current[a]
    /\ sig' = [sig EXCEPT ![a] = current[a]]
    /\ UNCHANGED <<current, database, files, pc, job, out, faults>>

Evict(u) ==
    /\ Evictable
    /\ files[u] # NoFile
    /\ Fault
    /\ files' = [files EXCEPT ![u] = NoFile]
    /\ UNCHANGED <<server, database, pc, job, out>>

Next ==
    \/ \E p \in Procs : Start(p) \/ Step(p) \/ Disturbance(p)
    \/ \E u \in Urls : Publish(u) \/ Evict(u)
    \/ \E a \in Latest : PublishSig(a)

(* A process that is alive takes its next step; nobody is obliged to start  *)
(* a run or to publish anything.                                            *)
Fairness == \A p \in Procs : WF_vars(Step(p))

Spec == Init /\ [][Next]_vars
FairSpec == Spec /\ Fairness
-----------------------------------------------------------------------------
(* Properties.                                                             *)

(* A remembered validator the server would still answer 304 to belongs to a *)
(* complete file of exactly that version: whatever crashed, was cut short   *)
(* or rolled back before, "Using cached file" never hands out another       *)
(* content than the server's (download_file writes the row last).           *)
CacheCoherent ==
    \A u \in Urls :
        row[u] # 0 /\ row[u] = current[u] /\ files[u] # NoFile => files[u] = Whole(row[u])

(* The tables hold the recorded version of the manifest they were imported  *)
(* from: the refresh transaction makes "recorded but never imported"        *)
(* impossible, and with it a 304 for that manifest over older tables.  It   *)
(* says nothing of another manifest: its row outlives an import that takes  *)
(* the tables from it, and a 304 for it then keeps the other's listing.     *)
ImportedIsRecorded == tables = row[origin]

(* A run that reports success extracted a whole archive: the version the    *)
(* manifest listed, or for a latest build one at least as new as the one    *)
(* the server had when its last download began, whatever was published      *)
(* between the download, the check and the extraction.                      *)
ExtractedAsAsked ==
    \A p \in Procs : out[p].status = "ok" =>
        /\ out[p].file.whole
        /\ IF job[p].goal \in Released THEN out[p].file.ver = job[p].want
           ELSE out[p].file.ver >= job[p].floor

(* Refreshes are serialised: the row a refresh read before it asked the     *)
(* server is still the committed one when it replaces it, because the read  *)
(* lock of its transaction keeps every other process from committing.       *)
NoLostRefresh ==
    \A p \in Procs : writer = p /\ job[p].sent # 0 => row[job[p].url] = job[p].sent

(* Every run ends: the retrier gives up.                                    *)
RunEnds == \A p \in Procs : pc[p] # "idle" ~> pc[p] = "idle"

(* Nothing changes at the server any more and the faults are over.          *)
Quiet ==
    /\ faults = MaxFaults
    /\ \A u \in Growing : current[u] = MaxVersion
    /\ \A a \in Latest : sig[a] \in {0, current[a]}

(* A 304 for this manifest would keep the tables of another one.           *)
Displaced(s) == row[s] = current[s] /\ origin # s

(* The cache heals: no history of crashes, short bodies and rollbacks, under *)
(* whatever manifests, can leave it in a state in which a run that starts   *)
(* afterwards fails, unless its manifest is Displaced: then the listing is  *)
(* another's, of any age, and its sum need not be that of the archive.      *)
Heals ==
    \A p \in Procs :
        Quiet /\ pc[p] = "lookup" /\ Refreshing(p) /\ ~Displaced(job[p].url)
            ~> out[p].status = "ok"

-----------------------------------------------------------------------------
(* Seen from the callers of download_file this is CachedDownload: a run     *)
(* calls it for the manifest, then for the archive once per attempt.        *)
Status(p) ==
    IF pc[p] \in {"request", "open", "copy", "size", "record"} THEN "calling"
    ELSE IF pc[p] \in {"import", "commit", "check", "expand"} THEN "using"
    ELSE "away"

Answer(p) == IF Status(p) = "using" /\ Cached(p).whole THEN Cached(p).ver ELSE 0

Promise == INSTANCE CachedDownload WITH
    Clients <- Procs, Resources <- Urls,
    status <- [p \in Procs |-> Status(p)],
    asked <- [p \in Procs |-> job[p].url],
    floor <- [p \in Procs |-> IF Status(p) = "away" THEN 0 ELSE job[p].floor],
    answer <- [p \in Procs |-> Answer(p)]

(* Every answer of download_file is one whole version of the url, no older  *)
(* than the server's when the call began, and stays put while it is used.   *)
KeepsPromise == Promise!AbsSpec
=============================================================================
