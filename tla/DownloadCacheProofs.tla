------------------------- MODULE DownloadCacheProofs -------------------------
(***************************************************************************)
(* Theorems about DownloadCache.  TypeCorrect and Serialised hold of any    *)
(* number of processes, deleted files included; the cache is coherent, a    *)
(* run extracts what it asked for and the cache implements CachedDownload   *)
(* when one process uses it at a time and nobody deletes its files          *)
(* (OneProcess, ~Evictable): the README, under Met while modelling, says    *)
(* why neither hypothesis can be dropped.                                   *)
(***************************************************************************)
EXTENDS DownloadCache, TLAPS

OneProcess == \A p, q \in Procs : p = q

(* Nothing in the cache is newer than the server; a row has its file; a row *)
(* that disagrees with its file is out of date at the server; the tables    *)
(* and the manifest's row were committed together.                          *)
CacheInv ==
    /\ \A u \in Urls :
         /\ row[u] <= current[u]
         /\ row[u] # 0 => files[u] # NoFile
         /\ row[u] # 0 /\ files[u] # Whole(row[u]) => row[u] < current[u]
    /\ tables = row[origin]

(* What a process knows at each step.  A 200 can only have answered a       *)
(* request whose validators were out of date, so the file it overwrites is  *)
(* one the row may not vouch for any more; the file is whole when the row   *)
(* is written, and stays so until the refresh transaction commits.          *)
StepInv(p) ==
    LET u == job[p].url IN
    /\ pc[p] = "request" /\ row[u] # 0 => job[p].sent = row[u]
    /\ pc[p] \in {"open", "copy", "size", "record"} =>
         /\ job[p].got \in 1 .. current[u]
         /\ row[u] # 0 => row[u] < job[p].got
    /\ pc[p] \in {"copy", "size"} =>
         files[u] \in {Truncated(job[p].got), Whole(job[p].got)}
    /\ pc[p] = "record" => files[u] = Whole(job[p].got)
    /\ pc[p] \in {"import", "commit"} => u \in Manifests
    /\ pc[p] = "import" => writer = p
    /\ pc[p] \in {"open", "copy", "size", "record"} => writer # p
    /\ writer = p =>
         /\ pc[p] \in {"import", "commit"}
         /\ tx[p].row \in 1 .. current[u]
         /\ files[u] = Whole(tx[p].row)
         /\ pc[p] = "commit" => tx[p].tables = tx[p].row

IInv == TypeOK /\ CacheInv /\ \A p \in Procs : StepInv(p)

-----------------------------------------------------------------------------
(* The two ways an exception can go keep the types.                        *)
LEMMA AbortType ==
    ASSUME TypeOK, NEW p \in Procs, Abort(p)
    PROVE  /\ readers' \in SUBSET Procs /\ writer' \in Procs \cup {NoProc}
           /\ tx' \in [Procs -> [row : Versions, tables : Versions]]
           /\ pc' \in [Procs -> Steps] /\ job' \in [Procs -> Job]
           /\ out' \in [Procs -> Outcome]
           /\ row' = row /\ tables' = tables /\ origin' = origin
<1>1. 0 \in Versions
    BY ConstantsOK DEF Versions
<1>. QED
    BY <1>1 DEF Abort, Rollback, Goto, TypeOK, Steps, Outcome, File, NoFile

(* Whatever the retrier decides after an exception keeps the types.         *)
LEMMA RaiseType ==
    ASSUME TypeOK, NEW p \in Procs, Raise(p)
    PROVE  /\ readers' \in SUBSET Procs /\ writer' \in Procs \cup {NoProc}
           /\ tx' \in [Procs -> [row : Versions, tables : Versions]]
           /\ pc' \in [Procs -> Steps] /\ job' \in [Procs -> Job]
           /\ out' \in [Procs -> Outcome]
           /\ row' = row /\ tables' = tables /\ origin' = origin
<1>1. CASE Abort(p)
    BY <1>1, AbortType
<1>2. CASE ~Abort(p)
    <2>1. job[p] \in Job
        BY DEF TypeOK
    <2>2. job[p].attempt + 1 \in 0 .. Retries
        BY <1>2, <2>1, ConstantsOK DEF Raise, Job
    <2>3. [job[p] EXCEPT !.attempt = @ + 1] \in Job
        BY <2>1, <2>2 DEF Job
    <2>4. job' \in [Procs -> Job]
        BY <1>2, <2>3 DEF Raise, TypeOK
    <2>5. pc' \in [Procs -> Steps]
        BY <1>2 DEF Raise, Goto, TypeOK, Steps
    <2>. QED
        BY <1>2, <2>4, <2>5 DEF Raise, TypeOK, database
<1>. QED
    BY <1>1, <1>2

(* The same with the rest of the state left alone.                         *)
LEMMA RaiseKeepsType ==
    ASSUME TypeOK, NEW p \in Procs, Raise(p), UNCHANGED <<current, sig, files>>,
           faults' \in 0 .. MaxFaults
    PROVE  TypeOK'
    BY RaiseType DEF TypeOK

(* An aborted run with the rest of the state left alone keeps the types.    *)
LEMMA AbortKeepsType ==
    ASSUME TypeOK, NEW p \in Procs, Abort(p), UNCHANGED <<current, sig, files>>,
           faults' \in 0 .. MaxFaults
    PROVE  TypeOK'
    BY AbortType DEF TypeOK

(* Nothing but a manifest is imported and committed, so that the tables     *)
(* always come from one.                                                    *)
OnlyManifests == \A p \in Procs : pc[p] \in {"import", "commit"} => Refreshing(p)

(* Every variable keeps its type under every step of every process and of   *)
(* the world outside; in particular the retrier never counts past Retries.  *)
LEMMA TypeStep == TypeOK /\ OnlyManifests /\ [Next]_vars => TypeOK'
<1>. SUFFICES ASSUME TypeOK, OnlyManifests, [Next]_vars PROVE TypeOK'
    OBVIOUS
<1>. USE ConstantsOK
<1>0. 0 \in Versions /\ 1 .. MaxVersion \subseteq Versions
    BY DEF Versions
<1>1. ASSUME NEW p \in Procs, Start(p) PROVE TypeOK'
    BY <1>0, <1>1 DEF Start, Goto, TypeOK, Steps, Job, Outcome, File, NoFile, Urls, server, database
<1>2. ASSUME NEW p \in Procs, Step(p) PROVE TypeOK'
    <2>0. job[p] \in Job /\ job[p].url \in Urls /\ Cached(p) \in File
        BY DEF TypeOK, Job, Cached
    <2>1. CASE Lookup(p)
        BY <1>0, <2>0, <2>1 DEF Lookup, Goto, TypeOK, Steps, Job, server
    <2>2. CASE NotModified(p)
        BY <2>2, RaiseType DEF NotModified, Goto, TypeOK, Steps, server, database
    <2>3. CASE Modified(p)
        BY <1>0, <2>0, <2>3 DEF Modified, Goto, TypeOK, Steps, Job, server, database
    <2>4. CASE Open(p)
        BY <1>0, <2>0, <2>4 DEF Open, Goto, TypeOK, Steps, Job, File, Truncated, server, database
    <2>5. CASE Copy(p)
        BY <1>0, <2>0, <2>5 DEF Copy, Goto, TypeOK, Steps, Job, File, Whole, server, database
    <2>6. CASE CheckSize(p)
        BY <2>6, RaiseType DEF CheckSize, Goto, TypeOK, Steps, server, database
    <2>7. CASE Record(p)
        <3>1. UNCHANGED <<current, sig, files>> /\ faults' \in 0 .. MaxFaults
            BY <2>7 DEF Record, TypeOK, server
        <3>2. CASE RecordInTransaction(p)
            <4>1. job[p].got \in Versions
                BY <2>0 DEF Job, File
            <4>2. [tx[p] EXCEPT !.row = job[p].got] \in [row : Versions, tables : Versions]
                BY ZenonT(30), <4>1 DEF TypeOK
            <4>3. tx' \in [Procs -> [row : Versions, tables : Versions]]
                BY <3>2, <4>2 DEF RecordInTransaction, TypeOK
            <4>. QED
                BY <3>1, <3>2, <4>3 DEF RecordInTransaction, Goto, TypeOK, Steps
        <3>3. CASE RecordAtOnce(p)
            BY <2>0, <3>1, <3>3 DEF RecordAtOnce, Goto, TypeOK, Steps, Job, File, Urls
        <3>4. CASE Raise(p)
            BY <3>1, <3>4, RaiseKeepsType
        <3>. QED
            BY <2>7, <3>2, <3>3, <3>4 DEF Record, RecordBusy
    <2>8. CASE Import(p)
        <3>1. UNCHANGED <<current, sig, files>> /\ faults' \in 0 .. MaxFaults
            BY <2>8 DEF Import, TypeOK, server
        <3>2. CASE ImportFile(p)
            <4>1. Cached(p).ver \in Versions
                BY <2>0 DEF Job, File
            <4>2. [tx[p] EXCEPT !.tables = Cached(p).ver] \in [row : Versions, tables : Versions]
                BY ZenonT(30), <4>1 DEF TypeOK
            <4>3. tx' \in [Procs -> [row : Versions, tables : Versions]]
                BY <3>2, <4>2 DEF ImportFile, TypeOK
            <4>. QED
                BY <3>1, <3>2, <4>3 DEF ImportFile, Goto, TypeOK, Steps
        <3>3. CASE Raise(p)
            BY <3>1, <3>3, RaiseKeepsType
        <3>. QED
            BY <2>8, <3>2, <3>3 DEF Import
    <2>9. CASE Commit(p)
        <3>1. UNCHANGED <<current, sig, files>> /\ faults' \in 0 .. MaxFaults
            BY <2>9 DEF Commit, TypeOK, server
        <3>2. CASE CommitTables(p)
            <4>1. tx[p].row \in Versions /\ tx[p].tables \in Versions
                BY DEF TypeOK
            <4>2. row' \in [Urls -> Versions] /\ tables' \in Versions
                BY <3>2, <4>1 DEF CommitTables, TypeOK
            <4>3. job[p].url \in Manifests
                BY <2>9 DEF Commit, OnlyManifests, Refreshing
            <4>. QED
                BY <1>0, <3>1, <3>2, <4>2, <4>3 DEF CommitTables, Goto, TypeOK, Steps
        <3>3. CASE CommitNothing(p)
            BY <3>1, <3>3 DEF CommitNothing, Goto, TypeOK, Steps, Job, File, Urls
        <3>4. CASE Raise(p)
            BY <3>1, <3>4, RaiseKeepsType
        <3>. QED
            BY <2>9, <3>2, <3>3, <3>4 DEF Commit
    <2>10. CASE Resolve(p)
        <3>1. job[p].goal \in Archives /\ (job[p].goal \in Released => Listed(job[p].goal) \in Versions)
            BY <1>0, <2>0 DEF Listed, TypeOK, Job, Versions
        <3>2. CASE Abort(p)
            BY <2>10, <3>2, AbortType DEF Resolve, TypeOK, server
        <3>3. CASE ~Abort(p)
            <4>1. /\ [job[p] EXCEPT !.url = job[p].goal] \in Job
                  /\ job[p].goal \in Released =>
                       [job[p] EXCEPT !.url = job[p].goal, !.want = Listed(job[p].goal)] \in Job
                BY <2>0, <3>1 DEF Job, Urls
            <4>2. job' \in [Procs -> Job]
                BY <2>10, <3>3, <4>1 DEF Resolve, TypeOK
            <4>. QED
                BY <2>10, <3>3, <4>2 DEF Resolve, Goto, TypeOK, Steps, server, database
        <3>. QED
            BY <3>2, <3>3
    <2>11. CASE Check(p)
        BY <2>11, RaiseType DEF Check, Goto, TypeOK, Steps, server, database
    <2>12. CASE Expand(p)
        <3>1. CASE Raise(p)
            <4>1. UNCHANGED <<current, sig, files>> /\ faults' \in 0 .. MaxFaults
                BY <2>12, <3>1 DEF Expand, TypeOK, server
            <4>. QED
                BY <3>1, <4>1, RaiseKeepsType
        <3>2. CASE /\ out' = [out EXCEPT ![p] = [status |-> "ok", file |-> Cached(p)]]
                   /\ Goto(p, "idle")
                   /\ UNCHANGED <<database, job>>
            BY <2>0, <2>12, <3>2 DEF Expand, Goto, TypeOK, Steps, Outcome, server, database
        <3>. QED
            BY <2>12, <3>1, <3>2 DEF Expand
    <2>. QED
        BY <1>2, <2>1, <2>2, <2>3, <2>4, <2>5, <2>6, <2>7, <2>8, <2>9, <2>10, <2>11, <2>12 DEF Step
<1>3. ASSUME NEW p \in Procs, Disturbance(p) PROVE TypeOK'
    <2>1. CASE RequestFails(p)
        BY <2>1, RaiseType DEF RequestFails, Fault, TypeOK, server
    <2>2. CASE CopyShort(p)
        BY <2>2 DEF CopyShort, Fault, Goto, TypeOK, Steps, server, database
    <2>3. CASE ImportExits(p)
        BY <2>3, AbortType DEF ImportExits, Fault, TypeOK, server
    <2>4. CASE GpgUnusable(p)
        <3>1. CASE Abort(p)
            <4>1. UNCHANGED <<current, sig, files>> /\ faults' \in 0 .. MaxFaults
                BY <2>4, <3>1 DEF GpgUnusable, Fault, TypeOK, server
            <4>. QED
                BY <3>1, <4>1, AbortKeepsType
        <3>2. CASE Goto(p, "expand") /\ UNCHANGED <<database, job, out>>
            BY <2>4, <3>2 DEF GpgUnusable, Fault, Goto, TypeOK, Steps, server, database
        <3>. QED
            BY <2>4, <3>1, <3>2 DEF GpgUnusable
    <2>5. CASE Crash(p)
        BY <2>5, AbortType DEF Crash, Fault, TypeOK, server
    <2>. QED
        BY <1>3, <2>1, <2>2, <2>3, <2>4, <2>5 DEF Disturbance
<1>4. ASSUME NEW u \in Urls, Publish(u) PROVE TypeOK'
    BY <1>4 DEF Publish, TypeOK, database
<1>5. ASSUME NEW u \in Urls, Evict(u) PROVE TypeOK'
    BY <1>0, <1>5 DEF Evict, Fault, TypeOK, File, NoFile, server, database
<1>6. ASSUME NEW a \in Latest, PublishSig(a) PROVE TypeOK'
    BY <1>0, <1>6 DEF PublishSig, TypeOK, Latest, Urls, database
<1>7. CASE UNCHANGED vars
    BY <1>7 DEF vars, TypeOK
<1>. QED
    BY <1>1, <1>2, <1>3, <1>4, <1>5, <1>6, <1>7 DEF Next

(* The empty cache is well typed.                                          *)
LEMMA TypeInit == Init => TypeOK
    BY ConstantsOK DEF Init, TypeOK, Versions, Steps, Job, Outcome, File, NoFile, Urls

-----------------------------------------------------------------------------
(* A step that leaves the cache alone and ends outside download_file, with  *)
(* no write pending, needs no more than that.                               *)
LEMMA QuietStep ==
    ASSUME TypeOK, CacheInv, NEW p \in Procs,
           UNCHANGED <<current, row, files, tables, origin>>,
           pc'[p] \in {"idle", "lookup", "resolve", "check", "expand"}, writer' # p
    PROVE  CacheInv' /\ StepInv(p)'
    BY DEF CacheInv, StepInv

(* An exception releases the write lock: only a refresh ever holds it.     *)
LEMMA RaiseInv ==
    ASSUME IInv, NEW p \in Procs, Raise(p), UNCHANGED <<current, files>>
    PROVE  CacheInv' /\ StepInv(p)'
<1>1. TypeOK /\ CacheInv /\ StepInv(p)
    BY DEF IInv
<1>2. UNCHANGED <<row, tables, origin>>
    BY DEF Raise, Abort, Rollback, database
<1>3. pc'[p] \in {"idle", "lookup"}
    BY <1>1 DEF Raise, Abort, Goto, TypeOK
<1>4. writer' # p
    <2>1. CASE Abort(p)
        BY <2>1, ConstantsOK DEF Abort, Rollback
    <2>2. CASE ~Refreshing(p) /\ UNCHANGED database
        BY <1>1, <2>2 DEF StepInv, Refreshing, database
    <2>. QED
        BY <2>1, <2>2 DEF Raise
<1>. QED
    BY <1>1, <1>2, <1>3, <1>4, QuietStep

(* Giving up in the middle of anything keeps the cache coherent.           *)
LEMMA AbortInv ==
    ASSUME IInv, NEW p \in Procs, Abort(p), UNCHANGED <<current, files>>
    PROVE  CacheInv' /\ StepInv(p)'
<1>1. TypeOK /\ CacheInv
    BY DEF IInv
<1>2. UNCHANGED <<row, tables, origin>> /\ writer' # p /\ pc'[p] = "idle"
    BY <1>1, ConstantsOK DEF Abort, Rollback, Goto, TypeOK
<1>. QED
    BY <1>1, <1>2, QuietStep

(* A process's own step keeps the cache coherent and what it knows true.   *)
LEMMA OwnStep ==
    ASSUME IInv, NEW p \in Procs, OneProcess, Step(p) \/ Start(p) \/ Disturbance(p)
    PROVE  CacheInv' /\ StepInv(p)'
<1>. USE ConstantsOK
<1>0. /\ TypeOK /\ CacheInv /\ StepInv(p)
      /\ job[p] \in Job /\ job[p].url \in Urls
    BY DEF IInv, TypeOK, Job
<1>1. CASE Start(p)
    <2>1. writer' # p /\ pc'[p] = "lookup" /\ UNCHANGED <<current, row, files, tables, origin>>
        BY <1>0, <1>1 DEF Start, Goto, StepInv, TypeOK, server, database
    <2>. QED
        BY <1>0, <2>1, QuietStep
<1>2. CASE Lookup(p)
    <2>1. UNCHANGED <<current, row, files, tables, origin, writer, tx>> /\ pc'[p] = "request"
        BY <1>0, <1>2 DEF Lookup, Goto, TypeOK, server
    <2>2. writer # p
        BY <1>0, <1>2 DEF Lookup, StepInv
    <2>3. /\ job'[p].url = job[p].url
          /\ job'[p].sent = IF Cached(p) = NoFile THEN 0 ELSE row[job[p].url]
        BY <1>0, <1>2 DEF Lookup, TypeOK
    <2>4. row[job[p].url] # 0 => job'[p].sent = row[job[p].url]
        BY <1>0, <2>3 DEF CacheInv, Cached
    <2>. QED
        BY <1>0, <2>1, <2>2, <2>3, <2>4 DEF StepInv, CacheInv
<1>3. CASE NotModified(p)
    <2>1. UNCHANGED <<current, files>>
        BY <1>3 DEF NotModified, server
    <2>2. CASE Raise(p)
        BY <2>1, <2>2, RaiseInv
    <2>3. CASE /\ Goto(p, IF Refreshing(p) THEN "commit" ELSE "check")
               /\ UNCHANGED <<database, job, out>>
        BY <1>0, <1>3, <2>1, <2>3 DEF NotModified, Goto, TypeOK, StepInv, CacheInv, Refreshing, database
    <2>. QED
        BY <1>3, <2>2, <2>3 DEF NotModified
<1>4. CASE Modified(p)
    <2>1. UNCHANGED <<current, row, files, tables, origin, writer, tx>> /\ pc'[p] = "open"
        BY <1>0, <1>4 DEF Modified, Goto, TypeOK, server, database
    <2>2. job'[p].url = job[p].url /\ job'[p].got = current[job[p].url]
        BY <1>0, <1>4 DEF Modified, TypeOK
    <2>3. row[job[p].url] # 0 => row[job[p].url] < current[job[p].url]
        BY <1>0, <1>4 DEF Modified, Unchanged, StepInv, CacheInv, TypeOK, Versions
    <2>4. current[job[p].url] \in 1 .. current[job[p].url]
        BY <1>0 DEF TypeOK
    <2>5. writer # p
        BY <1>0, <1>4 DEF Modified, StepInv
    <2>. QED
        BY <1>0, <2>1, <2>2, <2>3, <2>4, <2>5 DEF StepInv, CacheInv
<1>5. CASE Open(p)
    <2>1. /\ UNCHANGED <<current, row, tables, origin, writer, tx, job>> /\ pc'[p] = "copy"
          /\ files' = [files EXCEPT ![job[p].url] = Truncated(job[p].got)]
        BY <1>0, <1>5 DEF Open, Goto, TypeOK, server, database
    <2>2. /\ job[p].got \in 1 .. current[job[p].url] /\ writer # p
          /\ row[job[p].url] # 0 => row[job[p].url] < job[p].got
        BY <1>0, <1>5 DEF Open, StepInv
    <2>3. Truncated(job[p].got) # NoFile
        BY <2>2 DEF Truncated, NoFile
    <2>4. CacheInv'
        BY <1>0, <2>1, <2>2, <2>3 DEF CacheInv, TypeOK, Versions
    <2>5. files'[job[p].url] = Truncated(job[p].got)
        BY <1>0, <2>1 DEF TypeOK
    <2>. QED
        BY <1>0, <2>1, <2>2, <2>4, <2>5 DEF StepInv
<1>6. CASE Copy(p)
    <2>1. /\ UNCHANGED <<current, row, tables, origin, writer, tx, job>> /\ pc'[p] = "size"
          /\ files' = [files EXCEPT ![job[p].url] = Whole(job[p].got)]
        BY <1>0, <1>6 DEF Copy, Goto, TypeOK, server, database
    <2>2. /\ job[p].got \in 1 .. current[job[p].url] /\ writer # p
          /\ row[job[p].url] # 0 => row[job[p].url] < job[p].got
        BY <1>0, <1>6 DEF Copy, StepInv
    <2>3. Whole(job[p].got) # NoFile
        BY <2>2 DEF Whole, NoFile
    <2>4. CacheInv'
        BY <1>0, <2>1, <2>2, <2>3 DEF CacheInv, TypeOK, Versions
    <2>5. files'[job[p].url] = Whole(job[p].got)
        BY <1>0, <2>1 DEF TypeOK
    <2>. QED
        BY <1>0, <2>1, <2>2, <2>4, <2>5 DEF StepInv
<1>7. CASE CopyShort(p)
    BY <1>0, <1>7 DEF CopyShort, Goto, TypeOK, StepInv, CacheInv, server, database
<1>8. CASE CheckSize(p)
    <2>1. UNCHANGED <<current, files>>
        BY <1>8 DEF CheckSize, server
    <2>2. CASE Raise(p)
        BY <2>1, <2>2, RaiseInv
    <2>3. CASE /\ Cached(p).whole
               /\ Goto(p, "record") /\ UNCHANGED <<database, job, out>>
        <3>1. files[job[p].url] = Whole(job[p].got)
            <4>1. files[job[p].url] \in {Truncated(job[p].got), Whole(job[p].got)}
                BY <1>0, <1>8 DEF CheckSize, StepInv
            <4>2. files[job[p].url].whole
                BY <2>3 DEF Cached
            <4>3. Truncated(job[p].got).whole = FALSE
                BY DEF Truncated
            <4>4. files[job[p].url] # Truncated(job[p].got)
                BY <4>2, <4>3
            <4>. QED
                BY <4>1, <4>4
        <3>2. /\ UNCHANGED <<current, files, row, tables, origin, writer, tx, job>>
              /\ pc'[p] = "record"
            <4>1. Goto(p, "record") /\ UNCHANGED <<database, job>>
                BY <2>3
            <4>. QED
                BY <1>0, <2>1, <4>1 DEF Goto, TypeOK, database
        <3>3. CacheInv'
            BY <1>0, <3>2 DEF CacheInv
        <3>. QED
            BY <1>0, <1>8, <3>1, <3>2, <3>3 DEF StepInv, CheckSize
    <2>. QED
        BY <1>8, <2>2, <2>3 DEF CheckSize
<1>9. CASE Record(p)
    <2>1. UNCHANGED <<current, files>>
        BY <1>9 DEF Record, server
    <2>2. /\ job[p].got \in 1 .. current[job[p].url]
          /\ files[job[p].url] = Whole(job[p].got)
          /\ row[job[p].url] # 0 => row[job[p].url] < job[p].got
        BY <1>0, <1>9 DEF Record, StepInv
    <2>3. CASE RecordInTransaction(p)
        <3>1. /\ UNCHANGED <<row, tables, origin, job>> /\ pc'[p] = "import" /\ writer' = p
              /\ job[p].url \in Manifests
              /\ tx'[p].row = job[p].got
            BY <1>0, <2>3 DEF RecordInTransaction, Refreshing, Goto, TypeOK
        <3>2. tx'[p].row \in 1 .. current'[job[p].url] /\ files'[job[p].url] = Whole(tx'[p].row)
            BY <2>1, <2>2, <3>1
        <3>3. CacheInv'
            BY <1>0, <2>1, <3>1 DEF CacheInv
        <3>4. job'[p].url \in Manifests
            BY <3>1
        <3>. QED
            BY <3>1, <3>2, <3>3, <3>4 DEF StepInv
    <2>4. CASE RecordAtOnce(p)
        <3>1. /\ UNCHANGED <<tables, origin, writer, job>> /\ pc'[p] = "check" /\ writer # p
              /\ job[p].url \notin Manifests
              /\ row' = [row EXCEPT ![job[p].url] = job[p].got]
            BY <1>0, <2>4 DEF RecordAtOnce, Refreshing, Goto, TypeOK
        <3>2. Whole(job[p].got) # NoFile
            BY <2>2 DEF Whole, NoFile
        <3>3. Manifests \subseteq Urls
            BY DEF Urls
        <3>4. CacheInv'
            BY <1>0, <2>1, <2>2, <3>1, <3>2, <3>3 DEF CacheInv, TypeOK, Versions
        <3>. QED
            BY <1>0, <3>1, <3>4 DEF StepInv
    <2>5. CASE Raise(p)
        BY <2>1, <2>5, RaiseInv
    <2>. QED
        BY <1>9, <2>3, <2>4, <2>5 DEF Record, RecordBusy
<1>10. CASE Import(p)
    <2>1. UNCHANGED <<current, files>>
        BY <1>10 DEF Import, server
    <2>2. CASE Raise(p)
        BY <2>1, <2>2, RaiseInv
    <2>3. CASE ImportFile(p)
        <3>1. /\ UNCHANGED <<row, tables, origin, writer, job>> /\ pc'[p] = "commit"
              /\ tx'[p].row = tx[p].row /\ tx'[p].tables = Cached(p).ver
            BY <1>0, <2>3 DEF ImportFile, Goto, TypeOK
        <3>2. /\ writer = p /\ job[p].url \in Manifests
              /\ tx[p].row \in 1 .. current[job[p].url]
              /\ files[job[p].url] = Whole(tx[p].row)
            BY <1>0, <1>10 DEF Import, StepInv
        <3>3. Cached(p).ver = tx[p].row
            BY <3>2 DEF Cached, Whole
        <3>. QED
            BY <1>0, <2>1, <3>1, <3>2, <3>3 DEF StepInv, CacheInv
    <2>. QED
        BY <1>10, <2>2, <2>3 DEF Import
<1>11. CASE Commit(p)
    <2>1. UNCHANGED <<current, files>>
        BY <1>11 DEF Commit, server
    <2>2. CASE Raise(p)
        BY <2>1, <2>2, RaiseInv
    <2>3. CASE CommitNothing(p)
        <3>1. UNCHANGED <<row, tables, origin>> /\ pc'[p] = "resolve" /\ writer' # p
            BY <1>0, <2>3 DEF CommitNothing, Goto, TypeOK
        <3>. QED
            BY <1>0, <2>1, <3>1, QuietStep
    <2>4. CASE CommitTables(p)
        <3>1. /\ row' = [row EXCEPT ![job[p].url] = tx[p].row]
              /\ tables' = tx[p].tables /\ origin' = job[p].url /\ pc'[p] = "resolve" /\ writer' # p
            BY <1>0, <2>4 DEF CommitTables, Goto, TypeOK
        <3>2. /\ tx[p].row \in 1 .. current[job[p].url]
              /\ files[job[p].url] = Whole(tx[p].row)
              /\ tx[p].tables = tx[p].row /\ job[p].url \in Manifests
            BY <1>0, <1>11, <2>4 DEF Commit, CommitTables, StepInv
        <3>3. Whole(tx[p].row) # NoFile
            BY <3>2 DEF Whole, NoFile
        <3>4. Manifests \subseteq Urls
            BY DEF Urls
        <3>5. CacheInv'
            BY <1>0, <2>1, <3>1, <3>2, <3>3, <3>4 DEF CacheInv, TypeOK, Versions
        <3>. QED
            BY <3>1, <3>5 DEF StepInv
    <2>. QED
        BY <1>11, <2>2, <2>3, <2>4 DEF Commit
<1>12. CASE Resolve(p)
    <2>1. UNCHANGED <<current, files>>
        BY <1>12 DEF Resolve, server
    <2>2. CASE Abort(p)
        BY <2>1, <2>2, AbortInv
    <2>3. CASE Goto(p, "lookup") /\ UNCHANGED database
        <3>1. UNCHANGED <<row, tables, origin>> /\ pc'[p] = "lookup" /\ writer' # p
            BY <1>0, <1>12, <2>3 DEF Resolve, Goto, TypeOK, StepInv, database
        <3>. QED
            BY <1>0, <2>1, <3>1, QuietStep
    <2>. QED
        BY <1>12, <2>2, <2>3 DEF Resolve
<1>13. CASE Check(p)
    <2>1. UNCHANGED <<current, files>>
        BY <1>13 DEF Check, server
    <2>2. CASE Raise(p)
        BY <2>1, <2>2, RaiseInv
    <2>3. CASE Goto(p, "expand") /\ UNCHANGED <<database, job, out>>
        <3>1. UNCHANGED <<row, tables, origin>> /\ pc'[p] = "expand" /\ writer' # p
            BY <1>0, <1>13, <2>3 DEF Check, Goto, TypeOK, StepInv, database
        <3>. QED
            BY <1>0, <2>1, <3>1, QuietStep
    <2>. QED
        BY <1>13, <2>2, <2>3 DEF Check
<1>14. CASE Expand(p)
    <2>1. UNCHANGED <<current, files>>
        BY <1>14 DEF Expand, server
    <2>2. CASE Raise(p)
        BY <2>1, <2>2, RaiseInv
    <2>3. CASE Goto(p, "idle") /\ UNCHANGED <<database, job>>
        <3>1. UNCHANGED <<row, tables, origin>> /\ pc'[p] = "idle" /\ writer' # p
            BY <1>0, <1>14, <2>3 DEF Expand, Goto, TypeOK, StepInv, database
        <3>. QED
            BY <1>0, <2>1, <3>1, QuietStep
    <2>. QED
        BY <1>14, <2>2, <2>3 DEF Expand
<1>15. CASE RequestFails(p)
    BY <1>15, RaiseInv DEF RequestFails, server
<1>16. CASE ImportExits(p) \/ Crash(p)
    BY <1>16, AbortInv DEF ImportExits, Crash, server
<1>17. CASE GpgUnusable(p)
    <2>1. UNCHANGED <<current, files>>
        BY <1>17 DEF GpgUnusable, server
    <2>2. CASE Abort(p)
        BY <2>1, <2>2, AbortInv
    <2>3. CASE Goto(p, "expand") /\ UNCHANGED <<database, job, out>>
        <3>1. UNCHANGED <<row, tables, origin>> /\ pc'[p] = "expand" /\ writer' # p
            BY <1>0, <1>17, <2>3 DEF GpgUnusable, Goto, TypeOK, StepInv, database
        <3>. QED
            BY <1>0, <2>1, <3>1, QuietStep
    <2>. QED
        BY <1>17, <2>2, <2>3 DEF GpgUnusable
<1>. QED
    BY <1>1, <1>2, <1>3, <1>4, <1>5, <1>6, <1>7, <1>8, <1>9, <1>10, <1>11, <1>12, <1>13,
       <1>14, <1>15, <1>16, <1>17 DEF Step, Disturbance

(* The server may publish at any moment: a version a row or a request knows *)
(* can only become older than the server's.                                 *)
LEMMA PublishInv ==
    ASSUME IInv, NEW v \in Urls, Publish(v)
    PROVE  CacheInv' /\ \A p \in Procs : StepInv(p)'
<1>0. TypeOK /\ CacheInv
    BY DEF IInv
<1>1. /\ UNCHANGED <<row, files, tables, origin, writer, tx, pc, job>>
      /\ \A u \in Urls : current'[u] \in {current[u], current[u] + 1}
    BY <1>0 DEF Publish, TypeOK, database
<1>2. CacheInv'
    BY <1>0, <1>1 DEF CacheInv, TypeOK, Versions
<1>3. ASSUME NEW p \in Procs PROVE StepInv(p)'
    <2>1. StepInv(p) /\ job[p].url \in Urls /\ Manifests \subseteq Urls
        BY DEF IInv, TypeOK, Job, Urls
    <2>2. \A u \in Urls : 1 .. current[u] \subseteq 1 .. current'[u]
        BY <1>0, <1>1 DEF TypeOK
    <2>. QED
        BY <1>0, <1>1, <2>1, <2>2 DEF StepInv
<1>. QED
    BY <1>2, <1>3

(* Every step of the process and of the servers keeps the invariant.       *)
LEMMA IInvStep ==
    ASSUME OneProcess, ~Evictable, IInv, [Next]_vars
    PROVE  IInv'
<1>00. OnlyManifests
    BY DEF IInv, StepInv, OnlyManifests, Refreshing
<1>0. TypeOK'
    BY <1>00, TypeStep DEF IInv
<1>1. ASSUME NEW p \in Procs, Start(p) \/ Step(p) \/ Disturbance(p)
      PROVE  CacheInv' /\ \A q \in Procs : StepInv(q)'
    <2>1. CacheInv' /\ StepInv(p)'
        BY <1>1, OwnStep
    <2>2. \A q \in Procs : q = p
        BY DEF OneProcess
    <2>. QED
        BY <2>1, <2>2
<1>2. ASSUME NEW u \in Urls, Publish(u) PROVE CacheInv' /\ \A q \in Procs : StepInv(q)'
    BY <1>2, PublishInv
<1>3. ASSUME NEW u \in Urls PROVE ~Evict(u)
    BY DEF Evict
<1>4. CASE (\E a \in Latest : PublishSig(a)) \/ UNCHANGED vars
    <2>1. UNCHANGED <<current, row, files, tables, origin, writer, tx, pc, job>>
        BY <1>4 DEF PublishSig, vars, database
    <2>. QED
        BY <1>0, <2>1 DEF IInv, CacheInv, StepInv
<1>. QED
    BY <1>0, <1>1, <1>2, <1>3, <1>4 DEF Next, IInv

(* The empty cache satisfies the invariant.                                *)
LEMMA IInvInit == Init => IInv
<1>. SUFFICES ASSUME Init PROVE IInv
    OBVIOUS
<1>1. TypeOK
    BY TypeInit
<1>2. CacheInv
    BY DEF Init, CacheInv, Urls
<1>3. \A p \in Procs : StepInv(p)
    BY ConstantsOK DEF Init, StepInv
<1>. QED
    BY <1>1, <1>2, <1>3 DEF IInv

(* One process at a time, no deleted files: whatever crashes, short bodies, *)
(* failed requests and rolled-back refreshes came before, a validator the   *)
(* server would still confirm belongs to a complete file of that version.   *)
THEOREM Coherent == ASSUME OneProcess, ~Evictable PROVE Spec => []CacheCoherent
<1>1. IInv /\ [Next]_vars => IInv'
    BY IInvStep
<1>2. IInv => CacheCoherent
    BY DEF IInv, CacheInv, CacheCoherent, TypeOK, Versions
<1>. QED
    BY <1>1, <1>2, IInvInit, PTL DEF Spec

(* Under the same hypotheses the tables always hold the recorded version of *)
(* the manifest they were imported from, whichever of the manifests that    *)
(* MONGODB_DOWNLOAD_SOURCE may name it is and however the runs alternate.   *)
THEOREM Imported == ASSUME OneProcess, ~Evictable PROVE Spec => []ImportedIsRecorded
<1>1. IInv /\ [Next]_vars => IInv'
    BY IInvStep
<1>2. IInv => ImportedIsRecorded
    BY DEF IInv, CacheInv, ImportedIsRecorded
<1>. QED
    BY <1>1, <1>2, IInvInit, PTL DEF Spec

-----------------------------------------------------------------------------
(* A refresh is inside the read lock of its transaction from its lookup on, *)
(* and the row it read stays the committed one; only a refresh ever writes. *)
Locked(p) ==
    /\ pc[p] \in {"request", "open", "copy", "size", "record", "import", "commit"}
       /\ Refreshing(p) => p \in readers /\ job[p].sent \in {0, row[job[p].url]}
    /\ pc[p] \in {"import", "commit"} => Refreshing(p)
    /\ writer = p => pc[p] \in {"import", "commit"}
LockInv == \A p \in Procs : Locked(p)

(* What the other processes see of a step of p: their own step, locals,     *)
(* read lock and write lock are as they were, and the manifest's row is too *)
(* for whoever is inside the read lock (COMMIT needs every reader gone).    *)
LEMMA Bystander ==
    ASSUME TypeOK, NEW p \in Procs, Start(p) \/ Step(p) \/ Disturbance(p),
           NEW q \in Procs, q # p
    PROVE  /\ pc'[q] = pc[q] /\ job'[q] = job[q]
           /\ (q \in readers') <=> (q \in readers)
           /\ writer' = q => writer = q
           /\ q \in readers => row' = row
<1>0. /\ DOMAIN pc = Procs /\ DOMAIN job = Procs /\ Manifests \subseteq DOMAIN row
      /\ NoProc # q
    BY ConstantsOK DEF TypeOK, Urls
<1>a. pc = [x \in Procs |-> pc[x]] /\ job = [x \in Procs |-> job[x]] /\ row = [x \in Urls |-> row[x]]
    BY DEF TypeOK
<1>1. ASSUME Abort(p) \/ Raise(p) PROVE
           /\ pc'[q] = pc[q] /\ job'[q] = job[q] /\ row' = row
           /\ (q \in readers') <=> (q \in readers)
           /\ writer' = q => writer = q
    BY <1>0, <1>a, <1>1 DEF Raise, Abort, Rollback, Goto, database
<1>2. CASE Start(p)
    BY <1>0, <1>a, <1>2 DEF Start, Goto, database
<1>3. CASE Lookup(p)
    BY <1>0, <1>a, <1>3 DEF Lookup, Goto
<1>4. CASE Modified(p) \/ Open(p) \/ Copy(p) \/ CopyShort(p)
    BY <1>0, <1>a, <1>4 DEF Modified, Open, Copy, CopyShort, Goto, database
<1>5. CASE NotModified(p) \/ CheckSize(p) \/ Check(p) \/ Expand(p) \/ GpgUnusable(p)
    <2>1. \/ Abort(p) \/ Raise(p)
          \/ (\E s \in Steps : Goto(p, s)) /\ UNCHANGED <<database, job>>
        BY <1>5 DEF NotModified, CheckSize, Check, Expand, GpgUnusable, Steps
    <2>. QED
        BY <1>0, <1>a, <1>1, <2>1 DEF Goto, database
<1>6. CASE Record(p)
    <2>1. CASE RecordInTransaction(p)
        BY <1>0, <1>a, <2>1 DEF RecordInTransaction, Goto
    <2>2. CASE RecordAtOnce(p)
        BY <1>0, <1>a, <2>2 DEF RecordAtOnce, Refreshing, Goto
    <2>. QED
        BY <1>1, <1>6, <2>1, <2>2 DEF Record, RecordBusy
<1>7. CASE Import(p)
    <2>1. CASE ImportFile(p)
        BY <1>0, <1>a, <2>1 DEF ImportFile, Goto
    <2>. QED
        BY <1>1, <1>7, <2>1 DEF Import
<1>8. CASE Commit(p)
    <2>1. CASE CommitTables(p)
        BY <1>0, <1>a, <2>1 DEF CommitTables, Goto
    <2>2. CASE CommitNothing(p)
        BY <1>0, <1>a, <2>2 DEF CommitNothing, Goto
    <2>. QED
        BY <1>1, <1>8, <2>1, <2>2 DEF Commit
<1>9. CASE Resolve(p)
    <2>1. \/ Abort(p)
          \/ /\ Goto(p, "lookup") /\ UNCHANGED database
             /\ \E j : job' = [job EXCEPT ![p] = j]
        BY <1>9 DEF Resolve
    <2>. QED
        BY <1>0, <1>a, <1>1, <2>1 DEF Goto, database
<1>10. CASE RequestFails(p) \/ ImportExits(p) \/ Crash(p)
    BY <1>1, <1>10 DEF RequestFails, ImportExits, Crash
<1>. QED
    BY <1>2, <1>3, <1>4, <1>5, <1>6, <1>7, <1>8, <1>9, <1>10 DEF Step, Disturbance

(* A process keeps its own lock discipline: an exception while it refreshes *)
(* ends the run and drops the transaction, and nothing but the refresh      *)
(* starts one.                                                              *)
LEMMA OwnLock ==
    ASSUME TypeOK, NEW p \in Procs, Locked(p), Start(p) \/ Step(p) \/ Disturbance(p)
    PROVE  Locked(p)'
<1>0. /\ DOMAIN pc = Procs /\ DOMAIN job = Procs /\ Manifests \subseteq DOMAIN row
      /\ NoProc # p /\ job[p] \in Job
    BY ConstantsOK DEF TypeOK, Urls
<1>a. pc = [x \in Procs |-> pc[x]] /\ job = [x \in Procs |-> job[x]] /\ row = [x \in Urls |-> row[x]]
    BY DEF TypeOK
<1>1. ASSUME Abort(p) PROVE Locked(p)'
    BY <1>0, <1>a, <1>1 DEF Abort, Rollback, Goto, Locked
<1>2. ASSUME Raise(p) PROVE Locked(p)'
    <2>1. CASE ~Abort(p)
        BY <1>0, <1>a, <1>2, <2>1 DEF Raise, Goto, database, Locked, Refreshing
    <2>. QED
        BY <1>1, <2>1
<1>3. CASE Start(p)
    BY <1>0, <1>a, <1>3 DEF Start, Goto, database, Locked, Refreshing
<1>4. CASE Lookup(p)
    BY <1>0, <1>a, <1>4 DEF Lookup, Goto, Locked, Refreshing, Job
<1>5. CASE NotModified(p)
    BY <1>0, <1>a, <1>2, <1>5 DEF NotModified, Goto, database, Locked, Refreshing
<1>6. CASE Modified(p) \/ Open(p) \/ Copy(p) \/ CopyShort(p)
    BY <1>0, <1>a, <1>6 DEF Modified, Open, Copy, CopyShort, Goto, database, Locked, Refreshing, Job
<1>7. CASE CheckSize(p) \/ Check(p) \/ Expand(p) \/ GpgUnusable(p)
    BY <1>0, <1>a, <1>1, <1>2, <1>7 DEF CheckSize, Check, Expand, GpgUnusable, Goto, database, Locked, Refreshing
<1>8. CASE Record(p)
    <2>1. CASE RecordInTransaction(p)
        BY <1>0, <1>a, <1>8, <2>1 DEF Record, RecordInTransaction, Goto, Locked, Refreshing
    <2>2. CASE RecordAtOnce(p)
        BY <1>0, <1>a, <2>2 DEF RecordAtOnce, Refreshing, Goto, Locked
    <2>. QED
        BY <1>2, <1>8, <2>1, <2>2 DEF Record, RecordBusy
<1>9. CASE Import(p)
    <2>1. CASE ImportFile(p)
        BY <1>0, <1>a, <1>9, <2>1 DEF Import, ImportFile, Goto, Locked, Refreshing
    <2>. QED
        BY <1>2, <1>9, <2>1 DEF Import
<1>10. CASE Commit(p)
    <2>1. CASE CommitTables(p) \/ CommitNothing(p)
        BY <1>0, <1>a, <2>1 DEF CommitTables, CommitNothing, Goto, Locked
    <2>. QED
        BY <1>2, <1>10, <2>1 DEF Commit
<1>11. CASE Resolve(p)
    <2>1. Abort(p) \/ (Goto(p, "lookup") /\ UNCHANGED database)
        BY <1>11 DEF Resolve
    <2>. QED
        BY <1>0, <1>a, <1>1, <1>11, <2>1 DEF Resolve, Goto, database, Locked
<1>12. CASE RequestFails(p) \/ ImportExits(p) \/ Crash(p)
    BY <1>1, <1>2, <1>12 DEF RequestFails, ImportExits, Crash
<1>. QED
    BY <1>3, <1>4, <1>5, <1>6, <1>7, <1>8, <1>9, <1>10, <1>11, <1>12 DEF Step, Disturbance

(* Every step of every process, and of the world outside, keeps the locks.  *)
LEMMA LockStep == TypeOK /\ LockInv /\ [Next]_vars => LockInv'
<1>. SUFFICES ASSUME TypeOK, LockInv, [Next]_vars, NEW q \in Procs PROVE Locked(q)'
    BY DEF LockInv
<1>0. Locked(q)
    BY DEF LockInv
<1>1. ASSUME NEW p \in Procs, Start(p) \/ Step(p) \/ Disturbance(p) PROVE Locked(q)'
    <2>1. CASE p = q
        BY <1>0, <1>1, <2>1, OwnLock
    <2>2. CASE p # q
        <3>1. /\ pc'[q] = pc[q] /\ job'[q] = job[q]
              /\ (q \in readers') <=> (q \in readers)
              /\ writer' = q => writer = q
              /\ q \in readers => row' = row
            BY <1>1, <2>2, Bystander
        <3>. QED
            BY <1>0, <3>1 DEF Locked, Refreshing
    <2>. QED
        BY <2>1, <2>2
<1>2. CASE \/ \E u \in Urls : Publish(u) \/ Evict(u)
           \/ \E a \in Latest : PublishSig(a)
           \/ UNCHANGED vars
    <2>1. UNCHANGED <<pc, job, row, readers, writer>>
        BY <1>2 DEF Publish, Evict, PublishSig, vars, database
    <2>. QED
        BY <1>0, <2>1 DEF Locked, Refreshing
<1>. QED
    BY <1>1, <1>2 DEF Next

(* Types and locks are kept together: the tables' manifest is well typed    *)
(* because only a refresh commits any.                                      *)
LEMMA TypesAndLocks == Spec => [](TypeOK /\ LockInv)
<1>1. Init => TypeOK /\ LockInv
    BY TypeInit, ConstantsOK DEF Init, LockInv, Locked
<1>2. LockInv => OnlyManifests
    BY DEF LockInv, Locked, OnlyManifests
<1>. QED
    BY <1>1, <1>2, TypeStep, LockStep, PTL DEF Spec

(* In every behaviour the state stays within TypeOK, whatever the number of *)
(* processes, urls, versions, retries and faults.                           *)
THEOREM TypeCorrect == Spec => []TypeOK
    BY TypesAndLocks, PTL

(* Any number of processes, faults and deleted files: a refresh replaces    *)
(* the row it read, never one that another process committed since.         *)
THEOREM Serialised == Spec => []NoLostRefresh
<1>1. TypeOK /\ LockInv => NoLostRefresh
    BY DEF LockInv, Locked, NoLostRefresh, TypeOK
<1>. QED
    BY <1>1, TypesAndLocks, PTL

-----------------------------------------------------------------------------
(* What a run knows of the file it asked for: what it is about to write, or *)
(* what it uses, is no older than the server's version when the call began, *)
(* and what it extracts is what the manifest listed.                       *)
Asked(p) ==
    LET j == job[p]
        f == files[job[p].url]
    IN  /\ j.url \in Manifests \cup {j.goal}
        /\ pc[p] \in {"check", "expand"} => j.url = j.goal
        /\ pc[p] = "request" => j.sent \in {0, row[j.url]}
        /\ Status(p) # "away" => j.floor <= current[j.url]
        /\ pc[p] \in {"open", "copy", "size", "record"} => j.floor <= j.got
        /\ Status(p) = "using" => f.whole /\ j.floor <= f.ver /\ f.ver <= current[j.url]
        /\ pc[p] = "expand" /\ j.goal \in Released => f.ver = j.want
        /\ out[p].status = "ok" =>
             /\ pc[p] = "idle" /\ out[p].file.whole
             /\ IF j.goal \in Released THEN out[p].file.ver = j.want
                ELSE out[p].file.ver >= j.floor
AskedInv == \A p \in Procs : Asked(p)

(* An exception ends the run or goes back to the lookup: nothing that was   *)
(* asked or answered counts any more.                                       *)
LEMMA RaiseAsked ==
    ASSUME TypeOK, NEW p \in Procs, Asked(p), pc[p] # "idle", Abort(p) \/ Raise(p)
    PROVE  Asked(p)'
<1>0. /\ pc = [x \in Procs |-> pc[x]] /\ job = [x \in Procs |-> job[x]]
      /\ out = [x \in Procs |-> out[x]] /\ job[p] \in Job
    BY DEF TypeOK
<1>1. CASE Abort(p)
    BY <1>0, <1>1 DEF Abort, Goto, Asked, Status
<1>2. CASE ~Abort(p)
    <2>1. /\ pc'[p] = "lookup" /\ out' = out
          /\ job'[p].url = job[p].url /\ job'[p].goal = job[p].goal
        BY <1>0, <1>2 DEF Raise, Goto, Job
    <2>. QED
        BY <2>1 DEF Asked, Status
<1>. QED
    BY <1>1, <1>2

(* The steps of the one process that uses the cache.  The interesting case  *)
(* is a 304: only the validators of the row can have been sent, the server  *)
(* still has that version, and then the file is that version, whole.        *)
LEMMA OwnAsked ==
    ASSUME IInv, NEW p \in Procs, Asked(p), Start(p) \/ Step(p) \/ Disturbance(p)
    PROVE  Asked(p)'
<1>t. TypeOK /\ CacheInv /\ StepInv(p)
    BY DEF IInv
<1>0. /\ pc = [x \in Procs |-> pc[x]] /\ job = [x \in Procs |-> job[x]]
      /\ out = [x \in Procs |-> out[x]] /\ job[p] \in Job
      /\ files = [x \in Urls |-> files[x]] /\ job[p].url \in Urls
      /\ job[p].goal \in Archives /\ job[p].goal \notin Manifests
    BY <1>t, ConstantsOK DEF TypeOK, Job
<1>n. current[job[p].url] \in Nat /\ job[p].floor \in Nat /\ job[p].got \in Nat
      /\ row[job[p].url] \in Nat
    BY <1>t, <1>0 DEF TypeOK, Job, Versions
<1>1. ASSUME pc[p] # "idle", Abort(p) \/ Raise(p) PROVE Asked(p)'
    BY <1>t, <1>1, RaiseAsked
<1>2. CASE Start(p)
    BY <1>0, <1>2 DEF Start, Goto, Asked, Status
<1>3. CASE Lookup(p)
    <2>1. /\ UNCHANGED <<current, row, files, out>> /\ pc'[p] = "request" /\ pc[p] = "lookup"
          /\ job'[p].url = job[p].url /\ job'[p].goal = job[p].goal
          /\ job'[p].sent \in {0, row[job[p].url]} /\ job'[p].floor = current[job[p].url]
        BY <1>0, <1>3 DEF Lookup, Goto, Job, server
    <2>. QED
        BY <1>n, <2>1 DEF Asked, Status
<1>4. CASE NotModified(p)
    <2>1. CASE Raise(p)
        BY <1>1, <1>4, <2>1 DEF NotModified
    <2>2. CASE ~Raise(p)
        <3>1. /\ UNCHANGED <<current, files, job, out>> /\ pc[p] = "request"
              /\ pc'[p] = IF Refreshing(p) THEN "commit" ELSE "check"
              /\ files[job[p].url] # NoFile
              /\ job[p].sent # 0 /\ job[p].sent = current[job[p].url]
            BY <1>0, <1>4, <2>2 DEF NotModified, Goto, Unchanged, Cached, server
        <3>2. row[job[p].url] # 0 /\ row[job[p].url] = current[job[p].url]
            BY <3>1 DEF Asked
        <3>3. files[job[p].url] = Whole(row[job[p].url])
            BY <1>t, <1>0, <1>n, <3>2 DEF CacheInv
        <3>4. /\ files[job[p].url].whole /\ files[job[p].url].ver = current[job[p].url]
            BY <3>2, <3>3 DEF Whole
        <3>5. job[p].floor <= current[job[p].url] /\ out[p].status # "ok"
            BY <3>1 DEF Asked, Status
        <3>6. /\ files'[job'[p].url].whole /\ files'[job'[p].url].ver = current'[job'[p].url]
              /\ job'[p].floor <= current'[job'[p].url] /\ current'[job'[p].url] \in Nat
              /\ out'[p].status # "ok" /\ job'[p].url \in Manifests \cup {job'[p].goal}
              /\ pc'[p] \in {"commit", "check"}
              /\ pc'[p] = "check" => job'[p].url = job'[p].goal
            BY <1>0, <1>n, <3>1, <3>4, <3>5 DEF Asked, Refreshing
        <3>. QED
            BY <3>6 DEF Asked, Status
    <2>. QED
        BY <2>1, <2>2
<1>5. CASE Modified(p)
    <2>1. /\ UNCHANGED <<current, out>> /\ pc'[p] = "open" /\ pc[p] = "request"
          /\ job'[p].url = job[p].url /\ job'[p].goal = job[p].goal
          /\ job'[p].got = current[job[p].url] /\ job'[p].floor = job[p].floor
        BY <1>0, <1>5 DEF Modified, Goto, Job, server
    <2>. QED
        BY <1>n, <2>1 DEF Asked, Status
<1>6. CASE Open(p) \/ Copy(p) \/ CopyShort(p)
    <2>1. /\ UNCHANGED <<current, out, job>> /\ pc'[p] \in {"copy", "size"} /\ pc[p] \in {"open", "copy"}
        BY <1>0, <1>6 DEF Open, Copy, CopyShort, Goto, server
    <2>. QED
        BY <2>1 DEF Asked, Status
<1>7. CASE CheckSize(p)
    <2>1. CASE ~Raise(p)
        <3>1. /\ UNCHANGED <<current, out, job>> /\ pc'[p] = "record" /\ pc[p] = "size"
            BY <1>0, <1>7, <2>1 DEF CheckSize, Goto, server
        <3>. QED
            BY <3>1 DEF Asked, Status
    <2>. QED
        BY <1>1, <1>7, <2>1 DEF CheckSize
<1>8. CASE Record(p)
    <2>1. CASE Raise(p)
        BY <1>1, <1>8, <2>1 DEF Record
    <2>2. CASE ~Raise(p)
        <3>1. /\ UNCHANGED <<current, files, job, out>> /\ pc[p] = "record"
              /\ pc'[p] = IF Refreshing(p) THEN "import" ELSE "check"
            BY <1>0, <1>8, <2>2 DEF Record, RecordBusy, RecordInTransaction, RecordAtOnce, Goto, server
        <3>2. /\ files[job[p].url] = Whole(job[p].got)
              /\ job[p].got <= current[job[p].url]
            BY <1>t, <1>n, <3>1 DEF StepInv
        <3>3. job[p].floor <= job[p].got /\ out[p].status # "ok"
            BY <3>1 DEF Asked
        <3>4. /\ files'[job'[p].url].whole /\ files'[job'[p].url].ver = job'[p].got
              /\ job'[p].got <= current'[job'[p].url]
              /\ job'[p].floor <= current'[job'[p].url] /\ job'[p].floor <= job'[p].got
              /\ out'[p].status # "ok" /\ job'[p].url \in Manifests \cup {job'[p].goal}
              /\ pc'[p] \in {"import", "check"}
              /\ pc'[p] = "check" => job'[p].url = job'[p].goal
            BY <1>0, <1>n, <3>1, <3>2, <3>3 DEF Asked, Refreshing, Whole
        <3>. QED
            BY <3>4 DEF Asked, Status
    <2>. QED
        BY <2>1, <2>2
<1>9. CASE Import(p)
    <2>1. CASE ImportFile(p)
        <3>1. /\ UNCHANGED <<current, files, out, job>> /\ pc'[p] = "commit" /\ pc[p] = "import"
            BY <1>0, <1>9, <2>1 DEF Import, ImportFile, Goto, server
        <3>. QED
            BY <3>1 DEF Asked, Status
    <2>. QED
        BY <1>1, <1>9, <2>1 DEF Import
<1>10. CASE Commit(p)
    <2>1. CASE CommitTables(p) \/ CommitNothing(p)
        <3>1. /\ UNCHANGED <<current, files, out, job>> /\ pc'[p] = "resolve" /\ pc[p] = "commit"
            BY <1>0, <1>10, <2>1 DEF Commit, CommitTables, CommitNothing, Goto, server
        <3>. QED
            BY <3>1 DEF Asked, Status
    <2>. QED
        BY <1>1, <1>10, <2>1 DEF Commit
<1>11. CASE Resolve(p)
    <2>1. CASE ~Abort(p)
        <3>1. /\ UNCHANGED <<current, files, out>> /\ pc'[p] = "lookup" /\ pc[p] = "resolve"
              /\ job'[p].url = job'[p].goal
            BY <1>0, <1>11, <2>1 DEF Resolve, Goto, server, Job
        <3>. QED
            BY <3>1 DEF Asked, Status
    <2>. QED
        BY <1>1, <1>11, <2>1 DEF Resolve
<1>12. CASE Check(p) \/ GpgUnusable(p)
    <2>1. CASE ~Raise(p) /\ ~Abort(p)
        <3>1. /\ UNCHANGED <<current, files, out, job>> /\ pc'[p] = "expand" /\ pc[p] = "check"
            BY <1>0, <1>12, <2>1 DEF Check, GpgUnusable, Goto, server
        <3>2. job[p].goal \in Released => files[job[p].url] = Whole(job[p].want)
            BY <1>12, <2>1 DEF Check, GpgUnusable, Genuine, Cached, Latest
        <3>3. job[p].goal \in Released => files[job[p].url].ver = job[p].want
            BY <3>2 DEF Whole
        <3>. QED
            BY <3>1, <3>3 DEF Asked, Status
    <2>. QED
        BY <1>1, <1>12, <2>1 DEF Check, GpgUnusable
<1>13. CASE Expand(p)
    <2>1. CASE ~Raise(p)
        <3>1. /\ UNCHANGED <<job>> /\ pc'[p] = "idle" /\ pc[p] = "expand"
              /\ out'[p].file = files[job[p].url]
            BY <1>0, <1>13, <2>1 DEF Expand, Goto, Cached
        <3>2. /\ files[job[p].url].whole /\ job[p].floor <= files[job[p].url].ver
              /\ job[p].goal \in Released => files[job[p].url].ver = job[p].want
              /\ job[p].url \in Manifests \cup {job[p].goal}
            BY <3>1 DEF Asked, Status
        <3>3. files[job[p].url].ver \in Nat
            BY <1>t, <1>0 DEF TypeOK, File, Versions
        <3>. QED
            BY <1>n, <3>1, <3>2, <3>3 DEF Asked, Status
    <2>. QED
        BY <1>1, <1>13, <2>1 DEF Expand
<1>14. CASE RequestFails(p) \/ ImportExits(p) \/ Crash(p)
    BY <1>1, <1>14 DEF RequestFails, ImportExits, Crash
<1>. QED
    BY <1>2, <1>3, <1>4, <1>5, <1>6, <1>7, <1>8, <1>9, <1>10, <1>11, <1>12, <1>13, <1>14
       DEF Step, Disturbance

(* Every step, the server's included, keeps what the runs know.             *)
LEMMA AskedStep ==
    ASSUME OneProcess, ~Evictable, IInv, AskedInv, [Next]_vars
    PROVE  AskedInv'
<1>. SUFFICES ASSUME NEW q \in Procs PROVE Asked(q)'
    BY DEF AskedInv
<1>0. Asked(q) /\ TypeOK
    BY DEF AskedInv, IInv
<1>1. ASSUME NEW p \in Procs, Start(p) \/ Step(p) \/ Disturbance(p) PROVE Asked(q)'
    <2>1. p = q
        BY DEF OneProcess
    <2>. QED
        BY <1>0, <1>1, <2>1, OwnAsked
<1>2. ASSUME NEW u \in Urls, Publish(u) PROVE Asked(q)'
    <2>1. /\ UNCHANGED <<row, files, pc, job, out>>
          /\ job[q].url \in Urls /\ job[q].floor \in Nat /\ files[job[q].url].ver \in Nat
          /\ current[job[q].url] \in Nat /\ current'[job[q].url] \in Nat
          /\ current[job[q].url] <= current'[job[q].url]
        BY <1>0, <1>2 DEF Publish, TypeOK, database, Job, File, Versions
    <2>. QED
        BY <1>0, <2>1 DEF Asked, Status
<1>3. CASE (\E u \in Urls : Evict(u)) \/ (\E a \in Latest : PublishSig(a)) \/ UNCHANGED vars
    <2>1. UNCHANGED <<current, row, files, pc, job, out>>
        BY <1>3 DEF Evict, PublishSig, vars, database
    <2>. QED
        BY <1>0, <2>1 DEF Asked, Status
<1>. QED
    BY <1>1, <1>2, <1>3 DEF Next

(* The empty cache: nothing was asked yet.                                  *)
LEMMA AskedInit == Init => AskedInv
<1>. SUFFICES ASSUME Init, NEW p \in Procs PROVE Asked(p)
    BY DEF AskedInv
<1>1. /\ pc[p] = "idle" /\ job[p].url \in Manifests /\ out[p].status = "none"
    BY DEF Init
<1>. QED
    BY <1>1 DEF Asked, Status

(* One process at a time, no deleted files: a run that reports success      *)
(* extracted a whole archive, the version the manifest listed, or a latest  *)
(* build no older than the server's when its last download began.           *)
THEOREM AsAsked == ASSUME OneProcess, ~Evictable PROVE Spec => []ExtractedAsAsked
<1>1. Init => IInv /\ AskedInv
    BY IInvInit, AskedInit
<1>2. IInv /\ AskedInv /\ [Next]_vars => IInv' /\ AskedInv'
    BY IInvStep, AskedStep
<1>3. AskedInv => ExtractedAsAsked
    BY DEF AskedInv, Asked, ExtractedAsAsked
<1>. QED
    BY <1>1, <1>2, <1>3, PTL DEF Spec

-----------------------------------------------------------------------------
(* The refinement. What a step of the process looks like to the callers of  *)
(* download_file, and that each of these is a step of CachedDownload.       *)
Move(p) ==
    LET asked == job[p].url IN
    /\ UNCHANGED current
    /\ \/ Status(p) = "away" /\ Status(p)' = "away"
       \/ /\ Status(p) = "away" /\ Status(p)' = "calling"
          /\ job'[p].url = asked /\ job'[p].floor = current[asked]
       \/ /\ Status(p) = "calling" /\ Status(p)' = "using"
          /\ job'[p].url = asked /\ job'[p].floor = job[p].floor
          /\ Answer(p)' \in job[p].floor .. current[asked]
       \/ Status(p) # "away" /\ Status(p)' = "away" /\ job'[p].url = asked
       \/ /\ Status(p)' = Status(p) /\ Answer(p)' = Answer(p)
          /\ job'[p].url = asked /\ job'[p].floor = job[p].floor

(* Functions over the processes are told apart by their one value.         *)
LEMMA OneValue ==
    ASSUME OneProcess, NEW p \in Procs, NEW f, NEW g,
           f = [q \in Procs |-> f[q]], g = [q \in Procs |-> g[q]]
    PROVE  /\ f[p] = g[p] => f = g
           /\ f = [g EXCEPT ![p] = f[p]]
<1>1. \A q \in Procs : q = p
    BY DEF OneProcess
<1>. QED
    BY <1>1

(* Every such move is a step of CachedDownload or none.                    *)
LEMMA MoveIsPromised ==
    ASSUME OneProcess, TypeOK, TypeOK', NEW p \in Procs, Move(p)
    PROVE  [Promise!AbsNext]_Promise!absVars
<1>. DEFINE st == [q \in Procs |-> Status(q)]
            as == [q \in Procs |-> job[q].url]
            fl == [q \in Procs |-> IF Status(q) = "away" THEN 0 ELSE job[q].floor]
            an == [q \in Procs |-> Answer(q)]
<1>1. /\ st[p] = Status(p) /\ as[p] = job[p].url /\ an[p] = Answer(p)
      /\ fl[p] = IF Status(p) = "away" THEN 0 ELSE job[p].floor
      /\ st'[p] = Status(p)' /\ as'[p] = job'[p].url /\ an'[p] = Answer(p)'
      /\ fl'[p] = IF Status(p)' = "away" THEN 0 ELSE job'[p].floor
    OBVIOUS
<1>2. /\ st = [q \in Procs |-> st[q]] /\ st' = [q \in Procs |-> st'[q]]
      /\ as = [q \in Procs |-> as[q]] /\ as' = [q \in Procs |-> as'[q]]
      /\ fl = [q \in Procs |-> fl[q]] /\ fl' = [q \in Procs |-> fl'[q]]
      /\ an = [q \in Procs |-> an[q]] /\ an' = [q \in Procs |-> an'[q]]
    OBVIOUS
<1>3. job[p].url \in Urls /\ job'[p].url \in Urls
    BY DEF TypeOK, Job
<1>4. (Status(p) # "using" => Answer(p) = 0) /\ (Status(p)' # "using" => Answer(p)' = 0)
    BY DEF Answer
<1>. HIDE DEF st, as, fl, an
<1>v. /\ st' = [st EXCEPT ![p] = st'[p]] /\ (st'[p] = st[p] => st' = st)
      /\ as' = [as EXCEPT ![p] = as'[p]] /\ (as'[p] = as[p] => as' = as)
      /\ fl' = [fl EXCEPT ![p] = fl'[p]] /\ (fl'[p] = fl[p] => fl' = fl)
      /\ an' = [an EXCEPT ![p] = an'[p]] /\ (an'[p] = an[p] => an' = an)
    BY <1>2, OneValue
<1>5. CASE Status(p) = "away" /\ Status(p)' = "away"
    <2>1. st[p] = "away" /\ st' = st /\ fl' = fl /\ an' = an /\ current' = current
        BY <1>1, <1>v, <1>4, <1>5 DEF Move
    <2>2. as' = [as EXCEPT ![p] = as'[p]] /\ as'[p] \in Urls
        BY <1>1, <1>v, <1>3
    <2>3. Promise!Choose(p)
        BY <2>1, <2>2 DEF Promise!Choose, st, as, fl, an
    <2>. QED
        BY <2>3 DEF Promise!AbsNext
<1>6. CASE /\ Status(p) = "away" /\ Status(p)' = "calling"
           /\ job'[p].url = job[p].url /\ job'[p].floor = current[job[p].url]
    <2>1. /\ st[p] = "away" /\ st' = [st EXCEPT ![p] = "calling"]
          /\ fl' = [fl EXCEPT ![p] = current[as[p]]]
          /\ as' = as /\ an' = an /\ current' = current
        BY <1>1, <1>v, <1>4, <1>6 DEF Move
    <2>2. Promise!Call(p)
        BY <2>1 DEF Promise!Call, st, as, fl, an
    <2>. QED
        BY <2>2 DEF Promise!AbsNext
<1>7. CASE /\ Status(p) = "calling" /\ Status(p)' = "using"
           /\ job'[p].url = job[p].url /\ job'[p].floor = job[p].floor
           /\ Answer(p)' \in job[p].floor .. current[job[p].url]
    <2>1. /\ st[p] = "calling" /\ st' = [st EXCEPT ![p] = "using"]
          /\ fl' = fl /\ as' = as /\ current' = current
          /\ an' = [an EXCEPT ![p] = an'[p]] /\ an'[p] \in fl[p] .. current[as[p]]
        BY <1>1, <1>v, <1>7 DEF Move
    <2>2. Promise!Return(p)
        BY <2>1 DEF Promise!Return, st, as, fl, an
    <2>. QED
        BY <2>2 DEF Promise!AbsNext
<1>8. CASE Status(p) # "away" /\ Status(p)' = "away" /\ job'[p].url = job[p].url
    <2>1. /\ st[p] # "away" /\ st' = [st EXCEPT ![p] = "away"]
          /\ fl' = [fl EXCEPT ![p] = 0] /\ an' = [an EXCEPT ![p] = 0]
          /\ as' = as /\ current' = current
        BY <1>1, <1>v, <1>4, <1>8 DEF Move
    <2>2. Promise!Leave(p)
        BY <2>1 DEF Promise!Leave, st, as, fl, an
    <2>. QED
        BY <2>2 DEF Promise!AbsNext
<1>9. CASE /\ Status(p)' = Status(p) /\ Answer(p)' = Answer(p)
           /\ job'[p].url = job[p].url /\ job'[p].floor = job[p].floor
    <2>1. st' = st /\ as' = as /\ fl' = fl /\ an' = an /\ current' = current
        BY <1>1, <1>v, <1>9 DEF Move
    <2>. QED
        BY <2>1 DEF Promise!absVars, st, as, fl, an
<1>. QED
    BY <1>5, <1>6, <1>7, <1>8, <1>9 DEF Move

(* An exception is a call that failed, or a caller that is done.           *)
LEMMA RaiseMoves ==
    ASSUME TypeOK, NEW p \in Procs, Abort(p) \/ Raise(p), UNCHANGED current
    PROVE  Move(p)
<1>1. /\ pc'[p] \in {"idle", "lookup"} /\ job'[p].url = job[p].url
    BY DEF Abort, Raise, Goto, TypeOK, Job
<1>. QED
    BY <1>1 DEF Move, Status

(* Every step of the process is a move: a call begins at the lookup and     *)
(* returns with the 304 or with the recorded row; the caller is done when   *)
(* the refresh commits or the archive is expanded.                          *)
LEMMA OwnMove ==
    ASSUME IInv, NEW p \in Procs, Asked(p), Asked(p)', Start(p) \/ Step(p) \/ Disturbance(p)
    PROVE  Move(p)
<1>t. TypeOK
    BY DEF IInv
<1>0. /\ pc = [x \in Procs |-> pc[x]] /\ job = [x \in Procs |-> job[x]]
      /\ job[p] \in Job /\ job[p].url \in Urls
    BY <1>t DEF TypeOK, Job
<1>1. ASSUME Abort(p) \/ Raise(p), UNCHANGED current PROVE Move(p)
    BY <1>t, <1>1, RaiseMoves
<1>2. CASE Start(p)
    <2>1. UNCHANGED current /\ pc[p] = "idle" /\ pc'[p] = "lookup"
        BY <1>0, <1>2 DEF Start, Goto, server
    <2>. QED
        BY <2>1 DEF Move, Status
<1>3. CASE Lookup(p)
    <2>1. /\ UNCHANGED current /\ pc[p] = "lookup" /\ pc'[p] = "request"
          /\ job'[p].url = job[p].url /\ job'[p].floor = current[job[p].url]
        BY <1>0, <1>3 DEF Lookup, Goto, Job, server
    <2>. QED
        BY <2>1 DEF Move, Status
<1>4. CASE NotModified(p) \/ Record(p)
    <2>0. UNCHANGED <<current, files>> /\ pc[p] \in {"request", "record"}
        BY <1>4 DEF NotModified, Record, server
    <2>1. CASE Raise(p)
        BY <1>1, <2>0, <2>1
    <2>2. CASE ~Raise(p)
        <3>1. UNCHANGED job /\ pc'[p] \in {"commit", "check", "import"}
            BY <1>0, <1>4, <2>2
               DEF NotModified, Record, RecordBusy, RecordInTransaction, RecordAtOnce, Goto
        <3>2. Status(p) = "calling" /\ Status(p)' = "using"
            BY <2>0, <3>1 DEF Status
        <3>3. /\ files'[job'[p].url].whole /\ job'[p].floor <= files'[job'[p].url].ver
              /\ files'[job'[p].url].ver <= current'[job'[p].url]
            BY <3>2 DEF Asked
        <3>4. Answer(p)' = files'[job'[p].url].ver
            BY <3>2, <3>3 DEF Answer, Cached
        <3>5. /\ files[job[p].url].ver \in Nat /\ job[p].floor \in Nat
              /\ current[job[p].url] \in Nat
            BY <1>t, <1>0 DEF TypeOK, File, Versions, Job
        <3>6. Answer(p)' \in job[p].floor .. current[job[p].url]
            BY <2>0, <3>1, <3>3, <3>4, <3>5
        <3>. QED
            BY <2>0, <3>1, <3>2, <3>6 DEF Move
    <2>. QED
        BY <2>1, <2>2
<1>5. CASE Modified(p) \/ Open(p) \/ Copy(p) \/ CopyShort(p)
    <2>1. /\ UNCHANGED current
          /\ pc[p] \in {"request", "open", "copy"} /\ pc'[p] \in {"open", "copy", "size"}
          /\ job'[p].url = job[p].url /\ job'[p].floor = job[p].floor
        BY <1>0, <1>5 DEF Modified, Open, Copy, CopyShort, Goto, Job, server
    <2>. QED
        BY <2>1 DEF Move, Status, Answer
<1>6. CASE CheckSize(p)
    <2>0. UNCHANGED current
        BY <1>6 DEF CheckSize, server
    <2>1. CASE ~Raise(p)
        <3>1. UNCHANGED job /\ pc[p] = "size" /\ pc'[p] = "record"
            BY <1>0, <1>6, <2>1 DEF CheckSize, Goto
        <3>. QED
            BY <2>0, <3>1 DEF Move, Status, Answer
    <2>. QED
        BY <1>1, <2>0, <2>1
<1>7. CASE Import(p) \/ Check(p) \/ GpgUnusable(p)
    <2>0. UNCHANGED <<current, files>>
        BY <1>7 DEF Import, Check, GpgUnusable, server
    <2>1. CASE ~Raise(p) /\ ~Abort(p)
        <3>1. /\ UNCHANGED job
              /\ pc[p] \in {"import", "check"} /\ pc'[p] \in {"commit", "expand"}
            BY <1>0, <1>7, <2>1 DEF Import, ImportFile, Check, GpgUnusable, Goto
        <3>. QED
            BY <2>0, <3>1 DEF Move, Status, Answer, Cached
    <2>. QED
        BY <1>1, <2>0, <2>1
<1>8. CASE Commit(p) \/ Expand(p)
    <2>0. UNCHANGED current
        BY <1>8 DEF Commit, Expand, server
    <2>1. CASE ~Raise(p)
        <3>1. /\ UNCHANGED job
              /\ pc[p] \in {"commit", "expand"} /\ pc'[p] \in {"resolve", "idle"}
            BY <1>0, <1>8, <2>1 DEF Commit, CommitTables, CommitNothing, Expand, Goto
        <3>. QED
            BY <2>0, <3>1 DEF Move, Status
    <2>. QED
        BY <1>1, <2>0, <2>1
<1>9. CASE Resolve(p)
    <2>0. UNCHANGED current
        BY <1>9 DEF Resolve, server
    <2>1. CASE ~Abort(p)
        <3>1. pc[p] = "resolve" /\ pc'[p] = "lookup"
            BY <1>0, <1>9, <2>1 DEF Resolve, Goto
        <3>. QED
            BY <2>0, <3>1 DEF Move, Status
    <2>. QED
        BY <1>1, <2>0, <2>1
<1>10. CASE RequestFails(p) \/ ImportExits(p) \/ Crash(p)
    BY <1>1, <1>10 DEF RequestFails, ImportExits, Crash, server
<1>. QED
    BY <1>2, <1>3, <1>4, <1>5, <1>6, <1>7, <1>8, <1>9, <1>10 DEF Step, Disturbance

(* The cache, as its callers see it, implements CachedDownload when one     *)
(* process uses it at a time and nobody deletes its files: each answer is a *)
(* whole version no older than the server's when the call began, and the    *)
(* file stays as it is while it is used.                                    *)
THEOREM Refinement == ASSUME OneProcess, ~Evictable PROVE Spec => KeepsPromise
<1>1. Init => IInv /\ AskedInv
    BY IInvInit, AskedInit
<1>2. IInv /\ AskedInv /\ [Next]_vars => IInv' /\ AskedInv'
    BY IInvStep, AskedStep
<1>3. Init => Promise!AbsInit
    <2>. SUFFICES ASSUME Init PROVE Promise!AbsInit
        OBVIOUS
    <2>1. \A q \in Procs : Status(q) = "away" /\ Answer(q) = 0 /\ job[q].url \in Urls
        BY DEF Init, Status, Answer, Urls
    <2>2. current = [u \in Urls |-> 1]
        BY DEF Init
    <2>. QED
        BY <2>1, <2>2 DEF Promise!AbsInit
<1>4. IInv /\ AskedInv /\ IInv' /\ AskedInv' /\ [Next]_vars => [Promise!AbsNext]_Promise!absVars
    <2>. SUFFICES ASSUME IInv, AskedInv, IInv', AskedInv', [Next]_vars
                  PROVE  [Promise!AbsNext]_Promise!absVars
        OBVIOUS
    <2>0. TypeOK /\ TypeOK'
        BY DEF IInv
    <2>1. ASSUME NEW p \in Procs, Start(p) \/ Step(p) \/ Disturbance(p)
          PROVE  [Promise!AbsNext]_Promise!absVars
        <3>1. Asked(p) /\ Asked(p)'
            BY DEF AskedInv
        <3>2. Move(p)
            BY <2>1, <3>1, OwnMove
        <3>. QED
            BY <2>0, <3>2, MoveIsPromised
    <2>2. ASSUME NEW u \in Urls, Publish(u) PROVE [Promise!AbsNext]_Promise!absVars
        <3>1. UNCHANGED <<files, pc, job>>
            BY <2>2 DEF Publish
        <3>2. Promise!Release(u)
            BY <2>2, <3>1 DEF Publish, Promise!Release, Status, Answer, Cached
        <3>. QED
            BY <3>2 DEF Promise!AbsNext
    <2>3. ASSUME NEW u \in Urls PROVE ~Evict(u)
        BY DEF Evict
    <2>4. CASE (\E a \in Latest : PublishSig(a)) \/ UNCHANGED vars
        <3>1. UNCHANGED <<current, files, pc, job>>
            BY <2>4 DEF PublishSig, vars
        <3>. QED
            BY <3>1 DEF Promise!absVars, Status, Answer, Cached
    <2>. QED
        BY <2>1, <2>2, <2>3, <2>4 DEF Next
<1>. QED
    BY <1>1, <1>2, <1>3, <1>4, PTL DEF Spec, KeepsPromise, Promise!AbsSpec
=============================================================================
