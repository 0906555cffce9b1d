----------------------- MODULE ServerArtifactsProofs ------------------------
(***************************************************************************)
(* What ServerArtifacts promises, for any number of retries, any life of a   *)
(* presigned url, and any number of versions.                               *)
(***************************************************************************)
EXTENDS ServerArtifacts, TLAPS

Url == [kind : {"none", "private", "legacy"}, via : {"none", "ambient", "role"}, left : 0 .. Life]
Stages == {"ambient", "vault", "role", "chain"}
Places == Stages \cup {"download", "verify", "fetch", "gpg", "expand", "ok", "failed"}

Typed ==
    /\ TypeOK
    /\ url \in Url /\ sigUrl \in Url
    /\ pc \in Places
    /\ identity \in {"none", "broken", "ok"}
    /\ host \in [skip : BOOLEAN, gpg : {"none", "ok", "agentless"}, amazon : BOOLEAN]
    /\ lost \in BOOLEAN /\ hidden \in BOOLEAN /\ overlooked \in BOOLEAN
    /\ agentFails \in Nat

(* An identity that cannot be used has no permissions.                      *)
Nobody == identity # "ok" => rights = {}

(* A stage is left only without its access, or by a probe that was misled.  *)
StagesPassed ==
    ~lost /\ ~hidden =>
        /\ pc \in {"vault", "role", "chain"} => "archive" \notin rights
        /\ pc = "chain" => ~({"role", "bucket"} \subseteq rights)

(* Which urls there are, and when.                                          *)
UrlMade ==
    /\ url.kind = "none" => pc \in Stages \cup {"failed"} /\ purpose = "archive"
    /\ url.kind = "private" => url.via # "none"
    /\ url.via = "ambient" => identity = "ok"
    /\ pc \in Stages /\ purpose = "signature" => url.kind = "private"

(* Who has read the archive can read what is beside it.                     *)
Readable(u) == lost \/ Reads(u.via)
Reached ==
    /\ url.kind = "private" /\ (pc = "verify" \/ (pc \in Stages /\ purpose = "signature"))
         => Readable(url) /\ build > 0
    /\ pc \in Stages \ {"ambient"} /\ purpose = "signature" => lost \/ url.via = "role"
    /\ pc = "fetch" => \/ sigUrl.kind = "legacy"
                       \/ sigUrl.kind = "private" /\ sigUrl.left > 0 /\ Readable(sigUrl)

(* The verdict stands from when it is reached.                              *)
Verdict ==
    pc \in {"expand", "ok"} =>
        /\ why = "verified" => fetched.by = "pinned" /\ fetched.ver = got
        /\ why = "unpublished" => ~overlooked \/ lost
        /\ why = "amazon2023" => host.amazon /\ host.gpg = "agentless"

MetOnce == ~host.amazon => agentFails = 0 \/ (agentFails = 1 /\ pc = "failed")

IInv ==
    /\ Typed
    /\ Nobody /\ StagesPassed /\ LegacyOnlyWithoutAccess
    /\ UrlMade /\ Reached
    /\ Verdict /\ MetOnce

-----------------------------------------------------------------------------
(* A download starts with nothing resolved.                                 *)
LEMMA InitInv == Init => IInv
<1> SUFFICES ASSUME Init PROVE IInv
    OBVIOUS
<1> USE BoundsOK DEF Init
<1>1. Typed
  <2>1. NoUrl \in Url /\ pc \in Places
      BY DEF NoUrl, Url, Places, Stages
  <2>2. TypeOK
      BY DEF TypeOK, NoUrl, NoSig
  <2> QED
      BY <2>1, <2>2 DEF Typed
<1>2. Nobody /\ StagesPassed /\ LegacyOnlyWithoutAccess
    BY DEF Nobody, StagesPassed, LegacyOnlyWithoutAccess, NoUrl
<1>3. UrlMade /\ Reached
    BY DEF UrlMade, Reached, NoUrl, Stages
<1>4. Verdict /\ MetOnce
    BY DEF Verdict, MetOnce
<1> QED
    BY <1>1, <1>2, <1>3, <1>4 DEF IInv

-----------------------------------------------------------------------------
(* The next attempt, or the end: no verdict in either.                      *)
LEMMA RetryType ==
    ASSUME Typed, Retry
    PROVE  pc' \in {"download", "failed"} /\ why' = "none" /\ attempt' \in 0 .. Retries
    BY BoundsOK DEF Typed, TypeOK, Retry

(* A presigned url goes where the resolution was asked from.                *)
LEMMA PresignType ==
    ASSUME Typed, NEW via \in {"ambient", "role"}, Presign(via)
    PROVE  /\ pc' \in {"download", "fetch"} /\ UNCHANGED <<attempt, why>>
           /\ url' \in Url /\ sigUrl' \in Url
    BY BoundsOK DEF Typed, TypeOK, Presign, Url

(* Without access the archive comes from the legacy host and the signature  *)
(* fails the attempt.                                                       *)
LEMMA UnavailableType ==
    ASSUME Typed, Unavailable, why = "none"
    PROVE  /\ pc' \in {"download", "failed"} /\ attempt' \in 0 .. Retries /\ why' = "none"
           /\ url' \in Url /\ sigUrl' \in Url
<1>1. CASE purpose = "archive"
    BY <1>1, BoundsOK DEF Typed, TypeOK, Unavailable, Url
<1>2. CASE purpose = "signature"
    BY <1>2, RetryType DEF Typed, Unavailable
<1> QED
    BY <1>1, <1>2 DEF Typed, TypeOK

(* The four stages leave everything else alone.                             *)
LEMMA StageType ==
    ASSUME Typed, Ambient \/ Vault \/ ArtifactsRole \/ SecretsRole
    PROVE  Typed'
<1>1. pc \in Stages /\ why = "none" /\ UNCHANGED resolving
    BY DEF Ambient, Vault, ArtifactsRole, SecretsRole, Stages, Typed, TypeOK
<1>2. /\ pc' \in Stages \cup {"download", "fetch", "failed"}
      /\ why' = "none" /\ attempt' \in 0 .. Retries
      /\ url' \in Url /\ sigUrl' \in Url
  <2> USE <1>1 DEF Typed, TypeOK, Stages
  <2>1. CASE Ambient
    <3>1. CASE Probe("ambient", "vault")
        BY <3>1, PresignType DEF Probe
    <3>2. CASE identity = "none" /\ pc' = "vault" /\ UNCHANGED <<url, sigUrl, attempt, why, hidden>>
        BY <3>2
    <3>3. CASE Escape /\ UNCHANGED <<url, sigUrl, hidden>>
        BY <3>3, RetryType DEF Escape
    <3> QED
        BY <2>1, <3>1, <3>2, <3>3 DEF Ambient
  <2>2. CASE Vault
    <3>1. CASE Unavailable
        BY <3>1, UnavailableType
    <3>2. CASE pc' = "role" /\ UNCHANGED <<url, sigUrl, attempt, why>>
        BY <3>2
    <3> QED
        BY <2>2, <3>1, <3>2 DEF Vault
  <2>3. CASE ArtifactsRole
    <3>1. CASE Probe("role", "chain")
        BY <3>1, PresignType DEF Probe
    <3>2. CASE pc' = "chain" /\ UNCHANGED <<url, sigUrl, attempt, why>>
        BY <3>2
    <3> QED
        BY <2>3, <3>1, <3>2 DEF ArtifactsRole
  <2>4. CASE SecretsRole
      BY <2>4, PresignType, UnavailableType DEF SecretsRole
  <2> QED
      BY <2>1, <2>2, <2>3, <2>4
<1>3. hidden' \in BOOLEAN
    BY DEF Ambient, Vault, ArtifactsRole, SecretsRole, Probe, Typed
<1> QED
  <2>1. /\ UNCHANGED <<identity, host, legacySig, rights, build, sig, purpose, got, fetched>>
        /\ UNCHANGED <<lost, overlooked, agentFails>>
      BY <1>1 DEF resolving, env, bucketVars
  <2>2. /\ url'.kind \in {"none", "private", "legacy"} /\ url'.left \in 0 .. Life
        /\ pc' \in Places /\ pc' \notin {"expand", "ok"}
      BY <1>2 DEF Url, Places, Stages
  <2>3. TypeOK'
      BY <1>2, <2>1, <2>2 DEF Typed, TypeOK
  <2> QED
      BY <1>2, <1>3, <2>1, <2>2, <2>3 DEF Typed

(* The steps of the retry loop keep the types.                              *)
LEMMA LoopType ==
    ASSUME Typed, Download \/ Verify \/ FetchSignature \/ RunGpg \/ Expand
    PROVE  Typed'
<1> USE DEF Typed, TypeOK, Places, Stages, env, bucketVars, history
<1>1. CASE Download
  <2>1. CASE Retry /\ UNCHANGED got
      BY <1>1, <2>1, RetryType DEF Download
  <2>2. CASE pc' = "verify" /\ got' \in 0 .. MaxVersion /\ UNCHANGED <<attempt, why>>
      BY <1>1, <2>2 DEF Download
  <2> QED
      BY <1>1, <2>1, <2>2, BoundsOK DEF Download
<1>2. CASE Verify
    BY <1>2 DEF Verify, Accept
<1>3. CASE FetchSignature
  <2>1. Beside \in Signatures \cup {NoSig}
      BY BoundsOK DEF Beside, Signatures
  <2>2. CASE Retry /\ UNCHANGED <<fetched, overlooked>>
      BY <1>3, <2>2, RetryType DEF FetchSignature
  <2>3. CASE fetched' = Beside /\ pc' = "gpg" /\ UNCHANGED <<attempt, why, overlooked>>
      BY <1>3, <2>1, <2>3 DEF FetchSignature
  <2>4. CASE Accept("unpublished") /\ overlooked' = (Beside # NoSig) /\ UNCHANGED fetched
      BY <1>3, <2>4 DEF FetchSignature, Accept
  <2> QED
      BY <1>3, <2>2, <2>3, <2>4 DEF FetchSignature
<1>4. CASE RunGpg
  <2>1. agentFails' \in Nat
      BY <1>4 DEF RunGpg
  <2>2. CASE Retry
      BY <1>4, <2>1, <2>2, RetryType DEF RunGpg
  <2>3. CASE \E reason \in {"verified", "amazon2023"} : Accept(reason)
      BY <1>4, <2>1, <2>3 DEF RunGpg, Accept
  <2>4. CASE pc' = "failed" /\ UNCHANGED <<attempt, why>>
      BY <1>4, <2>1, <2>4 DEF RunGpg
  <2> QED
      BY <1>4, <2>2, <2>3, <2>4 DEF RunGpg
<1>5. CASE Expand
  <2>1. CASE Retry
      BY <1>5, <2>1, RetryType DEF Expand
  <2>2. CASE pc' = "ok" /\ UNCHANGED <<attempt, why>>
      BY <1>5, <2>2 DEF Expand
  <2> QED
      BY <1>5, <2>1, <2>2 DEF Expand
<1> QED
    BY <1>1, <1>2, <1>3, <1>4, <1>5

(* So does whatever happens at the bucket meanwhile.                        *)
LEMMA WorldType ==
    ASSUME Typed, Publish \/ PublishSignature \/ LoseRight \/ Tick
    PROVE  Typed'
<1> USE BoundsOK DEF Typed, TypeOK, running, env, local, bucketVars, history
<1>1. CASE Publish
    BY <1>1 DEF Publish, Signatures, NoSig
<1>2. CASE PublishSignature
    BY <1>2 DEF PublishSignature
<1>3. CASE LoseRight
    BY <1>3 DEF LoseRight
<1>4. CASE Tick
    BY <1>4 DEF Tick, Url
<1> QED
    BY <1>1, <1>2, <1>3, <1>4

(* Every step keeps the types.                                              *)
LEMMA TypedStep ==
    ASSUME Typed, Next
    PROVE  Typed'
    BY StageType, LoopType, WorldType DEF Next, Step

-----------------------------------------------------------------------------
(* Permissions are only taken away.  The legacy url is made where no stage   *)
(* is left.                                                                 *)
Rights == Nobody /\ StagesPassed /\ LegacyOnlyWithoutAccess

(* Every step keeps Rights: a stage is left for lack of a permission only.  *)
LEMMA RightsStep ==
    ASSUME Typed, Rights, Next
    PROVE  Rights'
<1> USE DEF Rights, Nobody, StagesPassed, LegacyOnlyWithoutAccess
<1>1. ASSUME UNCHANGED <<identity, rights, lost, hidden>>, url'.kind = url.kind,
             pc' \notin Stages \/ pc' = pc
      PROVE  Rights'
    BY <1>1 DEF Stages
<1>2. CASE Ambient
  <2>1. UNCHANGED <<identity, rights, lost>>
      BY <1>2 DEF Ambient, resolving, env
  <2>2. CASE HasAccess("ambient") /\ Presign("ambient") /\ UNCHANGED hidden
    <3>1. /\ url'.kind \in {"private", url.kind} /\ pc' \in {"download", "fetch"}
        BY <2>2 DEF Presign
    <3> QED
        BY <2>1, <2>2, <3>1
  <2>3. CASE ~HasAccess("ambient") /\ pc' = "vault" /\ hidden' = (hidden \/ Reads("ambient"))
             /\ UNCHANGED url
    <3>1. ~hidden' => ~hidden /\ "archive" \notin rights
        BY <2>3 DEF Reads
    <3> QED
        BY <2>1, <2>3, <3>1
  <2>4. CASE identity # "ok" /\ UNCHANGED <<url, hidden>> /\ pc' \in {"vault", "failed", "download"}
    <3>1. rights = {}
        BY <2>4
    <3> QED
        BY <2>1, <2>4, <3>1
  <2> QED
      BY <1>2, <2>2, <2>3, <2>4 DEF Ambient, Probe, Escape, Retry
<1>3. CASE Vault
  <2>1. UNCHANGED <<identity, rights, lost, hidden>> /\ pc = "vault"
      BY <1>3 DEF Vault, resolving, env
  <2>2. CASE pc' = "role" /\ UNCHANGED url
      BY <2>1, <2>2
  <2>3. CASE "vault" \notin rights /\ Unavailable
      BY <2>1, <2>3 DEF Unavailable, Retry
  <2> QED
      BY <1>3, <2>2, <2>3 DEF Vault
<1>4. CASE ArtifactsRole
  <2>1. UNCHANGED <<identity, rights, lost>> /\ pc = "role"
      BY <1>4 DEF ArtifactsRole, resolving, env
  <2>2. CASE HasAccess("role") /\ Presign("role") /\ UNCHANGED hidden
    <3>1. url'.kind \in {"private", url.kind} /\ pc' \in {"download", "fetch"}
        BY <2>2 DEF Presign
    <3> QED
        BY <2>1, <2>2, <3>1
  <2>3. CASE pc' = "chain" /\ hidden' = (hidden \/ Reads("role")) /\ UNCHANGED url
    <3>1. ~hidden' => ~hidden /\ "bucket" \notin rights
        BY <2>3 DEF Reads
    <3> QED
        BY <2>1, <2>3, <3>1
  <2>4. CASE "role" \notin rights /\ pc' = "chain" /\ UNCHANGED <<url, hidden>>
      BY <2>1, <2>4
  <2> QED
      BY <1>4, <2>2, <2>3, <2>4 DEF ArtifactsRole, Probe
<1>5. CASE SecretsRole
  <2>1. UNCHANGED <<identity, rights, lost, hidden>> /\ pc = "chain"
      BY <1>5 DEF SecretsRole, resolving, env
  <2>2. CASE Presign("role")
    <3>1. url'.kind \in {"private", url.kind} /\ pc' \in {"download", "fetch"}
        BY <2>2 DEF Presign
    <3> QED
        BY <2>1, <3>1
  <2>3. CASE ~({"secrets", "chain"} \subseteq rights) /\ Unavailable
      BY <2>1, <2>3 DEF Unavailable, Retry
  <2> QED
      BY <1>5, <2>2, <2>3 DEF SecretsRole
<1>6. CASE Verify
  <2>1. UNCHANGED <<identity, rights, lost, hidden, url>> /\ pc' \in {"expand", "ambient", "fetch"}
      BY <1>6 DEF Verify, Accept, env, history
  <2> QED
      BY <2>1
<1>7. CASE Download \/ FetchSignature \/ RunGpg \/ Expand
  <2>1. UNCHANGED <<identity, rights, lost, hidden, url>> /\ pc' \notin Stages
      BY <1>7 DEF Download, FetchSignature, RunGpg, Expand, Accept, Retry, env, history, Stages
  <2> QED
      BY <1>1, <2>1
<1>8. CASE Publish \/ PublishSignature
  <2>1. UNCHANGED <<identity, rights, lost, hidden, url, pc>>
      BY <1>8 DEF Publish, PublishSignature, running, env, local
  <2> QED
      BY <1>1, <2>1
<1>9. CASE LoseRight
    BY <1>9 DEF LoseRight, running, env
<1>10. CASE Tick
  <2>1. UNCHANGED <<identity, rights, lost, hidden, pc>> /\ url'.kind = url.kind
      BY <1>10 DEF Tick, env, history, Typed, Url
  <2> QED
      BY <1>1, <2>1
<1> QED
    BY <1>2, <1>3, <1>4, <1>5, <1>6, <1>7, <1>8, <1>9, <1>10 DEF Next, Step

-----------------------------------------------------------------------------
(* A url that is made is one its identity can read, unless a permission has *)
(* been taken away: the stages that led to the archive lead to the signature *)
(* beside it.                                                               *)
Made == Typed /\ Nobody /\ UrlMade /\ Reached

(* A resolution makes a url its identity may read.                          *)
LEMMA StageUrls ==
    ASSUME Made, Ambient \/ Vault \/ ArtifactsRole \/ SecretsRole
    PROVE  UrlMade' /\ Reached'
<1> USE DEF Made, UrlMade, Reached, Readable, Stages
<1>1. /\ UNCHANGED <<identity, rights, build, purpose, lost>>
      /\ pc \in Stages /\ purpose \in {"archive", "signature"}
      /\ \A via : Reads(via)' = Reads(via)
    BY DEF Ambient, Vault, ArtifactsRole, SecretsRole, resolving, env, bucketVars, Typed, TypeOK,
       Reads
(* The url stays, and the next stage is reached for want of the ambient one. *)
<1>2. ASSUME UNCHANGED <<url, sigUrl>>, pc' \in {"vault", "role", "chain"},
             purpose = "signature" => lost \/ url.via = "role"
      PROVE  UrlMade' /\ Reached'
    BY <1>1, <1>2
<1>3. ASSUME NEW via \in {"ambient", "role"}, Presign(via),
             via = "ambient" => identity = "ok",
             purpose = "signature" => lost \/ Reads(via)
      PROVE  UrlMade' /\ Reached'
  <2>1. CASE purpose = "archive"
    <3>1. url' = [kind |-> "private", via |-> via, left |-> Life] /\ pc' = "download"
        BY <1>3, <2>1 DEF Presign
    <3> QED
        BY <1>1, <1>3, <2>1, <3>1
  <2>2. CASE purpose = "signature"
    <3>1. /\ sigUrl' = [kind |-> "private", via |-> via, left |-> Life]
          /\ pc' = "fetch" /\ url' = url
        BY <1>3, <2>2 DEF Presign
    <3> QED
        BY <1>1, <1>3, <2>2, <3>1, BoundsOK
  <2> QED
      BY <1>1, <2>1, <2>2
<1>4. ASSUME Unavailable
      PROVE  UrlMade' /\ Reached'
  <2>1. CASE purpose = "archive"
    <3>1. url' = [kind |-> "legacy", via |-> "none", left |-> Life] /\ pc' = "download"
        BY <1>4, <2>1 DEF Unavailable
    <3> QED
        BY <1>1, <2>1, <3>1
  <2>2. CASE purpose = "signature"
    <3>1. url' = url /\ pc' \in {"download", "failed"}
        BY <1>4, <2>2 DEF Unavailable, Retry
    <3> QED
        BY <1>1, <2>2, <3>1
  <2> QED
      BY <1>1, <2>1, <2>2
<1>5. CASE Ambient
  <2>1. CASE identity = "ok" /\ HasAccess("ambient") /\ Presign("ambient")
      BY <1>3, <2>1 DEF HasAccess
  <2>2. CASE identity = "ok" /\ ~HasAccess("ambient") /\ pc' = "vault" /\ UNCHANGED <<url, sigUrl>>
    <3>1. ASSUME purpose = "signature", ~lost
          PROVE  url.via = "role"
      <4>1. url.kind = "private" /\ Reads(url.via) /\ build > 0
          BY <1>1, <3>1
      <4>2. url.via # "ambient"
          BY <2>2, <4>1 DEF HasAccess
      <4> QED
          BY <4>1, <4>2 DEF Typed, Url
    <3> QED
        BY <1>2, <2>2, <3>1
  <2>3. CASE identity = "none" /\ pc' = "vault" /\ UNCHANGED <<url, sigUrl>>
    <3>1. purpose = "signature" => url.via = "role"
        BY <1>1, <2>3 DEF Typed, Url
    <3> QED
        BY <1>2, <2>3, <3>1
  <2>4. CASE Escape /\ UNCHANGED <<url, sigUrl>>
    <3>1. pc' \in {"download", "failed"} /\ (purpose = "archive" => pc' = "failed")
        BY <2>4 DEF Escape, Retry
    <3> QED
        BY <1>1, <2>4, <3>1
  <2> QED
      BY <1>5, <2>1, <2>2, <2>3, <2>4 DEF Ambient, Probe
<1>6. CASE Vault
  <2>1. pc = "vault"
      BY <1>6 DEF Vault
  <2>2. CASE pc' = "role" /\ UNCHANGED <<url, sigUrl>>
      BY <1>1, <1>2, <2>1, <2>2
  <2> QED
      BY <1>4, <1>6, <2>2 DEF Vault
<1>7. CASE ArtifactsRole
  <2>1. pc = "role"
      BY <1>7 DEF ArtifactsRole
  <2>2. CASE HasAccess("role") /\ Presign("role")
      BY <1>3, <2>2 DEF HasAccess
  <2>3. CASE pc' = "chain" /\ UNCHANGED <<url, sigUrl>>
      BY <1>1, <1>2, <2>1, <2>3
  <2> QED
      BY <1>7, <2>2, <2>3 DEF ArtifactsRole, Probe
<1>8. CASE SecretsRole
  <2>1. pc = "chain"
      BY <1>8 DEF SecretsRole
  <2>2. CASE Presign("role")
    <3>1. purpose = "signature" => lost \/ Reads("role")
        BY <1>1, <2>1
    <3> QED
        BY <1>3, <2>2, <3>1
  <2> QED
      BY <1>4, <1>8, <2>2 DEF SecretsRole
<1> QED
    BY <1>5, <1>6, <1>7, <1>8

(* The retry loop uses the urls it was given.                               *)
LEMMA LoopUrls ==
    ASSUME Made, Download \/ Verify \/ FetchSignature \/ RunGpg \/ Expand
    PROVE  UrlMade' /\ Reached'
<1> USE DEF Made, UrlMade, Reached, Readable, Stages
<1>1. /\ UNCHANGED <<identity, rights, build, lost, url>>
      /\ pc \in {"download", "verify", "fetch", "gpg", "expand"}
      /\ \A via : Reads(via)' = Reads(via)
    BY DEF Download, Verify, FetchSignature, RunGpg, Expand, env, bucketVars, history, Reads
<1>2. url.kind \in {"private", "legacy"}
    BY <1>1 DEF Typed, Url
<1>3. CASE Download
  <2>1. CASE pc' = "verify" /\ (url.kind = "private" => Served(url) /\ build > 0)
      BY <1>1, <1>2, <2>1 DEF Served
  <2>2. CASE Retry
      BY <1>1, <1>2, <2>2 DEF Retry
  <2> QED
      BY <1>3, <2>1, <2>2 DEF Download
<1>4. CASE Verify
  <2>1. pc = "verify" /\ purpose' = "signature"
      BY <1>4 DEF Verify
  <2>2. CASE pc' = "expand"
      BY <1>1, <1>2, <2>2
  <2>3. CASE url.kind = "private" /\ pc' = "ambient"
      BY <1>1, <2>1, <2>3
  <2>4. CASE url.kind = "legacy" /\ pc' = "fetch" /\ sigUrl' = url
      BY <1>1, <2>1, <2>4
  <2> QED
      BY <1>2, <1>4, <2>2, <2>3, <2>4 DEF Verify, Accept
<1>5. CASE FetchSignature \/ RunGpg \/ Expand
  <2>1. pc' \in {"download", "gpg", "expand", "ok", "failed"}
      BY <1>5 DEF FetchSignature, RunGpg, Expand, Accept, Retry
  <2> QED
      BY <1>1, <1>2, <2>1
<1> QED
    BY <1>3, <1>4, <1>5

(* Whatever happens at the bucket, a url stays as it was made.              *)
LEMMA WorldUrls ==
    ASSUME Made, Publish \/ PublishSignature \/ LoseRight \/ Tick
    PROVE  UrlMade' /\ Reached'
<1> USE DEF Made, UrlMade, Reached, Readable, Stages
<1>1. CASE Publish \/ PublishSignature
  <2>1. /\ UNCHANGED <<identity, rights, lost, url, sigUrl, pc, purpose>>
        /\ \A via : Reads(via)' = Reads(via)
      BY <1>1 DEF Publish, PublishSignature, running, env, local, Reads
  <2>2. build > 0 => build' > 0
      BY <1>1, BoundsOK DEF Publish, PublishSignature, Typed, TypeOK
  <2> QED
      BY <2>1, <2>2
<1>2. CASE LoseRight
  <2>1. lost' /\ UNCHANGED <<identity, url, sigUrl, pc, purpose, build>>
      BY <1>2 DEF LoseRight, running, env, local, bucketVars
  <2> QED
      BY <2>1
<1>3. CASE Tick
  <2>1. /\ UNCHANGED <<identity, rights, lost, build, sigUrl, pc, purpose>>
        /\ url'.kind = url.kind /\ url'.via = url.via
        /\ \A via : Reads(via)' = Reads(via)
      BY <1>3 DEF Tick, env, bucketVars, history, Reads, Typed, Url
  <2> QED
      BY <2>1
<1> QED
    BY <1>1, <1>2, <1>3

-----------------------------------------------------------------------------
(* A verdict is reached for the archive that was just downloaded.           *)
LEMMA VerdictStep ==
    ASSUME Made, Verdict, MetOnce, Next
    PROVE  Verdict' /\ MetOnce'
<1> USE DEF Verdict, MetOnce
<1>1. ASSUME UNCHANGED <<host, agentFails>>, pc # "failed",
             pc' \notin {"expand", "ok"}
      PROVE  Verdict' /\ MetOnce'
    BY <1>1
<1>2. CASE Ambient \/ Vault \/ ArtifactsRole \/ SecretsRole
  <2>1. /\ UNCHANGED <<host, agentFails>> /\ pc \in Stages
      BY <1>2 DEF Ambient, Vault, ArtifactsRole, SecretsRole, resolving, env, Stages
  <2>2. pc' \in Stages \cup {"download", "fetch", "failed"}
      BY <1>2 DEF Ambient, Vault, ArtifactsRole, SecretsRole, Probe, Presign, Unavailable, Escape,
         Retry, Stages
  <2> QED
      BY <1>1, <2>1, <2>2 DEF Stages
<1>3. CASE Download
  <2>1. /\ UNCHANGED <<host, agentFails>> /\ pc = "download"
        /\ pc' \in {"verify", "download", "failed"}
      BY <1>3 DEF Download, Retry, env, history
  <2> QED
      BY <1>1, <2>1
<1>4. CASE Verify
  <2>1. /\ UNCHANGED <<host, agentFails>> /\ pc = "verify"
        /\ pc' \in {"ambient", "fetch"} \/ (pc' = "expand" /\ why' \in {"skip", "nogpg"})
      BY <1>4 DEF Verify, Accept, env, history
  <2> QED
      BY <2>1
<1>5. CASE FetchSignature
  <2>1. /\ UNCHANGED <<host, agentFails, lost>> /\ pc = "fetch"
      BY <1>5 DEF FetchSignature, env
  <2>2. CASE pc' \in {"gpg", "download", "failed"}
      BY <1>1, <2>1, <2>2
  <2>3. CASE /\ Accept("unpublished") /\ overlooked' = (Beside # NoSig)
             /\ ~(sigUrl.kind = "legacy" \/ Served(sigUrl)) \/ Beside = NoSig
    <3>1. overlooked' => lost
        BY <2>1, <2>3 DEF Made, Reached, Readable, Served
    <3>2. pc' = "expand" /\ why' = "unpublished"
        BY <2>3 DEF Accept
    <3> QED
        BY <2>1, <3>1, <3>2
  <2> QED
      BY <1>5, <2>2, <2>3 DEF FetchSignature, Retry
<1>6. CASE RunGpg
  <2>1. UNCHANGED <<host, got, fetched, lost>> /\ pc = "gpg"
      BY <1>6 DEF RunGpg, env
  <2>2. CASE UNCHANGED agentFails /\ Retry
      BY <1>1, <2>1, <2>2 DEF Retry
  <2>3. CASE UNCHANGED agentFails /\ fetched = [ver |-> got, by |-> "pinned"] /\ Accept("verified")
      BY <2>1, <2>3 DEF Accept
  <2>4. CASE host.gpg = "agentless" /\ host.amazon /\ Accept("amazon2023")
      BY <2>1, <2>4 DEF Accept
  <2>5. CASE agentFails' = agentFails + 1 /\ ~host.amazon /\ pc' = "failed"
      BY <2>1, <2>5
  <2> QED
      BY <1>6, <2>2, <2>3, <2>4, <2>5 DEF RunGpg
<1>7. CASE Expand
  <2>1. UNCHANGED <<host, got, fetched, lost, overlooked, agentFails>> /\ pc = "expand"
      BY <1>7 DEF Expand, env, history
  <2>2. CASE pc' = "ok" /\ why' = why
      BY <2>1, <2>2
  <2>3. CASE Retry
      BY <1>1, <2>1, <2>3 DEF Retry
  <2> QED
      BY <1>7, <2>2, <2>3 DEF Expand
<1>8. CASE Publish \/ PublishSignature \/ LoseRight \/ Tick
  <2>1. UNCHANGED <<host, got, fetched, overlooked, agentFails, pc, why>> /\ (lost => lost')
      BY <1>8 DEF Publish, PublishSignature, LoseRight, Tick, running, env, local, history
  <2> QED
      BY <2>1
<1> QED
    BY <1>2, <1>3, <1>4, <1>5, <1>6, <1>7, <1>8 DEF Next, Step

-----------------------------------------------------------------------------
(* Every step preserves the whole invariant, and so does a stutter.         *)
LEMMA NextInv ==
    ASSUME IInv, [Next]_vars
    PROVE  IInv'
<1>1. CASE Next
  <2>1. Typed' /\ Rights'
      BY <1>1, TypedStep, RightsStep DEF IInv, Rights
  <2>2. UrlMade' /\ Reached'
      BY <1>1, StageUrls, LoopUrls, WorldUrls DEF IInv, Made, Next, Step
  <2>3. Verdict' /\ MetOnce'
      BY <1>1, VerdictStep DEF IInv, Made
  <2> QED
      BY <2>1, <2>2, <2>3 DEF IInv, Rights
<1>2. CASE UNCHANGED vars
  <2> USE <1>2 DEF vars, env, bucketVars, local, history
  <2>1. Typed'
      BY DEF IInv, Typed, TypeOK
  <2>2. Nobody' /\ StagesPassed' /\ LegacyOnlyWithoutAccess'
      BY DEF IInv, Nobody, StagesPassed, LegacyOnlyWithoutAccess
  <2>3. UrlMade' /\ Reached'
      BY DEF IInv, UrlMade, Reached, Readable, Reads
  <2>4. Verdict' /\ MetOnce'
      BY DEF IInv, Verdict, MetOnce
  <2> QED
      BY <2>1, <2>2, <2>3, <2>4 DEF IInv
<1> QED
    BY <1>1, <1>2

(* The inductive invariant holds of every download.                         *)
LEMMA Invariant == Spec => []IInv
<1> QED
    BY InitInv, NextInv, PTL DEF Spec

(* Every reachable state is well typed; a verdict is there exactly when the  *)
(* archive has been accepted.                                               *)
THEOREM TypeCorrect == Spec => []TypeOK
<1>1. IInv => TypeOK
    BY DEF IInv, Typed
<1> QED
    BY <1>1, Invariant, PTL

(* An unverified build is handed out for a reason only, and a broken gpg    *)
(* ends the run.                                                            *)
THEOREM Verified == Spec => []VerificationHolds
<1>1. IInv => VerificationHolds
  <2>1. IInv => AcceptedForAReason
      BY DEF IInv, Verdict, AcceptedForAReason
  <2>2. IInv => BrokenGpgIsFinal
      BY DEF IInv, MetOnce, BrokenGpgIsFinal, Typed
  <2> QED
      BY <2>1, <2>2 DEF VerificationHolds
<1> QED
    BY <1>1, Invariant, PTL

(* The legacy host is used only if no stage could have reached the bucket.   *)
THEOREM LegacyIsLast == Spec => []LegacyOnlyWithoutAccess
<1>1. IInv => LegacyOnlyWithoutAccess
    BY DEF IInv
<1> QED
    BY <1>1, Invariant, PTL
=============================================================================
