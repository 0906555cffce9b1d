-------------------------- MODULE ServerArtifacts ---------------------------
(***************************************************************************)
(* server_artifacts.py with its caller in mongodl.py: one download of a     *)
(* "latest" build.  Credentials for the private bucket are resolved in      *)
(* three stages, the archive's url is presigned once before the retry loop, *)
(* and the url of the detached signature when it is fetched, since an       *)
(* expired url answers 403 as a missing file does.  Without credentials the *)
(* legacy public host is used.                                              *)
(***************************************************************************)
EXTENDS Integers

CONSTANTS Retries,      (* of the download loop                            *)
          Life,         (* ticks a presigned url is good for               *)
          MaxVersion,   (* bound: versions of the build                    *)
          MaxChanges    (* bound: permissions that are taken away          *)

ASSUME BoundsOK ==
    /\ Retries \in Nat /\ Life \in Nat \ {0}
    /\ MaxVersion \in Nat \ {0} /\ MaxChanges \in Nat

(* archive: the ambient identity reads the bucket; bucket: the artifacts    *)
(* role does; role, secrets, chain: who may assume which role; list: a       *)
(* missing object is not hidden behind 403.                                 *)
Permissions == {"archive", "vault", "role", "bucket", "secrets", "chain", "list"}

NoUrl == [kind |-> "none", via |-> "none", left |-> 0]
NoSig == [ver |-> 0, by |-> "nobody"]
(* By a pinned key, or by another, an expired or a revoked one.            *)
Signatures == [ver : 1 .. MaxVersion, by : {"pinned", "other"}]

VARIABLES
    identity,   (* "none", "broken" (no such profile, expired SSO) or "ok" *)
    rights,     (* the permissions of the identity and of the roles        *)
    host,       (* [skip, gpg, amazon]: what verify_latest_build meets     *)
    build,      (* the version in the bucket, 0: none                      *)
    sig,        (* the signature next to it                                *)
    legacySig,  (* the legacy host publishes signatures                    *)
    pc,
    purpose,    (* what credentials are resolved for                       *)
    url,        (* of the archive                                          *)
    sigUrl,     (* of the signature                                        *)
    attempt,
    got,        (* the version downloaded                                  *)
    fetched,    (* the signature fetched                                   *)
    why,        (* why the archive is accepted                             *)
    lost,       (* history: a permission was taken away                    *)
    hidden,     (* history: a probe met a hidden absence                   *)
    overlooked, (* history: a published signature was taken for missing    *)
    agentFails  (* history: times gpg could not reach its agent            *)

env == <<identity, host, legacySig>>
bucketVars == <<build, sig>>
history == <<lost, hidden, overlooked, agentFails>>
local == <<purpose, url, sigUrl, attempt, got, fetched, why>>
vars == <<env, rights, bucketVars, pc, local, history>>

TypeOK ==
    /\ rights \subseteq Permissions
    /\ build \in 0 .. MaxVersion /\ got \in 0 .. MaxVersion
    /\ sig \in Signatures \cup {NoSig} /\ fetched \in Signatures \cup {NoSig}
    /\ sig.ver <= build
    /\ purpose \in {"archive", "signature"}
    /\ url.kind \in {"none", "private", "legacy"} /\ url.left \in 0 .. Life
    /\ attempt \in 0 .. Retries
    /\ why \in {"none", "verified", "skip", "nogpg", "unpublished", "amazon2023"}
    /\ pc \in {"expand", "ok"} <=> why # "none"

Init ==
    /\ identity \in {"none", "broken", "ok"}
    /\ rights \in SUBSET Permissions
    /\ identity # "ok" => rights = {}
    /\ host \in [skip : BOOLEAN, gpg : {"none", "ok", "agentless"}, amazon : BOOLEAN]
    /\ host.skip => host.gpg = "none"                 \* nobody looks at the rest
    /\ host.amazon => host.gpg = "agentless"
    /\ build \in {0, 1} /\ sig = NoSig
    /\ legacySig \in BOOLEAN
    /\ pc = "ambient" /\ purpose = "archive" /\ url = NoUrl /\ sigUrl = NoUrl
    /\ attempt = 0 /\ got = 0 /\ fetched = NoSig /\ why = "none"
    /\ lost = FALSE /\ hidden = FALSE /\ overlooked = FALSE /\ agentFails = 0

-----------------------------------------------------------------------------
(* Mutant: what was said of the archive survives the next attempt.         *)
RetryKeepingVerdict ==
    /\ UNCHANGED why
    /\ \/ attempt < Retries /\ attempt' = attempt + 1 /\ pc' = "download"
       \/ attempt = Retries /\ pc' = "failed" /\ UNCHANGED attempt

(* The except clause of the loop around download, check and expansion.     *)
Retry ==
    /\ why' = "none"
    /\ \/ attempt < Retries /\ attempt' = attempt + 1 /\ pc' = "download"
       \/ attempt = Retries /\ pc' = "failed" /\ UNCHANGED attempt

(* An exception no caller expects.                                         *)
Escape ==
    \/ purpose = "archive" /\ pc' = "failed" /\ UNCHANGED <<attempt, why>>
    \/ purpose = "signature" /\ Retry

(* PrivateArtifactsUnavailableError: _latest_build_url falls back, but only *)
(* when it is the archive's url that could not be had.                      *)
Unavailable ==
    \/ /\ purpose = "archive"
       /\ url' = [kind |-> "legacy", via |-> "none", left |-> Life]
       /\ pc' = "download"
       /\ UNCHANGED <<sigUrl, attempt, why>>
    \/ /\ purpose = "signature"
       /\ Retry
       /\ UNCHANGED <<url, sigUrl>>

Reads(via) == (IF via = "ambient" THEN "archive" ELSE "bucket") \in rights

(* _has_s3_access: 404 is access, a hidden absence is not.                 *)
HasAccess(via) == Reads(via) /\ (build > 0 \/ "list" \in rights)

Presign(via) ==
    /\ IF purpose = "archive"
       THEN /\ url' = [kind |-> "private", via |-> via, left |-> Life]
            /\ pc' = "download"
            /\ UNCHANGED sigUrl
       ELSE /\ sigUrl' = [kind |-> "private", via |-> via, left |-> Life]
            /\ pc' = "fetch"
            /\ UNCHANGED url
    /\ UNCHANGED <<attempt, why>>

Probe(via, next) ==
    \/ /\ HasAccess(via)
       /\ Presign(via)
       /\ UNCHANGED hidden
    \/ /\ ~HasAccess(via)
       /\ pc' = next
       /\ hidden' = (hidden \/ Reads(via))
       /\ UNCHANGED <<url, sigUrl, attempt, why>>

resolving == <<env, rights, bucketVars, purpose, got, fetched, lost, overlooked, agentFails>>

(* Stage 1.  Only NoCredentialsError is expected here.                     *)
Ambient ==
    /\ pc = "ambient"
    /\ \/ identity = "ok" /\ Probe("ambient", "vault")
       \/ identity = "none" /\ pc' = "vault" /\ UNCHANGED <<url, sigUrl, attempt, why, hidden>>
       \/ identity = "broken" /\ Escape /\ UNCHANGED <<url, sigUrl, hidden>>
    /\ UNCHANGED resolving

Vault ==
    /\ pc = "vault"
    /\ \/ "vault" \in rights /\ pc' = "role" /\ UNCHANGED <<url, sigUrl, attempt, why>>
       \/ "vault" \notin rights /\ Unavailable
    /\ UNCHANGED <<resolving, hidden>>

(* Stage 2: the artifacts role, probed.                                    *)
ArtifactsRole ==
    /\ pc = "role"
    /\ \/ "role" \in rights /\ Probe("role", "chain")
       \/ "role" \notin rights /\ pc' = "chain" /\ UNCHANGED <<url, sigUrl, attempt, why, hidden>>
    /\ UNCHANGED resolving

(* Mutant: stage 3 is forgotten.                                           *)
NoSecretsRole ==
    /\ pc = "chain"
    /\ Unavailable
    /\ UNCHANGED <<resolving, hidden>>

(* Stage 3: through the secrets role, not probed.                          *)
SecretsRole ==
    /\ pc = "chain"
    /\ \/ {"secrets", "chain"} \subseteq rights /\ Presign("role")
       \/ ~({"secrets", "chain"} \subseteq rights) /\ Unavailable
    /\ UNCHANGED <<resolving, hidden>>

-----------------------------------------------------------------------------
(* The retry loop of _dl_component.                                        *)

Served(u) == u.left > 0 /\ Reads(u.via)

Download ==
    /\ pc = "download"
    /\ \/ /\ url.kind = "private" /\ Served(url) /\ build > 0
          /\ got' = build
          /\ pc' = "verify"
          /\ UNCHANGED <<attempt, why>>
       \/ /\ url.kind = "legacy"
          /\ got' = MaxVersion
          /\ pc' = "verify"
          /\ UNCHANGED <<attempt, why>>
       \/ Retry /\ UNCHANGED got
    /\ UNCHANGED <<env, rights, bucketVars, purpose, url, sigUrl, fetched, history>>

Accept(reason) == why' = reason /\ pc' = "expand" /\ UNCHANGED attempt

(* verify_latest_build; get_sig_url resolves the credentials again.        *)
Verify ==
    /\ pc = "verify"
    /\ purpose' = "signature"
    /\ \/ host.skip /\ Accept("skip") /\ UNCHANGED sigUrl
       \/ ~host.skip /\ host.gpg = "none" /\ Accept("nogpg") /\ UNCHANGED sigUrl
       \/ /\ ~host.skip /\ host.gpg # "none"
          /\ IF url.kind = "private" THEN pc' = "ambient" /\ UNCHANGED sigUrl
                                     ELSE pc' = "fetch" /\ sigUrl' = url
          /\ UNCHANGED <<attempt, why>>
    /\ UNCHANGED <<env, rights, bucketVars, url, got, fetched, history>>

(* What lies next to the archive the url names.                            *)
Beside == IF sigUrl.kind = "private" THEN sig
          ELSE IF legacySig THEN [ver |-> MaxVersion, by |-> "pinned"] ELSE NoSig

(* _fetch_signature: 403 and 404 mean it was not published.                *)
FetchSignature ==
    /\ pc = "fetch"
    /\ LET answered == sigUrl.kind = "legacy" \/ Served(sigUrl)
       IN \/ /\ answered /\ Beside # NoSig
             /\ fetched' = Beside
             /\ pc' = "gpg"
             /\ UNCHANGED <<attempt, why, overlooked>>
          \/ /\ ~answered \/ Beside = NoSig
             /\ Accept("unpublished")
             /\ overlooked' = (Beside # NoSig)
             /\ UNCHANGED fetched
          \/ Retry /\ UNCHANGED <<fetched, overlooked>>
    /\ UNCHANGED <<env, rights, bucketVars, purpose, url, sigUrl, got, lost, hidden, agentFails>>

(* Mutant: a broken environment is retried like everything else.           *)
RunGpgRetrying ==
    /\ pc = "gpg"
    /\ agentFails' = IF host.gpg = "agentless" THEN agentFails + 1 ELSE agentFails
    /\ Retry
    /\ UNCHANGED <<env, rights, bucketVars, purpose, url, sigUrl, got, fetched, lost, hidden,
                   overlooked>>

(* _verify_gpg_signature and the handlers of _dl_component: a broken gpg is *)
(* tolerated on Amazon Linux 2023 and final elsewhere; a bad signature, and *)
(* keys that cannot be downloaded, are retried.                             *)
RunGpg ==
    /\ pc = "gpg"
    /\ \/ /\ host.gpg = "ok"
          /\ \/ fetched = [ver |-> got, by |-> "pinned"] /\ Accept("verified")
             \/ fetched # [ver |-> got, by |-> "pinned"] /\ Retry
          /\ UNCHANGED agentFails
       \/ /\ host.gpg = "agentless"
          /\ agentFails' = agentFails + 1
          /\ \/ host.amazon /\ Accept("amazon2023")
             \/ ~host.amazon /\ pc' = "failed" /\ UNCHANGED <<attempt, why>>
       \/ Retry /\ UNCHANGED agentFails
    /\ UNCHANGED <<env, rights, bucketVars, purpose, url, sigUrl, got, fetched, lost, hidden,
                   overlooked>>

Expand ==
    /\ pc = "expand"
    /\ (pc' = "ok" /\ UNCHANGED <<attempt, why>>) \/ Retry
    /\ UNCHANGED <<env, rights, bucketVars, purpose, url, sigUrl, got, fetched, history>>

Step ==
    \/ Ambient \/ Vault \/ ArtifactsRole \/ SecretsRole
    \/ Download \/ Verify \/ FetchSignature \/ RunGpg \/ Expand

-----------------------------------------------------------------------------
(* The world.  The build and its signature are two uploads.                *)

running == <<env, pc, local, hidden, overlooked, agentFails>>

Publish ==
    /\ build < MaxVersion
    /\ build' = build + 1
    /\ UNCHANGED <<running, rights, sig, lost>>

PublishSignature ==
    /\ sig.ver < build
    /\ sig' \in {s \in Signatures : s.ver = build}
    /\ UNCHANGED <<running, rights, build, lost>>

LoseRight ==
    /\ ~lost /\ MaxChanges > 0
    /\ \E r \in rights : rights' = rights \ {r}
    /\ lost' = TRUE
    /\ UNCHANGED <<running, bucketVars>>

(* The signature is fetched as soon as its url is made.                    *)
Tick ==
    /\ pc # "fetch"
    /\ url.left > 0
    /\ url' = [url EXCEPT !.left = @ - 1]
    /\ UNCHANGED <<env, rights, bucketVars, pc, purpose, sigUrl, attempt, got, fetched, why, history>>

Next == Step \/ Publish \/ PublishSignature \/ LoseRight \/ Tick

Spec == Init /\ [][Next]_vars

-----------------------------------------------------------------------------
(* A build is handed out unverified only where that is meant: verification  *)
(* was switched off, gpg is missing or known to be broken, or there was no  *)
(* signature when it was asked for.  A url that expired, and for want of a  *)
(* permission that was there all the time, is never mistaken for one.       *)
AcceptedForAReason ==
    pc = "ok" =>
        /\ why = "verified" => fetched.by = "pinned" /\ fetched.ver = got
        /\ why = "unpublished" => ~overlooked \/ lost
        /\ why = "amazon2023" => host.amazon /\ host.gpg = "agentless"

(* The deprecated public host is used only if no stage could have reached   *)
(* the bucket; an absent build the identity may not see is the exception.   *)
LegacyOnlyWithoutAccess ==
    url.kind = "legacy" /\ ~lost /\ ~hidden =>
        /\ "archive" \notin rights
        /\ ~({"vault", "role", "bucket"} \subseteq rights)
        /\ ~({"vault", "secrets", "chain"} \subseteq rights)

(* A gpg that cannot reach its agent is met once, however many retries are  *)
(* left, unless the host is known for it.                                   *)
BrokenGpgIsFinal == ~host.amazon => agentFails <= 1

(* Verification is skipped for a reason, and its failure ends the run when   *)
(* it has to.                                                               *)
VerificationHolds == AcceptedForAReason /\ BrokenGpgIsFinal

(* "If credentials for the private server artifacts cannot be resolved ...  *)
(* fall back to the legacy public download link": no run ends without a url. *)
FallsBack == pc = "failed" => url.kind # "none"
=============================================================================
