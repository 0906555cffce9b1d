--------------------------- MODULE BuildSelection ---------------------------
(***************************************************************************)
(* Which build mongodl downloads: the order of the versions in full.json,    *)
(* the rows that fit a request, the newest of them, and the fallback of      *)
(* crypt_shared.                                                            *)
(*                                                                          *)
(* A version is [base, tag, num]: 8.1.0-rc2 is [<<8, 1, 0>>, "rc", 2] and a   *)
(* release has the tag "none".  A row of the table is [version, target,      *)
(* component]; the file behind it is named by the row and by the field of    *)
(* its data that holds the url.                                              *)
(***************************************************************************)
EXTENDS Integers, Sequences

StableMaxRC == 9999

Stage(tag) == CASE tag = "none" -> StableMaxRC [] tag = "alpha" -> 1
                [] tag = "beta" -> 2 [] tag = "rc" -> 3

VersionTup(v) == v.base \o <<Stage(v.tag), v.num>>

(* Mutant: a candidate and its release are the same version.                *)
LessByNumbers(left, right) ==
    LET l == VersionTup(left)  r == VersionTup(right)
    IN \E i \in 1 .. 3 : l[i] < r[i] /\ \A j \in 1 .. i - 1 : l[j] = r[j]
Less(left, right) ==
    LET l == VersionTup(left)  r == VersionTup(right)
    IN \E i \in 1 .. 5 : l[i] < r[i] /\ \A j \in 1 .. i - 1 : l[j] = r[j]

NotRC(v) == VersionTup(v)[4] = StableMaxRC
Rapid(v) == VersionTup(v)[2] > 0

(* --version: a word, or the leading numbers of a version, or all of it.    *)
VersionFits(asked, v) ==
    CASE asked.word = "latest-release" -> TRUE
      [] asked.word = "latest-stable" -> NotRC(v)
      [] asked.word = "rapid" -> Rapid(v)
      [] asked.word = "" ->
           \/ asked.exact = v
           \/ asked.series # <<>> /\ Len(asked.series) < 3
              /\ SubSeq(v.base, 1, Len(asked.series)) = asked.series

Available(rows, asked, target, component) ==
    {r \in rows : r.target = target /\ r.component = component
                  /\ VersionFits(asked, r.version)}

(* ORDER BY version DESC, of which the first is taken.                      *)
Newest(rows) == CHOOSE r \in rows : \A s \in rows : ~Less(r.version, s.version)

NoBuild == [row |-> "none"]

(* The url and the checksum it is held against; archive-debug is a second   *)
(* url of the archive's data.                                               *)
PublishedBuild(rows, asked, target, component) ==
    LET field == IF component = "archive-debug" THEN "debug_symbols" ELSE "url"
        key == IF component = "archive-debug" THEN "archive" ELSE component
        fits == Available(rows, asked, target, key)
    IN IF fits = {} THEN NoBuild
       ELSE [row |-> Newest(fits), url |-> field, sha256 |-> "url"]

LatestRelease == [word |-> "latest-release", series |-> <<>>,
                  exact |-> [base |-> <<0, 0, 0>>, tag |-> "none", num |-> 0]]

(* The target will be macos on latest-release.                              *)
TargetNow(target) == IF target = "osx" THEN "macos" ELSE target

ChooseBuild(rows, asked, target, component) ==
    LET first == PublishedBuild(rows, asked, target, component)
    IN IF first = NoBuild /\ component = "crypt_shared" /\ asked.word # "latest-release"
       THEN PublishedBuild(rows, LatestRelease, TargetNow(target), component)
       ELSE first

=============================================================================
