-------------------------- MODULE AlgorithmsProofs --------------------------
(***************************************************************************)
(* Theorems about the pure parts: the build that mongodl selects, for any   *)
(* numbers of series, patch levels, candidates and rows; the members it     *)
(* extracts, for paths and patterns of any length; what a client concludes  *)
(* from the OCSP responder, for any request, clock and validity; the        *)
(* processes of an orchestration file, for any numbers of members, shards   *)
(* and ports.                                                               *)
(***************************************************************************)
EXTENDS MCAlgorithms, SequenceTheorems, WellFoundedInduction, TLAPS

(* A bounded set of numbers has a greatest.                                *)
LEMMA Greatest ==
    ASSUME NEW n \in Nat, NEW S \in SUBSET (0 .. n), S # {}
    PROVE  \E x \in S : \A y \in S : y <= x
<1> DEFINE T == {z \in 0 .. n : n - z \in S}
<1>1. T \subseteq Nat /\ T # {}
  <2>1. PICK x \in S : TRUE
      OBVIOUS
  <2>2. n - x \in 0 .. n /\ n - (n - x) = x
      OBVIOUS
  <2>3. n - x \in T
      BY <2>1, <2>2
  <2>4. T \subseteq Nat
      OBVIOUS
  <2> QED
      BY <2>3, <2>4
<1>2. \E x \in T : \A y \in T : ~(<<y, x>> \in OpToRel(<, Nat))
    BY <1>1, NatLessThanWellFounded, WFMin
<1>3. PICK z \in T : \A y \in T : ~(y < z)
    BY <1>1, <1>2 DEF OpToRel
<1>4. ASSUME NEW y \in S PROVE y <= n - z
  <2>1. n - y \in 0 .. n /\ n - (n - y) = y
      OBVIOUS
  <2>2. n - y \in T
      BY <2>1
  <2> QED
      BY <1>3, <2>2
<1> QED
    BY <1>3, <1>4

-----------------------------------------------------------------------------
(* The columns by which full.json's versions are compared.                 *)
LEMMA Columns ==
    ASSUME NEW v \in VersionUniverse
    PROVE  /\ v.base[1] = 8 /\ v.base[2] \in 0 .. Minor /\ v.base[3] \in 0 .. Patch
           /\ v.base = <<8, v.base[2], v.base[3]>>
           /\ v.tag \in {"none", "rc"} /\ v.num \in 0 .. Candidate
           /\ v.tag = "none" => v.num = 0
           /\ v = [base |-> v.base, tag |-> v.tag, num |-> v.num]
<1>1. PICK m \in 0 .. Minor, p \in 0 .. Patch, t \in {"none", "rc"}, n \in 0 .. Candidate :
         v = [base |-> <<8, m, p>>, tag |-> t, num |-> IF t = "none" THEN 0 ELSE n]
    BY DEF VersionUniverse
<1>2. 0 \in 0 .. Candidate
    BY InputsOK
<1> QED
    BY <1>1, <1>2

(* What is compared, column by column.                                     *)
LEMMA Tuple ==
    ASSUME NEW v \in VersionUniverse
    PROVE  LET t == VersionTup(v)
           IN /\ t[1] = 8 /\ t[2] = v.base[2] /\ t[3] = v.base[3]
              /\ t[4] = IF v.tag = "none" THEN StableMaxRC ELSE 3
              /\ t[5] = v.num
<1> DEFINE a == v.base  b == <<Stage(v.tag), v.num>>
<1>1. a \in Seq(Nat) /\ Len(a) = 3
  <2>1. PICK m \in Nat, p \in Nat : a = <<8, m, p>>
      BY Columns, InputsOK
  <2>2. <<8, m, p>> \in Seq(Nat) /\ Len(<<8, m, p>>) = 3
      OBVIOUS
  <2> QED
      BY <2>1, <2>2
<1>2. Stage(v.tag) = IF v.tag = "none" THEN StableMaxRC ELSE 3
    BY Columns DEF Stage
<1>3. b \in Seq(Nat) /\ Len(b) = 2 /\ b[1] = Stage(v.tag) /\ b[2] = v.num
    BY <1>2, Columns, InputsOK DEF StableMaxRC
<1>4. VersionTup(v) = a \o b
    BY DEF VersionTup
<1> HIDE DEF a, b
<1>5. /\ \A i \in 1 .. 3 : (a \o b)[i] = a[i]
      /\ \A i \in 4 .. 5 : (a \o b)[i] = b[i - 3]
  <2>1. \A i \in 1 .. Len(a) + Len(b) :
           (a \o b)[i] = IF i <= Len(a) THEN a[i] ELSE b[i - Len(a)]
      BY <1>1, <1>3, ConcatProperties
  <2>2. ASSUME NEW i \in 1 .. 3 PROVE (a \o b)[i] = a[i]
    <3>1. i \in 1 .. Len(a) + Len(b) /\ i <= Len(a)
        BY <1>1, <1>3
    <3> QED
        BY <2>1, <3>1
  <2>3. ASSUME NEW i \in 4 .. 5 PROVE (a \o b)[i] = b[i - 3]
    <3>1. i \in 1 .. Len(a) + Len(b) /\ ~(i <= Len(a)) /\ Len(a) = 3
        BY <1>1, <1>3
    <3> QED
        BY <2>1, <3>1
  <2> QED
      BY <2>2, <2>3
<1>6. (a \o b)[1] = a[1] /\ (a \o b)[2] = a[2] /\ (a \o b)[3] = a[3]
      /\ (a \o b)[4] = b[1] /\ (a \o b)[5] = b[2]
  <2>1. 4 - 3 = 1 /\ 5 - 3 = 2
      OBVIOUS
  <2>2. 1 \in 1 .. 3 /\ 2 \in 1 .. 3 /\ 3 \in 1 .. 3 /\ 4 \in 4 .. 5 /\ 5 \in 4 .. 5
      OBVIOUS
  <2> QED
      BY Zenon, <1>5, <2>1, <2>2
<1> QED
    BY <1>2, <1>3, <1>4, <1>6, Columns DEF a

(* A release counts as one more than its candidates.                        *)
Order(v) == 2 * Rank(v) + (IF v.tag = "none" THEN 1 ELSE 0)

(* The comparison from the left is the order of the ranks.                  *)
LEMMA LessIsEarlier ==
    ASSUME NEW v \in VersionUniverse, NEW w \in VersionUniverse
    PROVE  /\ Order(v) \in 0 .. 2 * (100 * Minor + 99) + 1
           /\ Less(v, w) <=> Order(v) < Order(w) \/ (Order(v) = Order(w) /\ v.num < w.num)
           /\ Less(v, w) <=> Later(w, v)
<1> DEFINE l == VersionTup(v)  r == VersionTup(w)
<1>1. /\ l[1] = 8 /\ l[2] = v.base[2] /\ l[3] = v.base[3]
      /\ l[4] = (IF v.tag = "none" THEN 9999 ELSE 3) /\ l[5] = v.num
      /\ r[1] = 8 /\ r[2] = w.base[2] /\ r[3] = w.base[3]
      /\ r[4] = (IF w.tag = "none" THEN 9999 ELSE 3) /\ r[5] = w.num
    BY Tuple DEF StableMaxRC
<1>2. /\ v.base[2] \in 0 .. Minor /\ v.base[3] \in 0 .. 99 /\ v.num \in Nat
      /\ w.base[2] \in 0 .. Minor /\ w.base[3] \in 0 .. 99 /\ w.num \in Nat
      /\ v.tag \in {"none", "rc"} /\ w.tag \in {"none", "rc"}
      /\ v.tag = "none" => v.num = 0
      /\ w.tag = "none" => w.num = 0
    BY Columns, InputsOK
<1>3. Less(v, w) <=> \E i \in 1 .. 5 : l[i] < r[i] /\ \A j \in 1 .. i - 1 : l[j] = r[j]
    BY DEF Less
<1> HIDE DEF l, r
<1>4. Less(v, w) <=> \/ l[1] < r[1]
                     \/ l[1] = r[1] /\ l[2] < r[2]
                     \/ l[1] = r[1] /\ l[2] = r[2] /\ l[3] < r[3]
                     \/ l[1] = r[1] /\ l[2] = r[2] /\ l[3] = r[3] /\ l[4] < r[4]
                     \/ l[1] = r[1] /\ l[2] = r[2] /\ l[3] = r[3] /\ l[4] = r[4] /\ l[5] < r[5]
  <2>1. 1 .. 5 = {1, 2, 3, 4, 5}
      OBVIOUS
  <2>2. /\ 1 .. 1 - 1 = {} /\ 1 .. 2 - 1 = {1} /\ 1 .. 3 - 1 = {1, 2}
        /\ 1 .. 4 - 1 = {1, 2, 3} /\ 1 .. 5 - 1 = {1, 2, 3, 4}
      OBVIOUS
  <2> QED
      BY <1>3, <2>1, <2>2
<1>5. Minor \in Nat
    BY InputsOK
<1>p. PICK a \in Nat, b \in 0 .. 99 : v.base[2] = a /\ v.base[3] = b
    BY <1>2, <1>5
<1>q. PICK c \in Nat, d \in 0 .. 99 : w.base[2] = c /\ w.base[3] = d
    BY <1>2, <1>5
<1>6. /\ Rank(v) = 100 * a + b /\ Rank(w) = 100 * c + d
      /\ Order(v) = 2 * Rank(v) + (IF v.tag = "none" THEN 1 ELSE 0)
      /\ Order(w) = 2 * Rank(w) + (IF w.tag = "none" THEN 1 ELSE 0)
    BY <1>p, <1>q DEF Rank, Order
<1>7. Order(v) \in 0 .. 2 * (100 * Minor + 99) + 1
  <2>1. a <= Minor
      BY <1>2, <1>p
  <2> QED
      BY <1>5, <1>6, <2>1
<1>8. /\ Rank(v) < Rank(w) <=> a < c \/ (a = c /\ b < d)
      /\ Rank(v) = Rank(w) <=> a = c /\ b = d
      /\ Rank(v) \in Nat /\ Rank(w) \in Nat
    BY <1>6
<1>9. Less(v, w) <=> \/ Rank(v) < Rank(w)
                     \/ Rank(v) = Rank(w) /\ v.tag = "rc" /\ w.tag = "none"
                     \/ Rank(v) = Rank(w) /\ v.tag = w.tag /\ v.num < w.num
    BY <1>1, <1>2, <1>4, <1>8, <1>p, <1>q
<1>10. Less(v, w) <=> Later(w, v)
    BY <1>2, <1>8, <1>9 DEF Later
<1>11. Less(v, w) <=> Order(v) < Order(w) \/ (Order(v) = Order(w) /\ v.num < w.num)
    BY <1>2, <1>6, <1>8, <1>9
<1> QED
    BY <1>7, <1>10, <1>11

(* ORDER BY version DESC: there is a first row, and none is later.          *)
LEMMA NewestIsNewest ==
    ASSUME NEW rows, rows # {}, \A r \in rows : r.version \in VersionUniverse
    PROVE  Newest(rows) \in rows /\ \A s \in rows : ~Later(s.version, Newest(rows).version)
<1> DEFINE K == 2 * (100 * Minor + 99) + 1
           orders == {Order(r.version) : r \in rows}
<1>1. K \in Nat /\ orders \in SUBSET (0 .. K) /\ orders # {}
    BY LessIsEarlier, InputsOK
<1>2. PICK o \in orders : \A y \in orders : y <= o
    BY <1>1, Greatest
<1> DEFINE best == {r \in rows : Order(r.version) = o}
           nums == {r.version.num : r \in best}
<1>3. Candidate \in Nat /\ nums \in SUBSET (0 .. Candidate) /\ nums # {}
    BY Columns, InputsOK
<1>4. PICK n \in nums : \A y \in nums : y <= n
    BY <1>3, Greatest
<1>5. PICK r \in best : r.version.num = n
    OBVIOUS
<1>6. ASSUME NEW s \in rows PROVE ~Less(r.version, s.version)
  <2>1. Order(s.version) <= Order(r.version) /\ Order(s.version) \in Nat /\ Order(r.version) \in Nat
      BY <1>1, <1>2
  <2>2. Order(s.version) = Order(r.version) => s.version.num <= r.version.num
      BY <1>4, <1>5
  <2>3. s.version.num \in Nat /\ r.version.num \in Nat
      BY Columns, InputsOK
  <2> QED
      BY <2>1, <2>2, <2>3, LessIsEarlier
<1>7. Newest(rows) \in rows /\ \A s \in rows : ~Less(Newest(rows).version, s.version)
    BY <1>6 DEF Newest
<1> QED
    BY <1>7, LessIsEarlier

(* The rows of a table have versions of the universe.                       *)
LEMMA TableRows ==
    ASSUME NEW rows \in Tables, NEW r \in rows
    PROVE  r.version \in VersionUniverse
<1> DEFINE archives == {[version |-> v, target |-> "macos", component |-> "archive"] :
                        v \in VersionUniverse}
           shared == {[version |-> v, target |-> "macos", component |-> "crypt_shared"] :
                        v \in {w \in VersionUniverse : w.base[3] = 0 /\ w.tag = "none"}}
<1>1. r \in archives \/ r \in shared
  <2> DEFINE A == UNION {kSubset(k, archives) : k \in 1 .. Builds}
             B == UNION {kSubset(k, shared) : k \in {0, 1}}
  <2>1. Tables = {a \cup b : a \in A, b \in B}
      BY DEF Tables
  <2>2. A \subseteq SUBSET archives /\ B \subseteq SUBSET shared
    <3>1. \A k, S : kSubset(k, S) \subseteq SUBSET S
        BY DEF kSubset
    <3> HIDE DEF archives, shared
    <3> QED
        BY <3>1
  <2> HIDE DEF A, B, archives, shared
  <2>3. PICK a \in A, b \in B : rows = a \cup b
      BY <2>1
  <2> QED
      BY <2>2, <2>3
<1> QED
    BY <1>1

(* A request names a word, the start of a version or a version.            *)
LEMMA AskedKinds ==
    ASSUME NEW a \in Asked
    PROVE  \/ /\ a.word \in {"latest-release", "latest-stable", "rapid"} /\ a.series = <<>>
           \/ /\ a.word = "" /\ a.exact.base[1] = 0
              /\ a.series = <<8>> \/ \E k \in Nat : a.series = <<8, k>>
           \/ /\ a.word = "" /\ a.exact \in VersionUniverse /\ a.series = a.exact.base
<1>0. ASSUME NEW w, NEW x, NEW e, a = [word |-> w, series |-> x, exact |-> e]
      PROVE  a.word = w /\ a.series = x /\ a.exact = e
    BY <1>0
<1>1. ASSUME NEW w \in {"latest-release", "latest-stable", "rapid"},
             a = [word |-> w, series |-> <<>>, exact |-> LatestRelease.exact]
      PROVE  a.word = w /\ a.series = <<>>
    BY Zenon, <1>0, <1>1
<1>2. ASSUME NEW x \in {<< 8 >>} \cup {<<8, m>> : m \in 0 .. Minor},
             a = [word |-> "", series |-> x, exact |-> LatestRelease.exact]
      PROVE  /\ a.word = "" /\ a.exact.base[1] = 0
             /\ a.series = <<8>> \/ \E k \in Nat : a.series = <<8, k>>
  <2>1. a.word = "" /\ a.exact = LatestRelease.exact /\ a.series = x
      BY Zenon, <1>0, <1>2
  <2>2. LatestRelease.exact.base[1] = 0
      BY DEF LatestRelease
  <2>3. 0 .. Minor \subseteq Nat
      BY InputsOK
  <2> QED
      BY Zenon, <2>1, <2>2, <2>3
<1>3. ASSUME NEW x \in {y \in VersionUniverse : y.num = 0},
             a = [word |-> "", series |-> x.base, exact |-> x]
      PROVE  a.word = "" /\ a.exact \in VersionUniverse /\ a.series = a.exact.base
    BY Zenon, <1>0, <1>3
<1> QED
    BY Zenon, <1>1, <1>2, <1>3 DEF Asked

(* The start of a version.                                                 *)
LEMMA Starts ==
    ASSUME NEW m \in Nat, NEW p \in Nat, NEW k \in Nat
    PROVE  /\ SubSeq(<<8, m, p>>, 1, 1) = <<8>>
           /\ SubSeq(<<8, m, p>>, 1, 2) = <<8, k>> <=> m = k
<1> DEFINE t == <<8, m, p>>
<1>1. t \in Seq(Nat) /\ Len(t) = 3
    OBVIOUS
<1>2. t[1] = 8 /\ t[2] = m
    OBVIOUS
<1>3. /\ <<8>> \in Seq(Nat) /\ Len(<<8>>) = 1 /\ <<8>>[1] = 8
      /\ <<8, m>> \in Seq(Nat) /\ Len(<<8, m>>) = 2 /\ <<8, m>>[1] = 8 /\ <<8, m>>[2] = m
    OBVIOUS
<1> HIDE DEF t
<1>4. /\ SubSeq(t, 1, 1) \in Seq(Nat) /\ SubSeq(t, 1, 2) \in Seq(Nat)
      /\ Len(SubSeq(t, 1, 1)) = 1 /\ Len(SubSeq(t, 1, 2)) = 2
      /\ SubSeq(t, 1, 1)[1] = 8 /\ SubSeq(t, 1, 2)[1] = 8 /\ SubSeq(t, 1, 2)[2] = m
    BY <1>1, <1>2
<1>5. SubSeq(t, 1, 1) = <<8>>
  <2> DEFINE s == SubSeq(t, 1, 1)  u == <<8>>
  <2>1. s \in Seq(Nat) /\ u \in Seq(Nat) /\ Len(s) = 1 /\ Len(u) = 1 /\ s[1] = 8 /\ u[1] = 8
      BY <1>3, <1>4
  <2> HIDE DEF s, u
  <2>2. s = u
      BY <2>1, SeqEqual
  <2> QED
      BY <2>2 DEF s, u
<1>6. SubSeq(t, 1, 2) = <<8, m>>
  <2> DEFINE s == SubSeq(t, 1, 2)  u == <<8, m>>
  <2>1. /\ s \in Seq(Nat) /\ u \in Seq(Nat) /\ Len(s) = 2 /\ Len(u) = 2
        /\ s[1] = 8 /\ u[1] = 8 /\ s[2] = m /\ u[2] = m
      BY <1>3, <1>4
  <2> HIDE DEF s, u
  <2>2. \A i \in 1 .. Len(s) : s[i] = u[i]
    <3>1. 1 .. Len(s) = {1, 2}
        BY <2>1
    <3> QED
        BY Zenon, <2>1, <3>1
  <2>3. s = u
      BY <2>1, <2>2, SeqEqual, SMTT(20)
  <2> QED
      BY <2>3 DEF s, u
<1>7. <<8, k>> = <<8, m>> <=> k = m
    OBVIOUS
<1> QED
    BY Zenon, <1>5, <1>6, <1>7 DEF t

(* The conditions of the query say what was asked for.                      *)
LEMMA FitsIsWanted ==
    ASSUME job.asked \in Asked, NEW v \in VersionUniverse
    PROVE  VersionFits(job.asked, v) <=> Wanted(v)
<1>0. /\ VersionTup(v)[2] = v.base[2]
      /\ VersionTup(v)[4] = IF v.tag = "none" THEN StableMaxRC ELSE 3
      /\ v.base[2] \in Nat
    BY Tuple, Columns, InputsOK
<1>w. job.asked.word # "" => Len(job.asked.series) # 3
  <2>1. Len(<<>>) # 3
      OBVIOUS
  <2> QED
      BY Zenon, <2>1, AskedKinds
<1>1. CASE job.asked.word = "latest-release"
  <2>1. VersionFits(job.asked, v) /\ Wanted(v)
      BY <1>1, <1>w DEF VersionFits, Wanted
  <2> QED
      BY <2>1
<1>2. CASE job.asked.word = "latest-stable"
  <2>1. /\ VersionFits(job.asked, v) <=> NotRC(v)
        /\ Wanted(v) <=> v.tag = "none"
      BY <1>2, <1>w DEF VersionFits, Wanted
  <2>2. NotRC(v) <=> v.tag = "none"
      BY <1>0 DEF NotRC, StableMaxRC
  <2> QED
      BY <2>1, <2>2
<1>3. CASE job.asked.word = "rapid"
  <2>1. /\ VersionFits(job.asked, v) <=> Rapid(v)
        /\ Wanted(v) <=> v.base[2] # 0
      BY <1>3, <1>w DEF VersionFits, Wanted
  <2>2. Rapid(v) <=> v.base[2] # 0
      BY <1>0 DEF Rapid
  <2> QED
      BY <2>1, <2>2
<1>4. CASE job.asked.word = ""
  <2>0. /\ VersionFits(job.asked, v) <=>
             \/ job.asked.exact = v
             \/ job.asked.series # <<>> /\ Len(job.asked.series) < 3
                /\ SubSeq(v.base, 1, Len(job.asked.series)) = job.asked.series
        /\ Wanted(v) <=> IF Len(job.asked.series) = 3 THEN v = job.asked.exact
                         ELSE \A i \in DOMAIN job.asked.series : v.base[i] = job.asked.series[i]
      BY <1>4 DEF VersionFits, Wanted
  <2>1. PICK m \in Nat, p \in Nat : v.base = <<8, m, p>>
      BY Columns, InputsOK
  <2>2. CASE job.asked.exact \in VersionUniverse /\ job.asked.series = job.asked.exact.base
    <3>1. PICK k \in Nat, q \in Nat : job.asked.series = <<8, k, q>>
        BY <2>2, Columns, InputsOK
    <3>2. Len(job.asked.series) = 3
        BY <3>1
    <3> QED
        BY <2>0, <3>2
  <2>3. CASE /\ job.asked.exact.base[1] = 0
             /\ job.asked.series = <<8>> \/ \E k \in Nat : job.asked.series = <<8, k>>
    <3>1. job.asked.exact # v
        BY <2>3, Columns
    <3>2. CASE job.asked.series = <<8>>
      <4>1. Len(<<8>>) = 1 /\ <<8>> # <<>> /\ DOMAIN <<8>> = {1} /\ <<8>>[1] = 8
            /\ <<8, m, p>>[1] = 8
          OBVIOUS
      <4> QED
          BY <2>0, <2>1, <3>1, <3>2, <4>1, Starts
    <3>3. CASE \E k \in Nat : job.asked.series = <<8, k>>
      <4>1. PICK k \in Nat : job.asked.series = <<8, k>>
          BY <3>3
      <4>2. /\ Len(<<8, k>>) = 2 /\ <<8, k>> # <<>> /\ DOMAIN <<8, k>> = {1, 2}
            /\ <<8, k>>[1] = 8 /\ <<8, k>>[2] = k
            /\ <<8, m, p>>[1] = 8 /\ <<8, m, p>>[2] = m
          OBVIOUS
      <4> QED
          BY <2>0, <2>1, <3>1, <4>1, <4>2, Starts
    <3> QED
        BY <2>3, <3>2, <3>3
  <2> QED
      BY <1>4, <2>2, <2>3, AskedKinds
<1> QED
    BY <1>1, <1>2, <1>3, <1>4, AskedKinds

(* A published build is the newest of the rows that fit.                   *)
LEMMA PublishedIsNewest ==
    ASSUME NEW rows \in Tables, NEW asked, NEW target,
           NEW component \in {"archive", "archive-debug", "crypt_shared"}
    PROVE  LET key == IF component = "archive-debug" THEN "archive" ELSE component
               fits == Available(rows, asked, target, key)
               build == PublishedBuild(rows, asked, target, component)
           IN IF fits = {} THEN build = NoBuild
              ELSE build # NoBuild /\ build.row \in fits
                   /\ \A s \in fits : ~Later(s.version, build.row.version)
<1> DEFINE key == IF component = "archive-debug" THEN "archive" ELSE component
           field == IF component = "archive-debug" THEN "debug_symbols" ELSE "url"
           fits == Available(rows, asked, target, key)
           build == PublishedBuild(rows, asked, target, component)
<1>1. \A r \in fits : r.version \in VersionUniverse
    BY TableRows DEF Available
<1>2. build = IF fits = {} THEN NoBuild
              ELSE [row |-> Newest(fits), url |-> field, sha256 |-> "url"]
    BY DEF PublishedBuild
<1>3. ASSUME NEW row, NEW url
      PROVE  /\ [row |-> row, url |-> url, sha256 |-> "url"] # NoBuild
             /\ [row |-> row, url |-> url, sha256 |-> "url"].row = row
  <2>1. DOMAIN [row |-> row, url |-> url, sha256 |-> "url"] # DOMAIN NoBuild
      BY DEF NoBuild
  <2> QED
      BY <2>1
<1> HIDE DEF key, field, fits, build
<1>4. CASE fits = {}
    BY <1>2, <1>4 DEF key, fits, build
<1>5. CASE fits # {}
  <2>1. Newest(fits) \in fits /\ \A s \in fits : ~Later(s.version, Newest(fits).version)
      BY <1>1, <1>5, NewestIsNewest
  <2>2. build # NoBuild /\ build.row = Newest(fits)
      BY <1>2, <1>3, <1>5
  <2>3. build # NoBuild /\ build.row \in fits
        /\ \A s \in fits : ~Later(s.version, build.row.version)
      BY Zenon, <2>1, <2>2
  <2> QED
      BY <1>5, <2>3 DEF key, fits, build
<1> QED
    BY <1>4, <1>5

(* What is chosen, fallback included, is the newest of those allowed.       *)
LEMMA ChosenIsNewest ==
    ASSUME job \in Jobs("select"),
           answer = ChooseBuild(job.rows, job.asked, job.target, job.component)
    PROVE  NewestThatFits
<1> DEFINE component == IF job.component = "archive-debug" THEN "archive" ELSE job.component
           wanted == {r \in Rows(component, job.target) : Wanted(r.version)}
           mayFallBack == component = "crypt_shared" /\ job.asked.word # "latest-release"
           allowed == IF wanted = {} /\ mayFallBack THEN Rows(component, "macos") ELSE wanted
           fits == Available(job.rows, job.asked, job.target, component)
           now == TargetNow(job.target)
           newest == Available(job.rows, LatestRelease, now, component)
           first == PublishedBuild(job.rows, job.asked, job.target, job.component)
           second == PublishedBuild(job.rows, LatestRelease, now, job.component)
<1>1. /\ job.rows \in Tables /\ job.asked \in Asked /\ job.target \in {"macos", "osx"}
      /\ job.component \in {"archive", "archive-debug", "crypt_shared"}
    BY DEF Jobs
<1>2. fits = wanted
    BY <1>1, TableRows, FitsIsWanted DEF Available, Rows
<1>3. newest = Rows(component, "macos")
  <2>1. now = "macos"
      BY <1>1 DEF TargetNow
  <2>2. \A v : VersionFits(LatestRelease, v)
      BY DEF VersionFits, LatestRelease
  <2> QED
      BY <2>1, <2>2 DEF Available, Rows
<1>4. answer = IF first = NoBuild /\ job.component = "crypt_shared"
                  /\ job.asked.word # "latest-release" THEN second ELSE first
    BY DEF ChooseBuild
<1>5. IF fits = {} THEN first = NoBuild
      ELSE first # NoBuild /\ first.row \in fits
           /\ \A s \in fits : ~Later(s.version, first.row.version)
    BY <1>1, PublishedIsNewest
<1>6. IF newest = {} THEN second = NoBuild
      ELSE second # NoBuild /\ second.row \in newest
           /\ \A s \in newest : ~Later(s.version, second.row.version)
    BY <1>1, PublishedIsNewest
<1>7. mayFallBack <=> job.component = "crypt_shared" /\ job.asked.word # "latest-release"
    BY <1>1
<1>8. allowed = IF wanted = {} /\ mayFallBack THEN Rows(component, "macos") ELSE wanted
    OBVIOUS
<1>9. NewestThatFits <=>
         (Done("select") => IF allowed = {} THEN answer = NoBuild
                            ELSE answer # NoBuild /\ answer.row \in allowed
                                 /\ \A r \in allowed : ~Later(r.version, answer.row.version))
    BY Zenon DEF NewestThatFits
<1> HIDE DEF component, wanted, mayFallBack, allowed, fits, now, newest, first, second
<1>10. CASE wanted = {} /\ mayFallBack
  <2>1. answer = second /\ allowed = newest
      BY <1>2, <1>3, <1>4, <1>5, <1>7, <1>8, <1>10
  <2> QED
      BY Zenon, <1>6, <1>9, <2>1
<1>11. CASE ~(wanted = {} /\ mayFallBack)
  <2>1. answer = first /\ allowed = fits
      BY <1>2, <1>4, <1>5, <1>7, <1>8, <1>11
  <2> QED
      BY Zenon, <1>5, <1>9, <2>1
<1> QED
    BY <1>10, <1>11

(* A job is of its kind.                                                    *)
LEMMA Kinds ==
    ASSUME NEW kind \in {"extract", "cluster", "ocsp", "select"}, NEW j \in Jobs(kind)
    PROVE  j.kind = kind
<1>1. CASE kind = "extract"
    BY <1>1 DEF Jobs, PathJobs
<1>2. CASE kind = "cluster"
  <2>1. \A t, p, m, s, r, l : FileOf(t, p, m, s, r, l).kind = "cluster"
      BY DEF FileOf
  <2>2. Jobs("cluster") = ClusterJobs
      BY DEF Jobs
  <2>3. \E t, p, m, s, r, l : j = FileOf(t, p, m, s, r, l)
      BY <1>2, <2>2 DEF ClusterJobs
  <2> QED
      BY <1>2, <2>1, <2>3
<1>3. CASE kind = "ocsp"
    BY <1>3 DEF Jobs, OcspJobs
<1>4. CASE kind = "select"
    BY <1>4 DEF Jobs
<1> QED
    BY <1>1, <1>2, <1>3, <1>4

-----------------------------------------------------------------------------
(* What is known of a job and its answer, for each kind that is proved      *)
(* about.                                                                   *)
Chosen ==
    job.kind = "select" =>
        /\ job \in Jobs("select")
        /\ answer # NotYet => answer = ChooseBuild(job.rows, job.asked, job.target, job.component)
Concluded ==
    job.kind = "ocsp" =>
        /\ job \in OcspJobs
        /\ answer # NotYet =>
              answer = Handle(job.request, ServerFor(job), job.from, job.from + job.took)
Extracted ==
    job.kind = "extract" =>
        /\ job \in PathJobs
        /\ answer # NotYet =>
              answer = MaybeExtract(job.path, job.pattern, job.strip, job.dir, job.test)
Translated == job.kind = "cluster" =>
    job \in ClusterJobs /\ (answer # NotYet => answer = GetClusterOptions(job))
AnswersAre == Chosen /\ Concluded /\ Extracted /\ Translated

(* An answer is the algorithm's, to a job of its kind.                      *)
LEMMA Answers == Spec => []AnswersAre
<1>1. Init => AnswersAre
  <2> SUFFICES ASSUME Init PROVE AnswersAre
      OBVIOUS
  <2>1. PICK kind \in {"extract", "cluster", "ocsp", "select"} : job \in Jobs(kind)
      BY DEF Init
  <2>2. job.kind = kind /\ answer = NotYet
      BY <2>1, Kinds DEF Init
  <2>3. Jobs("ocsp") = OcspJobs /\ Jobs("extract") = PathJobs /\ Jobs("cluster") = ClusterJobs
      BY DEF Jobs
  <2> QED
      BY Zenon, <2>1, <2>2, <2>3 DEF AnswersAre, Chosen, Concluded, Extracted, Translated
<1>2. AnswersAre /\ [Next]_vars => AnswersAre'
  <2> SUFFICES ASSUME Chosen, Concluded, Extracted, Translated, [Next]_vars
               PROVE  AnswersAre'
      BY DEF AnswersAre
  <2> USE DEF AnswersAre, Chosen, Concluded, Extracted, Translated
  <2>1. CASE Select
      BY <2>1, "select" # "ocsp" DEF Select, Jobs
  <2>2. CASE Extract
      BY <2>2 DEF Extract, PathJobs
  <2>3. CASE Translate
      BY <2>3 DEF Translate
  <2>4. CASE Respond
      BY <2>4 DEF Respond, ServerFor, OcspJobs
  <2>5. CASE UNCHANGED vars
      BY <2>5 DEF vars, ServerFor, Jobs, OcspJobs, PathJobs
  <2> QED
      BY <2>1, <2>2, <2>3, <2>4, <2>5 DEF Next
<1> QED
    BY <1>1, <1>2, PTL DEF Spec

(* mongodl takes the newest row of those asked for, and another version     *)
(* than asked only for crypt_shared.                                        *)
THEOREM NewestChosen == Spec => []NewestThatFits
<1>1. Chosen => NewestThatFits
    BY Zenon, ChosenIsNewest DEF Chosen, NewestThatFits, Done
<1> QED
    BY <1>1, Answers, PTL DEF AnswersAre

-----------------------------------------------------------------------------
(* A job for the OCSP responder, taken apart.                               *)
LEMMA OcspJob ==
    ASSUME job \in OcspJobs
    PROVE  /\ job.type \in Types /\ job.seconds \in Nat \ {0} /\ job.from \in Nat
           /\ job.took \in 0 .. 2
           /\ job.request.host \in BOOLEAN
           /\ DOMAIN job.request.extensions \in SUBSET (0 .. Items)
           /\ \A i \in DOMAIN job.request.extensions : job.request.extensions[i] \in Extension
<1>1. /\ job.type \in Types /\ job.seconds \in 1 .. Validity /\ job.from \in 0 .. Noon
      /\ job.took \in 0 .. Delay /\ job.request.host \in BOOLEAN
      /\ job.request.extensions \in SeqsUpTo(Extension, Items)
    BY DEF OcspJobs
<1>2. PICK k \in 0 .. Items : job.request.extensions \in [1 .. k -> Extension]
    BY <1>1 DEF SeqsUpTo
<1>3. 1 .. k \in SUBSET (0 .. Items)
    BY InputsOK
<1> QED
    BY <1>1, <1>2, <1>3, InputsOK

(* The nonce of the answer is the last that was sent, and none without one. *)
LEMMA NonceIsSent ==
    ASSUME job \in OcspJobs
    PROVE  NonceOf(job.request.extensions) # "" <=> Sent("n")
<1> DEFINE exts == job.request.extensions
<1>1. /\ DOMAIN exts \in SUBSET (0 .. Items)
      /\ \A i \in DOMAIN exts : exts[i].value = "n"
    BY OcspJob DEF Extension
<1>2. Nonces(exts) \in SUBSET (0 .. Items)
    BY <1>1 DEF Nonces
<1>3. Sent("n") <=> Nonces(exts) # {}
    BY <1>1 DEF Sent, Nonces
<1>4. CASE Nonces(exts) = {}
    BY <1>3, <1>4 DEF NonceOf
<1>5. CASE Nonces(exts) # {}
  <2>1. Max(Nonces(exts)) \in Nonces(exts)
      BY <1>2, <1>5, Greatest, InputsOK DEF Max
  <2>2. exts[Max(Nonces(exts))].value = "n"
      BY <1>1, <2>1 DEF Nonces
  <2> QED
      BY <1>3, <1>5, <2>2 DEF NonceOf
<1> QED
    BY <1>4, <1>5

(* A response that is made before its validity is over is still valid then.  *)
LEMMA StillValid ==
    ASSUME NEW from \in Nat, NEW took \in 0 .. 2, NEW seconds \in Nat \ {0}
    PROVE  /\ Seconds(from + took) <= Seconds(from + took)
           /\ Seconds(from + took) <= Seconds(from + 2 * seconds)
    BY DEF Seconds

(* What is concluded from the answer to a request that is understood.       *)
LEMMA AnswerIsSound ==
    ASSUME job \in OcspJobs, job.request.host, job.request.serials # <<>>, ~Strange,
           answer = Handle(job.request, ServerFor(job), job.from, job.from + job.took)
    PROVE  /\ Verdict(answer, job.from + job.took)
                = IF job.type \in {"valid", "valid-delegate"} THEN "good" ELSE "revoked"
           /\ answer.nonce # "" <=> Sent("n")
<1> DEFINE at == job.from + job.took
           server == ServerFor(job)
           serial == job.request.serials[1]
           nonce == NonceOf(job.request.extensions)
<1>1. ~ \E i \in DOMAIN job.request.extensions : UnknownCritical(job.request.extensions[i])
    BY OcspJob DEF Strange, UnknownCritical, Extension
<1>2. answer = Build(serial, Validate(server), nonce, server, job.from, at)
    BY <1>1 DEF Handle, BuildOcspResponse
<1>3. /\ server.seconds = job.seconds
      /\ server.fault = IF job.type \in {"revoked", "revoked-delegate"} THEN "revoked" ELSE "none"
      /\ server.delegate = (job.type \in {"valid-delegate", "revoked-delegate"})
    BY DEF ServerFor, ServerOf
<1>4. /\ answer.status = "successful"
      /\ answer.certId = [hash |-> "sha1", issuer |-> "CA", serial |-> serial]
      /\ answer.certStatus = CertStatus(Validate(server))
      /\ answer.responder = IF server.delegate THEN "delegate" ELSE "CA"
      /\ answer.signedBy = IF server.delegate THEN "delegate" ELSE "CA"
      /\ answer.certs = Certs(server)
      /\ answer.nonce = nonce
      /\ answer.thisUpdate = Seconds(at)
      /\ answer.nextUpdate = Seconds(job.from + 2 * server.seconds)
    BY <1>2 DEF Build
<1>5. Signed(answer) /\ answer.responder = answer.signedBy
    BY <1>4 DEF Signed, Certs
<1>6. answer.thisUpdate <= Seconds(at) /\ Seconds(at) <= answer.nextUpdate
    BY <1>3, <1>4, OcspJob, StillValid
<1>7. answer.certStatus.name
        = IF job.type \in {"valid", "valid-delegate"} THEN "good" ELSE "revoked"
  <2>1. CASE job.type \in {"valid", "valid-delegate"}
    <3>1. Validate(server) = "good"
        BY <1>3, <2>1 DEF Validate
    <3> QED
        BY <1>4, <2>1, <3>1 DEF CertStatus
  <2>2. CASE job.type \in {"revoked", "revoked-delegate"}
    <3>1. Validate(server) = "revoked"
        BY <1>3, <2>2 DEF Validate
    <3> QED
        BY <1>4, <2>2, <3>1 DEF CertStatus
  <2> QED
      BY <2>1, <2>2, OcspJob DEF Types
<1>8. Verdict(answer, at) = answer.certStatus.name
    BY <1>4, <1>5, <1>6 DEF Verdict
<1> QED
    BY <1>4, <1>7, <1>8, NonceIsSent

(* A client that asks the responder concludes what SERVER_TYPE promises,    *)
(* from an answer to its own nonce that is still valid; a request that      *)
(* cannot be understood gets no status.                                     *)
THEOREM Concludes == Spec => []ClientConcludes
<1>1. ASSUME Concluded, Done("ocsp") PROVE ClientConcludes
  <2>1. /\ job \in OcspJobs
        /\ answer = Handle(job.request, ServerFor(job), job.from, job.from + job.took)
      BY <1>1 DEF Concluded, Done
  <2>2. CASE ~job.request.host \/ job.request.serials = <<>> \/ Strange
    <3>1. \E status : answer = Error(status) /\ status # "successful"
        BY <2>1, <2>2, OcspJob
           DEF Handle, BuildOcspResponse, Strange, UnknownCritical
    <3>2. Verdict(answer, job.from + job.took) = "none"
        BY <3>1 DEF Verdict, Error
    <3> QED
        BY <2>2, <3>2 DEF ClientConcludes
  <2>3. CASE ~(~job.request.host \/ job.request.serials = <<>> \/ Strange)
      BY Zenon, <2>1, <2>3, AnswerIsSound DEF ClientConcludes
  <2> QED
      BY <2>2, <2>3
<1>2. Concluded => ClientConcludes
    BY Zenon, <1>1 DEF ClientConcludes
<1> QED
    BY <1>2, Answers, PTL DEF AnswersAre

-----------------------------------------------------------------------------
(* What it is for a name, or some of them, to take a part of a pattern.     *)
Takes(path, pattern, l, a, b) ==
    /\ a <= Len(path)
    /\ IF pattern[l] = "**" THEN b \in a .. Len(path)
       ELSE b = a + 1 /\ pattern[l] \in {"*", path[a]}

(* An alignment of the path from its i-th name with the pattern from its    *)
(* k-th part.                                                              *)
Aligned(path, pattern, k, i, at) ==
    at[k] = i /\ \A l \in k .. Len(pattern) : Takes(path, pattern, l, at[l], at[l + 1])
Alignments(path, pattern, k) ==
    [k .. Len(pattern) + 1 -> 1 .. Len(path) + 1]

(* An alignment is what its first part takes and an alignment of the rest.  *)
LEMMA AlignedFurther ==
    ASSUME NEW path, NEW pattern, Len(path) \in Nat, Len(pattern) \in Nat,
           NEW k \in 1 .. Len(pattern), NEW i \in 1 .. Len(path) + 1
    PROVE  (\E at \in Alignments(path, pattern, k) : Aligned(path, pattern, k, i, at))
             <=> \E j \in 1 .. Len(path) + 1 :
                   /\ Takes(path, pattern, k, i, j)
                   /\ \E at \in Alignments(path, pattern, k + 1) :
                        Aligned(path, pattern, k + 1, j, at)
<1>1. ASSUME NEW at \in Alignments(path, pattern, k), Aligned(path, pattern, k, i, at)
      PROVE  \E j \in 1 .. Len(path) + 1 :
                /\ Takes(path, pattern, k, i, j)
                /\ \E bt \in Alignments(path, pattern, k + 1) :
                     Aligned(path, pattern, k + 1, j, bt)
  <2> DEFINE bt == [l \in k + 1 .. Len(pattern) + 1 |-> at[l]]
  <2>1. at[k + 1] \in 1 .. Len(path) + 1
      BY DEF Alignments
  <2>2. Takes(path, pattern, k, i, at[k + 1])
      BY <1>1 DEF Aligned
  <2>3. bt \in Alignments(path, pattern, k + 1)
      BY DEF Alignments
  <2>4. bt[k + 1] = at[k + 1]
      OBVIOUS
  <2>5. ASSUME NEW l \in k + 1 .. Len(pattern) PROVE Takes(path, pattern, l, bt[l], bt[l + 1])
    <3>1. bt[l] = at[l] /\ bt[l + 1] = at[l + 1] /\ l \in k .. Len(pattern)
        OBVIOUS
    <3> QED
        BY <1>1, <3>1 DEF Aligned
  <2> HIDE DEF bt
  <2> QED
      BY <2>1, <2>2, <2>3, <2>4, <2>5 DEF Aligned
<1>2. ASSUME NEW j \in 1 .. Len(path) + 1, Takes(path, pattern, k, i, j),
             NEW bt \in Alignments(path, pattern, k + 1),
             Aligned(path, pattern, k + 1, j, bt)
      PROVE  \E at \in Alignments(path, pattern, k) : Aligned(path, pattern, k, i, at)
  <2> DEFINE at == [l \in k .. Len(pattern) + 1 |-> IF l = k THEN i ELSE bt[l]]
  <2>1. at \in Alignments(path, pattern, k)
      BY DEF Alignments
  <2>2. at[k] = i /\ at[k + 1] = j
      BY <1>2 DEF Aligned
  <2>3. ASSUME NEW l \in k .. Len(pattern) PROVE Takes(path, pattern, l, at[l], at[l + 1])
    <3>1. CASE l = k
        BY <1>2, <2>2, <3>1
    <3>2. CASE l # k
      <4>1. l \in k + 1 .. Len(pattern) /\ at[l] = bt[l] /\ at[l + 1] = bt[l + 1]
          BY <3>2
      <4> QED
          BY <1>2, <4>1 DEF Aligned
    <3> QED
        BY <3>1, <3>2
  <2> HIDE DEF at
  <2> QED
      BY <2>1, <2>2, <2>3 DEF Aligned
<1> QED
    BY <1>1, <1>2

(* The recursion of _test_pattern finds the alignments.                     *)
LEMMA TestsAlignment ==
    ASSUME NEW path, NEW pattern, Len(path) \in Nat, Len(pattern) \in Nat
    PROVE  TestPattern(path, pattern)
             <=> \E at \in Alignments(path, pattern, 1) : Aligned(path, pattern, 1, 1, at)
<1> DEFINE n == Len(path)
           m == Len(pattern)
           row(k, rest) == IF k > m THEN 1 .. n + 1
                           ELSE {i \in 1 .. n :
                                   IF pattern[k] = "**" THEN \E j \in Tails(i, n) : j \in rest
                                   ELSE NameFits(path[i], pattern[k]) /\ i + 1 \in rest}
           Rec(f) == f = [k \in 1 .. m + 1 |-> row(k, f[k + 1])]
           fits == CHOOSE f : Rec(f)
           reach(k) == {i \in 1 .. n + 1 : \E at \in Alignments(path, pattern, k) :
                                             Aligned(path, pattern, k, i, at)}
           g == [k \in 1 .. m + 1 |-> reach(k)]
<1>1. TestPattern(path, pattern) <=> 1 \in fits[1]
    BY DEF TestPattern
<1>2. ASSUME NEW k \in 1 .. m PROVE reach(k) = row(k, reach(k + 1))
  <2>1. ~(k > m)
      OBVIOUS
  <2>2. ASSUME NEW i \in 1 .. n + 1
        PROVE  i \in reach(k) <=> i \in row(k, reach(k + 1))
    <3>1. i \in reach(k) <=> \E j \in reach(k + 1) : Takes(path, pattern, k, i, j)
        BY AlignedFurther
    <3>2. i \in row(k, reach(k + 1)) <=>
             i <= n /\ IF pattern[k] = "**" THEN \E j \in i .. n : j \in reach(k + 1)
                       ELSE pattern[k] \in {"*", path[i]} /\ i + 1 \in reach(k + 1)
        BY <2>1 DEF Tails, NameFits
    <3> HIDE DEF reach, row
    <3> QED
        BY <3>1, <3>2 DEF Takes
  <2>3. reach(k) \subseteq 1 .. n + 1 /\ row(k, reach(k + 1)) \subseteq 1 .. n + 1
      BY <2>1
  <2> HIDE DEF reach, row
  <2> QED
      BY <2>2, <2>3
<1>3. reach(m + 1) = 1 .. n + 1
  <2>1. ASSUME NEW i \in 1 .. n + 1
        PROVE  \E at \in Alignments(path, pattern, m + 1) : Aligned(path, pattern, m + 1, i, at)
    <3> DEFINE at == [l \in m + 1 .. m + 1 |-> i]
    <3>1. at \in Alignments(path, pattern, m + 1) /\ Aligned(path, pattern, m + 1, i, at)
        BY DEF Alignments, Aligned
    <3> QED
        BY <3>1
  <2> QED
      BY <2>1
<1>4. Rec(g)
  <2>1. ASSUME NEW k \in 1 .. m + 1 PROVE g[k] = row(k, g[k + 1])
    <3>1. CASE k = m + 1
      <4>1. row(k, g[k + 1]) = 1 .. n + 1
          BY <3>1
      <4>2. g[k] = 1 .. n + 1
          BY <1>3, <3>1
      <4> QED
          BY <4>1, <4>2
    <3>2. CASE k \in 1 .. m
      <4>1. g[k] = reach(k) /\ g[k + 1] = reach(k + 1)
          BY <3>2
      <4> HIDE DEF g, reach, row
      <4> QED
          BY <1>2, <3>2, <4>1
    <3>3. k = m + 1 \/ k \in 1 .. m
        OBVIOUS
    <3> HIDE DEF g, row
    <3> QED
        BY <3>1, <3>2, <3>3
  <2>2. g = [k \in 1 .. m + 1 |-> g[k]]
      OBVIOUS
  <2> HIDE DEF g, row
  <2> QED
      BY <2>1, <2>2
<1>5. Rec(fits)
    BY Zenon, <1>4
<1>6. ASSUME NEW f, Rec(f), NEW k \in 1 .. m + 1
      PROVE  f[k] = row(k, f[k + 1])
  <2> HIDE DEF row
  <2> QED
      BY <1>6
<1> HIDE DEF g, fits, reach
<1>7. \A k \in 1 .. m + 1 : fits[k] = g[k]
  <2> DEFINE wrong == {k \in 1 .. m + 1 : fits[k] # g[k]}
  <2>1. SUFFICES ASSUME wrong # {} PROVE FALSE
      OBVIOUS
  <2>2. wrong \in SUBSET (0 .. m + 1) /\ m + 1 \in Nat
      OBVIOUS
  <2>3. PICK k \in wrong : \A l \in wrong : l <= k
      BY <2>1, <2>2, Greatest
  <2>4. fits[k] = row(k, fits[k + 1]) /\ g[k] = row(k, g[k + 1])
      BY <1>4, <1>5, <1>6
  <2>5. CASE k = m + 1
    <3>1. row(k, fits[k + 1]) = row(k, g[k + 1])
        BY <2>5
    <3> QED
        BY <2>3, <2>4, <3>1
  <2>6. CASE k \in 1 .. m
    <3>1. fits[k + 1] = g[k + 1]
        BY <2>3, <2>6
    <3> QED
        BY <2>3, <2>4, <3>1
  <2> QED
      BY <2>5, <2>6
<1>8. 1 \in 1 .. m + 1 /\ 1 \in 1 .. n + 1
    OBVIOUS
<1>9. fits[1] = reach(1)
    BY <1>7, <1>8 DEF g
<1> QED
    BY <1>1, <1>8, <1>9 DEF reach

(* A function on the first numbers is a sequence.                           *)
LEMMA FunctionIsSeq ==
    ASSUME NEW n \in Nat, NEW T, NEW s \in [1 .. n -> T]
    PROVE  s \in Seq(T) /\ Len(s) = n /\ DOMAIN s = 1 .. n
    OBVIOUS

(* A member of SeqsUpTo is a sequence.                                      *)
LEMMA SeqsAre ==
    ASSUME NEW S, NEW n \in Nat, NEW s \in SeqsUpTo(S, n)
    PROVE  s \in Seq(S) /\ DOMAIN s = 1 .. Len(s) /\ Len(s) \in 0 .. n
<1>1. PICK k \in 0 .. n : s \in [1 .. k -> S]
    BY Zenon DEF SeqsUpTo
<1>2. k \in Nat
    OBVIOUS
<1> QED
    BY <1>1, <1>2, FunctionIsSeq

(* A path that lines up with a pattern, to whatever name.                   *)
LinesUp(path, pattern) ==
    \E at \in [1 .. Len(pattern) + 1 -> 1 .. Len(path) + 1] :
        /\ at[1] = 1
        /\ \A k \in DOMAIN pattern :
             /\ at[k] <= Len(path)
             /\ IF pattern[k] = "**"
                THEN at[k + 1] \in at[k] .. Len(path)
                ELSE at[k + 1] = at[k] + 1 /\ pattern[k] \in {"*", path[at[k]]}

(* What _test_pattern accepts is what lines up.                             *)
LEMMA TestsWhatLinesUp ==
    ASSUME NEW S, NEW T, NEW path \in Seq(S), NEW pattern \in Seq(T)
    PROVE  TestPattern(path, pattern) <=> LinesUp(path, pattern)
<1>1. /\ Len(path) \in Nat /\ Len(pattern) \in Nat
      /\ DOMAIN pattern = 1 .. Len(pattern)
    OBVIOUS
<1>2. ASSUME NEW at \in Alignments(path, pattern, 1)
      PROVE  Aligned(path, pattern, 1, 1, at) <=>
               /\ at[1] = 1
               /\ \A k \in DOMAIN pattern :
                    /\ at[k] <= Len(path)
                    /\ IF pattern[k] = "**"
                       THEN at[k + 1] \in at[k] .. Len(path)
                       ELSE at[k + 1] = at[k] + 1 /\ pattern[k] \in {"*", path[at[k]]}
    BY Zenon, <1>1 DEF Aligned, Takes
<1> QED
    BY <1>1, <1>2, TestsAlignment DEF LinesUp, Alignments

(* A path lines up when the pattern matches its first names: what "**" at    *)
(* the end of a pattern stands for may as well be all that is left.         *)
LEMMA LinesUpToAName ==
    ASSUME NEW S, NEW T, NEW path \in Seq(S), NEW pattern \in Seq(T)
    PROVE  LinesUp(path, pattern) <=> \E n \in 0 .. Len(path) : Matches(n, path, pattern)
<1> DEFINE m == Len(pattern)
           N == Len(path)
<1>0. m \in Nat /\ N \in Nat /\ DOMAIN pattern = 1 .. m
    OBVIOUS
<1> HIDE DEF m, N
<1>1. ASSUME NEW at \in [1 .. m + 1 -> 1 .. N + 1], at[1] = 1,
             \A k \in 1 .. m :
               /\ at[k] <= N
               /\ IF pattern[k] = "**"
                  THEN at[k + 1] \in at[k] .. N
                  ELSE at[k + 1] = at[k] + 1 /\ pattern[k] \in {"*", path[at[k]]}
      PROVE  \E n \in 0 .. N : Matches(n, path, pattern)
  <2>1. CASE m = 0
    <3> DEFINE bt == [k \in 1 .. m + 1 |-> 1]
    <3>1. bt \in [1 .. m + 1 -> 1 .. 0 + 1] /\ bt[1] = 1 /\ bt[m + 1] = 0 + 1
        BY <1>0, <2>1
    <3>2. 1 .. m = {}
        BY <2>1
    <3> HIDE DEF bt
    <3>3. Matches(0, path, pattern)
        BY <1>0, <3>1, <3>2 DEF Matches, m
    <3> QED
        BY <1>0, <3>3
  <2>2. CASE m > 0 /\ pattern[m] = "**"
    <3> DEFINE bt == [k \in 1 .. m + 1 |-> IF k = m + 1 THEN N + 1 ELSE at[k]]
    <3>1. bt \in [1 .. m + 1 -> 1 .. N + 1] /\ bt[1] = 1 /\ bt[m + 1] = N + 1
        BY <1>0, <1>1, <2>2
    <3>2. \A k \in 1 .. m : bt[k] = at[k]
        BY <1>0
    <3>3. \A k \in 1 .. m : k # m => bt[k + 1] = at[k + 1]
        BY <1>0
    <3> HIDE DEF bt
    <3>4. ASSUME NEW k \in 1 .. m
          PROVE  /\ bt[k] <= N
                 /\ IF pattern[k] = "**" THEN bt[k + 1] >= bt[k]
                    ELSE bt[k + 1] = bt[k] + 1 /\ pattern[k] \in {"*", path[bt[k]]}
      <4>1. k \in 1 .. m + 1 /\ k + 1 \in 1 .. m + 1
          BY <1>0
      <4>2. at[k] \in 1 .. N + 1 /\ at[k + 1] \in 1 .. N + 1
          BY <4>1
      <4>3. CASE k = m
          BY <1>0, <1>1, <2>2, <3>1, <3>2, <4>2, <4>3
      <4>4. CASE k # m
          BY <1>0, <1>1, <3>2, <3>3, <4>2, <4>4
      <4> QED
          BY <4>3, <4>4
    <3>5. Matches(N, path, pattern)
        BY <1>0, <3>1, <3>4 DEF Matches, m
    <3> QED
        BY <1>0, <3>5
  <2>3. CASE m > 0 /\ pattern[m] # "**"
    <3> DEFINE n == at[m]
               wrong == {k \in 1 .. m : at[k] > n}
    <3>1. m \in 1 .. m /\ m \in 1 .. m + 1 /\ 1 \in 1 .. m
        BY <1>0, <2>3
    <3>2. n \in 1 .. N /\ at[m + 1] = n + 1
      <4>1. n \in 1 .. N + 1 /\ n <= N /\ at[m + 1] = n + 1
          BY <1>1, <2>3, <3>1
      <4> QED
          BY <1>0, <4>1
    <3>3. \A k \in 1 .. m : at[k] \in 1 .. N + 1 /\ at[k + 1] \in 1 .. N + 1 /\ at[k + 1] >= at[k]
      <4> SUFFICES ASSUME NEW k \in 1 .. m
                   PROVE  at[k] \in 1 .. N + 1 /\ at[k + 1] \in 1 .. N + 1 /\ at[k + 1] >= at[k]
          OBVIOUS
      <4>1. k \in 1 .. m + 1 /\ k + 1 \in 1 .. m + 1
          BY <1>0
      <4>2. at[k] \in 1 .. N + 1 /\ at[k + 1] \in 1 .. N + 1
          BY <4>1
      <4> QED
          BY <1>0, <1>1, <4>2
    <3> HIDE DEF n
    <3>4. wrong = {}
      <4>1. SUFFICES ASSUME wrong # {} PROVE FALSE
          OBVIOUS
      <4>2. wrong \in SUBSET (0 .. m)
          BY <1>0
      <4>3. PICK k \in wrong : \A l \in wrong : l <= k
          BY <1>0, <4>1, <4>2, Greatest
      <4>4. k \in 1 .. m /\ at[k] > n
          BY <4>3
      <4>5. k # m
          BY <3>2, <4>4 DEF n
      <4>6. k + 1 \in 1 .. m /\ ~(k + 1 <= k)
          BY <1>0, <4>4, <4>5
      <4>7. at[k + 1] > n
          BY <1>0, <3>2, <3>3, <4>4
      <4> QED
          BY <4>3, <4>6, <4>7
    <3>5. \A k \in 1 .. m : at[k] <= n
      <4> SUFFICES ASSUME NEW k \in 1 .. m PROVE at[k] <= n
          OBVIOUS
      <4>1. ~(at[k] > n) /\ at[k] \in 1 .. N + 1
          BY <3>3, <3>4
      <4> QED
          BY <1>0, <3>2, <4>1
    <3> HIDE DEF wrong
    <3>6. at \in [1 .. m + 1 -> 1 .. n + 1]
      <4>1. ASSUME NEW k \in 1 .. m + 1 PROVE at[k] \in 1 .. n + 1
        <5>1. CASE k = m + 1
            BY <1>0, <3>2, <5>1
        <5>2. CASE k # m + 1
          <6>1. k \in 1 .. m
              BY <1>0, <5>2
          <6>2. at[k] <= n /\ at[k] \in 1 .. N + 1
              BY <3>3, <3>5, <6>1
          <6> QED
              BY <1>0, <3>2, <6>2
        <5> QED
            BY <5>1, <5>2
      <4> QED
          BY <4>1
    <3>7. \A k \in 1 .. m :
             /\ at[k] <= n
             /\ IF pattern[k] = "**" THEN at[k + 1] >= at[k]
                ELSE at[k + 1] = at[k] + 1 /\ pattern[k] \in {"*", path[at[k]]}
        BY <1>1, <3>3, <3>5
    <3>8. Matches(n, path, pattern)
        BY <1>0, <1>1, <3>2, <3>6, <3>7 DEF Matches, m
    <3> QED
        BY <1>0, <3>2, <3>8
  <2> QED
      BY <1>0, <2>1, <2>2, <2>3
<1>2. ASSUME NEW n \in 0 .. N, NEW at \in [1 .. m + 1 -> 1 .. n + 1], at[1] = 1,
             \A k \in 1 .. m :
               /\ at[k] <= n
               /\ IF pattern[k] = "**" THEN at[k + 1] >= at[k]
                  ELSE at[k + 1] = at[k] + 1 /\ pattern[k] \in {"*", path[at[k]]}
      PROVE  LinesUp(path, pattern)
  <2> DEFINE bt == [k \in 1 .. m + 1 |-> IF k = m + 1 /\ m > 0 /\ pattern[m] = "**"
                                        THEN at[m] ELSE at[k]]
  <2>1. n \in Nat /\ n <= N
      BY <1>0
  <2>2. \A k \in 1 .. m : at[k] \in 1 .. n + 1 /\ at[k + 1] \in 1 .. n + 1
    <3> SUFFICES ASSUME NEW k \in 1 .. m
                 PROVE  at[k] \in 1 .. n + 1 /\ at[k + 1] \in 1 .. n + 1
        OBVIOUS
    <3>1. k \in 1 .. m + 1 /\ k + 1 \in 1 .. m + 1
        BY <1>0
    <3> QED
        BY <3>1
  <2>3. bt \in [1 .. m + 1 -> 1 .. N + 1]
    <3>1. ASSUME NEW k \in 1 .. m + 1 PROVE bt[k] \in 1 .. n + 1
      <4>1. m > 0 => m \in 1 .. m + 1
          BY <1>0
      <4> QED
          BY <4>1
    <3>2. 1 .. n + 1 \subseteq 1 .. N + 1
        BY <1>0, <2>1
    <3> QED
        BY <3>1, <3>2
  <2>4. \A k \in 1 .. m : bt[k] = at[k]
      BY <1>0
  <2>5. bt[1] = 1
    <3>1. 1 \in 1 .. m + 1 /\ (m > 0 => 1 # m + 1)
        BY <1>0
    <3> QED
        BY <1>2, <3>1
  <2>6. \A k \in 1 .. m :
          bt[k + 1] = IF k = m /\ pattern[m] = "**" THEN at[m] ELSE at[k + 1]
      BY <1>0
  <2> HIDE DEF bt
  <2>7. ASSUME NEW k \in 1 .. m
        PROVE  /\ bt[k] <= N
               /\ IF pattern[k] = "**" THEN bt[k + 1] \in bt[k] .. N
                  ELSE bt[k + 1] = bt[k] + 1 /\ pattern[k] \in {"*", path[bt[k]]}
    <3>1. at[k] <= N
        BY <1>0, <1>2, <2>1, <2>2
    <3>2. CASE pattern[k] # "**"
      <4>1. bt[k + 1] = at[k + 1]
          BY <2>6, <3>2
      <4> QED
          BY <1>2, <2>4, <3>1, <3>2, <4>1
    <3>3. CASE pattern[k] = "**" /\ k = m
      <4>1. bt[k + 1] = at[k] /\ bt[k] = at[k]
          BY <2>4, <2>6, <3>3
      <4> QED
          BY <1>0, <2>2, <3>1, <3>3, <4>1
    <3>4. CASE pattern[k] = "**" /\ k # m
      <4>1. bt[k + 1] = at[k + 1] /\ bt[k] = at[k]
          BY <2>4, <2>6, <3>4
      <4>2. k + 1 \in 1 .. m
          BY <1>0, <3>4
      <4>3. at[k + 1] <= n /\ at[k + 1] >= at[k]
          BY <1>2, <3>4, <4>2
      <4> QED
          BY <1>0, <2>1, <2>2, <3>1, <3>4, <4>1, <4>3
    <3> QED
        BY <3>2, <3>3, <3>4
  <2> QED
      BY <1>0, <2>3, <2>5, <2>7 DEF LinesUp, m, N
<1>3. LinesUp(path, pattern) => \E n \in 0 .. N : Matches(n, path, pattern)
  <2> SUFFICES ASSUME LinesUp(path, pattern)
               PROVE  \E n \in 0 .. N : Matches(n, path, pattern)
      OBVIOUS
  <2>1. PICK at \in [1 .. m + 1 -> 1 .. N + 1] :
          /\ at[1] = 1
          /\ \A k \in 1 .. m :
               /\ at[k] <= N
               /\ IF pattern[k] = "**" THEN at[k + 1] \in at[k] .. N
                  ELSE at[k + 1] = at[k] + 1 /\ pattern[k] \in {"*", path[at[k]]}
      BY Zenon, <1>0 DEF LinesUp, m, N
  <2> QED
      BY Zenon, <1>1, <2>1
<1>4. ASSUME NEW n \in 0 .. N, Matches(n, path, pattern) PROVE LinesUp(path, pattern)
  <2>1. PICK at \in [1 .. m + 1 -> 1 .. n + 1] :
          /\ at[1] = 1
          /\ \A k \in 1 .. m :
               /\ at[k] <= n
               /\ IF pattern[k] = "**" THEN at[k + 1] >= at[k]
                  ELSE at[k + 1] = at[k] + 1 /\ pattern[k] \in {"*", path[at[k]]}
      BY Zenon, <1>0, <1>4 DEF Matches, m
  <2> QED
      BY Zenon, <1>2, <2>1
<1> QED
    BY Zenon, <1>3, <1>4 DEF N

(* A member is extracted exactly when a name is left of its path and the     *)
(* pattern matches it or a directory it lies in, to where the path leads     *)
(* without its first names, and in a test nothing is made.                  *)
THEOREM ExtractedAsMatched == Spec => []ExtractsWhatMatches
<1>1. ASSUME Extracted, Done("extract") PROVE ExtractsWhatMatches
  <2>1. /\ job \in PathJobs
        /\ answer = MaybeExtract(job.path, job.pattern, job.strip, job.dir, job.test)
      BY <1>1 DEF Extracted, Done
  <2>2. /\ job.path \in Seq({"a", "b"}) /\ job.pattern \in Seq({"a", "*", "**"})
        /\ job.strip \in 0 .. 2 /\ job.test \in BOOLEAN
      BY <2>1, SeqsAre, InputsOK DEF PathJobs
  <2> DEFINE fits == \E n \in 0 .. Len(job.path) : Matches(n, job.path, job.pattern)
  <2>3. TestPattern(job.path, job.pattern) <=> fits
      BY Zenon, <2>2, TestsWhatLinesUp, LinesUpToAName
  <2> HIDE DEF fits
  <2>4. answer.count = 1 <=> Len(job.path) > job.strip /\ fits
      BY <2>1, <2>2, <2>3 DEF MaybeExtract, Excluded
  <2>5. answer.made # "nothing" => ~job.test /\ answer.count = 1
      BY <2>1, <2>2 DEF MaybeExtract, Excluded
  <2>6. ASSUME answer.count = 1, NEW i \in 1 .. Len(job.path) - job.strip
        PROVE  answer.dest[i] = job.path[job.strip + i]
    <3>0. answer # Excluded
        BY <2>6 DEF Excluded
    <3>1. answer.dest = SubSeq(job.path, job.strip + 1, Len(job.path))
        BY <2>1, <3>0 DEF MaybeExtract
    <3> QED
        BY <2>2, <3>1
  <2> QED
      BY <2>4, <2>5, <2>6 DEF ExtractsWhatMatches, fits
<1>2. Extracted => ExtractsWhatMatches
    BY Zenon, <1>1 DEF ExtractsWhatMatches
<1> QED
    BY <1>2, Answers, PTL DEF AnswersAre

-----------------------------------------------------------------------------
(* What holds at the start of a loop and is kept by its steps holds at its  *)
(* end.                                                                     *)
LEMMA Kept ==
    ASSUME NEW n \in Nat, NEW S, 0 \in S, \A k \in 1 .. n : k - 1 \in S => k \in S
    PROVE  0 .. n \subseteq S
<1> DEFINE bad == {x \in 0 .. n : n - x \notin S}
<1>1. SUFFICES ASSUME bad # {} PROVE FALSE
  <2>1. ASSUME NEW k \in 0 .. n, k \notin S PROVE bad # {}
    <3>1. n - k \in 0 .. n /\ n - (n - k) = k
        OBVIOUS
    <3> QED
        BY <2>1, <3>1
  <2> QED
      BY <2>1
<1>2. bad \in SUBSET (0 .. n)
    OBVIOUS
<1>3. PICK x \in bad : \A y \in bad : y <= x
    BY <1>1, <1>2, Greatest
<1>4. n - x \in 1 .. n
    OBVIOUS
<1>5. x + 1 \in 0 .. n /\ n - (x + 1) = (n - x) - 1
    BY <1>4
<1>6. x + 1 \notin bad
    BY <1>3
<1>7. (n - x) - 1 \in S
    BY <1>5, <1>6
<1> QED
    BY <1>4, <1>7

(* f is what a loop of n steps has made after each of them.                 *)
Loop(n, V, start, step, f) ==
    /\ f \in [0 .. n -> V] /\ f[0] = start
    /\ \A k \in 1 .. n : f[k] = step[k][f[k - 1]]

(* A loop that adds to what it has made runs to its end.                    *)
LEMMA LoopRuns ==
    ASSUME NEW n \in Nat, NEW V, NEW start \in V, NEW step \in [1 .. n -> [V -> V]]
    PROVE  \E f : Loop(n, V, start, step, f)
<1> DEFINE Runs(m, f) == f[0] = start /\ \A k \in 1 .. m : f[k] = step[k][f[k - 1]]
           S == {m \in 0 .. n : \E f \in [0 .. m -> V] : Runs(m, f)}
<1>1. 0 \in S
  <2> DEFINE f == [k \in 0 .. 0 |-> start]
  <2>1. f \in [0 .. 0 -> V] /\ Runs(0, f)
      OBVIOUS
  <2> HIDE DEF f, Runs
  <2> QED
      BY <2>1
<1>2. ASSUME NEW m \in 1 .. n, m - 1 \in S PROVE m \in S
  <2>1. PICK f \in [0 .. m - 1 -> V] : Runs(m - 1, f)
      BY <1>2
  <2> DEFINE g == [k \in 0 .. m |-> IF k = m THEN step[m][f[m - 1]] ELSE f[k]]
  <2>2. f[m - 1] \in V
      OBVIOUS
  <2>3. step[m][f[m - 1]] \in V
      BY <2>2
  <2>4. g \in [0 .. m -> V]
      BY <2>3
  <2>5. ASSUME NEW k \in 1 .. m PROVE g[k] = step[k][g[k - 1]]
    <3>1. g[k - 1] = f[k - 1]
        OBVIOUS
    <3>2. CASE k = m
        BY <3>1, <3>2
    <3>3. CASE k # m
      <4>1. k \in 1 .. m - 1 /\ g[k] = f[k]
          BY <3>3
      <4> QED
          BY <2>1, <3>1, <4>1
    <3> QED
        BY <3>2, <3>3
  <2>6. g[0] = start
      BY <2>1
  <2> HIDE DEF g
  <2>7. Runs(m, g)
      BY <2>5, <2>6
  <2> HIDE DEF Runs
  <2> QED
      BY <2>4, <2>7
<1> HIDE DEF S
<1>3. 0 .. n \subseteq S
    BY <1>1, <1>2, Kept
<1>4. n \in S
    BY <1>3
<1> QED
    BY <1>4 DEF S, Loop

-----------------------------------------------------------------------------
In(s) == {s[i] : i \in DOMAIN s}
Once(s, a) == \A i, j \in DOMAIN s : s[i] = a /\ s[j] = a => i = j

LEMMA ConcatIn ==
    ASSUME NEW T, NEW s \in Seq(T), NEW t \in Seq(T)
    PROVE  /\ s \o t \in Seq(T) /\ Len(s \o t) = Len(s) + Len(t)
           /\ \A i \in 1 .. Len(s) : (s \o t)[i] = s[i]
           /\ \A i \in 1 .. Len(t) : (s \o t)[Len(s) + i] = t[i]
           /\ In(s \o t) = In(s) \cup In(t)
<1> DEFINE u == s \o t
<1>1. /\ u \in Seq(T) /\ Len(u) = Len(s) + Len(t)
      /\ \A i \in 1 .. Len(s) : u[i] = s[i]
      /\ \A i \in 1 .. Len(t) : u[Len(s) + i] = t[i]
    BY ConcatProperties
<1>2. /\ DOMAIN s = 1 .. Len(s) /\ DOMAIN t = 1 .. Len(t) /\ DOMAIN u = 1 .. Len(u)
      /\ Len(s) \in Nat /\ Len(t) \in Nat
    BY <1>1
<1> HIDE DEF u
<1>3. ASSUME NEW k \in DOMAIN u PROVE u[k] \in In(s) \cup In(t)
  <2>1. CASE k <= Len(s)
      BY <1>1, <1>2, <2>1 DEF In
  <2>2. CASE k > Len(s)
    <3>1. k - Len(s) \in 1 .. Len(t) /\ k = Len(s) + (k - Len(s))
        BY <1>1, <1>2, <2>2
    <3>2. u[k] = t[k - Len(s)]
        BY <1>1, <3>1
    <3> QED
        BY <1>2, <3>1, <3>2 DEF In
  <2> QED
      BY <1>1, <1>2, <2>1, <2>2
<1>4. ASSUME NEW i \in DOMAIN s PROVE s[i] \in In(u)
  <2>1. i \in DOMAIN u /\ u[i] = s[i]
      BY <1>1, <1>2
  <2> QED
      BY <2>1 DEF In
<1>5. ASSUME NEW i \in DOMAIN t PROVE t[i] \in In(u)
  <2>1. Len(s) + i \in DOMAIN u /\ u[Len(s) + i] = t[i]
      BY <1>1, <1>2
  <2> QED
      BY <2>1 DEF In
<1>6. In(u) = In(s) \cup In(t)
    BY <1>3, <1>4, <1>5 DEF In
<1> QED
    BY <1>1, <1>6 DEF u

(* What is in one part only is in the whole as often as there.              *)
LEMMA ConcatOnce ==
    ASSUME NEW T, NEW s \in Seq(T), NEW t \in Seq(T), NEW a,
           Once(s, a), Once(t, a), a \notin In(s) \/ a \notin In(t)
    PROVE  Once(s \o t, a)
<1> DEFINE u == s \o t
<1>1. /\ u \in Seq(T) /\ Len(u) = Len(s) + Len(t)
      /\ \A i \in 1 .. Len(s) : u[i] = s[i]
      /\ \A i \in 1 .. Len(t) : u[Len(s) + i] = t[i]
    BY ConcatIn
<1>2. /\ DOMAIN s = 1 .. Len(s) /\ DOMAIN t = 1 .. Len(t) /\ DOMAIN u = 1 .. Len(u)
      /\ Len(s) \in Nat /\ Len(t) \in Nat
    BY <1>1
<1> HIDE DEF u
<1>3. ASSUME NEW k \in DOMAIN u
      PROVE  \/ k \in DOMAIN s /\ u[k] = s[k]
             \/ k - Len(s) \in DOMAIN t /\ u[k] = t[k - Len(s)]
  <2>1. CASE k <= Len(s)
      BY <1>1, <1>2, <2>1
  <2>2. CASE k > Len(s)
    <3>1. k - Len(s) \in 1 .. Len(t) /\ k = Len(s) + (k - Len(s))
        BY <1>1, <1>2, <2>2
    <3> QED
        BY <1>1, <1>2, <3>1
  <2> QED
      BY <1>1, <1>2, <2>1, <2>2
<1>4. ASSUME NEW i \in DOMAIN u, NEW j \in DOMAIN u, u[i] = a, u[j] = a PROVE i = j
  <2>1. CASE a \notin In(t)
    <3>1. i \in DOMAIN s /\ s[i] = a /\ j \in DOMAIN s /\ s[j] = a
        BY <1>3, <1>4, <2>1 DEF In
    <3> QED
        BY <3>1 DEF Once
  <2>2. CASE a \notin In(s)
    <3>1. /\ i - Len(s) \in DOMAIN t /\ t[i - Len(s)] = a
          /\ j - Len(s) \in DOMAIN t /\ t[j - Len(s)] = a
        BY <1>3, <1>4, <2>2 DEF In
    <3>2. i - Len(s) = j - Len(s)
        BY <3>1 DEF Once
    <3> QED
        BY <1>1, <1>2, <3>2
  <2> QED
      BY <2>1, <2>2
<1> QED
    BY <1>4 DEF Once, u

(* The index of the first occurrence.                                       *)
LEMMA FirstIndex ==
    ASSUME NEW T, NEW s \in Seq(T), NEW a \in In(s)
    PROVE  /\ SelectInSeq(s, LAMBDA v : v = a) \in 1 .. Len(s)
           /\ s[SelectInSeq(s, LAMBDA v : v = a)] = a
<1> DEFINE n == Len(s)
           I == {i \in 1 .. n : s[i] = a}
           J == {j \in 0 .. n : n - j \in I}
<1>1. n \in Nat /\ I # {}
    BY DEF In
<1>2. J # {} /\ J \in SUBSET (0 .. n)
  <2>1. PICK i \in I : TRUE
      BY <1>1
  <2>2. n - i \in 0 .. n /\ n - (n - i) = i
      BY <1>1
  <2>3. n - i \in J
      BY <2>1, <2>2
  <2> QED
      BY <2>3
<1>3. PICK j \in J : \A y \in J : y <= j
    BY <1>1, <1>2, Greatest
<1>4. ASSUME NEW i \in I PROVE n - j <= i
  <2>1. n - i \in 0 .. n /\ n - (n - i) = i
      BY <1>1
  <2>2. n - i \in J
      BY <2>1
  <2>3. n - i <= j
      BY <1>3, <2>2
  <2>4. i \in 0 .. n /\ j \in 0 .. n
      BY <1>1
  <2> HIDE DEF n, I, J
  <2> QED
      BY <1>1, <2>3, <2>4
<1>5. n - j \in I
    BY <1>3
<1> HIDE DEF I, J
<1>6. Min(I) \in I
    BY <1>4, <1>5 DEF Min
<1>7. SelectInSeq(s, LAMBDA v : v = a) = Min(I)
    BY <1>1 DEF SelectInSeq, I
<1> QED
    BY <1>6, <1>7 DEF I

(* list.remove, of what is there once.                                      *)
LEMMA RemovedOnce ==
    ASSUME NEW T, NEW s \in Seq(T), NEW a \in In(s), Once(s, a)
    PROVE  /\ RemoveFirst(s, a) \in Seq(T)
           /\ In(RemoveFirst(s, a)) = In(s) \ {a}
           /\ \A b : b # a /\ Once(s, b) => Once(RemoveFirst(s, a), b)
<1> DEFINE at == SelectInSeq(s, LAMBDA v : v = a)
           left == SubSeq(s, 1, at - 1)
           right == SubSeq(s, at + 1, Len(s))
<1>1. at \in 1 .. Len(s) /\ s[at] = a
    BY FirstIndex
<1>2. RemoveFirst(s, a) = left \o right
  <2>1. \E i \in 1 .. Len(s) : s[i] = a
      BY DEF In
  <2> QED
      BY <2>1 DEF RemoveFirst, RemoveAt
<1> HIDE DEF at
<1>3. /\ left \in Seq(T) /\ Len(left) = at - 1 /\ \A i \in 1 .. at - 1 : left[i] = s[i]
    BY <1>1
<1>4. /\ right \in Seq(T) /\ Len(right) = Len(s) - at
      /\ \A i \in 1 .. Len(s) - at : right[i] = s[at + i]
    BY <1>1
<1> HIDE DEF left, right
<1>5. DOMAIN s = 1 .. Len(s) /\ DOMAIN left = 1 .. at - 1 /\ DOMAIN right = 1 .. Len(s) - at
      /\ Len(s) \in Nat
    BY <1>3, <1>4
<1>6. In(left) \cup In(right) = In(s) \ {a}
  <2>1. ASSUME NEW i \in DOMAIN left PROVE left[i] \in In(s) \ {a}
      BY <1>1, <1>3, <1>5 DEF In, Once
  <2>2. ASSUME NEW i \in DOMAIN right PROVE right[i] \in In(s) \ {a}
    <3>1. at + i \in DOMAIN s /\ right[i] = s[at + i] /\ at + i # at
        BY <1>1, <1>4, <1>5
    <3> QED
        BY <1>1, <1>5, <3>1 DEF In, Once
  <2>3. ASSUME NEW i \in DOMAIN s, s[i] # a PROVE s[i] \in In(left) \cup In(right)
    <3>1. CASE i < at
        BY <1>1, <1>3, <1>5, <3>1 DEF In
    <3>2. CASE i > at
      <4>1. i - at \in DOMAIN right /\ right[i - at] = s[i]
          BY <1>1, <1>4, <1>5, <3>2
      <4> QED
          BY <4>1 DEF In
    <3> QED
        BY <1>1, <1>5, <2>3, <3>1, <3>2
  <2> QED
      BY <2>1, <2>2, <2>3 DEF In
<1>7. ASSUME NEW b, Once(s, b) PROVE Once(left \o right, b)
  <2>1. Once(left, b)
      BY <1>1, <1>3, <1>5, <1>7 DEF Once
  <2>2. Once(right, b)
    <3>1. ASSUME NEW i \in DOMAIN right, NEW j \in DOMAIN right, right[i] = b, right[j] = b
          PROVE  i = j
      <4>0. i \in 1 .. Len(s) - at /\ j \in 1 .. Len(s) - at
          BY <1>5
      <4>1. at + i \in DOMAIN s /\ s[at + i] = b /\ at + j \in DOMAIN s /\ s[at + j] = b
        <5>1. right[i] = s[at + i] /\ right[j] = s[at + j]
            BY <1>4, <4>0
        <5>2. at + i \in 1 .. Len(s) /\ at + j \in 1 .. Len(s)
            BY <1>1, <1>5, <4>0
        <5> QED
            BY <1>5, <3>1, <5>1, <5>2
      <4>2. at + i = at + j
          BY <1>7, <4>1 DEF Once
      <4> QED
          BY <1>1, <1>5, <4>2
    <3> QED
        BY <3>1 DEF Once
  <2>3. b \notin In(left) \/ b \notin In(right)
    <3>1. ASSUME NEW i \in DOMAIN left, NEW j \in DOMAIN right, left[i] = b, right[j] = b
          PROVE  FALSE
      <4>1. i \in DOMAIN s /\ s[i] = b /\ at + j \in DOMAIN s /\ s[at + j] = b /\ i # at + j
          BY <1>1, <1>3, <1>4, <1>5, <3>1
      <4> QED
          BY <1>7, <4>1 DEF Once
    <3> QED
        BY <3>1 DEF In
  <2> QED
      BY <1>3, <1>4, <2>1, <2>2, <2>3, ConcatOnce
<1> QED
    BY <1>2, <1>3, <1>4, <1>6, <1>7, ConcatIn

-----------------------------------------------------------------------------
(* A dictionary has a key once.                                             *)
Dict(W, d) == d \in Seq(W \X W) /\ \A i, j \in DOMAIN d : d[i][1] = d[j][1] => i = j
(* What _append_arg adds for a pair.                                        *)
Added(p) == IF p[2] = "yes" THEN {<<p[1]>>} ELSE IF p[2] = "no" THEN {} ELSE {p}

LEMMA ArgAdds ==
    ASSUME NEW W, NEW p \in W \X W
    PROVE  /\ Arg(p) \in Seq(Seq(W)) /\ In(Arg(p)) = Added(p)
           /\ \A a : Once(Arg(p), a)
           /\ \A a \in Added(p) : a[1] = p[1]
<1>1. p = <<p[1], p[2]>> /\ p[1] \in W /\ p[2] \in W
    OBVIOUS
<1>2. p \in Seq(W) /\ <<p[1]>> \in Seq(W)
  <2>1. ASSUME NEW x \in W, NEW y \in W PROVE <<x, y>> \in Seq(W) /\ <<x>> \in Seq(W)
      OBVIOUS
  <2> QED
      BY Zenon, <1>1, <2>1
<1>3. CASE p[2] = "yes"
  <2>1. Arg(p) = <<<<p[1]>>>>
      BY <1>3 DEF Arg, Key, Value
  <2> QED
      BY <1>2, <1>3, <2>1 DEF In, Once, Added
<1>4. CASE p[2] = "no"
  <2>1. Arg(p) = <<>>
      BY <1>4 DEF Arg, Key, Value
  <2> QED
      BY <1>4, <2>1 DEF In, Once, Added
<1>5. CASE p[2] # "yes" /\ p[2] # "no"
  <2>1. Arg(p) = <<p>>
      BY <1>5 DEF Arg, Key, Value
  <2> QED
      BY <1>2, <1>5, <2>1 DEF In, Once, Added
<1> QED
    BY <1>3, <1>4, <1>5

(* The loop over a dictionary's items.                                      *)
LEMMA ArgsLoop ==
    ASSUME NEW W, NEW pairs \in Seq(W \X W)
    PROVE  \E args \in [0 .. Len(pairs) -> Seq(Seq(W))] :
              /\ Args(pairs) = args[Len(pairs)]
              /\ args[0] = <<>>
              /\ \A k \in 1 .. Len(pairs) : args[k] = args[k - 1] \o Arg(pairs[k])
<1> DEFINE n == Len(pairs)
           V == Seq(Seq(W))
           Rec(f) == f = [k \in 0 .. n |-> IF k = 0 THEN <<>> ELSE f[k - 1] \o Arg(pairs[k])]
           args == CHOOSE f : Rec(f)
           step == [k \in 1 .. n |-> [v \in V |-> v \o Arg(pairs[k])]]
<1>1. Args(pairs) = args[n]
    BY DEF Args
<1>2. n \in Nat /\ \A k \in 1 .. n : pairs[k] \in W \X W
    OBVIOUS
<1>3. ASSUME NEW v \in V, NEW k \in 1 .. n PROVE v \o Arg(pairs[k]) \in V
    BY <1>2, ArgAdds, ConcatIn
<1>4. step \in [1 .. n -> [V -> V]]
    BY <1>3
<1>5. <<>> \in V
    OBVIOUS
<1> HIDE DEF V, n
<1>6. PICK f \in [0 .. n -> V] : f[0] = <<>> /\ \A k \in 1 .. n : f[k] = step[k][f[k - 1]]
  <2> DEFINE start == <<>>
  <2>1. n \in Nat /\ start \in V
      BY <1>2, <1>5
  <2> HIDE DEF step, start
  <2>2. \E f : Loop(n, V, start, step, f)
      BY <1>4, <2>1, LoopRuns
  <2> QED
      BY <2>2 DEF start, Loop
<1>7. Rec(f)
  <2>1. ASSUME NEW k \in 0 .. n
        PROVE  f[k] = IF k = 0 THEN <<>> ELSE f[k - 1] \o Arg(pairs[k])
    <3>1. CASE k = 0
        BY <1>6, <3>1
    <3>2. CASE k # 0
      <4>1. k \in 1 .. n /\ k - 1 \in 0 .. n
          BY <1>2, <3>2
      <4> QED
          BY <1>6, <3>2, <4>1
    <3> QED
        BY <3>1, <3>2
  <2> QED
      BY <2>1
<1>8. Rec(args)
    BY Zenon, <1>7
<1> HIDE DEF args
<1>9. args[0] = <<>> /\ \A k \in 1 .. n : args[k] = args[k - 1] \o Arg(pairs[k])
  <2>1. ASSUME NEW k \in 0 .. n
        PROVE  args[k] = IF k = 0 THEN <<>> ELSE args[k - 1] \o Arg(pairs[k])
      BY <1>8
  <2>2. 0 \in 0 .. n /\ \A k \in 1 .. n : k \in 0 .. n /\ k # 0
      BY <1>2
  <2> QED
      BY <2>1, <2>2
<1>10. \A k \in 0 .. n : args[k] \in V
  <2> DEFINE S == {k \in 0 .. n : args[k] \in V}
  <2>1. 0 \in S
      BY <1>2, <1>5, <1>9
  <2>2. ASSUME NEW k \in 1 .. n, k - 1 \in S PROVE k \in S
    <3>1. args[k] = args[k - 1] \o Arg(pairs[k])
        BY <1>9
    <3>2. args[k - 1] \in V /\ k \in 0 .. n
        BY <1>2, <2>2
    <3>3. args[k] \in V
        BY Zenon, <1>3, <3>1, <3>2
    <3> QED
        BY <3>2, <3>3
  <2> HIDE DEF S
  <2>3. 0 .. n \subseteq S
      BY <1>2, <2>1, <2>2, Kept
  <2> QED
      BY <2>3 DEF S
<1>11. args = [k \in 0 .. n |-> args[k]]
    BY <1>8
<1>12. args \in [0 .. n -> V]
    BY <1>10, <1>11
<1> QED
    BY <1>1, <1>9, <1>12 DEF n, V

(* _append_arg, for each of the pairs.                                      *)
LEMMA ArgsTell ==
    ASSUME NEW W, NEW pairs, Dict(W, pairs)
    PROVE  /\ Args(pairs) \in Seq(Seq(W))
           /\ In(Args(pairs)) = UNION {Added(pairs[i]) : i \in DOMAIN pairs}
           /\ \A a : Once(Args(pairs), a)
<1> DEFINE n == Len(pairs)
           all(k) == UNION {Added(pairs[i]) : i \in 1 .. k}
<1>1. n \in Nat /\ DOMAIN pairs = 1 .. n /\ pairs \in Seq(W \X W)
      /\ \A k \in 1 .. n : pairs[k] \in W \X W
    BY DEF Dict
<1>2. PICK args \in [0 .. n -> Seq(Seq(W))] :
         /\ Args(pairs) = args[n]
         /\ args[0] = <<>>
         /\ \A k \in 1 .. n : args[k] = args[k - 1] \o Arg(pairs[k])
  <2>1. pairs \in Seq(W \X W)
      BY <1>1
  <2> QED
      BY Zenon, <2>1, ArgsLoop
<1> DEFINE S == {k \in 0 .. n : In(args[k]) = all(k) /\ \A a : Once(args[k], a)}
<1> HIDE DEF n
<1>3. 0 \in S
    BY <1>1, <1>2 DEF In, Once
<1>4. ASSUME NEW k \in 1 .. n, k - 1 \in S PROVE k \in S
  <2>1. /\ k - 1 \in 0 .. n /\ args[k - 1] \in Seq(Seq(W)) /\ pairs[k] \in W \X W
        /\ In(args[k - 1]) = all(k - 1) /\ \A a : Once(args[k - 1], a)
      BY <1>1, <1>4
  <2>2. /\ Arg(pairs[k]) \in Seq(Seq(W)) /\ In(Arg(pairs[k])) = Added(pairs[k])
        /\ \A a : Once(Arg(pairs[k]), a)
      BY <2>1, ArgAdds
  <2>3. all(k) = all(k - 1) \cup Added(pairs[k])
    <3>1. 1 .. k = (1 .. k - 1) \cup {k}
        BY <1>1
    <3> QED
        BY <3>1
  <2>0. args[k] = args[k - 1] \o Arg(pairs[k])
      BY <1>2
  <2>4. In(args[k]) = all(k)
    <3> DEFINE s == args[k - 1]  t == Arg(pairs[k])  T == Seq(W)
    <3>0. s \in Seq(T) /\ t \in Seq(T)
        BY <2>1, <2>2
    <3> HIDE DEF s, t, T
    <3>1. In(s \o t) = In(s) \cup In(t)
        BY <3>0, ConcatIn
    <3> USE DEF s, t, T
    <3> HIDE DEF all
    <3> QED
        BY Zenon, <2>0, <2>1, <2>2, <2>3, <3>1
  <2>5. ASSUME NEW a, a \in all(k - 1), a \in Added(pairs[k]) PROVE FALSE
    <3>1. PICK i \in 1 .. k - 1 : a \in Added(pairs[i])
        BY <2>5
    <3>2. i \in 1 .. n /\ i # k
        BY <1>1
    <3>3. a[1] = pairs[i][1] /\ a[1] = pairs[k][1]
        BY <1>1, <2>5, <3>1, <3>2, ArgAdds
    <3> QED
        BY <1>1, <3>2, <3>3 DEF Dict
  <2>6. \A a : a \notin In(args[k - 1]) \/ a \notin In(Arg(pairs[k]))
      BY <2>1, <2>2, <2>5
  <2> HIDE DEF all
  <2>7. ASSUME NEW a PROVE Once(args[k], a)
    <3> DEFINE s == args[k - 1]  t == Arg(pairs[k])  T == Seq(W)
    <3>0. /\ s \in Seq(T) /\ t \in Seq(T) /\ Once(s, a) /\ Once(t, a)
          /\ a \notin In(s) \/ a \notin In(t)
        BY <2>1, <2>2, <2>6
    <3> HIDE DEF s, t, T
    <3>1. Once(s \o t, a)
        BY Zenon, <3>0, ConcatOnce
    <3> QED
        BY <2>0, <3>1 DEF s, t
  <2>8. k \in 0 .. n
      BY <1>1
  <2> QED
      BY <2>4, <2>7, <2>8
<1> HIDE DEF S
<1>5. 0 .. n \subseteq S
    BY <1>1, <1>3, <1>4, Kept
<1>6. n \in S /\ n \in 0 .. n
    BY <1>1, <1>5
<1> QED
    BY <1>1, <1>2, <1>6 DEF S

-----------------------------------------------------------------------------
(* The parameters of a process: keys are unique, and setParameter is the    *)
(* one key that holds a dictionary; a process has one role at most.         *)
Proc(W, params) ==
    /\ {"setParameter", "enableTestCommands", "true"} \subseteq W
    /\ Dict(W, params.plain) /\ Dict(W, params.set)
    /\ \A i \in DOMAIN params.plain : params.plain[i][1] # "setParameter"
    /\ ~(Given(<<"shardsvr", "yes">>, params) /\ Given(<<"configsvr", "yes">>, params))
Setting(p) == <<"setParameter">> \o p
RoleArgs == {<<"shardsvr">>, <<"configsvr">>}
Enabling(params) == IF \E i \in DOMAIN params.set : params.set[i][1] = "enableTestCommands"
                    THEN {} ELSE {TestCommands("true")}
Told(params) == (UNION {Added(params.plain[i]) : i \in DOMAIN params.plain})
                  \cup {Setting(params.set[i]) : i \in DOMAIN params.set}
                  \cup Enabling(params)

(* A setting is three words.                                                *)
LEMMA SettingIs ==
    ASSUME NEW W, "setParameter" \in W, NEW p \in W \X W
    PROVE  /\ Setting(p) \in Seq(W) /\ Len(Setting(p)) = 3
           /\ Setting(p)[1] = "setParameter" /\ Setting(p)[2] = p[1] /\ Setting(p)[3] = p[2]
<1>1. p = <<p[1], p[2]>> /\ p[1] \in W /\ p[2] \in W
    OBVIOUS
<1>2. ASSUME NEW x \in W, NEW y \in W
      PROVE  LET s == Setting(<<x, y>>)
             IN /\ s \in Seq(W) /\ Len(s) = 3
                /\ s[1] = "setParameter" /\ s[2] = x /\ s[3] = y
  <2> DEFINE a == <<"setParameter">>  b == <<x, y>>
  <2>1. /\ a \in Seq(W) /\ Len(a) = 1 /\ a[1] = "setParameter"
        /\ b \in Seq(W) /\ Len(b) = 2 /\ b[1] = x /\ b[2] = y
      OBVIOUS
  <2>2. Setting(<<x, y>>) = a \o b
      BY DEF Setting
  <2> HIDE DEF a, b
  <2>0. a \in Seq(W) /\ b \in Seq(W)
      BY <2>1
  <2>3. /\ a \o b \in Seq(W) /\ Len(a \o b) = Len(a) + Len(b)
        /\ \A i \in 1 .. Len(a) : (a \o b)[i] = a[i]
        /\ \A i \in 1 .. Len(b) : (a \o b)[Len(a) + i] = b[i]
      BY <2>0, ConcatIn
  <2>4. Len(a \o b) = 3 /\ (a \o b)[1] = a[1] /\ (a \o b)[1 + 1] = b[1] /\ (a \o b)[1 + 2] = b[2]
      BY <2>1, <2>3
  <2>5. 1 + 1 = 2 /\ 1 + 2 = 3
      OBVIOUS
  <2> QED
      BY Zenon, <2>1, <2>2, <2>3, <2>4, <2>5
<1>3. Setting(p) = Setting(<<p[1], p[2]>>)
    BY <1>1
<1> QED
    BY <1>1, <1>2, <1>3

(* What _handle_proc_params tells a process.                                *)
LEMMA Handled ==
    ASSUME NEW W, NEW params, Proc(W, params)
    PROVE  LET args == HandleProcParams(params)
           IN args \in Seq(Seq(W)) /\ In(args) = Told(params) /\ \A a : Once(args, a)
<1> DEFINE T == Seq(W)
           A == Args(params.plain)
           B == [i \in DOMAIN params.set |-> <<"setParameter">> \o params.set[i]]
           said == \E i \in DOMAIN params.set : Key(params.set[i]) = "enableTestCommands"
           C == IF said THEN <<>> ELSE <<TestCommands("true")>>
<1>1. /\ A \in Seq(T) /\ \A a : Once(A, a)
      /\ In(A) = UNION {Added(params.plain[i]) : i \in DOMAIN params.plain}
    BY ArgsTell DEF Proc
<1>2. /\ params.set \in Seq(W \X W) /\ DOMAIN params.set = 1 .. Len(params.set)
      /\ Len(params.set) \in Nat /\ "setParameter" \in W
      /\ \A i \in DOMAIN params.set : params.set[i] \in W \X W
    BY DEF Proc, Dict
<1>3. \A i \in DOMAIN params.set : B[i] = Setting(params.set[i])
    BY DEF Setting
<1>4. B \in Seq(T) /\ In(B) = {Setting(params.set[i]) : i \in DOMAIN params.set}
  <2>1. \A i \in DOMAIN params.set : Setting(params.set[i]) \in T
      BY <1>2, SettingIs
  <2>2. B \in [1 .. Len(params.set) -> T] /\ DOMAIN B = DOMAIN params.set
      BY <1>2, <1>3, <2>1
  <2> HIDE DEF B, T
  <2>3. B \in Seq(T)
      BY Zenon, <1>2, <2>2, FunctionIsSeq
  <2> QED
      BY <1>3, <2>2, <2>3 DEF In
<1>5. ASSUME NEW a PROVE Once(B, a)
  <2>1. DOMAIN B = DOMAIN params.set
      OBVIOUS
  <2>2. ASSUME NEW i \in DOMAIN params.set, NEW j \in DOMAIN params.set, B[i] = a, B[j] = a
        PROVE  i = j
    <3>1. Setting(params.set[i])[2] = Setting(params.set[j])[2]
        BY <1>3, <2>2
    <3>2. params.set[i][1] = params.set[j][1]
        BY <1>2, <3>1, SettingIs
    <3> QED
        BY <3>2 DEF Proc, Dict
  <2> HIDE DEF B
  <2> QED
      BY <2>1, <2>2 DEF Once
<1>6. /\ C \in Seq(T) /\ \A a : Once(C, a)
      /\ In(C) = IF said THEN {} ELSE {TestCommands("true")}
  <2>1. TestCommands("true") \in Seq(W)
      BY DEF TestCommands, Proc
  <2>2. CASE said
    <3>1. C = <<>>
        BY <2>2
    <3> QED
        BY <2>2, <3>1 DEF In, Once
  <2>3. CASE ~said
    <3>1. C = <<TestCommands("true")>>
        BY <2>3
    <3> HIDE DEF C, said
    <3> QED
        BY <2>1, <2>3, <3>1 DEF In, Once
  <2> QED
      BY <2>2, <2>3
<1>7. ASSUME NEW a \in In(A) PROVE a[1] # "setParameter"
  <2>1. PICK i \in DOMAIN params.plain : a \in Added(params.plain[i])
      BY <1>1
  <2>2. params.plain[i] \in W \X W /\ params.plain[i][1] # "setParameter"
      BY DEF Proc, Dict
  <2> QED
      BY <2>1, <2>2, ArgAdds
<1>8. \A a \in In(B) \cup In(C) : a[1] = "setParameter"
  <2>1. TestCommands("true")[1] = "setParameter"
      BY DEF TestCommands
  <2>2. \A i \in DOMAIN params.set : Setting(params.set[i])[1] = "setParameter"
      BY <1>2, SettingIs
  <2> HIDE DEF B, C, said
  <2> QED
      BY <1>4, <1>6, <2>1, <2>2
<1>9. \A a \in In(B) : a \notin In(C)
  <2>1. TestCommands("true")[2] = "enableTestCommands"
      BY DEF TestCommands
  <2>2. said <=> \E i \in DOMAIN params.set : params.set[i][1] = "enableTestCommands"
      BY DEF Key
  <2>3. \A i \in DOMAIN params.set : Setting(params.set[i])[2] = params.set[i][1]
      BY <1>2, SettingIs
  <2> HIDE DEF B, C, said
  <2>4. ASSUME NEW a \in In(B), a \in In(C) PROVE FALSE
    <3>1. PICK i \in DOMAIN params.set : a = Setting(params.set[i])
        BY <1>4
    <3>2. ~said /\ a = TestCommands("true")
        BY <1>6, <2>4
    <3>3. params.set[i][1] = "enableTestCommands"
        BY <2>1, <2>3, <3>1, <3>2
    <3> QED
        BY <2>2, <3>2, <3>3
  <2> QED
      BY <2>4
<1>10. HandleProcParams(params) = (A \o B) \o C
    BY DEF HandleProcParams
<1>11. said <=> \E i \in DOMAIN params.set : params.set[i][1] = "enableTestCommands"
    BY DEF Key
<1> HIDE DEF A, B, C, T, said
<1>12. /\ A \o B \in Seq(T) /\ In(A \o B) = In(A) \cup In(B)
       /\ \A a : Once(A \o B, a)
  <2>1. \A a : a \notin In(A) \/ a \notin In(B)
      BY <1>7, <1>8
  <2>2. A \o B \in Seq(T) /\ In(A \o B) = In(A) \cup In(B)
    <3>1. A \in Seq(T) /\ B \in Seq(T)
        BY <1>1, <1>4
    <3> QED
        BY <3>1, ConcatIn
  <2>3. ASSUME NEW a PROVE Once(A \o B, a)
      BY Zenon, <1>1, <1>4, <1>5, <2>1, ConcatOnce
  <2> QED
      BY <2>2, <2>3
<1>13. \A a : a \notin In(A \o B) \/ a \notin In(C)
    BY <1>7, <1>8, <1>9, <1>12
<1>14. /\ (A \o B) \o C \in Seq(T) /\ In((A \o B) \o C) = In(A) \cup In(B) \cup In(C)
       /\ \A a : Once((A \o B) \o C, a)
  <2> DEFINE D == A \o B
  <2>1. /\ D \in Seq(T) /\ In(D) = In(A) \cup In(B)
        /\ \A a : Once(D, a)
        /\ \A a : a \notin In(D) \/ a \notin In(C)
      BY <1>12, <1>13
  <2> HIDE DEF D
  <2>2. D \o C \in Seq(T) /\ In(D \o C) = In(D) \cup In(C)
    <3>1. D \in Seq(T) /\ C \in Seq(T)
        BY <1>6, <2>1
    <3> QED
        BY <3>1, ConcatIn
  <2>3. ASSUME NEW a PROVE Once(D \o C, a)
      BY Zenon, <1>6, <2>1, ConcatOnce
  <2>4. In(D \o C) = In(A) \cup In(B) \cup In(C)
      BY Zenon, <2>1, <2>2
  <2> QED
      BY <2>2, <2>3, <2>4 DEF D
<1>15. /\ HandleProcParams(params) \in Seq(Seq(W))
       /\ \A a : Once(HandleProcParams(params), a)
    BY Zenon, <1>10, <1>14 DEF T
<1>16. In(HandleProcParams(params)) = Told(params)
  <2>1. In(HandleProcParams(params)) = In(A) \cup In(B) \cup In(C)
      BY Zenon, <1>10, <1>14
  <2>2. In(C) = Enabling(params)
    <3>1. CASE said
        BY Zenon, <1>6, <1>11, <3>1 DEF Enabling
    <3>2. CASE ~said
        BY Zenon, <1>6, <1>11, <3>2 DEF Enabling
    <3> QED
        BY <3>1, <3>2
  <2>3. In(HandleProcParams(params)) = In(A) \cup In(B) \cup Enabling(params)
      BY Zenon, <2>1, <2>2
  <2>4. Told(params) = In(A) \cup In(B) \cup Enabling(params)
      BY Zenon, <1>1, <1>4 DEF Told
  <2> QED
      BY <2>3, <2>4
<1> QED
    BY Zenon, <1>15, <1>16

(* Says, of the set of a process's arguments.                               *)
SaysIn(S, params) ==
    /\ \A i \in DOMAIN params.plain :
         LET p == params.plain[i]
         IN IF p[2] = "no" \/ p \in Roles
            THEN \A a \in S : a[1] # p[1]
            ELSE (IF p[2] = "yes" THEN <<p[1]>> ELSE p) \in S
    /\ \A i \in DOMAIN params.set : Setting(params.set[i]) \in S
    /\ \E a \in S : \A b \in S : Decides(b) <=> b = a

LEMMA SaysIs ==
    ASSUME NEW args, NEW params, SaysIn(In(args), params), \A a : Decides(a) => Once(args, a)
    PROVE  Says(args, params)
<1>1. ASSUME NEW i \in DOMAIN params.plain
      PROVE  LET p == params.plain[i]
             IN IF p[2] = "no" \/ p \in Roles
                THEN \A k \in DOMAIN args : args[k][1] # p[1]
                ELSE \E k \in DOMAIN args : args[k] = IF p[2] = "yes" THEN <<p[1]>> ELSE p
    BY DEF SaysIn, In
<1>2. ASSUME NEW i \in DOMAIN params.set
      PROVE  \E k \in DOMAIN args : args[k] = <<"setParameter">> \o params.set[i]
    BY DEF SaysIn, In, Setting
<1>3. \E k \in DOMAIN args : \A l \in DOMAIN args : Decides(args[l]) <=> l = k
  <2>1. PICK a \in In(args) : \A b \in In(args) : Decides(b) <=> b = a
      BY DEF SaysIn
  <2>2. PICK k \in DOMAIN args : args[k] = a
      BY DEF In
  <2>3. \A l \in DOMAIN args : args[l] \in In(args)
      BY DEF In
  <2>4. Once(args, a)
      BY <2>1
  <2>5. ASSUME NEW l \in DOMAIN args PROVE Decides(args[l]) <=> l = k
    <3>1. Decides(args[l]) <=> args[l] = a
        BY <2>1, <2>3
    <3>2. args[l] = a <=> l = k
        BY <2>2, <2>4 DEF Once
    <3> QED
        BY <3>1, <3>2
  <2> QED
      BY <2>5
<1> QED
    BY <1>1, <1>2, <1>3 DEF Says

(* A flag is told for the pair it comes from, and a setting begins as such. *)
LEMMA ToldIs ==
    ASSUME NEW W, NEW params, Proc(W, params), NEW a \in Told(params)
    PROVE  \/ \E i \in DOMAIN params.plain : a \in Added(params.plain[i])
                /\ a[1] = params.plain[i][1] /\ a[1] # "setParameter"
           \/ \E i \in DOMAIN params.set : a = Setting(params.set[i]) /\ a[1] = "setParameter"
                /\ a[2] = params.set[i][1]
           \/ a = TestCommands("true") /\ a[1] = "setParameter" /\ a[2] = "enableTestCommands"
                /\ ~\E i \in DOMAIN params.set : params.set[i][1] = "enableTestCommands"
<1>1. /\ \A i \in DOMAIN params.plain : params.plain[i] \in W \X W
      /\ \A i \in DOMAIN params.plain : params.plain[i][1] # "setParameter"
      /\ \A i \in DOMAIN params.set : params.set[i] \in W \X W
      /\ "setParameter" \in W
    BY DEF Proc, Dict
<1>2. CASE \E i \in DOMAIN params.plain : a \in Added(params.plain[i])
    BY <1>1, <1>2, ArgAdds
<1>3. CASE \E i \in DOMAIN params.set : a = Setting(params.set[i])
    BY <1>1, <1>3, SettingIs
<1>4. CASE a \in Enabling(params)
  <2>1. a = TestCommands("true")
        /\ ~\E i \in DOMAIN params.set : params.set[i][1] = "enableTestCommands"
      BY <1>4 DEF Enabling
  <2>2. a[1] = "setParameter" /\ a[2] = "enableTestCommands"
      BY <2>1 DEF TestCommands
  <2> QED
      BY <2>1, <2>2
<1>5. \/ \E i \in DOMAIN params.plain : a \in Added(params.plain[i])
      \/ \E i \in DOMAIN params.set : a = Setting(params.set[i])
      \/ a \in Enabling(params)
    BY Zenon DEF Told
<1> QED
    BY Zenon, <1>2, <1>3, <1>4, <1>5

(* Arguments as the file says, once its roles are taken out.                *)
LEMMA ToldSays ==
    ASSUME NEW W, NEW params, Proc(W, params)
    PROVE  SaysIn(Told(params) \ RoleArgs, params)
<1> DEFINE S == Told(params) \ RoleArgs
<1>0. /\ \A i \in DOMAIN params.plain : params.plain[i] \in W \X W
      /\ \A i \in DOMAIN params.set : params.set[i] \in W \X W
      /\ \A i \in DOMAIN params.plain : params.plain[i][1] # "setParameter"
      /\ \A i, j \in DOMAIN params.plain : params.plain[i][1] = params.plain[j][1] => i = j
      /\ \A i, j \in DOMAIN params.set : params.set[i][1] = params.set[j][1] => i = j
      /\ "setParameter" \in W
    BY DEF Proc, Dict
<1>1. ASSUME NEW i \in DOMAIN params.plain, NEW a \in S,
             a[1] = params.plain[i][1]
      PROVE  a \in Added(params.plain[i])
    BY <1>0, <1>1, ToldIs
<1>2. ASSUME NEW i \in DOMAIN params.plain, NEW p, p = params.plain[i],
             p[2] = "no" \/ p \in Roles, NEW a \in S, a[1] = p[1]
      PROVE  FALSE
  <2>1. a \in Added(p) /\ a \notin RoleArgs
      BY <1>1, <1>2
  <2>2. CASE p[2] = "no"
      BY <2>1, <2>2 DEF Added
  <2>3. CASE p \in Roles
    <3>1. p[2] = "yes" /\ p[1] \in {"shardsvr", "configsvr"}
        BY <2>3 DEF Roles
    <3>2. a = <<p[1]>>
        BY <2>1, <3>1 DEF Added
    <3> QED
        BY <2>1, <3>1, <3>2 DEF RoleArgs
  <2> QED
      BY <1>2, <2>2, <2>3
<1>3. ASSUME NEW i \in DOMAIN params.plain, NEW p, p = params.plain[i],
             p[2] # "no", p \notin Roles
      PROVE  (IF p[2] = "yes" THEN <<p[1]>> ELSE p) \in S
  <2> DEFINE a == IF p[2] = "yes" THEN <<p[1]>> ELSE p
  <2>0. p \in W \X W /\ p = <<p[1], p[2]>>
      BY <1>0, <1>3
  <2>1. a \in Added(p)
      BY <1>3 DEF Added
  <2>2. a \in Told(params)
    <3> HIDE DEF a
    <3> QED
        BY Zenon, <1>3, <2>1 DEF Told
  <2>3. a \notin RoleArgs
    <3>1. CASE p[2] = "yes"
      <4>1. p[1] # "shardsvr" /\ p[1] # "configsvr"
          BY <1>3, <2>0, <3>1 DEF Roles
      <4>2. a = <<p[1]>>
          BY <3>1
      <4>3. a[1] = p[1]
          BY <4>2
      <4> HIDE DEF a
      <4> QED
          BY <4>1, <4>3 DEF RoleArgs
    <3>2. CASE p[2] # "yes"
      <4>1. a = p
          BY <3>2
      <4>2. Len(p) = 2
          BY <2>0
      <4> HIDE DEF a
      <4> QED
          BY <4>1, <4>2 DEF RoleArgs
    <3> QED
        BY <3>1, <3>2
  <2> QED
      BY <2>2, <2>3
<1>4. ASSUME NEW i \in DOMAIN params.set PROVE Setting(params.set[i]) \in S
  <2>1. Setting(params.set[i]) \in Told(params)
      BY Zenon DEF Told
  <2>2. Len(Setting(params.set[i])) = 3
      BY <1>0, SettingIs
  <2>3. Setting(params.set[i]) \notin RoleArgs
      BY <2>2 DEF RoleArgs
  <2> QED
      BY <2>1, <2>3
<1>5. \E a \in S : \A b \in S : Decides(b) <=> b = a
  <2>1. CASE \E i \in DOMAIN params.set : params.set[i][1] = "enableTestCommands"
    <3>1. PICK i \in DOMAIN params.set : params.set[i][1] = "enableTestCommands"
        BY <2>1
    <3> DEFINE a == Setting(params.set[i])
    <3>2. a \in S /\ Decides(a)
      <4>1. a[1] = "setParameter" /\ a[2] = "enableTestCommands"
          BY <1>0, <3>1, SettingIs
      <4> QED
          BY <1>4, <4>1 DEF Decides
    <3>3. ASSUME NEW b \in S, Decides(b) PROVE b = a
      <4>1. b \in Told(params) /\ b[1] = "setParameter" /\ b[2] = "enableTestCommands"
          BY <3>3 DEF Decides
      <4>2. PICK j \in DOMAIN params.set : b = Setting(params.set[j]) /\ b[2] = params.set[j][1]
          BY <2>1, <4>1, ToldIs
      <4>3. i = j
          BY <1>0, <3>1, <4>1, <4>2
      <4> QED
          BY <4>2, <4>3
    <3> HIDE DEF a, S
    <3> QED
        BY <3>2, <3>3
  <2>2. CASE ~\E i \in DOMAIN params.set : params.set[i][1] = "enableTestCommands"
    <3> DEFINE a == TestCommands("true")
    <3>1. a[1] = "setParameter" /\ a[2] = "enableTestCommands" /\ Len(a) = 3
        BY DEF TestCommands
    <3> HIDE DEF a
    <3>2. a \in S /\ Decides(a)
      <4>1. a \in Told(params)
          BY <2>2 DEF Told, Enabling, a
      <4>2. a \notin RoleArgs
          BY <3>1 DEF RoleArgs
      <4> QED
          BY <3>1, <4>1, <4>2 DEF Decides
    <3>3. ASSUME NEW b \in S, Decides(b) PROVE b = a
      <4>1. b \in Told(params) /\ b[1] = "setParameter" /\ b[2] = "enableTestCommands"
          BY <3>3 DEF Decides
      <4> QED
          BY <2>2, <4>1, ToldIs DEF a
    <3> HIDE DEF S
    <3> QED
        BY <3>2, <3>3
  <2> QED
      BY <2>1, <2>2
<1> HIDE DEF S
<1>6. SaysIn(S, params)
    BY <1>2, <1>3, <1>4, <1>5 DEF SaysIn
<1> QED
    BY <1>6 DEF S

(* A role is told when it is given.                                         *)
LEMMA RoleTold ==
    ASSUME NEW W, NEW params, Proc(W, params), NEW role \in {"shardsvr", "configsvr"}
    PROVE  << role >> \in Told(params) <=> Given(<<role, "yes">>, params)
<1> DEFINE a == << role >>
<1>1. \A i \in DOMAIN params.plain : params.plain[i] \in W \X W
    BY DEF Proc, Dict
<1>2. a[1] = role /\ Len(a) = 1
    OBVIOUS
<1>3. ASSUME a \in Told(params) PROVE Given(<<role, "yes">>, params)
  <2>1. PICK i \in DOMAIN params.plain : a \in Added(params.plain[i])
                /\ a[1] = params.plain[i][1]
    <3> HIDE DEF a
    <3> QED
        BY <1>2, <1>3, ToldIs
  <2> DEFINE p == params.plain[i]
  <2>2. p = <<p[1], p[2]>> /\ Len(p) = 2
      BY <1>1
  <2>3. p[2] = "yes"
    <3> HIDE DEF a, p
    <3> QED
        BY <1>2, <2>1, <2>2 DEF Added, p
  <2>4. p = <<role, "yes">>
      BY <1>2, <2>1, <2>2, <2>3
  <2> QED
      BY <2>4 DEF Given
<1>4. ASSUME Given(<<role, "yes">>, params) PROVE a \in Told(params)
  <2>1. PICK i \in DOMAIN params.plain : params.plain[i] = <<role, "yes">>
      BY <1>4 DEF Given
  <2>2. a \in Added(params.plain[i])
      BY <2>1 DEF Added
  <2> HIDE DEF a
  <2> QED
      BY Zenon, <2>2 DEF Told
<1> QED
    BY <1>3, <1>4

(* A member of a shard is started as the file says.                         *)
LEMMA MemberSays ==
    ASSUME NEW W, NEW params, Proc(W, params)
    PROVE  Says(Without(HandleProcParams(params)), params)
<1> DEFINE args == HandleProcParams(params)
<1>1. args \in Seq(Seq(W)) /\ In(args) = Told(params) /\ \A a : Once(args, a)
    BY Handled
<1> HIDE DEF args
<1>2. \A key : Has(args, key) <=> << key >> \in In(args)
  <2>1. DOMAIN args = 1 .. Len(args)
      BY <1>1
  <2> QED
      BY <2>1 DEF Has, Contains, In
<1>3. \A role \in {"shardsvr", "configsvr"} : Has(args, role) <=> Given(<<role, "yes">>, params)
    BY Zenon, <1>1, <1>2, RoleTold
<1>4. ASSUME NEW a \in In(args)
      PROVE  /\ In(RemoveFirst(args, a)) = In(args) \ {a}
             /\ \A b : b # a => Once(RemoveFirst(args, a), b)
    BY <1>1, RemovedOnce
<1>5. \A a \in RoleArgs : ~Decides(a)
    BY DEF RoleArgs, Decides
<1>6. In(Without(args)) = In(args) \ RoleArgs /\ \A a : Decides(a) => Once(Without(args), a)
  <2>1. CASE Given(<<"shardsvr", "yes">>, params)
    <3>1. << "shardsvr" >> \in In(args) /\ << "configsvr" >> \notin In(args)
        BY <1>2, <1>3, <2>1 DEF Proc
    <3>2. Without(args) = RemoveFirst(args, << "shardsvr" >>)
        BY <1>3, <2>1 DEF Without
    <3> QED
        BY <1>4, <1>5, <3>1, <3>2 DEF RoleArgs
  <2>2. CASE Given(<<"configsvr", "yes">>, params)
    <3>1. << "configsvr" >> \in In(args) /\ << "shardsvr" >> \notin In(args)
        BY <1>2, <1>3, <2>2 DEF Proc
    <3>2. Without(args) = RemoveFirst(args, << "configsvr" >>)
        BY <1>2, <1>3, <3>1 DEF Without
    <3> QED
        BY <1>4, <1>5, <3>1, <3>2 DEF RoleArgs
  <2>3. CASE ~Given(<<"shardsvr", "yes">>, params) /\ ~Given(<<"configsvr", "yes">>, params)
    <3>1. << "configsvr" >> \notin In(args) /\ << "shardsvr" >> \notin In(args)
        BY <1>2, <1>3, <2>3
    <3>2. Without(args) = args
        BY <1>3, <2>3 DEF Without
    <3> QED
        BY <1>1, <3>1, <3>2 DEF RoleArgs
  <2> QED
      BY <2>1, <2>2, <2>3
<1>7. SaysIn(In(Without(args)), params)
    BY Zenon, <1>1, <1>6, ToldSays
<1>8. Says(Without(args), params)
    BY Zenon, <1>6, <1>7, SaysIs
<1> QED
    BY <1>8 DEF args

(* So is a process without a role, whatever else it is told that does not   *)
(* concern its parameters.                                                  *)
LEMMA ProcessSays ==
    ASSUME NEW W, NEW params, Proc(W, params), RoleOf(params) = "none"
    PROVE  /\ SaysIn(In(HandleProcParams(params)), params)
           /\ Says(HandleProcParams(params), params)
<1> DEFINE args == HandleProcParams(params)
<1>1. In(args) = Told(params) /\ \A a : Once(args, a)
    BY Handled
<1> HIDE DEF args
<1>2. ~Given(<<"shardsvr", "yes">>, params) /\ ~Given(<<"configsvr", "yes">>, params)
    BY DEF RoleOf
<1>3. Told(params) \ RoleArgs = Told(params)
    BY <1>2, RoleTold DEF RoleArgs
<1>4. SaysIn(In(args), params)
    BY Zenon, <1>1, <1>3, ToldSays
<1>5. Says(args, params)
    BY Zenon, <1>1, <1>4, SaysIs
<1> QED
    BY <1>4, <1>5 DEF args

(* The words of the files and of their arguments.                           *)
Words == {"setParameter", "enableTestCommands", "true", "port", "ipv6", "no", "yes", "shardsvr",
          "configsvr", "other", "0", "1", "keyFile", "path", "tlsCertificateKeyFile", "pem",
          "sslWeakCertificateValidation", "unixSocketPrefix", "/tmp", "journal", "quiet",
          "replSet", "id"} \cup Ports
Ported(params) == \E n \in Ports : params.plain = << <<"port", n>> >>

(* A pair of words.                                                         *)
LEMMA PairIs ==
    ASSUME NEW W, NEW x \in W, NEW y \in W
    PROVE  <<x, y>> \in W \X W /\ <<x, y>>[1] = x /\ <<x, y>>[2] = y
    OBVIOUS

(* The processes of the files have the parameters of a process.             *)
LEMMA ParamsAre ==
    ASSUME NEW params \in Params
    PROVE  /\ Proc(Words, params)
           /\ RoleOf(params) = "none" => Ported(params)
<1>0. \A x \in {"setParameter", "enableTestCommands", "true", "port", "ipv6", "no", "yes",
                "shardsvr", "configsvr", "other", "0", "1"} : x \in Words
    BY DEF Words
<1>1. ASSUME NEW x \in Words, NEW y \in Words
      PROVE  Dict(Words, << <<x, y>> >>)
  <2>1. <<x, y>> \in Words \X Words
      BY PairIs
  <2> QED
      BY <2>1 DEF Dict
<1>2. ASSUME NEW n \in Ports, NEW role \in {"shardsvr", "configsvr"}, NEW d,
             d = << <<"ipv6", "no">>, <<"port", n>>, <<role, "yes">> >>
      PROVE  /\ Dict(Words, d) /\ DOMAIN d = 1 .. 3
             /\ d[1] = <<"ipv6", "no">> /\ d[2] = <<"port", n>> /\ d[3] = <<role, "yes">>
  <2>1. /\ <<"ipv6", "no">> \in Words \X Words /\ <<"port", n>> \in Words \X Words
        /\ <<role, "yes">> \in Words \X Words
      BY <1>0 DEF Words
  <2>2. /\ d \in Seq(Words \X Words) /\ DOMAIN d = 1 .. 3
        /\ d[1] = <<"ipv6", "no">> /\ d[2] = <<"port", n>> /\ d[3] = <<role, "yes">>
      BY <1>2, <2>1
  <2>3. d[1][1] = "ipv6" /\ d[2][1] = "port" /\ d[3][1] = role
      BY <2>2
  <2>4. \A i, j \in 1 .. 3 : d[i][1] = d[j][1] => i = j
      BY <2>3
  <2> QED
      BY <2>2, <2>4 DEF Dict
<1>3. Dict(Words, params.set)
  <2>1. \/ params.set = <<>> \/ params.set = << <<"other", "1">> >>
        \/ params.set = << <<"enableTestCommands", "0">> >>
      BY DEF Params
  <2>2. Dict(Words, <<>>)
      BY DEF Dict
  <2> QED
      BY <1>0, <1>1, <2>1, <2>2
<1>4. CASE Ported(params)
  <2>1. PICK n \in Ports : params.plain = << <<"port", n>> >>
      BY <1>4 DEF Ported
  <2>2. Dict(Words, params.plain)
      BY <1>0, <1>1, <2>1 DEF Words
  <2>3. DOMAIN params.plain = {1} /\ params.plain[1] = <<"port", n>>
      BY <2>1
  <2>4. \A i \in DOMAIN params.plain : params.plain[i][1] = "port"
      BY <2>3
  <2>5. ~Given(<<"shardsvr", "yes">>, params)
      BY <2>4 DEF Given
  <2>6. \A i \in DOMAIN params.plain : params.plain[i][1] # "setParameter"
      BY <2>4
  <2> QED
      BY <1>0, <1>3, <1>4, <2>2, <2>5, <2>6 DEF Proc
<1>5. CASE ~Ported(params)
  <2>1. PICK n \in Ports, role \in {"shardsvr", "configsvr"} :
           params.plain = << <<"ipv6", "no">>, <<"port", n>>, <<role, "yes">> >>
    <3>1. params.plain \in {<< <<"port", n>> >> : n \in Ports}
            \cup {<< <<"ipv6", "no">>, <<"port", n>>, <<role, "yes">> >> :
                     n \in Ports, role \in {"shardsvr", "configsvr"}}
        BY DEF Params
    <3> QED
        BY <1>5, <3>1 DEF Ported
  <2>2. /\ Dict(Words, params.plain) /\ DOMAIN params.plain = 1 .. 3
        /\ params.plain[1] = <<"ipv6", "no">> /\ params.plain[2] = <<"port", n>>
        /\ params.plain[3] = <<role, "yes">>
      BY <1>2, <2>1
  <2>3. \A i \in DOMAIN params.plain : params.plain[i][1] \in {"ipv6", "port", role}
      BY <2>2
  <2>4. \A other : Given(<<other, "yes">>, params) /\ other \in {"shardsvr", "configsvr"}
                      => other = role
    <3>1. \A i \in DOMAIN params.plain : i = 1 \/ i = 2 \/ i = 3
        BY <2>2
    <3> QED
        BY <2>2, <3>1 DEF Given
  <2>5. ~(Given(<<"shardsvr", "yes">>, params) /\ Given(<<"configsvr", "yes">>, params))
      BY <2>4
  <2>6. \A i \in DOMAIN params.plain : params.plain[i][1] # "setParameter"
      BY <2>3
  <2>7. Given(<<role, "yes">>, params)
      BY <2>2 DEF Given
  <2>8. RoleOf(params) # "none"
      BY <2>7 DEF RoleOf
  <2> QED
      BY <1>0, <1>3, <2>2, <2>5, <2>6, <2>8 DEF Proc
<1> QED
    BY <1>4, <1>5

(* Other arguments do not change what a process with a port is told.        *)
LEMMA MoreSays ==
    ASSUME NEW params, Ported(params), NEW S, SaysIn(S, params), NEW E,
           \A a \in E : a[1] # "setParameter"
    PROVE  SaysIn(S \cup E, params)
<1>1. PICK n \in Ports : params.plain = << <<"port", n>> >>
    BY DEF Ported
<1>2. DOMAIN params.plain = {1} /\ params.plain[1] = <<"port", n>>
    BY <1>1
<1>3. n # "yes" /\ n # "no"
    BY InputsOK
<1>4. \A i \in DOMAIN params.plain :
         /\ params.plain[i][2] # "no" /\ params.plain[i] \notin Roles
    BY <1>2, <1>3 DEF Roles
<1>5. \E a \in S \cup E : \A b \in S \cup E : Decides(b) <=> b = a
  <2>1. PICK a \in S : \A b \in S : Decides(b) <=> b = a
      BY DEF SaysIn
  <2>2. \A b \in E : ~Decides(b)
      BY DEF Decides
  <2>3. Decides(a)
      BY <2>1
  <2> QED
      BY <2>1, <2>2, <2>3
<1> QED
    BY <1>4, <1>5 DEF SaysIn

(* Arguments that set nothing twice, and arguments that set nothing at all. *)
Calm(s) == s \in Seq(Seq(Words)) /\ \A a : Decides(a) => Once(s, a)
Mute(s) == s \in Seq(Seq(Words)) /\ \A a \in In(s) : a[1] # "setParameter"

(* What sets nothing does not disturb what sets nothing twice.              *)
LEMMA Joined ==
    ASSUME NEW s, NEW t, Calm(s) \/ Mute(s), Calm(t) \/ Mute(t), Mute(s) \/ Mute(t)
    PROVE  Calm(s \o t) /\ In(s \o t) = In(s) \cup In(t)
<1>1. s \in Seq(Seq(Words)) /\ t \in Seq(Seq(Words))
    BY Zenon DEF Calm, Mute
<1>2. s \o t \in Seq(Seq(Words)) /\ In(s \o t) = In(s) \cup In(t)
    BY <1>1, ConcatIn
<1>3. ASSUME NEW u, Mute(u), NEW a, Decides(a) PROVE a \notin In(u) /\ Once(u, a)
  <2>1. a \notin In(u)
      BY <1>3 DEF Mute, Decides
  <2> QED
      BY <2>1 DEF Once, In
<1>4. ASSUME NEW a, Decides(a) PROVE Once(s \o t, a)
  <2>1. Once(s, a) /\ Once(t, a)
      BY Zenon, <1>3, <1>4 DEF Calm
  <2>2. a \notin In(s) \/ a \notin In(t)
      BY Zenon, <1>3, <1>4
  <2> QED
      BY Zenon, <1>1, <2>1, <2>2, ConcatOnce
<1> QED
    BY <1>2, <1>4 DEF Calm

(* A single argument.                                                       *)
LEMMA OneArg ==
    ASSUME NEW x \in Words, NEW y \in Words, x # "setParameter", NEW s, s = << <<x, y>> >>
    PROVE  Mute(s) /\ \A a \in In(s) : a[1] = x
<1> DEFINE T == Seq(Words)
<1>1. <<x, y>> \in T /\ <<x, y>>[1] = x
    OBVIOUS
<1> HIDE DEF T
<1>2. s \in Seq(T) /\ DOMAIN s = {1} /\ s[1] = <<x, y>>
    BY <1>1
<1>3. In(s) = {<<x, y>>}
    BY <1>2 DEF In
<1> QED
    BY <1>1, <1>2, <1>3 DEF Mute, T

(* No argument.                                                             *)
LEMMA NoArg == Mute(<<>>) /\ In(<<>>) = {}
    BY DEF Mute, In

(* The arguments of a dictionary have its keys.                             *)
LEMMA DictArgs ==
    ASSUME NEW d, Dict(Words, d), NEW K, \A i \in DOMAIN d : d[i][1] \in K,
           "setParameter" \notin K
    PROVE  /\ Mute(Args(d)) /\ In(Args(d)) = UNION {Added(d[i]) : i \in DOMAIN d}
           /\ \A a \in In(Args(d)) : a[1] \in K
<1>1. /\ Args(d) \in Seq(Seq(Words))
      /\ In(Args(d)) = UNION {Added(d[i]) : i \in DOMAIN d}
    BY ArgsTell
<1>2. ASSUME NEW a \in In(Args(d)) PROVE a[1] \in K
  <2>1. PICK i \in DOMAIN d : a \in Added(d[i])
      BY <1>1
  <2>2. d[i] \in Words \X Words
      BY DEF Dict
  <2> QED
      BY <2>1, <2>2, ArgAdds
<1> QED
    BY <1>1, <1>2 DEF Mute

(* The file's TLS options, by their new names.                              *)
LEMMA TlsMute ==
    ASSUME NEW ssl \in Ssl
    PROVE  LET args == Args([i \in DOMAIN ssl |-> <<SslKey(Key(ssl[i])), Value(ssl[i])>>])
           IN Mute(args) /\ \A a \in In(args) : a[1] # "quiet"
<1> DEFINE tls == [i \in DOMAIN ssl |-> <<SslKey(Key(ssl[i])), Value(ssl[i])>>]
           K == {"tlsCertificateKeyFile", "sslWeakCertificateValidation"}
<1>1. Dict(Words, tls) /\ \A i \in DOMAIN tls : tls[i][1] \in K
  <2>1. CASE ssl = <<>>
    <3>1. tls = <<>>
        BY <2>1
    <3> QED
        BY <3>1 DEF Dict
  <2>2. CASE ssl # <<>>
    <3>1. ssl = << <<"sslPEMKeyFile", "pem">>, <<"sslWeakCertificateValidation", "yes">> >>
        BY <2>2 DEF Ssl
    <3>2. DOMAIN tls = 1 .. 2 /\ tls[1] = <<"tlsCertificateKeyFile", "pem">>
          /\ tls[2] = <<"sslWeakCertificateValidation", "yes">>
        BY <3>1 DEF SslKey, Key, Value
    <3>3. tls \in [1 .. 2 -> Words \X Words]
      <4>1. <<"tlsCertificateKeyFile", "pem">> \in Words \X Words
            /\ <<"sslWeakCertificateValidation", "yes">> \in Words \X Words
          BY DEF Words
      <4>2. \A i \in 1 .. 2 : tls[i] \in Words \X Words
        <5> HIDE DEF tls
        <5> QED
            BY <3>2, <4>1
      <4> QED
          BY <3>2, <4>2
    <3> HIDE DEF tls
    <3>4. tls \in Seq(Words \X Words)
      <4> DEFINE WW == Words \X Words
      <4>1. tls \in [1 .. 2 -> WW] /\ 2 \in Nat
          BY <3>3
      <4> HIDE DEF WW
      <4>2. tls \in Seq(WW)
          BY <4>1, FunctionIsSeq
      <4> QED
          BY <4>2 DEF WW
    <3>5. tls[1][1] = "tlsCertificateKeyFile" /\ tls[2][1] = "sslWeakCertificateValidation"
        BY <3>2
    <3> QED
        BY <3>2, <3>4, <3>5 DEF Dict
  <2> QED
      BY <2>1, <2>2
<1>2. "setParameter" \notin K /\ "quiet" \notin K
    OBVIOUS
<1> HIDE DEF tls, K
<1>3. Mute(Args(tls)) /\ \A a \in In(Args(tls)) : a[1] \in K
    BY Zenon, <1>1, <1>2, DictArgs
<1>4. \A a \in In(Args(tls)) : a[1] # "quiet"
    BY <1>2, <1>3
<1> QED
    BY <1>3, <1>4 DEF tls

(* The file's top level.                                                    *)
TopArgs(top) == Args([i \in DOMAIN top |-> TopPair(top[i])])

(* Of the top level the file's key and its flag are told.                   *)
LEMMA TopIs ==
    ASSUME NEW top \in {<<>>, Top}
    PROVE  /\ Mute(TopArgs(top))
           /\ \A a \in In(TopArgs(top)) : a[1] # "quiet"
           /\ top # <<>> => {<<"keyFile", "path">>, << "journal" >>} \subseteq In(TopArgs(top))
<1> DEFINE d == [i \in DOMAIN top |-> TopPair(top[i])]
           WW == Words \X Words
           K == {"keyFile", "journal", "quiet"}
<1>1. CASE top = <<>>
  <2>1. d = <<>>
      BY <1>1
  <2>2. Dict(Words, <<>>) /\ (\A i \in DOMAIN <<>> : <<>>[i][1] \in {}) /\ "setParameter" \notin {}
      BY DEF Dict
  <2>3. Mute(Args(<<>>)) /\ In(Args(<<>>)) = UNION {Added(<<>>[i]) : i \in DOMAIN <<>>}
      BY Zenon, <2>2, DictArgs
  <2>4. UNION {Added(<<>>[i]) : i \in DOMAIN <<>>} = {}
      OBVIOUS
  <2> HIDE DEF d
  <2> QED
      BY <1>1, <2>1, <2>3, <2>4 DEF TopArgs, d
<1>2. CASE top = Top
  <2>1. DOMAIN d = 1 .. 3 /\ d[1] = <<"keyFile", "path">> /\ d[2] = <<"journal", "yes">>
        /\ d[3] = <<"quiet", "no">>
      BY <1>2 DEF Top, TopPair, Key
  <2>2. d \in [1 .. 3 -> WW]
    <3>1. <<"keyFile", "path">> \in WW /\ <<"journal", "yes">> \in WW /\ <<"quiet", "no">> \in WW
        BY DEF Words
    <3>2. \A i \in 1 .. 3 : d[i] \in WW
      <4> HIDE DEF d, WW
      <4> QED
          BY <2>1, <3>1
    <3> QED
        BY <2>1, <3>2
  <2> HIDE DEF d
  <2>3. d[1][1] = "keyFile" /\ d[2][1] = "journal" /\ d[3][1] = "quiet"
        /\ d[1][2] = "path" /\ d[2][2] = "yes" /\ d[3][2] = "no"
      BY <2>1
  <2>4. d \in Seq(WW)
    <3> HIDE DEF WW
    <3>1. 3 \in Nat
        OBVIOUS
    <3> QED
        BY <2>2, <3>1, FunctionIsSeq
  <2>5. \A i, j \in DOMAIN d : d[i][1] = d[j][1] => i = j
    <3>1. \A i \in DOMAIN d : i = 1 \/ i = 2 \/ i = 3
        BY <2>1
    <3> QED
        BY <2>3, <3>1
  <2>6. Dict(Words, d) /\ (\A i \in DOMAIN d : d[i][1] \in K) /\ "setParameter" \notin K
    <3>1. \A i \in DOMAIN d : i = 1 \/ i = 2 \/ i = 3
        BY <2>1
    <3> QED
        BY <2>3, <2>4, <2>5, <3>1 DEF Dict
  <2>7. Mute(Args(d)) /\ In(Args(d)) = UNION {Added(d[i]) : i \in DOMAIN d}
    <3> HIDE DEF K
    <3> QED
        BY Zenon, <2>6, DictArgs
  <2>8. /\ Added(d[1]) = {<<"keyFile", "path">>} /\ Added(d[2]) = {<< "journal" >>}
        /\ Added(d[3]) = {}
      BY <2>1, <2>3 DEF Added
  <2>9. UNION {Added(d[i]) : i \in DOMAIN d} = {<<"keyFile", "path">>, << "journal" >>}
    <3> DEFINE A(i) == Added(d[i])
               k == <<"keyFile", "path">>
               f == << "journal" >>
    <3>1. A(1) = {k} /\ A(2) = {f} /\ A(3) = {} /\ DOMAIN d = 1 .. 3
        BY <2>1, <2>8
    <3> HIDE DEF A, k, f
    <3>2. UNION {A(i) : i \in 1 .. 3} = {k, f}
        BY <3>1
    <3> QED
        BY <3>1, <3>2 DEF A, k, f
  <2>10. <<"keyFile", "path">>[1] = "keyFile" /\ << "journal" >>[1] = "journal"
      OBVIOUS
  <2>11. \A a \in In(Args(d)) : a[1] # "quiet"
      BY <2>7, <2>9, <2>10
  <2>12. TopArgs(top) = Args(d)
      BY DEF TopArgs, d
  <2> QED
      BY <2>7, <2>9, <2>11, <2>12
<1> QED
    BY <1>1, <1>2

(* What a process is told of its own parameters, if it has any.             *)
LEMMA OwnIs ==
    ASSUME NEW given \in Optional(PlainParams)
    PROVE  /\ Calm(ParamArgs(given))
           /\ \A a \in In(ParamArgs(given)) : a[1] # "quiet"
           /\ given = <<>> => In(ParamArgs(given)) = {}
           /\ given # <<>> => /\ Ported(given[1]) /\ SaysIn(In(ParamArgs(given)), given[1])
                              /\ Says(ParamArgs(given), given[1])
<1>1. CASE given = <<>>
  <2>1. ParamArgs(given) = <<>>
      BY <1>1 DEF ParamArgs
  <2>2. Calm(<<>>)
      BY DEF Calm, Once
  <2> QED
      BY <1>1, <2>1, <2>2, NoArg
<1>2. CASE given # <<>>
  <2>1. PICK p \in PlainParams : given = << p >>
      BY <1>2 DEF Optional
  <2>2. given[1] = p /\ ParamArgs(given) = HandleProcParams(p)
      BY <1>2, <2>1 DEF ParamArgs
  <2>3. Proc(Words, p) /\ Ported(p) /\ RoleOf(p) = "none"
      BY ParamsAre DEF PlainParams
  <2> DEFINE H == HandleProcParams(p)
  <2>4. /\ H \in Seq(Seq(Words)) /\ In(H) = Told(p) /\ \A a : Once(H, a)
        /\ SaysIn(In(H), p) /\ Says(H, p)
      BY <2>3, Handled, ProcessSays
  <2>5. ASSUME NEW a \in In(H) PROVE a[1] # "quiet"
    <3>1. \A i \in DOMAIN p.plain : p.plain[i][1] = "port"
      <4>1. PICK n \in Ports : p.plain = << <<"port", n>> >>
          BY <2>3 DEF Ported
      <4>2. DOMAIN p.plain = {1} /\ p.plain[1] = <<"port", n>>
          BY <4>1
      <4> QED
          BY <4>2
    <3>2. a \in Told(p)
        BY <2>4
    <3>3. a[1] = "setParameter" \/ a[1] = "port"
        BY <2>3, <3>1, <3>2, ToldIs
    <3> QED
        BY <3>3
  <2> HIDE DEF H
  <2>6. Calm(H)
      BY <2>4 DEF Calm
  <2> QED
      BY <1>2, <2>2, <2>3, <2>4, <2>5, <2>6 DEF H
<1> QED
    BY <1>1, <1>2

(* So is a member of a replica set told what it is given, and nothing else. *)
LEMMA GivenSays ==
    ASSUME NEW given \in Optional(PlainParams)
    PROVE  SaysGiven(ParamArgs(given), given)
<1>1. CASE given = <<>>
  <2>1. ParamArgs(given) = <<>>
      BY <1>1 DEF ParamArgs
  <2>2. \A k \in DOMAIN <<>> : <<>>[k][1] # "setParameter"
      OBVIOUS
  <2> QED
      BY Zenon, <1>1, <2>1, <2>2 DEF SaysGiven
<1>2. CASE given # <<>>
    BY Zenon, <1>2, OwnIs DEF SaysGiven
<1> QED
    BY <1>1, <1>2

(* What the process of a standalone deployment is told of its own.          *)
OwnArgs(file) == IF file.topology = "standalone" THEN ParamArgs(file.procParams) ELSE <<>>

(* A file of the kinds that are compared, and what all its processes share. *)
WellFormed(file) == /\ file.top \in {<<>>, Top}
                    /\ file.sslParams \in Ssl
                    /\ file.procParams \in Optional(PlainParams)
ToldInCommon(file, E) == /\ In(CommonArgs(file)) = In(OwnArgs(file)) \cup E
                         /\ In(TopArgs(file.top)) \subseteq E
                         /\ \A a \in E : a[1] # "setParameter" /\ a[1] # "quiet"

(* What every process of a deployment is told: its own parameters, when it  *)
(* is alone, the top level, and more that sets nothing.                     *)
LEMMA CommonTold ==
    ASSUME NEW file, WellFormed(file)
    PROVE  Calm(CommonArgs(file)) /\ \E E : ToldInCommon(file, E)
<1>0. /\ file.top \in {<<>>, Top}
      /\ file.sslParams \in Ssl
      /\ file.procParams \in Optional(PlainParams)
    BY DEF WellFormed
<1> DEFINE A == TopArgs(file.top)
           own == OwnArgs(file)
           C == IF file.topology = "replset" THEN << <<"replSet", "id">> >> ELSE <<>>
           P == Args([i \in DOMAIN file.sslParams |->
                        <<SslKey(Key(file.sslParams[i])), Value(file.sslParams[i])>>])
           U == << <<"unixSocketPrefix", "/tmp">> >>
<1>1. CommonArgs(file) = (((A \o own) \o C) \o P) \o U
    BY DEF CommonArgs, TopArgs, OwnArgs
<1>2. Mute(A) /\ \A a \in In(A) : a[1] # "quiet"
    BY Zenon, <1>0, TopIs
<1>3. Calm(own)
  <2>1. Calm(<<>>)
      BY DEF Calm, Once
  <2> QED
      BY <1>0, <2>1, OwnIs DEF OwnArgs
<1>4. Mute(P) /\ \A a \in In(P) : a[1] # "quiet"
    BY Zenon, <1>0, TlsMute
<1>5. Mute(U) /\ \A a \in In(U) : a[1] # "quiet"
  <2>1. "unixSocketPrefix" \in Words /\ "/tmp" \in Words
      BY DEF Words
  <2>2. Mute(U) /\ \A a \in In(U) : a[1] = "unixSocketPrefix"
      BY <2>1, OneArg
  <2> QED
      BY <2>2
<1>6. Mute(C) /\ \A a \in In(C) : a[1] # "quiet"
  <2>1. "replSet" \in Words /\ "id" \in Words
      BY DEF Words
  <2>2. CASE file.topology = "replset"
    <3>1. C = << <<"replSet", "id">> >>
        BY <2>2
    <3> HIDE DEF C
    <3>2. Mute(C) /\ \A a \in In(C) : a[1] = "replSet"
        BY <2>1, <3>1, OneArg
    <3> QED
        BY <3>2
  <2>3. CASE file.topology # "replset"
    <3>1. C = <<>>
        BY <2>3
    <3> HIDE DEF C
    <3> QED
        BY <3>1, NoArg
  <2> QED
      BY <2>2, <2>3
<1> HIDE DEF A, own, C, P, U
<1> DEFINE B1 == A \o own
           B2 == B1 \o C
           B3 == B2 \o P
           B4 == B3 \o U
<1>7. Calm(B1) /\ In(B1) = In(A) \cup In(own)
    BY Zenon, <1>2, <1>3, Joined
<1> HIDE DEF B1
<1>8. Calm(B2) /\ In(B2) = In(B1) \cup In(C)
    BY Zenon, <1>6, <1>7, Joined
<1> HIDE DEF B2
<1>9. Calm(B3) /\ In(B3) = In(B2) \cup In(P)
    BY Zenon, <1>4, <1>8, Joined
<1> HIDE DEF B3
<1>10. Calm(B4) /\ In(B4) = In(B3) \cup In(U)
    BY Zenon, <1>5, <1>9, Joined
<1> HIDE DEF B4
<1>11. CommonArgs(file) = B4
    BY Zenon, <1>1 DEF B1, B2, B3, B4
<1> DEFINE E == In(A) \cup In(C) \cup In(P) \cup In(U)
<1>12. In(B4) = In(own) \cup E
    BY <1>7, <1>8, <1>9, <1>10
<1>13. \A a \in E : a[1] # "setParameter" /\ a[1] # "quiet"
    BY <1>2, <1>4, <1>5, <1>6 DEF Mute
<1>14. In(A) \subseteq E
    OBVIOUS
<1> HIDE DEF E
<1>15. ToldInCommon(file, E)
    BY Zenon, <1>11, <1>12, <1>13, <1>14 DEF A, own, ToldInCommon
<1> QED
    BY Zenon, <1>10, <1>11, <1>15

(* The top level of a file is told to every process, and a process that is   *)
(* alone is told its parameters, if it has any.                             *)
LEMMA CommonSays ==
    ASSUME job.top \in {<<>>, Top}, job.sslParams \in Ssl,
           job.procParams \in Optional(PlainParams), answer.args = CommonArgs(job)
    PROVE  /\ TopTold
           /\ job.topology = "standalone" => SaysGiven(answer.args, job.procParams)
<1>1. Calm(CommonArgs(job)) /\ \E E : ToldInCommon(job, E)
    BY Zenon, CommonTold DEF WellFormed
<1> DEFINE own == OwnArgs(job)
<1> HIDE DEF own
<1>2. PICK E : /\ In(answer.args) = In(own) \cup E
               /\ In(TopArgs(job.top)) \subseteq E
               /\ \A a \in E : a[1] # "setParameter" /\ a[1] # "quiet"
    BY Zenon, <1>1 DEF own, ToldInCommon
<1>3. \A a \in In(own) : a[1] # "quiet"
    BY OwnIs, NoArg DEF own, OwnArgs
<1>4. ASSUME job.topology = "standalone"
      PROVE  SaysGiven(answer.args, job.procParams)
  <2>1. own = ParamArgs(job.procParams)
      BY <1>4 DEF own, OwnArgs
  <2>2. CASE job.procParams = <<>>
    <3>1. In(own) = {}
        BY <2>1, <2>2, OwnIs
    <3>2. \A a \in In(answer.args) : a[1] # "setParameter"
        BY <1>2, <3>1
    <3> QED
        BY <2>2, <3>2 DEF SaysGiven, In
  <2>3. CASE job.procParams # <<>>
    <3>1. Ported(job.procParams[1]) /\ SaysIn(In(own), job.procParams[1])
        BY <2>1, <2>3, OwnIs
    <3>2. SaysIn(In(answer.args), job.procParams[1])
      <4>1. \A a \in E : a[1] # "setParameter"
          BY <1>2
      <4>2. SaysIn(In(own) \cup E, job.procParams[1])
          BY Zenon, <3>1, <4>1, MoreSays
      <4> QED
          BY Zenon, <1>2, <4>2
    <3>3. Says(answer.args, job.procParams[1])
        BY Zenon, <1>1, <3>2, SaysIs DEF Calm
    <3> QED
        BY Zenon, <2>3, <3>3 DEF SaysGiven
  <2> QED
      BY <2>2, <2>3
<1>5. \A k \in DOMAIN answer.args : answer.args[k][1] # "quiet"
    BY <1>2, <1>3 DEF In
<1>6. TopTold
  <2>1. CASE job.top = <<>>
      BY <2>1 DEF TopTold
  <2>2. CASE job.top = Top
    <3>1. DOMAIN job.top = 1 .. 3 /\ job.top[1] = <<"auth_key", "secret">>
          /\ job.top[2] = <<"journal", "yes">> /\ job.top[3] = <<"quiet", "no">>
        BY <2>2 DEF Top
    <3>2. {<<"keyFile", "path">>, << "journal" >>} \subseteq In(answer.args)
      <4>1. job.top # <<>>
          BY <3>1
      <4>2. {<<"keyFile", "path">>, << "journal" >>} \subseteq In(TopArgs(job.top))
          BY Zenon, <4>1, TopIs
      <4> QED
          BY Zenon, <1>2, <4>2
    <3>3. /\ \E k \in DOMAIN answer.args : answer.args[k] = <<"keyFile", "path">>
          /\ \E k \in DOMAIN answer.args : answer.args[k] = << "journal" >>
      <4> DEFINE a == <<"keyFile", "path">>
                 b == << "journal" >>
      <4>1. a \in In(answer.args) /\ b \in In(answer.args)
          BY <3>2
      <4> HIDE DEF a, b
      <4>2. (\E k \in DOMAIN answer.args : answer.args[k] = a)
            /\ (\E k \in DOMAIN answer.args : answer.args[k] = b)
          BY <4>1 DEF In
      <4> QED
          BY <4>2 DEF a, b
    <3>4. ASSUME NEW i \in DOMAIN job.top
          PROVE  LET p == job.top[i]
                 IN IF p[2] = "no" THEN \A k \in DOMAIN answer.args : answer.args[k][1] # p[1]
                    ELSE \E k \in DOMAIN answer.args :
                           answer.args[k] = CASE p[1] = "auth_key" -> <<"keyFile", "path">>
                                              [] p[1] # "auth_key" /\ p[2] = "yes" -> <<p[1]>>
                                              [] OTHER -> p
      <4>1. CASE i = 1
        <5>1. job.top[i][1] = "auth_key" /\ job.top[i][2] = "secret"
            BY <3>1, <4>1
        <5> QED
            BY <3>3, <5>1
      <4>2. CASE i = 2
        <5>1. job.top[i][1] = "journal" /\ job.top[i][2] = "yes"
            BY <3>1, <4>2
        <5> QED
            BY <3>3, <5>1
      <4>3. CASE i = 3
        <5>1. job.top[i][1] = "quiet" /\ job.top[i][2] = "no"
            BY <3>1, <4>3
        <5> QED
            BY <1>5, <5>1
      <4> QED
          BY <3>1, <4>1, <4>2, <4>3
    <3> QED
        BY <3>4 DEF TopTold
  <2> QED
      BY <2>1, <2>2
<1> QED
    BY <1>4, <1>6

(* The parts of a file that its topology does not change.                   *)
LEMMA FileHas ==
    ASSUME NEW topology, NEW params, NEW members, NEW shards, NEW routers, NEW ssl \in Ssl,
           params \in Optional(PlainParams),
           job = FileOf(topology, params, members, shards, routers, ssl),
           answer = GetClusterOptions(job)
    PROVE  /\ TopTold
           /\ job.topology = "standalone" => SaysGiven(answer.args, job.procParams)
<1>1. /\ job.top \in {<<>>, Top} /\ job.sslParams = ssl /\ job.procParams = params
    BY DEF FileOf
<1>2. answer.args = CommonArgs(job)
    BY DEF GetClusterOptions
<1> QED
    BY Zenon, <1>1, <1>2, CommonSays

(* Where the options of a shard are: a config server's first, those of a    *)
(* data shard behind the config servers', which may not have come yet.      *)
Place(shards, i) == IF IsConfigSrv(shards[i]) THEN 1
                    ELSE IF \E c \in 1 .. i : IsConfigSrv(shards[c]) THEN i ELSE i + 1

(* The loop over the shards, with one of config servers at most.            *)
LEMMA ShardsAre ==
    ASSUME NEW T, NEW shards \in Seq(T),
           \A i, j \in DOMAIN shards :
              IsConfigSrv(shards[i]) /\ IsConfigSrv(shards[j]) => i = j
    PROVE  LET out == Shards(shards)
               n == Len(shards)
           IN /\ Len(out) = IF \E c \in 1 .. n : IsConfigSrv(shards[c]) THEN n ELSE n + 1
              /\ \A i \in 1 .. n : out[Place(shards, i)] = ShardOptions(shards[i])
<1> DEFINE n == Len(shards)
           U == {Blank} \cup {ShardOptions(shards[i]) : i \in 1 .. n}
           V == {s \in Seq(U) : Len(s) >= 1}
           More(v, k) == IF IsConfigSrv(shards[k])
                         THEN [v EXCEPT ![1] = ShardOptions(shards[k])]
                         ELSE Append(v, ShardOptions(shards[k]))
           Rec(f) == f = [k \in 0 .. n |-> IF k = 0 THEN <<Blank>>
                                           ELSE IF IsConfigSrv(shards[k])
                                           THEN [f[k - 1] EXCEPT ![1] = ShardOptions(shards[k])]
                                           ELSE Append(f[k - 1], ShardOptions(shards[k]))]
           made == CHOOSE f : Rec(f)
           step == [k \in 1 .. n |-> [v \in V |-> More(v, k)]]
<1>1. Shards(shards) = made[n]
    BY DEF Shards
<1>2. n \in Nat /\ DOMAIN shards = 1 .. n
    OBVIOUS
<1>3. ASSUME NEW v \in V, NEW k \in 1 .. n
      PROVE  /\ More(v, k) \in V
             /\ Len(More(v, k)) = IF IsConfigSrv(shards[k]) THEN Len(v) ELSE Len(v) + 1
             /\ More(v, k)[IF IsConfigSrv(shards[k]) THEN 1 ELSE Len(v) + 1]
                  = ShardOptions(shards[k])
             /\ \A i \in 1 .. Len(v) : i # 1 \/ ~IsConfigSrv(shards[k]) => More(v, k)[i] = v[i]
  <2> DEFINE o == ShardOptions(shards[k])
  <2>1. o \in U
      OBVIOUS
  <2>2. v \in Seq(U) /\ Len(v) \in Nat /\ Len(v) >= 1 /\ DOMAIN v = 1 .. Len(v)
      OBVIOUS
  <2> HIDE DEF o, U
  <2>3. CASE IsConfigSrv(shards[k])
    <3>1. More(v, k) = [v EXCEPT ![1] = o]
        BY <2>3 DEF o
    <3> DEFINE w == [v EXCEPT ![1] = o]
    <3>2. w \in [1 .. Len(v) -> U]
        BY <2>1, <2>2
    <3>3. w[1] = o /\ \A i \in 1 .. Len(v) : i # 1 => w[i] = v[i]
        BY <2>2
    <3> HIDE DEF w
    <3>4. w \in Seq(U) /\ Len(w) = Len(v)
        BY <2>2, <3>2, FunctionIsSeq
    <3>5. More(v, k) = w
        BY <3>1 DEF w
    <3> HIDE DEF More
    <3> QED
        BY <2>2, <2>3, <3>3, <3>4, <3>5 DEF o
  <2>4. CASE ~IsConfigSrv(shards[k])
    <3>1. More(v, k) = Append(v, o)
        BY <2>4 DEF o
    <3> DEFINE w == Append(v, o)
    <3>2. /\ w \in Seq(U) /\ Len(w) = Len(v) + 1 /\ w[Len(v) + 1] = o
          /\ \A i \in 1 .. Len(v) : w[i] = v[i]
        BY <2>1, <2>2
    <3> HIDE DEF w
    <3>3. More(v, k) = w
        BY <3>1 DEF w
    <3> HIDE DEF More
    <3> QED
        BY <2>2, <2>4, <3>2, <3>3 DEF o
  <2> QED
      BY <2>3, <2>4
<1>4. step \in [1 .. n -> [V -> V]]
  <2> HIDE DEF V, More
  <2> QED
      BY <1>3
<1>5. <<Blank>> \in V
    OBVIOUS
<1> HIDE DEF V, n
<1>6. PICK f \in [0 .. n -> V] : f[0] = <<Blank>> /\ \A k \in 1 .. n : f[k] = step[k][f[k - 1]]
  <2> DEFINE start == <<Blank>>
  <2>1. n \in Nat /\ start \in V
      BY <1>2, <1>5
  <2> HIDE DEF step, start
  <2>2. \E f : Loop(n, V, start, step, f)
      BY <1>4, <2>1, LoopRuns
  <2> QED
      BY <2>2 DEF start, Loop
<1>7. \A k \in 1 .. n : f[k - 1] \in V /\ f[k] = More(f[k - 1], k)
  <2> SUFFICES ASSUME NEW k \in 1 .. n
               PROVE  f[k - 1] \in V /\ f[k] = More(f[k - 1], k)
      OBVIOUS
  <2>1. k - 1 \in 0 .. n
      BY <1>2
  <2>2. f[k - 1] \in V
      BY <1>6, <2>1
  <2> HIDE DEF More
  <2> QED
      BY <1>6, <2>2
<1>8. Rec(f)
  <2>1. ASSUME NEW k \in 0 .. n
        PROVE  f[k] = IF k = 0 THEN <<Blank>>
                      ELSE IF IsConfigSrv(shards[k])
                      THEN [f[k - 1] EXCEPT ![1] = ShardOptions(shards[k])]
                      ELSE Append(f[k - 1], ShardOptions(shards[k]))
    <3>1. CASE k = 0
        BY <1>6, <3>1
    <3>2. CASE k # 0
      <4>1. k \in 1 .. n
          BY <1>2, <3>2
      <4>2. f[k] = More(f[k - 1], k)
          BY <1>7, <4>1
      <4> QED
          BY <3>2, <4>2
    <3> QED
        BY <3>1, <3>2
  <2> QED
      BY <1>6, <2>1
<1>9. Rec(made)
    BY Zenon, <1>8
<1> HIDE DEF made
<1>10. made[0] = <<Blank>> /\ \A k \in 1 .. n : made[k] = More(made[k - 1], k)
  <2>1. ASSUME NEW k \in 0 .. n
        PROVE  made[k] = IF k = 0 THEN <<Blank>>
                         ELSE IF IsConfigSrv(shards[k])
                         THEN [made[k - 1] EXCEPT ![1] = ShardOptions(shards[k])]
                         ELSE Append(made[k - 1], ShardOptions(shards[k]))
      BY <1>9
  <2>2. 0 \in 0 .. n /\ \A k \in 1 .. n : k \in 0 .. n /\ k # 0
      BY <1>2
  <2>3. made[0] = <<Blank>>
      BY <2>1, <2>2
  <2>4. ASSUME NEW k \in 1 .. n PROVE made[k] = More(made[k - 1], k)
    <3>1. k \in 0 .. n /\ k # 0
        BY <2>2
    <3>2. made[k] = IF IsConfigSrv(shards[k])
                    THEN [made[k - 1] EXCEPT ![1] = ShardOptions(shards[k])]
                    ELSE Append(made[k - 1], ShardOptions(shards[k]))
        BY <2>1, <3>1
    <3> QED
        BY Zenon, <3>2
  <2> QED
      BY <2>3, <2>4
<1> DEFINE came(k) == \E c \in 1 .. k : IsConfigSrv(shards[c])
           S == {k \in 0 .. n : /\ made[k] \in V
                                /\ Len(made[k]) = IF came(k) THEN k ELSE k + 1
                                /\ \A i \in 1 .. k :
                                     made[k][Place(shards, i)] = ShardOptions(shards[i])}
<1>11. 0 \in S
  <2>1. Len(<<Blank>>) = 1 /\ 1 .. 0 = {} /\ 0 \in 0 .. n
      BY <1>2
  <2>2. ~came(0)
      BY <2>1
  <2>3. Len(made[0]) = 0 + 1 /\ made[0] \in V
      BY <1>5, <1>10, <2>1
  <2> HIDE DEF came
  <2>4. Len(made[0]) = IF came(0) THEN 0 ELSE 0 + 1
      BY <2>2, <2>3
  <2> QED
      BY <2>1, <2>3, <2>4
<1>12. ASSUME NEW k \in 1 .. n, k - 1 \in S PROVE k \in S
  <2> DEFINE v == made[k - 1]
             w == made[k]
  <2>1. /\ v \in V /\ Len(v) = IF came(k - 1) THEN k - 1 ELSE (k - 1) + 1
        /\ \A i \in 1 .. k - 1 : v[Place(shards, i)] = ShardOptions(shards[i])
      BY <1>12
  <2>2. w = More(v, k)
      BY <1>10
  <2>3. k \in 1 .. n /\ k \in 0 .. n /\ k \in Nat /\ k - 1 \in 0 .. n
      BY <1>2
  <2> HIDE DEF v, w, More
  <2>4. /\ w \in V /\ Len(w) = IF IsConfigSrv(shards[k]) THEN Len(v) ELSE Len(v) + 1
        /\ w[IF IsConfigSrv(shards[k]) THEN 1 ELSE Len(v) + 1] = ShardOptions(shards[k])
        /\ \A i \in 1 .. Len(v) : i # 1 \/ ~IsConfigSrv(shards[k]) => w[i] = v[i]
      BY <1>3, <2>1, <2>2
  <2>5. \A i, j \in 1 .. n : IsConfigSrv(shards[i]) /\ IsConfigSrv(shards[j]) => i = j
      BY <1>2
  <2>6. came(k) <=> came(k - 1) \/ IsConfigSrv(shards[k])
    <3>1. 1 .. k = (1 .. k - 1) \cup {k}
        BY <2>3
    <3> QED
        BY <3>1
  <2>7. ~(came(k - 1) /\ IsConfigSrv(shards[k]))
    <3>1. ASSUME NEW c \in 1 .. k - 1, IsConfigSrv(shards[c]), IsConfigSrv(shards[k])
          PROVE  FALSE
      <4>1. c \in 1 .. n /\ c # k
          BY <1>2, <2>3
      <4> QED
          BY <2>3, <2>5, <3>1, <4>1
    <3> QED
        BY <3>1
  <2>8. ASSUME NEW i \in 1 .. k - 1 PROVE w[Place(shards, i)] = v[Place(shards, i)]
    <3>0. i \in 1 .. n /\ i \in Nat /\ i <= k - 1 /\ i >= 1
        BY <1>2, <2>3
    <3>1. (\E c \in 1 .. i : IsConfigSrv(shards[c])) => came(k - 1)
        BY <2>3
    <3>2. IsConfigSrv(shards[i]) => came(k - 1)
        BY <2>3
    <3> HIDE DEF came
    <3>3. Place(shards, i) \in 1 .. Len(v)
      <4>1. CASE came(k - 1)
        <5>1. Len(v) = k - 1
            BY <2>1, <4>1
        <5>2. Place(shards, i) \in {1, i, i + 1}
            BY DEF Place
        <5>3. Place(shards, i) = i + 1 => ~IsConfigSrv(shards[i])
                                          /\ ~\E c \in 1 .. i : IsConfigSrv(shards[c])
            BY <3>0 DEF Place
        <5>4. Place(shards, i) = i + 1 => i < k - 1
          <6>1. i = k - 1 => \E c \in 1 .. i : IsConfigSrv(shards[c])
              BY <4>1 DEF came
          <6> QED
              BY <2>3, <3>0, <5>3, <6>1
        <5> QED
            BY <2>3, <3>0, <5>1, <5>2, <5>4
      <4>2. CASE ~came(k - 1)
        <5>1. Len(v) = (k - 1) + 1 /\ Place(shards, i) = i + 1
            BY <2>1, <3>0, <3>1, <3>2, <4>2 DEF Place
        <5> QED
            BY <2>3, <3>0, <5>1
      <4> QED
          BY <4>1, <4>2
    <3>4. Place(shards, i) # 1 \/ ~IsConfigSrv(shards[k])
        BY <2>7, <3>0, <3>1, <3>2 DEF Place
    <3> QED
        BY <2>4, <3>3, <3>4
  <2>9. w[Place(shards, k)] = ShardOptions(shards[k])
    <3>1. CASE IsConfigSrv(shards[k])
        BY <2>4, <3>1 DEF Place
    <3>2. CASE ~IsConfigSrv(shards[k])
      <4>1. Place(shards, k) = Len(v) + 1
        <5>1. Place(shards, k) = IF came(k) THEN k ELSE k + 1
            BY <3>2 DEF Place
        <5> HIDE DEF came
        <5> QED
            BY <2>1, <2>3, <2>6, <3>2, <5>1
      <4> QED
          BY <2>4, <3>2, <4>1
    <3> QED
        BY <3>1, <3>2
  <2>10. Len(w) = IF came(k) THEN k ELSE k + 1
    <3> HIDE DEF came
    <3> QED
        BY <2>1, <2>3, <2>4, <2>6, <2>7
  <2>11. \A i \in 1 .. k : w[Place(shards, i)] = ShardOptions(shards[i])
    <3>1. \A i \in 1 .. k : i = k \/ i \in 1 .. k - 1
        BY <2>3
    <3> QED
        BY <2>1, <2>8, <2>9, <3>1
  <2> HIDE DEF came
  <2> QED
      BY <2>3, <2>4, <2>10, <2>11 DEF w
<1> HIDE DEF S
<1>13. 0 .. n \subseteq S
    BY <1>2, <1>11, <1>12, Kept
<1>14. n \in S
    BY <1>2, <1>13
<1> QED
    BY <1>1, <1>14 DEF S, n

(* A shard is one of config servers when its members have that role.        *)
LEMMA ConfigIs ==
    ASSUME NEW shard \in ShardSeqs, OneRole(shard)
    PROVE  /\ IsConfigSrv(shard) <=> RoleOf(shard[1]) = "configsvr"
           /\ DOMAIN ShardOptions(shard) = DOMAIN shard
           /\ SaysAll(ShardOptions(shard), shard)
<1>1. shard \in Seq(Params) /\ DOMAIN shard = 1 .. Len(shard) /\ Len(shard) \in Nat
      /\ shard # <<>>
  <2>1. shard \in SeqsUpTo({p \in Params : p.set # << <<"other", "1">> >>}, Members)
        /\ shard # <<>>
      BY DEF ShardSeqs
  <2>2. shard \in Seq({p \in Params : p.set # << <<"other", "1">> >>})
        /\ DOMAIN shard = 1 .. Len(shard) /\ Len(shard) \in 0 .. Members
      BY Zenon, <2>1, SeqsAre, InputsOK
  <2> HIDE DEF Params
  <2> QED
      BY <2>1, <2>2, InputsOK
<1>2. ASSUME NEW i \in DOMAIN shard PROVE Proc(Words, shard[i])
  <2>1. shard[i] \in Params
    <3> HIDE DEF Params
    <3> QED
        BY <1>1
  <2> QED
      BY <2>1, ParamsAre
<1>3. ASSUME NEW i \in DOMAIN shard
      PROVE  LET a == HandleProcParams(shard[i])
             IN ~Has(a, "shardsvr") /\ Has(a, "configsvr") <=> RoleOf(shard[i]) = "configsvr"
  <2> DEFINE a == HandleProcParams(shard[i])
  <2>1. a \in Seq(Seq(Words)) /\ In(a) = Told(shard[i])
      BY <1>2, Handled
  <2> HIDE DEF a
  <2>2. \A key : Has(a, key) <=> << key >> \in In(a)
    <3>1. DOMAIN a = 1 .. Len(a)
        BY <2>1
    <3> QED
        BY <3>1 DEF Has, Contains, In
  <2>3. \A role \in {"shardsvr", "configsvr"} :
           Has(a, role) <=> Given(<<role, "yes">>, shard[i])
      BY Zenon, <1>2, <2>1, <2>2, RoleTold
  <2> QED
      BY <2>3 DEF RoleOf, a
<1>4. 1 \in DOMAIN shard
    BY <1>1
<1>5. \A i \in DOMAIN shard : RoleOf(shard[i]) = RoleOf(shard[1])
    BY <1>4 DEF OneRole
<1>6. IsConfigSrv(shard) <=> RoleOf(shard[1]) = "configsvr"
    BY <1>3, <1>4, <1>5 DEF IsConfigSrv
<1>7. \A i \in DOMAIN shard : Says(Without(HandleProcParams(shard[i])), shard[i])
    BY <1>2, MemberSays
<1> DEFINE o == ShardOptions(shard)
<1>8. /\ DOMAIN o = DOMAIN shard
      /\ \A i \in DOMAIN shard : o[i] = Without(HandleProcParams(shard[i]))
    BY DEF ShardOptions
<1>9. Len(o) = Len(shard)
  <2>1. o = [i \in 1 .. Len(shard) |-> Without(HandleProcParams(shard[i]))]
      BY <1>1 DEF ShardOptions
  <2> HIDE DEF o
  <2> QED
      BY <1>1, <2>1
<1> HIDE DEF o
<1>10. SaysAll(o, shard)
    BY Zenon, <1>7, <1>8, <1>9 DEF SaysAll
<1> QED
    BY <1>6, <1>8, <1>10 DEF o

(* Of the config servers, the shards and the routers of a cluster.          *)
LEMMA ShardedAs ==
    ASSUME NEW shards \in ShardLists, NEW routers \in Routers, NEW ssl \in Ssl,
           job = FileOf("sharded", <<>>, <<>>, shards, routers, ssl),
           answer = GetClusterOptions(job), job.kind = "cluster"
    PROVE  DeploysWhatIsDescribed
<1> DEFINE config == {i \in DOMAIN job.shards : RoleOf(job.shards[i][1]) = "configsvr"}
           place(i) == IF i \in config THEN 1
                       ELSE IF \E c \in config : c < i THEN i ELSE i + 1
           n == Len(shards)
<1>1. job.topology = "sharded" /\ job.shards = shards /\ job.routers = routers
    BY DEF FileOf
<1>2. /\ answer.shards = Shards(shards)
      /\ answer.mongosArgs = [i \in DOMAIN routers |-> HandleProcParams(routers[i])]
    BY <1>1 DEF GetClusterOptions
<1>3. /\ shards \in Seq(ShardSeqs) /\ DOMAIN shards = 1 .. n /\ n \in Nat
      /\ \A i \in DOMAIN shards : shards[i] \in ShardSeqs /\ OneRole(shards[i])
      /\ \A i, j \in DOMAIN shards :
           IsConfigSrv(shards[i]) /\ IsConfigSrv(shards[j]) => i = j
  <2> DEFINE U == {u \in ShardSeqs : OneRole(u)}
  <2>1. shards \in SeqsUpTo(U, Groups) /\
        \A i, j \in DOMAIN shards :
           IsConfigSrv(shards[i]) /\ IsConfigSrv(shards[j]) => i = j
      BY Zenon DEF ShardLists
  <2>2. \A u \in U : u \in ShardSeqs /\ OneRole(u)
      OBVIOUS
  <2> HIDE DEF U
  <2>3. shards \in Seq(U) /\ DOMAIN shards = 1 .. n /\ n \in 0 .. Groups
      BY Zenon, <2>1, SeqsAre, InputsOK
  <2>4. \A i \in DOMAIN shards : shards[i] \in U
      BY <2>3
  <2>5. n \in Nat
      BY <2>3, InputsOK
  <2>6. shards \in Seq(ShardSeqs)
      BY <2>2, <2>3, <2>4, <2>5
  <2> QED
      BY <2>1, <2>2, <2>3, <2>4, <2>5, <2>6
<1>4. \A i \in DOMAIN shards : i \in config <=> IsConfigSrv(shards[i])
  <2> SUFFICES ASSUME NEW i \in DOMAIN shards
               PROVE  i \in config <=> IsConfigSrv(shards[i])
      OBVIOUS
  <2>1. IsConfigSrv(shards[i]) <=> RoleOf(shards[i][1]) = "configsvr"
      BY Zenon, <1>3, ConfigIs
  <2> QED
      BY <1>1, <2>1
<1>5. config \subseteq DOMAIN shards
    BY <1>1
<1> HIDE DEF config, n
<1>6. /\ Len(answer.shards) = IF \E c \in 1 .. n : IsConfigSrv(shards[c]) THEN n ELSE n + 1
      /\ \A i \in 1 .. n : answer.shards[Place(shards, i)] = ShardOptions(shards[i])
    BY Zenon, <1>2, <1>3, ShardsAre DEF n
<1>7. Len(answer.shards) = Len(job.shards) + (IF config = {} THEN 1 ELSE 0)
  <2>1. config = {} <=> ~\E c \in 1 .. n : IsConfigSrv(shards[c])
      BY <1>3, <1>4, <1>5
  <2>2. Len(job.shards) = n
      BY <1>1 DEF n
  <2>3. CASE config = {}
      BY <1>3, <1>6, <2>1, <2>2, <2>3
  <2>4. CASE config # {}
    <3>1. Len(answer.shards) = n
        BY Zenon, <1>6, <2>1, <2>4
    <3>2. (IF config = {} THEN 1 ELSE 0) = 0
        BY Zenon, <2>4
    <3>3. n + 0 = n
        BY <1>3
    <3> QED
        BY Zenon, <2>2, <3>1, <3>2, <3>3
  <2> QED
      BY <2>3, <2>4
<1>8. ASSUME NEW i \in DOMAIN job.shards
      PROVE  SaysAll(answer.shards[place(i)], job.shards[i])
  <2>1. i \in 1 .. n /\ job.shards[i] = shards[i]
      BY <1>1, <1>3
  <2>2. (\E c \in config : c < i) \/ i \in config <=> \E c \in 1 .. i : IsConfigSrv(shards[c])
    <3>1. ASSUME NEW c \in 1 .. i, IsConfigSrv(shards[c])
          PROVE  (\E d \in config : d < i) \/ i \in config
      <4>1. c \in 1 .. n /\ (c < i \/ c = i)
          BY <1>3, <2>1
      <4> QED
          BY <1>3, <1>4, <3>1, <4>1
    <3>2. ASSUME NEW c \in config, c < i \/ c = i
          PROVE  \E d \in 1 .. i : IsConfigSrv(shards[d])
      <4>1. c \in 1 .. n /\ c \in 1 .. i
          BY <1>3, <1>5, <2>1, <3>2
      <4> QED
          BY <1>3, <1>4, <4>1
    <3> QED
        BY <3>1, <3>2
  <2>3. Place(shards, i) = place(i)
      BY <1>3, <1>4, <2>1, <2>2 DEF Place
  <2>4. SaysAll(ShardOptions(shards[i]), shards[i])
      BY Zenon, <1>3, <2>1, ConfigIs
  <2> HIDE DEF place
  <2> QED
      BY <1>6, <2>1, <2>3, <2>4
<1>9. /\ Len(answer.mongosArgs) = Len(job.routers)
      /\ \A i \in DOMAIN job.routers : Says(answer.mongosArgs[i], job.routers[i])
  <2>1. PICK p \in PlainParams : routers = <<p>>
      BY Zenon DEF Routers
  <2>2. Says(HandleProcParams(p), p)
      BY Zenon, <2>1, ParamsAre, ProcessSays DEF PlainParams
  <2>3. DOMAIN routers = {1} /\ routers[1] = p /\ Len(routers) = 1
      BY <2>1
  <2>4. answer.mongosArgs = [i \in 1 .. 1 |-> HandleProcParams(routers[i])]
      BY <1>2, <2>3
  <2>5. Len(answer.mongosArgs) = 1 /\ answer.mongosArgs[1] = HandleProcParams(p)
      BY <2>3, <2>4
  <2> QED
      BY <1>1, <2>2, <2>3, <2>5
<1>10. ShardsDeployed
    BY Zenon, <1>7, <1>8, <1>9 DEF ShardsDeployed, config
<1>11. TopTold
    BY Zenon, FileHas DEF Optional
<1> QED
    BY <1>1, <1>10, <1>11 DEF DeploysWhatIsDescribed

(* Of the members of a replica set.                                         *)
LEMMA ReplicatedAs ==
    ASSUME NEW members \in ReplicaSets, NEW ssl \in Ssl,
           job = FileOf("replset", <<>>, members, <<>>, <<>>, ssl),
           answer = GetClusterOptions(job), job.kind = "cluster"
    PROVE  DeploysWhatIsDescribed
<1>1. job.topology = "replset" /\ job.members = members
    BY DEF FileOf
<1>2. answer.rsMembers = [i \in DOMAIN members |-> RsMember(members[i])]
    BY <1>1 DEF GetClusterOptions
<1>3. members \in Seq([procParams : Optional(PlainParams), rs : Rs]) /\ DOMAIN members = 1 .. Len(members)
      /\ Len(members) \in Nat
  <2> DEFINE T == [procParams : Optional(PlainParams), rs : Rs]
  <2>1. members \in SeqsUpTo(T, Members)
      BY Zenon DEF ReplicaSets
  <2> HIDE DEF T
  <2>2. members \in Seq(T) /\ DOMAIN members = 1 .. Len(members) /\ Len(members) \in 0 .. Members
      BY Zenon, <2>1, SeqsAre, InputsOK
  <2> QED
      BY <2>2, InputsOK DEF T
<1>4. Len(answer.rsMembers) = Len(members)
  <2>1. answer.rsMembers = [i \in 1 .. Len(members) |-> RsMember(members[i])]
      BY <1>2, <1>3
  <2> QED
      BY <1>3, <2>1
<1>5. ASSUME NEW i \in DOMAIN members
      PROVE  LET in == members[i]  out == answer.rsMembers[i]
             IN /\ SaysGiven(out.args, in.procParams)
                /\ in.rs.priority # "none" => out.priority = in.rs.priority
                /\ in.rs.priority = "none" => (out.priority = "0" <=> in.rs.arbiter)
                /\ out.arbiterOnly = in.rs.arbiter
  <2> DEFINE in == members[i]
             out == answer.rsMembers[i]
  <2>1. in.procParams \in Optional(PlainParams)
    <3> DEFINE T == [procParams : Optional(PlainParams), rs : Rs]
    <3>1. \A m \in T : m.procParams \in Optional(PlainParams)
        OBVIOUS
    <3> HIDE DEF T
    <3>2. members \in Seq(T)
        BY <1>3 DEF T
    <3>3. in \in T
        BY <3>2
    <3> QED
        BY <3>1, <3>3
  <2>2. out = RsMember(in)
      BY <1>2
  <2>3. SaysGiven(ParamArgs(in.procParams), in.procParams)
      BY Zenon, <2>1, GivenSays
  <2> HIDE DEF in, out
  <2>4. /\ out.args = ParamArgs(in.procParams)
        /\ out.priority = Priority(in.rs) /\ out.arbiterOnly = in.rs.arbiter
      BY <2>2 DEF RsMember
  <2>5. /\ in.rs.priority # "none" => out.priority = in.rs.priority
        /\ in.rs.priority = "none" => (out.priority = "0" <=> in.rs.arbiter)
      BY <2>4 DEF Priority
  <2> QED
      BY <2>3, <2>4, <2>5 DEF in, out
<1>6. ReplicaSetDeployed
  <2>1. Len(answer.rsMembers) = Len(job.members)
      BY <1>1, <1>4
  <2>2. ASSUME NEW i \in DOMAIN job.members
        PROVE  LET in == job.members[i]  out == answer.rsMembers[i]
               IN /\ SaysGiven(out.args, in.procParams)
                  /\ in.rs.priority # "none" => out.priority = in.rs.priority
                  /\ in.rs.priority = "none" => (out.priority = "0" <=> in.rs.arbiter)
                  /\ out.arbiterOnly = in.rs.arbiter
      BY <1>1, <1>5
  <2> QED
      BY <2>1, <2>2 DEF ReplicaSetDeployed
<1>7. TopTold
    BY Zenon, FileHas DEF Optional
<1> QED
    BY <1>1, <1>6, <1>7 DEF DeploysWhatIsDescribed

(* Of the process of a standalone deployment.                               *)
LEMMA AloneAs ==
    ASSUME NEW params \in Optional(PlainParams), NEW ssl \in Ssl,
           job = FileOf("standalone", params, <<>>, <<>>, <<>>, ssl),
           answer = GetClusterOptions(job), job.kind = "cluster"
    PROVE  DeploysWhatIsDescribed
<1>1. job.topology = "standalone"
    BY DEF FileOf
<1>2. TopTold /\ SaysGiven(answer.args, job.procParams)
    BY Zenon, <1>1, FileHas
<1> QED
    BY <1>1, <1>2 DEF DeploysWhatIsDescribed

(* Of each deployment.                                                      *)
LEMMA DeploysEach == Translated => DeploysWhatIsDescribed
<1> SUFFICES ASSUME Translated, job.kind = "cluster", answer # NotYet
             PROVE  DeploysWhatIsDescribed
    BY Zenon DEF DeploysWhatIsDescribed, Done
<1>1. job \in ClusterJobs /\ answer = GetClusterOptions(job)
    BY DEF Translated
<1>2. CASE job \in {FileOf("standalone", p, <<>>, <<>>, <<>>, ssl) :
                       p \in Optional(PlainParams), ssl \in Ssl}
  <2>1. PICK p \in Optional(PlainParams), ssl \in Ssl :
           job = FileOf("standalone", p, <<>>, <<>>, <<>>, ssl)
      BY <1>2
  <2> QED
      BY Zenon, <1>1, <2>1, AloneAs
<1>3. CASE job \in {FileOf("replset", <<>>, m, <<>>, <<>>, ssl) :
                       m \in ReplicaSets, ssl \in Ssl}
  <2>1. PICK m \in ReplicaSets, ssl \in Ssl :
           job = FileOf("replset", <<>>, m, <<>>, <<>>, ssl)
      BY <1>3
  <2> QED
      BY Zenon, <1>1, <2>1, ReplicatedAs
<1>4. CASE job \in {FileOf("sharded", <<>>, <<>>, s, r, ssl) :
                       s \in ShardLists, r \in Routers, ssl \in Ssl}
  <2>1. PICK s \in ShardLists, r \in Routers, ssl \in Ssl :
           job = FileOf("sharded", <<>>, <<>>, s, r, ssl)
      BY <1>4
  <2> QED
      BY Zenon, <1>1, <2>1, ShardedAs
<1> QED
    BY <1>1, <1>2, <1>3, <1>4 DEF ClusterJobs

(* Every process of an orchestration file is started once, where and how the *)
(* file says, in a deployment of any size.                                  *)
THEOREM DeploysAsDescribed == Spec => []DeploysWhatIsDescribed
    BY DeploysEach, Answers, PTL DEF AnswersAre
=============================================================================
