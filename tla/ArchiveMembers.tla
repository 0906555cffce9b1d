--------------------------- MODULE ArchiveMembers ---------------------------
(***************************************************************************)
(* Which members of an archive mongodl extracts, and where to: --only and    *)
(* --strip-path-components.  A path is a sequence of names; a pattern is one *)
(* of names, "*" (any name) and "**".                                        *)
(***************************************************************************)
EXTENDS Integers, Sequences

(* fnmatch of one component.                                                *)
NameFits(name, glob) == glob \in {"*", name}

(* Mutant: "**" stands for one directory.                                   *)
OneDirectory(from, last) == {from + 1} \cap (1 .. last)
(* The suffixes "**" tries: those that are not empty.                       *)
Tails(from, last) == from .. last

(* _test_pattern: the suffixes of the path that fit the pattern from its     *)
(* k-th part on; an exhausted pattern matches whatever is left.             *)
TestPattern(path, pattern) ==
    LET fits[k \in 1 .. Len(pattern) + 1] ==
          IF k > Len(pattern) THEN 1 .. Len(path) + 1
          ELSE {i \in 1 .. Len(path) :
                  IF pattern[k] = "**"
                  THEN \E j \in Tails(i, Len(path)) : j \in fits[k + 1]
                  ELSE NameFits(path[i], pattern[k]) /\ i + 1 \in fits[k + 1]}
    IN 1 \in fits[1]

(* _maybe_extract_member: what it does with a member, and the count it adds. *)
Excluded == [count |-> 0, dest |-> <<>>, made |-> "nothing"]
MaybeExtract(path, pattern, strip, isDir, test) ==
    IF Len(path) <= strip \/ ~TestPattern(path, pattern) THEN Excluded
    ELSE [count |-> 1, dest |-> SubSeq(path, strip + 1, Len(path)),
          made |-> IF test THEN "nothing" ELSE IF isDir THEN "directory" ELSE "file"]

(* _expand_archive, member by member.                                       *)
Expand(members, pattern, strip, test) ==
    [i \in DOMAIN members |->
        MaybeExtract(members[i].path, pattern, strip, members[i].dir, test)]
Empty(results) == \A i \in DOMAIN results : results[i].count = 0
=============================================================================
