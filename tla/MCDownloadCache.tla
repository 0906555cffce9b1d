--------------------------- MODULE MCDownloadCache ---------------------------
(* Instances of DownloadCache for TLC: one released and one latest archive, *)
(* or the latest archive alone.                                             *)
EXTENDS DownloadCache, TLC

CONSTANTS p1, p2, rel, lat, full, mirror

MCOne == {p1}
MCPair == {p1, p2}
MCArchives == {rel, lat}
MCReleased == {rel}
MCLatestOnly == {lat}
MCOneSource == {full}
MCSources == {full, mirror}
MCGrowing == Urls \ {mirror}
(* Version m of full.json lists version m of the released archive; the      *)
(* mirror stays as it is and lists the last one from the start.             *)
MCLists ==
    [s \in Manifests |-> [m \in 1 .. MaxVersion |-> [a \in Released |->
        IF s = mirror THEN MaxVersion ELSE m]]]
MCSymmetry == Permutations(MCPair)
=============================================================================
