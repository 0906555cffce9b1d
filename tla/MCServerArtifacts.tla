------------------------- MODULE MCServerArtifacts --------------------------
(* Instances of ServerArtifacts for TLC; the constants are numbers.         *)
EXTENDS ServerArtifacts
=============================================================================
