-------------------------- MODULE MCAssetsManager --------------------------
(* Instances of AssetsManager for TLC. *)
EXTENDS AssetsManager

CONSTANTS changed, deleted, zipped

\* Three versions of three assets: the contents are the version they are from.
ThreeVersions ==
  [v \in 0..2 |-> [a \in Assets |->
     CASE a = changed -> v
       [] a = deleted -> IF v = 2 THEN NoFile ELSE v
       [] a = zipped  -> IF v = 0 THEN NoFile ELSE 1]]
=============================================================================
