---------------------------- MODULE MCArtifacts ----------------------------
(* Which architecture documents are asked for on the instances of            *)
(* ProjectArtifacts that TLC checks.                                         *)
EXTENDS ProjectArtifacts

\* Designs of two layers, one of them twice, on two levels.
Designs == [r \in {"sad", "web", "web2", "api", "webLow"} |->
              CASE r = "sad"    -> Unlayered("sad")
                [] r = "api"    -> [type |-> "hld", layer |-> "api"]
                [] r = "webLow" -> [type |-> "lld", layer |-> "web"]
                [] OTHER        -> [type |-> "hld", layer |-> "web"]]
=============================================================================
