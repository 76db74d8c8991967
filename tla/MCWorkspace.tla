---------------------------- MODULE MCWorkspace ----------------------------
(* Instances of Workspace for TLC.                                         *)
EXTENDS Workspace, TLC

CONSTANTS ann, bob

\* Two owners; an owner and a member; an owner alone.
SomeTeams == {[u \in Users |-> IF u = ann THEN "owner" ELSE x] :
                x \in {"owner", "member", None}}

\* Two requests meet in every part; three where parts are small.
ThreeIn == {"project", "linear", "keys"}
RequestsByArea ==
  [a \in {"project", "members", "tasks", "keys", "docs", "rows", "linear",
          "repositories", "rooms", "ragnarock"} |-> IF a \in ThreeIn THEN 3 ELSE 2]

Symmetry == Permutations(Requests)
=============================================================================
