----------------------------- MODULE MCPipeline -----------------------------
(* Instances of Pipeline for model checking. *)
EXTENDS Pipeline

(* two stages either way, one, three, and a list that mixes two stages *)
AllLayouts == {<<1, 1, 2>>, <<1, 2, 2>>, <<1, 1, 1>>, <<1, 2, 3>>, <<1, 2, 1>>}
TwoStages == {<<1, 1, 2>>}
=============================================================================
