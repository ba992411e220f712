------------------------ MODULE MCPipelineExecution ------------------------
(* Small instances of PipelineExecution.  Prices are scaled so that one tick *)
(* of slippage tells apart the three ways the last step of a run can end.   *)
EXTENDS PipelineExecution, TLC

CONSTANTS o1, o2, o3

TwoOrders == {o1, o2}
ThreeOrders == {o1, o2, o3}
Symmetric == Permutations(Orders)
=============================================================================
