------------------------------ MODULE MCPipeline ------------------------------
(***************************************************************************)
(* Pipeline on small numbers: three commits, a breaker that opens at two   *)
(* failures. The cfgs give every constant its value.                       *)
(***************************************************************************)
EXTENDS Pipeline

=============================================================================
