---------------------------- MODULE MCEdgeBlocks ----------------------------
(***************************************************************************)
(* EdgeBlocks for TLC, one address: three commands handed out once, or two *)
(* of which one is handed out twice, and one request at a time between its *)
(* reads and its commit (EdgeBlocks.cfg) or two (EdgeBlocksAuto.cfg).      *)
(***************************************************************************)
EXTENDS EdgeBlocks
=============================================================================
