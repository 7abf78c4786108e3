---------------------------- MODULE MCOraclePair ----------------------------
(* One pair, with every failure of a child, a file or the process table.   *)
EXTENDS OraclePair
=============================================================================
