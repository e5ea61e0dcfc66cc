-------------------------------- MODULE Rows --------------------------------
(***************************************************************************)
(* What the modules about single tables share. Each models requests of one *)
(* service as tasks whose awaits separate their actions, over the rows the *)
(* service keeps. A new row gets an id of its own (a uuid): a task makes   *)
(* at most one row of a table with such ids, and serves as the row's id.   *)
(***************************************************************************)
CONSTANTS Task, None

ASSUME RowsAssumption == None \notin Task
=============================================================================
