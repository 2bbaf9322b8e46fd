------------------------------ MODULE ScanState ------------------------------
(***************************************************************************)
(* pkg/schemer/scanner.go: what ScanCatalog has at hand whichever way it   *)
(* reads the tables, all in one stream each (BulkScan) or one after the    *)
(* other (TableScan).                                                      *)
(***************************************************************************)
EXTENDS TableKeys

VARIABLES
  db,           \* what the provider has to say, never changed
  late,         \* whether the context's deadline has passed
  keys,         \* per table: primary, alternate and foreign keys, references
  result        \* error returned by ScanCatalog
==============================================================================
