----------------------------- MODULE InstallIds -----------------------------
(* The installs broker-, pool- and grant-service name in their tables.     *)

CONSTANTS
  Installs,   \* the ids of installs
  NoInstall   \* the null of a column that holds an install's id

ASSUME InstallIdsAssumption == NoInstall \notin Installs
=============================================================================
