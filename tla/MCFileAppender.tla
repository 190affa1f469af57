--------------------------- MODULE MCFileAppender ----------------------------
(* A configuration that starts the log, and two for reloads: one without   *)
(* retain_day, one that turns the removal off.                             *)
EXTENDS FileAppender

MCConfigs == {[log_level |-> 2, retain_day |-> {1}, log_file |-> TRUE],
              [log_level |-> 4, retain_day |-> {}, log_file |-> FALSE],
              [log_level |-> 4, retain_day |-> {0}, log_file |-> FALSE]}
=============================================================================
