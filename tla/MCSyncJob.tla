----------------------------- MODULE MCSyncJob -----------------------------
(* The calls of the jobs, and those of other clients.                      *)
EXTENDS SyncJob

CONSTANT OtherCall

MCCall == TaskCall \cup OtherCall
============================================================================
