--------------------------- MODULE MCPeriodQuota ---------------------------
(* Conversations are interchangeable.                                      *)
EXTENDS PeriodQuota, TLC

QuotaSymmetry == Permutations(Conversation)
============================================================================
