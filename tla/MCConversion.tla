---------------------------- MODULE MCConversion ----------------------------
EXTENDS Conversion, TLC

CONSTANTS o1, o2, o3

\* Two orders of the same total and a third one.
MCTotal == o1 :> 1 @@ o2 :> 1 @@ o3 :> 2

ReportSymmetry == Permutations(Report) \cup Permutations(Conversation)
=============================================================================
