----------------------------- MODULE MCCorsCache -----------------------------
(* Two shops with domains of their own, of which the second also allows the *)
(* page of the first, and one that asks for the domain of the first.       *)
EXTENDS CorsCache, TLC

CONSTANTS s1, s2, again, o1, o2

MCDomain == s1 :> o1 @@ s2 :> o2 @@ again :> o1
MCExtra == s1 :> {} @@ s2 :> {o1} @@ again :> {o2}

CorsSymmetry == Permutations(Request) \cup Permutations(Worker)
==============================================================================
