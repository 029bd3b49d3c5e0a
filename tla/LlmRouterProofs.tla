--------------------------- MODULE LlmRouterProofs ---------------------------
(***************************************************************************)
(* Proofs about LlmRouter for every chain, every registry and every number *)
(* of deltas.                                                              *)
(***************************************************************************)
EXTENDS LlmRouter, TLAPS

\* What ties the caller's view to the position in the chain: chunks come from
\* the provider under trial, and the position freezes with the first of them.
IInv ==
    /\ TypeOK
    /\ \A i \in DOMAIN out : pos \in DOMAIN chain /\ out[i].from = chain[pos]
    /\ \A k \in 1 .. pos - 1 : chain[k] \in providers => Tried(chain[k])
    /\ outcome = "running" /\ ~calling => out = <<>>
    /\ calling => Tried(chain[pos])
    /\ calling /\ out # <<>> => mode = "stream" /\ emittedAny
    /\ outcome = "all_failed" => out = <<>> /\ pos = Len(chain) + 1

\* A provider that was tried stays tried when another one is called.
LEMMA TriedGrows ==
    ASSUME tried \in Seq(Provider), NEW q \in Provider, tried' = Append(tried, q),
           NEW p, Tried(p)
    PROVE  Tried(p)'
BY DEF Tried

\* The invariant holds before the first provider is looked at.
LEMMA InitIInv == Init => IInv
<1> SUFFICES ASSUME Init PROVE IInv
  OBVIOUS
<1>1. \A h : ClassifyComplexity(h) \in Complexity
  BY DEF ClassifyComplexity, Complexity
<1>2. chain \in Seq(Provider)
  BY <1>1, ChainsAssumption DEF Init
<1>3. Len(chain) \in Nat /\ 1 \in 1 .. Len(chain) + 1
  BY <1>2
<1>4. out \in Seq(Chunk) /\ tried \in Seq(Provider)
  BY DEF Init
<1>5. mode \in {"complete", "stream"} /\ outcome \in Outcomes
  BY DEF Init, Outcomes
<1>6. TypeOK
  BY <1>2, <1>3, <1>4, <1>5 DEF Init, TypeOK
<1> QED
  BY <1>6 DEF Init, IInv

\* Every step of the router, of a provider and of the caller preserves it.
LEMMA NextIInv == IInv /\ [Next]_vars => IInv'
<1> SUFFICES ASSUME IInv, [Next]_vars PROVE IInv'
  OBVIOUS
<1> USE DEF IInv, TypeOK, Outcomes
<1>1. CASE SkipMissing
  BY <1>1 DEF SkipMissing, Current, Tried
<1>2. CASE CallProvider
  <2>1. pos \in DOMAIN chain /\ Current \in Provider
    BY <1>2 DEF CallProvider, Current
  <2>2. tried' = Append(tried, Current) /\ tried' \in Seq(Provider)
    BY <1>2, <2>1 DEF CallProvider
  <2>3. \A p : Tried(p) => Tried(p)'
    BY <2>1, <2>2, TriedGrows
  <2>4. Tried(Current)'
    <3> DEFINE n == Len(tried) + 1
    <3>1. n \in DOMAIN tried' /\ tried'[n] = Current
      BY <2>1, <2>2
    <3>2. tried'[n] = Current'
      BY <3>1, <1>2 DEF CallProvider, Current
    <3> HIDE DEF n
    <3> QED  BY <3>1, <3>2 DEF Tried
  <2>5. UNCHANGED <<providers, mode, chain, pos, out, outcome>> /\ out = <<>>
    BY <1>2 DEF CallProvider
  <2>6. TypeOK'
    BY <1>2, <2>1, <2>2, <2>5 DEF CallProvider
  <2>7. Tried(chain[pos])'
    BY <2>4, <2>5 DEF Current
  <2>9. (\A k \in 1 .. pos - 1 : chain[k] \in providers => Tried(chain[k]))'
    BY <2>3, <2>5
  <2>8. calling' /\ outcome' = "running"
    BY <1>2, <2>5 DEF CallProvider
  <2> HIDE DEF TypeOK
  <2> QED  BY <2>5, <2>6, <2>7, <2>8, <2>9
<1>3. CASE Exhausted
  BY <1>3 DEF Exhausted, Tried
<1>4. CASE CompleteReturns
  <2>1. out = <<>> /\ pos \in DOMAIN chain /\ Current \in Provider
    BY <1>4 DEF CompleteReturns, Current
  <2>2. out' = <<[from |-> Current, kind |-> "final"]>>
    BY <1>4, <2>1 DEF CompleteReturns
  <2>3. out' \in Seq(Chunk) /\ \A i \in DOMAIN out' : out'[i].from = Current
    BY <2>1, <2>2 DEF Chunk
  <2> QED
    BY <1>4, <2>1, <2>3 DEF CompleteReturns, Current, Tried
<1>5. CASE ForwardDelta
  BY <1>5 DEF ForwardDelta, Current, Chunk, Tried
<1>6. CASE ForwardFinal
  BY <1>6 DEF ForwardFinal, Current, Chunk, Tried
<1>7. CASE StreamReturns
  BY <1>7 DEF StreamReturns, Tried
<1>8. CASE CallerCloses
  BY <1>8 DEF CallerCloses, Tried
<1>9. CASE ProviderRaises
  <2>1. CASE mode = "stream" /\ emittedAny
    BY <1>9, <2>1 DEF ProviderRaises, Tried
  <2>2. CASE ~(mode = "stream" /\ emittedAny)
    <3>1. pos \in DOMAIN chain /\ out = <<>> /\ pos' = pos + 1
      BY <1>9, <2>2 DEF ProviderRaises
    <3>2. UNCHANGED <<providers, mode, chain, emittedAny, out, tried, outcome>> /\ calling' = FALSE
      BY <1>9, <2>2 DEF ProviderRaises
    <3>3. \A k \in 1 .. pos : chain[k] \in providers => Tried(chain[k])
      BY <1>9, <3>1 DEF ProviderRaises
    <3>4. pos' - 1 = pos /\ pos' \in 1 .. Len(chain) + 1
      BY <3>1
    <3>5. \A p : Tried(p)' <=> Tried(p)
      BY <3>2 DEF Tried
    <3> HIDE DEF TypeOK
    <3>6. (\A k \in 1 .. pos - 1 : chain[k] \in providers => Tried(chain[k]))'
      BY <3>2, <3>3, <3>4, <3>5
    <3>7. TypeOK'
      <4>1. TypeOK
        OBVIOUS
      <4>2. calling' = FALSE
        BY <3>2
      <4> QED  BY <3>2, <3>4, <4>1, <4>2 DEF TypeOK
    <3> QED  BY <1>9, <3>1, <3>2, <3>6, <3>7 DEF ProviderRaises
  <2> QED  BY <2>1, <2>2
<1>10. CASE OtherRaises
  BY <1>10 DEF OtherRaises, Tried
<1>11. CASE UNCHANGED vars
  BY <1>11 DEF vars, Tried
<1> QED
  BY <1>1, <1>2, <1>3, <1>4, <1>5, <1>6, <1>7, <1>8, <1>9, <1>10, <1>11 DEF Next

\* The inductive invariant holds throughout a call.
THEOREM Invariance == Spec => []IInv
BY InitIInv, NextIInv, PTL DEF Spec

\* The variables keep their types.
THEOREM TypeCorrect == Spec => []TypeOK
<1>1. IInv => TypeOK
  BY DEF IInv
<1> QED  BY <1>1, Invariance, PTL

\* The caller never sees an answer spliced from two providers.
THEOREM OneProvider == Spec => []OneProviderAnswer
<1>1. IInv => OneProviderAnswer
  BY DEF IInv, OneProviderAnswer
<1> QED  BY <1>1, Invariance, PTL

\* A fallback answers only after everything configured before it was called.
THEOREM PassedOver == Spec => []NoProviderPassedOver
<1>1. IInv => NoProviderPassedOver
  BY DEF IInv, TypeOK, NoProviderPassedOver
<1> QED  BY <1>1, Invariance, PTL

\* AllProvidersFailedError means that all configured providers were called.
THEOREM AllFailed == Spec => []AllFailedMeansAllTried
<1>1. IInv => AllFailedMeansAllTried
  BY DEF IInv, TypeOK, AllFailedMeansAllTried
<1> QED  BY <1>1, Invariance, PTL

\* After the first chunk no further provider is called.
THEOREM NoFallback == Spec => NoFallbackAfterOutput
<1>1. IInv /\ [Next]_vars => [out # <<>> => tried' = tried /\ pos' = pos]_vars
  BY DEF IInv, Next, vars, SkipMissing, CallProvider, Exhausted, CompleteReturns,
         ForwardDelta, ForwardFinal, StreamReturns, CallerCloses, ProviderRaises,
         OtherRaises
<1> QED  BY <1>1, Invariance, PTL DEF Spec, NoFallbackAfterOutput
==============================================================================
