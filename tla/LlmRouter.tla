------------------------------ MODULE LlmRouter ------------------------------
(***************************************************************************)
(* One call of Router.complete or Router.stream (backend/llm/router.py):   *)
(* the walk along the fallback chain, the provider adapters it calls and   *)
(* the consumer that iterates over the stream.                             *)
(*                                                                         *)
(* The router object keeps no state between calls, so one call is the      *)
(* whole story.  Texts are abstracted: a chunk is the provider it came     *)
(* from and whether it carries a delta or the final CompletionResult.      *)
(***************************************************************************)
EXTENDS Naturals, Sequences

CONSTANTS
    Provider,       \* provider ids, the keys of Router.providers
    Registries,     \* the sets of providers a deployment may have configured
    Chains,         \* complexity -> fallback chain (a sequence of provider ids)
    WrapsAll,       \* providers whose adapter turns every exception into ProviderError
    MaxDeltas       \* bound on the deltas a provider emits in one stream

Complexity == {"standard", "complex"}

\* What classify_complexity looks at: is the history longer than the threshold,
\* and is the last user message absent, plain, or does it hold a keyword.
History == [long : BOOLEAN, lastUser : {"none", "plain", "keyword"}]

Chunk == [from : Provider, kind : {"delta", "final"}]

Outcomes == {"running", "returned", "provider_error", "other_error",
             "all_failed", "closed"}

ASSUME ChainsAssumption == Chains \in [Complexity -> Seq(Provider)]
ASSUME RegistriesAssumption == Registries \subseteq SUBSET Provider
ASSUME WrapsAllAssumption == WrapsAll \subseteq Provider
ASSUME MaxDeltasAssumption == MaxDeltas \in Nat

VARIABLES
    providers,      \* the configured providers of this router
    mode,           \* "complete" or "stream"
    chain,          \* the chain chosen for this call
    pos,            \* index of the provider under trial
    calling,        \* is a provider call under way
    emittedAny,     \* router.stream's emitted_any of the provider under trial
    out,            \* chunks (or the one result) handed to the caller
    tried,          \* providers called so far, in order
    outcome         \* how the call ended

vars == <<providers, mode, chain, pos, calling, emittedAny, out, tried, outcome>>

(***************************************************************************)
(* Choosing the chain                                                      *)
(***************************************************************************)
ClassifyComplexity(history) ==
    IF history.long \/ history.lastUser = "keyword" THEN "complex" ELSE "standard"

\* Mutant of Init: the loop starts at the second provider of the chain.
InitAtSecond ==
    /\ providers \in Registries
    /\ mode \in {"complete", "stream"}
    /\ \E history \in History : chain = Chains[ClassifyComplexity(history)]
    /\ pos = 2
    /\ calling = FALSE
    /\ emittedAny = FALSE
    /\ out = <<>>
    /\ tried = <<>>
    /\ outcome = "running"

Init ==
    /\ providers \in Registries
    /\ mode \in {"complete", "stream"}
    /\ \E history \in History : chain = Chains[ClassifyComplexity(history)]
    /\ pos = 1
    /\ calling = FALSE
    /\ emittedAny = FALSE
    /\ out = <<>>
    /\ tried = <<>>
    /\ outcome = "running"

(***************************************************************************)
(* The loop over the chain                                                 *)
(***************************************************************************)
Current == chain[pos]
Deltas  == Len(SelectSeq(out, LAMBDA c : c.kind = "delta"))

\* "if provider is None: continue"
SkipMissing ==
    /\ outcome = "running" /\ ~calling
    /\ pos \in DOMAIN chain
    /\ Current \notin providers
    /\ pos' = pos + 1
    /\ UNCHANGED <<providers, mode, chain, calling, emittedAny, out, tried, outcome>>

CallProvider ==
    /\ outcome = "running" /\ ~calling
    /\ pos \in DOMAIN chain
    /\ Current \in providers
    /\ calling' = TRUE
    /\ emittedAny' = FALSE
    /\ tried' = Append(tried, Current)
    /\ UNCHANGED <<providers, mode, chain, pos, out, outcome>>

\* The loop ran out, or the chain was empty to begin with.
Exhausted ==
    /\ outcome = "running" /\ ~calling
    /\ pos \notin DOMAIN chain
    /\ outcome' = "all_failed"
    /\ UNCHANGED <<providers, mode, chain, pos, calling, emittedAny, out, tried>>

(***************************************************************************)
(* Router.complete: the provider answers or raises                         *)
(***************************************************************************)
CompleteReturns ==
    /\ calling /\ mode = "complete"
    /\ out' = Append(out, [from |-> Current, kind |-> "final"])
    /\ outcome' = "returned"
    /\ calling' = FALSE
    /\ UNCHANGED <<providers, mode, chain, pos, emittedAny, tried>>

(***************************************************************************)
(* Router.stream: the provider yields chunks, the router forwards them     *)
(***************************************************************************)
\* The adapters yield their deltas first and one final chunk at the very end.
Finished == out # <<>> /\ out[Len(out)].kind = "final"

ForwardDelta ==
    /\ calling /\ mode = "stream"
    /\ ~Finished /\ Deltas < MaxDeltas
    /\ emittedAny' = TRUE
    /\ out' = Append(out, [from |-> Current, kind |-> "delta"])
    /\ UNCHANGED <<providers, mode, chain, pos, calling, tried, outcome>>

ForwardFinal ==
    /\ calling /\ mode = "stream"
    /\ ~Finished
    /\ emittedAny' = TRUE
    /\ out' = Append(out, [from |-> Current, kind |-> "final"])
    /\ UNCHANGED <<providers, mode, chain, pos, calling, tried, outcome>>

\* Mutant of StreamReturns: a generator that is left open.
ReturnsStillOpen ==
    /\ calling /\ mode = "stream"
    /\ Finished
    /\ outcome' = "returned"
    /\ UNCHANGED <<providers, mode, chain, pos, calling, emittedAny, out, tried>>

StreamReturns ==
    /\ calling /\ mode = "stream"
    /\ Finished
    /\ outcome' = "returned"
    /\ calling' = FALSE
    /\ UNCHANGED <<providers, mode, chain, pos, emittedAny, out, tried>>

\* The HTTP client went away: the task is cancelled at whatever await or yield
\* it is suspended in, and neither router nor adapters catch a cancellation.
CallerCloses ==
    /\ calling /\ mode = "stream"
    /\ outcome' = "closed"
    /\ calling' = FALSE
    /\ UNCHANGED <<providers, mode, chain, pos, emittedAny, out, tried>>

(***************************************************************************)
(* A provider call that raises                                             *)
(***************************************************************************)
\* Mutant of ProviderRaises: a fallback in mid-stream.
AlwaysFallsBack ==
    /\ calling /\ ~Finished
    /\ calling' = FALSE
    /\ pos' = pos + 1
    /\ UNCHANGED <<providers, mode, chain, emittedAny, out, tried, outcome>>

\* ProviderError: the next provider is tried, unless the caller already saw
\* a chunk of this one.
ProviderRaises ==
    /\ calling /\ ~Finished
    /\ calling' = FALSE
    /\ IF mode = "stream" /\ emittedAny
       THEN outcome' = "provider_error" /\ UNCHANGED pos
       ELSE pos' = pos + 1 /\ UNCHANGED outcome
    /\ UNCHANGED <<providers, mode, chain, emittedAny, out, tried>>

\* Any other exception is not caught by the router.
OtherRaises ==
    /\ calling /\ ~Finished
    /\ Current \notin WrapsAll
    /\ calling' = FALSE
    /\ outcome' = "other_error"
    /\ UNCHANGED <<providers, mode, chain, pos, emittedAny, out, tried>>

Next ==
    \/ SkipMissing \/ CallProvider \/ Exhausted
    \/ CompleteReturns
    \/ ForwardDelta \/ ForwardFinal \/ StreamReturns \/ CallerCloses
    \/ ProviderRaises \/ OtherRaises

Spec == Init /\ [][Next]_vars

(***************************************************************************)
(* Properties                                                              *)
(***************************************************************************)
TypeOK ==
    /\ providers \in Registries
    /\ mode \in {"complete", "stream"}
    /\ chain \in Seq(Provider)
    /\ pos \in 1 .. Len(chain) + 1
    /\ calling \in BOOLEAN
    /\ emittedAny \in BOOLEAN
    /\ out \in Seq(Chunk)
    /\ tried \in Seq(Provider)
    /\ outcome \in Outcomes
    /\ calling => pos \in DOMAIN chain /\ outcome = "running"

\* The answer the caller assembles is never spliced from two providers:
\* "switching providers mid-stream would corrupt the answer" (Router.stream).
OneProviderAnswer ==
    \A i, j \in DOMAIN out : out[i].from = out[j].from

Tried(p) == \E t \in DOMAIN tried : tried[t] = p

\* A fallback answers only when it has to: every configured provider in front
\* of the one whose chunks the caller sees was called first.
NoProviderPassedOver ==
    \A i \in DOMAIN out : \E k \in DOMAIN chain :
        /\ out[i].from = chain[k]
        /\ \A j \in 1 .. k - 1 : chain[j] \in providers => Tried(chain[j])

\* AllProvidersFailedError is raised only after every configured provider of
\* the chain was called and before the caller saw anything.
AllFailedMeansAllTried ==
    outcome = "all_failed" =>
        /\ out = <<>>
        /\ \A k \in DOMAIN chain : chain[k] \in providers => Tried(chain[k])

\* Once the caller saw a chunk the router never calls another provider.
NoFallbackAfterOutput ==
    [][out # <<>> => tried' = tried /\ pos' = pos]_vars
==============================================================================
