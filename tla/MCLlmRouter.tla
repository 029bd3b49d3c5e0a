----------------------------- MODULE MCLlmRouter -----------------------------
(* The chains and registries that backend/llm/bootstrap.py builds.           *)
EXTENDS LlmRouter

MCProvider == {"gemini-flash", "gemini-pro", "claude-sonnet", "claude-haiku"}
MCGoogle == {"gemini-flash", "gemini-pro"}
MCAnthropic == {"claude-sonnet", "claude-haiku"}

\* GOOGLE_API_KEY and ANTHROPIC_API_KEY are each set or not.
MCRegistries == {{}, MCGoogle, MCAnthropic, MCGoogle \cup MCAnthropic}

MCChains ==
    [standard |-> <<"gemini-flash", "claude-haiku">>,
     complex  |-> <<"claude-sonnet", "gemini-pro", "claude-haiku">>]
==============================================================================
