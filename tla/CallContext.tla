---------------------------- MODULE CallContext -----------------------------
(* What every part of one provider call shares: which kind of provider was   *)
(* resolved, the context.Context of the call, which is done or not and never *)
(* comes back to life, and what the agent of the call was built with.        *)
EXTENDS Integers, Sequences

CONSTANTS
    Tools       \* names of tools the model may ask for

Kinds == {"openai", "httpjson", "codex", "copilot"}

VARIABLES
    kind,       \* the kind of the provider in use, "none" before the lookup
    cancelled,  \* the context is done
    servers,    \* its MCP servers: name -> "stdio" or "http"
    offered     \* the tools it has handlers for

\* What a loop over s keeps: the elements at the positions in "at".
Selected(s, at) ==
    LET F[n \in 0..Len(s)] ==
          IF n = 0 THEN <<>> ELSE IF n \in at THEN Append(F[n - 1], s[n]) ELSE F[n - 1]
    IN  F[Len(s)]
=============================================================================
