----------------------------- MODULE MCAgentRun -----------------------------
(* Two providers from the environment on top of four built-in ones; a model  *)
(* that asks for none, one, two or three tools, twice at most.               *)
EXTENDS AgentRun, TLC

MCNames == {"openai", "OpenAI", "omniroute", "codex", "codex-cli", "copilot", "proxy", "alt", "a b", "ghost"}
MCKey == [n \in MCNames |-> IF n = "OpenAI" THEN "openai" ELSE n]

Entry(name, aliases, profile, k, streams) ==
  [name |-> name, aliases |-> aliases, profile |-> profile, kind |-> k,
   streams |-> streams, routes |-> k = "openai", limitOK |-> TRUE]
MCBuiltins == <<Entry("openai", <<>>, "own", "openai", TRUE),
                Entry("omniroute", <<>>, "own", "openai", TRUE),
                Entry("copilot", <<>>, "own", "copilot", TRUE),
                Entry("codex", <<"codex-cli">>, "own", "codex", TRUE)>>

HTTPJSON(name, aliases, profile) == Entry(name, aliases, profile, "httpjson", name # "alt")
Proxy == HTTPJSON("proxy", <<>>, "OpenAI")
Alt == HTTPJSON("alt", <<>>, "proxy")
MCBatches == {<<>>, <<Proxy, Alt>>,
              <<Proxy, HTTPJSON("alt", <<"codex-cli">>, "openai")>>,
              <<Proxy, HTTPJSON("alt", <<"alt">>, "openai")>>,
              <<Proxy, HTTPJSON("a b", <<>>, "openai")>>,
              <<HTTPJSON("alt", <<>>, "proxy"), Proxy>>,
              <<Proxy, [Alt EXCEPT !.limitOK = FALSE]>>,
              <<HTTPJSON("proxy", <<>>, "codex-cli"), HTTPJSON("OpenAI", <<>>, "openai")>>,
              <<HTTPJSON("proxy", <<>>, "codex-cli")>>}
MCAsked == {"OpenAI", "proxy", "alt", "codex-cli", "copilot"}

MCReplies == {<<>>, <<"grep", "say", "crash", "ask">>, <<"web", "ghost">>, <<"todo">>}
MCTools == {"grep", "crash", "ghost", "ask", "web", "todo"}
MCDoes == [t \in MCTools |-> CASE t = "grep" -> "output" [] t = "crash" -> "panic"
                               [] t = "ghost" -> "nowhere" [] t = "ask" -> "serena"
                               [] t = "web" -> "context7" [] t = "todo" -> "fail"]
MCDefaultServers == "serena" :> "stdio" @@ "context7" :> "http"
MCRetryAfters == {-1, 9}

(* Stored resources: two MCP servers, a skill, and a subagent with a server. *)
Row(label, config, links) ==
  [label |-> label, enabled |-> TRUE, config |-> config, links |-> links]
Off(v) == [v EXCEPT !.enabled = FALSE]
One == Row("nowhere", "stdio", <<>>)
Two == Row("context7", "stdio", <<>>)
Text == Row("", "text", <<>>)
Helper == Row("", "text", <<"two">>)
MCIds == {"one", "two", "skill", "helper"}
MCPart == [i \in MCIds |-> CASE i = "skill" -> "skill" [] i = "helper" -> "subagent"
                             [] OTHER -> "mcp_server"]
MCStored == [i \in MCIds |-> CASE i = "one" -> One [] i = "two" -> Two
                               [] i = "skill" -> Text [] OTHER -> Helper]
MCVersions == {One, Off(Two), Off(Text), [One EXCEPT !.config = "wrong"]}

MCRequest(provider, mcp, skills, subagents, disabled) ==
  [provider |-> provider, mcp_server |-> mcp, skill |-> skills, subagent |-> subagents,
   enabled |-> {}, disabled |-> disabled]
MCRequests == {MCRequest("codex", <<"one", "two", "one">>, <<"skill">>, <<"helper">>, {}),
               MCRequest("proxy", <<"one">>, <<>>, <<>>, {"grep", "todo"}),
               [MCRequest("codex", <<"two">>, <<>>, <<"helper">>, {}) EXCEPT !.enabled = {"web"}],
               MCRequest("ghost", <<"one">>, <<>>, <<>>, {})}
=============================================================================
