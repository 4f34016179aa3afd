------------------------------ MODULE Assembly ------------------------------
(***************************************************************************)
(* How a gateway run gets its agent: the stored MCP servers, skills and    *)
(* subagents (gateway/resources.go), and the way of one POST /runs through *)
(* them (server.go startRun, and the validator and starter of the          *)
(* gateway's main.go).  The request names resources by id; the validator   *)
(* loads them once to refuse a bad request, the starter loads them again   *)
(* when the run's turn comes.  Each load is one query, so the table can    *)
(* change between any two of them, and while the run is queued.  POST      *)
(* /runs/validate ends with the validator, and POST /runs/preview makes    *)
(* one pass of its own to show what a run would be built of.               *)
(***************************************************************************)
EXTENDS ProviderRegistry

CONSTANTS
    Ids,            \* primary keys of resources: a kind and an id
    Part,           \* [Ids -> Parts]: the kind
    Versions,       \* what may be written to a row: see IsVersion
    Stored,         \* the table when the process starts
    DefaultServers, \* DefaultMCPServers: name -> "stdio" or "http"
    Requests,       \* what clients post: see IsRequest
    RuntimeTools,   \* handlers the session runtime adds (todo tools)
    MaxSelectors,   \* maxRunSelectorItems
    MaxEdits,       \* bound on the writes to the table
    None

Parts == {"mcp_server", "skill", "subagent"}

(***************************************************************************)
(* A row: the name an MCP server is called by, whether the row is enabled, *)
(* its config, and the mcp_server_ids of a subagent.  Config "odd" passes  *)
(* the API and not the loader (tools of an MCP server that are no list, a  *)
(* skill without SKILL.md); "wrong" does not pass the API.                 *)
(***************************************************************************)
IsVersion(v) ==
    /\ DOMAIN v = {"label", "enabled", "config", "links"}
    /\ v.enabled \in BOOLEAN
    /\ v.config \in {"stdio", "http", "text", "odd", "wrong"}
    /\ v.links \in Seq(Ids)
    /\ \A i \in 1..Len(v.links) : Part[v.links[i]] = "mcp_server"

IsRequest(r) ==
    /\ DOMAIN r = {"provider", "mcp_server", "skill", "subagent", "enabled", "disabled"}
    /\ \A p \in Parts : r[p] \in Seq(Ids)
    /\ \A p \in Parts : \A i \in 1..Len(r[p]) : Part[r[p][i]] = p

ASSUME AssemblyAssumption ==
    /\ Part \in [Ids -> Parts]
    /\ \A v \in Versions : IsVersion(v)
    /\ DOMAIN Stored = Ids /\ None \notin Versions
    /\ \A id \in Ids : Stored[id] # None => IsVersion(Stored[id])
    /\ \A r \in Requests : IsRequest(r)
    /\ RuntimeTools \subseteq Tools
    /\ MaxSelectors \in Nat /\ MaxEdits \in Nat

VARIABLES
    resources,  \* the table: Ids -> Versions or None
    edits,      \* how many writes it has seen
    since,      \* history: the rows in force at some time since the pass began
    job         \* the run: see NoJob

assemblyVars == <<resources, edits, since, job>>

\* pc: where it is; left: the loads of the pass still to come; found: the MCP
\* servers so far; used, blocks: history of the pass, what it has loaded and
\* the context blocks it has made of it.
NoJob == [pc |-> "none", req |-> None, left |-> <<>>, found |-> <<>>,
          used |-> {}, blocks |-> <<>>]

InPass == job.pc \in {"validating", "assembling", "previewing"}

-----------------------------------------------------------------------------
(* The table *)

\* validateMCPResourceConfig looks at the kind, the command and the URL.
AcceptedServer(v) == v.config \in {"stdio", "http", "odd"} /\ v.links = <<>>

\* validateSubagentResourceConfig looks at the inline servers, not at the ids.
AcceptedAgent(v) == v.config \in {"text", "odd"}

\* resourceFromDTO: a config the API refuses changes nothing.
Accepted(id, v) ==
    CASE Part[id] = "mcp_server" -> AcceptedServer(v)
      [] Part[id] = "subagent" -> AcceptedAgent(v)
      [] Part[id] = "skill" -> v.config \in {"text", "odd"} /\ v.links = <<>>

Written(id, v) ==
    /\ edits < MaxEdits /\ edits' = edits + 1
    /\ resources' = [resources EXCEPT ![id] = v]
    /\ since' = IF InPass /\ v # None THEN since \union {<<id, v>>} ELSE since
    /\ UNCHANGED job

\* POST or PUT: the row is inserted or replaced as a whole (by the same
\* contents: no step).
SaveResource(id, v) == Accepted(id, v) /\ v # resources[id] /\ Written(id, v)

DeleteResource(id) == resources[id] # None /\ Written(id, None)

-----------------------------------------------------------------------------
(* Requests *)

\* sanitizeUniqueStrings: the first of equal names stays.
Unique(s) == Selected(s, {i \in 1..Len(s) : \A j \in 1..(i - 1) : s[j] # s[i]})

Sanitized(r) == [p \in DOMAIN r |-> IF p \in Parts THEN Unique(r[p]) ELSE r[p]]

\* validateRunRequestShape, of what is modelled of a request: no list is too
\* long.  The lengths of texts and the context blocks are left out.
ShapeOK(r) ==
    /\ \A p \in Parts : Len(r[p]) <= MaxSelectors
    /\ \A tools \in {r.enabled, r.disabled} : Cardinality(tools) <= MaxSelectors

\* filterToolSet: an empty list of enabled tools means all of them.
Filtered(r) ==
    {t \in Tools : (r.enabled = {} \/ t \in r.enabled) /\ t \notin r.disabled}

\* What the session runtime merges in comes after the filter.
Offered(r) == Filtered(r) \union RuntimeTools

-----------------------------------------------------------------------------
(* A pass over the resources of a request *)

Loads(r) ==
    LET Of(p) == [i \in 1..Len(r[p]) |-> [id |-> r[p][i], part |-> p]]
    IN  Of("mcp_server") \o Of("skill") \o Of("subagent")

Begin(pc, r) ==
    /\ job' = [NoJob EXCEPT !.pc = pc, !.req = r, !.left = Loads(r)]
    /\ since' = {<<id, resources[id]>> : id \in {id \in Ids : resources[id] # None}}
    /\ UNCHANGED <<resources, edits>>

\* startRun and validateRun: the request is cleaned and checked, then the
\* validator looks the provider up and begins its pass.
Post(r) ==
    /\ boot = "up" /\ job.pc = "none"
    /\ LET s == Sanitized(r)
       IN  IF ShapeOK(s) /\ Find(registry, s.provider) # 0
           THEN Begin("validating", s)
           ELSE /\ job' = [NoJob EXCEPT !.pc = "refused"]
                /\ UNCHANGED <<resources, edits, since>>

\* previewRun: the provider is only looked up when it is built.
Peek(r) ==
    /\ boot = "up" /\ job.pc = "none"
    /\ LET s == Sanitized(r)
       IN  IF ShapeOK(s) THEN Begin("previewing", s)
           ELSE /\ job' = [NoJob EXCEPT !.pc = "refused"]
                /\ UNCHANGED <<resources, edits, since>>

\* mcpServerFromResource: the config unmarshals and has what its kind needs.
ServerUsable(v) == v.config \in {"stdio", "http"}

\* skillDirectoryFromResource, skillContextBlockFromResource: the path is
\* there, and a file in it that can be read or is blank.
SkillUsable(v) == v.config = "text"

\* agentFromResource: the config and its inline servers are well-formed.
AgentUsable(v) == v.config = "text"

Sensible(part, v) ==
    CASE part = "skill" -> SkillUsable(v)
      [] part = "subagent" -> AgentUsable(v)
      [] part \in {"mcp_server", "link"} -> ServerUsable(v)

\* Mutant of Usable: ensureResourceEnabled is not called.
MutUsable(part, v) == v # None /\ Sensible(part, v)

\* LoadResource finds the row, it is enabled, and its config makes sense.
Usable(part, v) == v # None /\ v.enabled /\ Sensible(part, v)

\* A map f, and what g says where f says nothing.
Over(f, g) == [n \in DOMAIN f \union DOMAIN g |-> IF n \in DOMAIN f THEN f[n] ELSE g[n]]

\* A server is known by its name; a later one of the same name replaces it.
Found(x, v) ==
    IF x.part = "mcp_server" THEN Over([n \in {v.label} |-> v.config], job.found)
    ELSE job.found

\* What a skill or a subagent adds to the context: its block, or None when
\* the file of a skill is blank, which is no error.
Given(x) == IF x.part = "skill" THEN {x.id, None} ELSE {x.id}

\* A subagent has servers of its own, each loaded like the others.
Linked(x, v) ==
    IF x.part = "subagent"
    THEN [i \in 1..Len(v.links) |-> [id |-> v.links[i], part |-> "link"]] ELSE <<>>

\* One LoadResource of loadProviderOptions and what follows from it.
LoadNext ==
    /\ InPass /\ job.left # <<>>
    /\ job.pc = "assembling" => ~cancelled
    /\ LET x == Head(job.left)
           v == resources[x.id]
       IN  /\ Usable(x.part, v)
           /\ \E block \in Given(x) : job' = [job EXCEPT
                !.left = Linked(x, v) \o Tail(@),
                !.found = Found(x, v),
                !.blocks = IF x.part \in {"skill", "subagent"} THEN Append(@, block) ELSE @,
                !.used = @ \union {[id |-> x.id, part |-> x.part, version |-> v]}]
    /\ UNCHANGED <<resources, edits, since>>

\* A row that is not usable, a failing query, a missing session or workspace,
\* a provider that cannot be built, a client that has gone: the request is
\* refused, the starter fails the run.
PassFails ==
    /\ InPass
    /\ job' = [NoJob EXCEPT !.pc = IF job.pc = "assembling" THEN "failed" ELSE "refused"]
    /\ since' = {}
    /\ UNCHANGED <<resources, edits>>

\* The validator is content: what it has loaded is dropped, the run is
\* queued, or the client has its verdict.
Validated ==
    /\ job.pc = "validating" /\ job.left = <<>>
    /\ \/ job' = [NoJob EXCEPT !.pc = "queued", !.req = job.req]
       \/ job' = [NoJob EXCEPT !.pc = "answered"]
    /\ since' = {}
    /\ UNCHANGED <<resources, edits>>

\* The run's turn comes, or it is cancelled while it waits.
TurnComes == job.pc = "queued" /\ ~cancelled /\ Begin("assembling", job.req)

WaitEnds ==
    /\ job.pc = "queued" /\ cancelled
    /\ job' = [NoJob EXCEPT !.pc = "failed"]
    /\ UNCHANGED <<resources, edits, since>>

PassNext == LoadNext \/ PassFails \/ Validated \/ TurnComes \/ WaitEnds

EditNext ==
    \E id \in Ids : DeleteResource(id) \/ \E v \in Versions : SaveResource(id, v)

\* MergeProviderOptions: what the request names wins over the defaults.
Merged == Over(job.found, DefaultServers)

\* The pass is over and an agent is built: with these servers and tools.
Built(pc, tools) ==
    /\ job.left = <<>>
    /\ servers' = Merged /\ offered' = tools
    /\ job' = [NoJob EXCEPT !.pc = pc]
    /\ since' = {}
    /\ UNCHANGED <<resources, edits>>

Assembled ==
    job.pc = "assembling" /\ ~cancelled /\ Built("ready", Offered(job.req))

\* The preview shows the agent before the runtime has added its tools.
Previewed ==
    job.pc = "previewing" /\ Built("answered", Filtered(job.req))

-----------------------------------------------------------------------------
AssemblyTypeOK ==
    /\ DOMAIN resources = Ids
    /\ \A id \in Ids : resources[id] # None => IsVersion(resources[id])
    /\ edits \in 0..MaxEdits
    /\ job.pc \in {"none", "validating", "previewing", "queued", "assembling",
                  "ready", "answered", "refused", "failed"}
    /\ InPass \/ job.pc = "queued" => Sanitized(job.req) = job.req
    /\ \A x \in job.used : x.part \in Parts \union {"link"}

(***************************************************************************)
(* The agent of a run, and the one a preview shows, is made of the         *)
(* resources the request names, for a run as they stand after its turn has *)
(* come and not as the validator saw them:                                 *)
(* whatever is changed, disabled or deleted while the run waits or while   *)
(* they are loaded, each one, and each one a subagent links to, is there,  *)
(* was in force at some time since then, and was enabled.  A server the    *)
(* request names wins over a default one of the same name, the later of    *)
(* two over the earlier; the context follows the order of the request, and *)
(* only a skill may have nothing in it; a tool the request withholds is    *)
(* only there if the runtime has added it.                                 *)
(***************************************************************************)
AsAsked ==
    LET r == job.req
        Of(p, id) == {x \in job.used : x.part = p /\ x.id = id}
        Named(n) == {i \in 1..Len(r.mcp_server) :
                      \E x \in Of("mcp_server", r.mcp_server[i]) : x.version.label = n}
        Chosen(n) == IF Named(n) = {} THEN {DefaultServers[n]}
                     ELSE {x.version.config : x \in Of("mcp_server", r.mcp_server[Max(Named(n))])}
    IN  /\ \A p \in Parts : \A i \in 1..Len(r[p]) : Of(p, r[p][i]) # {}
        /\ \A x \in job.used :
             /\ <<x.id, x.version>> \in since /\ x.version.enabled
             /\ x.part = "mcp_server" => x.version.label \in DOMAIN servers'
             /\ x.part = "subagent" =>
                  \A i \in 1..Len(x.version.links) : Of("link", x.version.links[i]) # {}
        /\ DOMAIN DefaultServers \subseteq DOMAIN servers'
        /\ \A n \in DOMAIN servers' : servers'[n] \in Chosen(n)
        /\ Len(job.blocks) = Len(r.skill) + Len(r.subagent)
        /\ \A i \in 1..Len(r.skill) : job.blocks[i] \in {r.skill[i], None}
        /\ \A i \in 1..Len(r.subagent) : job.blocks[Len(r.skill) + i] = r.subagent[i]
        /\ offered' \cap r.disabled \subseteq RuntimeTools

AssemblyIsFaithful ==
    [][\/ job.pc = "assembling" /\ job'.pc = "ready"
       \/ job.pc = "previewing" /\ job'.pc = "answered"
         => AsAsked]_<<assemblyVars, servers, offered>>
=============================================================================
