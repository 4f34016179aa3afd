-------------------------- MODULE ProviderRegistry --------------------------
(***************************************************************************)
(* The table of providers of one process (app/provider_registry.go): the   *)
(* built-in entries, the entries that KKODE_HTTPJSON_PROVIDERS adds when   *)
(* the process starts (main.go of the gateway and of the agent), and the   *)
(* lookups by name or alias.  A batch is registered entry by entry; when   *)
(* one is refused, those already added are removed again, last first, and  *)
(* the process does not start.  They are also removed, last first, when    *)
(* the process ends.                                                       *)
(*                                                                         *)
(* Every registration and every removal is one critical section of         *)
(* providerRegistryMu, so each is one action.                              *)
(***************************************************************************)
EXTENDS Integers, Sequences, FiniteSets, SequencesExt, CallContext

CONSTANTS
    Names,      \* spellings of provider names and aliases
    Key,        \* [Names -> Names]: strings.ToLower(strings.TrimSpace(n))
    Malformed,  \* names that are empty, or contain a blank or a slash
    Builtins,   \* Seq of the entries the program is built with
    Batches     \* the batches of HTTP JSON registrations a process may start with

(***************************************************************************)
(* An entry: its name, its aliases in order, the entry its conversion is   *)
(* taken from ("own" for the built-in converters), the kind of its source, *)
(* whether it streams, whether it has HTTP routes, and whether its         *)
(* max_response_bytes is in range.                                         *)
(***************************************************************************)
Entries ==
    [name : Names, aliases : Seq(Names), profile : Names \union {"own"}, kind : Kinds,
     streams : BOOLEAN, routes : BOOLEAN, limitOK : BOOLEAN]

ASSUME RegistryAssumption ==
    /\ Key \in [Names -> Names]
    /\ \A n \in Names : Key[Key[n]] = Key[n]
    /\ Malformed \subseteq Names
    /\ Builtins \in Seq(Entries)
    /\ \A i \in 1..Len(Builtins) : Builtins[i].profile = "own"
    /\ Batches \subseteq Seq(Entries)
    /\ \A b \in Batches : \A i \in 1..Len(b) :
         b[i].profile # "own" /\ b[i].kind = "httpjson"

VARIABLES
    registry,   \* providerRegistry
    batch,      \* the registrations of the environment
    added,      \* how many of them are registered (the unregister functions)
    boot        \* "registering", "undoing", "refused", "up", "stopping", "down"

registryVars == <<registry, batch, added, boot>>

-----------------------------------------------------------------------------
(* Names *)

\* The names an entry answers to, as findProviderRegistrationLocked compares
\* them.
Answers(e) == {Key[e.name]} \union {Key[e.aliases[i]] : i \in 1..Len(e.aliases)}

\* The program is built with entries of different names.
ASSUME BuiltinsAreDistinct ==
    \A i, j \in 1..Len(Builtins) :
      i # j => Answers(Builtins[i]) \cap Answers(Builtins[j]) = {}

\* The first entry of r that answers to n, 0 when there is none.
Find(r, n) ==
    LET hits == {i \in 1..Len(r) : Key[n] \in Answers(r[i])}
    IN  IF hits = {} THEN 0 ELSE CHOOSE i \in hits : \A j \in hits : i <= j

\* validateProviderRegistration.
ValidRegistration(e) ==
    /\ e.name \notin Malformed
    /\ \A i \in 1..Len(e.aliases) : e.aliases[i] \notin Malformed
    /\ Cardinality(Answers(e)) = 1 + Len(e.aliases)

\* Mutant of Taken: the aliases of the new entry are not looked up.
MutTaken(r, e) == Find(r, e.name) # 0

\* RegisterProvider refuses a name or an alias some entry already answers to.
Taken(r, e) ==
    \/ Find(r, e.name) # 0
    \/ \E i \in 1..Len(e.aliases) : Find(r, e.aliases[i]) # 0

\* RegisterHTTPJSONProvider: the limit, the profile, then RegisterProvider.
Accepts(r, e) ==
    /\ e.limitOK
    /\ Find(r, e.profile) # 0
    /\ ValidRegistration(e)
    /\ ~Taken(r, e)

\* httpJSONProviderSpecFromRegistration: without routes of its own an entry
\* takes those its profile has at that moment.
Specified(r, e) == [e EXCEPT !.routes = @ \/ r[Find(r, e.profile)].routes]

\* An unregister function removes the first entry of that name (not alias).
Unregistered(r, e) ==
    LET hits == {i \in 1..Len(r) : Key[r[i].name] = Key[e.name]}
    IN  IF hits = {} THEN r
        ELSE RemoveAt(r, CHOOSE i \in hits : \A j \in hits : i <= j)

\* Where the entry at i takes its converters from, one profile further:
\* resolveProviderConversion looks the profile up again, by name.
Follow(r, i) == IF i = 0 \/ r[i].profile = "own" THEN i ELSE Find(r, r[i].profile)

\* ... and in the end: an entry with converters of its own, 0 when a profile
\* is missing (providerConversionFromProfile then has none), another value
\* when the profiles go in a circle.
Converter(r, i) ==
    LET F[n \in 0..Len(r)] == IF n = 0 THEN i ELSE Follow(r, F[n - 1])
    IN  F[Len(r)]

-----------------------------------------------------------------------------
(* The process starts and stops *)

RegistryInit ==
    /\ registry = Builtins
    /\ batch \in Batches
    /\ added = 0
    /\ boot = "registering"

\* One round of the loop of RegisterHTTPJSONProvidersFromJSON.
RegisterNext ==
    /\ boot = "registering" /\ added < Len(batch)
    /\ LET e == batch[added + 1]
       IN  IF Accepts(registry, e)
           THEN /\ registry' = Append(registry, Specified(registry, e))
                /\ added' = added + 1
                /\ boot' = boot
           ELSE /\ boot' = "undoing"
                /\ UNCHANGED <<registry, added>>
    /\ UNCHANGED batch

\* The whole list is registered; the process goes on to serve.
BootDone ==
    /\ boot = "registering" /\ added = Len(batch)
    /\ boot' = "up"
    /\ UNCHANGED <<registry, batch, added>>

\* Entries are removed in the opposite order, after a refusal or by the
\* deferred function of main.
UnregisterNext ==
    /\ boot \in {"undoing", "stopping"} /\ added > 0
    /\ registry' = Unregistered(registry, batch[added])
    /\ added' = added - 1
    /\ UNCHANGED <<batch, boot>>

UnregisterDone ==
    /\ boot \in {"undoing", "stopping"} /\ added = 0
    /\ boot' = IF boot = "undoing" THEN "refused" ELSE "down"
    /\ UNCHANGED <<registry, batch, added>>

RegistryNext == RegisterNext \/ BootDone \/ UnregisterNext \/ UnregisterDone

-----------------------------------------------------------------------------
RegistryTypeOK ==
    /\ batch \in Batches
    /\ added \in 0..Len(batch)
    /\ registry \in Seq(Entries)
    /\ Len(registry) = Len(Builtins) + added
    /\ boot \in {"registering", "undoing", "refused", "up", "stopping", "down"}

\* No two entries answer to the same name.
NamesAreDistinct ==
    \A i, j \in 1..Len(registry) :
      i # j => Answers(registry[i]) \cap Answers(registry[j]) = {}

\* A process that serves has every provider its environment asked for, under
\* all its names; one that refused its environment, or has stopped, has left
\* nothing behind.
BatchIsWhole ==
    /\ boot \in {"refused", "down"} => registry = Builtins
    /\ boot = "up" =>
         /\ Len(registry) = Len(Builtins) + Len(batch)
         /\ \A i \in 1..Len(registry) :
              Answers(registry[i]) = Answers((Builtins \o batch)[i])

(***************************************************************************)
(* A name means one provider, so a run that was validated with a provider  *)
(* is executed by that provider.  The environment is registered as a whole *)
(* or not at all.  Following the profile of an entry ends at a built-in    *)
(* converter, never nowhere or in a circle.                                *)
(***************************************************************************)
RegistryIsSound ==
    /\ NamesAreDistinct
    /\ BatchIsWhole
    /\ \A i \in 1..Len(registry) :
         LET c == Converter(registry, i) IN c # 0 /\ registry[c].profile = "own"
=============================================================================
