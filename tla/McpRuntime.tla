------------------------------ MODULE McpRuntime ------------------------------
(***************************************************************************)
(* The servers of tools that the gateway keeps connected (mcp/registry.ts) *)
(* and its handlers that refresh, retry and reload them                    *)
(* (gateway/lifecycle.ts).  A registry connects its servers one after the  *)
(* other; a reload makes a new registry and closes the old one; a refresh  *)
(* works on the registry that was in use when it began.                    *)
(*                                                                         *)
(* Closing a client waits for nothing outside the program, so resetting a  *)
(* server and starting to connect it again is one step, and so is closing  *)
(* a registry and replacing it.  The tools that runners offer are left     *)
(* out, and so are the clients of handshakes that fail.                    *)
(***************************************************************************)
EXTENDS Naturals, FiniteSets

CONSTANTS
  Servers,      \* the servers of the configuration, numbered in the order of their ids
  MaxReloads,   \* bound: reloads of the configuration
  MaxLoad       \* bound: servers that are enabled, with reloads and refreshes by hand

ASSUME McpAssumption ==
  /\ Servers \subseteq Nat \ {0} /\ IsFiniteSet(Servers)
  /\ MaxReloads \in Nat /\ MaxLoad \in Nat

VARIABLES
  enabled,    \* the servers that are enabled
  clients,    \* of each registry: the job whose client it holds for a server
  tools,      \* of each registry: the servers whose tools it has
  status,     \* of each registry: what it says of each server
  open,       \* clients that are open: <<registry, server, job>>
  current,    \* state.mcpRegistry
  calls,      \* refreshes by hand and reloads so far
  reloads,    \* reloads that have begun; each makes the registry of its number
  job,        \* refreshes and reloads under way
  inFlight,   \* mcpRefreshInFlight
  crossed     \* history: servers that two jobs were at work on, or one in a closed registry

vars == <<enabled, clients, tools, status, open, current, calls, reloads, job, inFlight, crossed>>
registryVars == <<enabled, clients, tools, status, open>>
callVars == <<calls, reloads>>

All == 0    \* the key of a refresh of all servers
Keys == Servers \cup {All}
Registries == 0..MaxReloads
Refresh(key) == <<"refresh", key>>
Reload(g) == <<"reload", g>>
Jobs == {Refresh(key) : key \in Keys} \cup {Reload(g) : g \in Registries}
NoClient == <<"none", 0>>

\* Of a job: where it is, the registry it works on, the servers it has yet to
\* connect, the one it is at, and the servers that the timer which started it is
\* to go on with.
Job(at, g, todo, due) ==
  [at |-> at, reg |-> g, todo |-> todo, server |-> {}, due |-> due]
Idle == Job("idle", 0, {}, {})

\* Job j goes on with the same registry.
GoesOn(j, at, todo, server) ==
  job' = [job EXCEPT ![j] =
            [at |-> at, reg |-> job[j].reg, todo |-> todo, server |-> server, due |-> job[j].due]]

AtServer(j, g, s) == job[j].at \in {"connect", "list"} /\ job[j].reg = g /\ job[j].server = {s}
Spare == calls + Cardinality(enabled) < MaxLoad
First(S) == CHOOSE s \in S : \A t \in S : s <= t

-----------------------------------------------------------------------------
\* refreshMcpRuntime() up to refresh() of the registry.
RefreshBegins(key, due) ==
  job' = [job EXCEPT ![Refresh(key)] =
            Job("next", current, IF key = All THEN Servers ELSE {key}, due)]

refreshMcpRuntime(key) ==
  /\ key \notin inFlight /\ Spare
  /\ calls' = calls + 1
  /\ inFlight' = inFlight \cup {key}
  /\ RefreshBegins(key, {})
  /\ UNCHANGED <<registryVars, current, reloads, crossed>>

\* runDueMcpAutoReconnects(): the servers to be tried again, of which it awaits
\* one after the other.
runDueMcpAutoReconnects ==
  LET due == {s \in Servers : status[current][s] = "due" /\ s \notin inFlight}
  IN  /\ due # {}
      /\ inFlight' = inFlight \cup {First(due)}
      /\ RefreshBegins(First(due), due \ {First(due)})
      /\ UNCHANGED <<registryVars, current, callVars, crossed>>

\* resetServer(): the client is closed, and the tools go.
resetServerKeepingClient(g, s) ==
  /\ open' = open
  /\ clients' = [clients EXCEPT ![g][s] = NoClient]
  /\ tools' = [tools EXCEPT ![g] = @ \ {s}]

resetServerKeepingTools(g, s) ==
  /\ open' = open \ {<<g, s, clients[g][s]>>}
  /\ clients' = [clients EXCEPT ![g][s] = NoClient]
  /\ tools' = tools

resetServer(g, s) ==
  /\ open' = open \ {<<g, s, clients[g][s]>>}
  /\ clients' = [clients EXCEPT ![g][s] = NoClient]
  /\ tools' = [tools EXCEPT ![g] = @ \ {s}]

\* The next server of a refresh or of a new registry is reset and begins to be
\* connected; a disabled one is done with.
initializeServer(j, s) ==
  LET g == job[j].reg
      closed == j[1] = "refresh" /\ g # current
  IN  /\ job[j].at = "next" /\ s \in job[j].todo
      /\ resetServer(g, s)
      /\ IF s \in enabled
         THEN /\ GoesOn(j, "connect", job[j].todo \ {s}, {s})
              /\ status' = [status EXCEPT ![g][s] = "connecting"]
              /\ crossed' = IF closed \/ \E i \in Jobs : AtServer(i, g, s)
                            THEN crossed \cup {s} ELSE crossed
         ELSE /\ GoesOn(j, "next", job[j].todo \ {s}, {})
              /\ status' = [status EXCEPT ![g][s] = "disabled"]
              /\ UNCHANGED crossed
      /\ UNCHANGED <<enabled, current, callVars, inFlight>>

\* createClient() returns: the client is open, and replaces whichever the
\* registry holds by now.
ClientCreated(j, s) ==
  LET g == job[j].reg
  IN  /\ job[j].at = "connect" /\ job[j].server = {s}
      /\ GoesOn(j, "list", job[j].todo, {s})
      /\ clients' = [clients EXCEPT ![g][s] = j]
      /\ open' = open \cup {<<g, s, j>>}
      /\ UNCHANGED <<enabled, tools, status, current, callVars, inFlight, crossed>>

\* listTools() returns, of a client that nobody has closed.
ToolsListed(j, s) ==
  LET g == job[j].reg
  IN  /\ job[j].at = "list" /\ job[j].server = {s}
      /\ <<g, s, j>> \in open
      /\ GoesOn(j, "next", job[j].todo, {})
      /\ tools' = [tools EXCEPT ![g] = @ \cup {s}]
      /\ status' = [status EXCEPT ![g][s] = "connected"]
      /\ UNCHANGED <<enabled, clients, open, current, callVars, inFlight, crossed>>

\* createClient() or listTools() throws: another attempt is to follow, or none if
\* the error is one that would come again.
InitializeFails(j, s) ==
  LET g == job[j].reg
  IN  /\ AtServer(j, g, s)
      /\ GoesOn(j, "next", job[j].todo, {})
      /\ \E outcome \in {"waiting", "broken"} : status' = [status EXCEPT ![g][s] = outcome]
      /\ UNCHANGED <<enabled, clients, tools, open, current, callVars, inFlight, crossed>>

DelayElapses(s) ==
  /\ status[current][s] = "waiting"
  /\ status' = [status EXCEPT ![current][s] = "due"]
  /\ UNCHANGED <<enabled, clients, tools, open, current, callVars, job, inFlight, crossed>>

-----------------------------------------------------------------------------
\* refreshMcpRuntime() ends: the key is free, and the timer that awaited it goes on.
RefreshEndsKeepingKey(key) ==
  /\ job[Refresh(key)].at = "next" /\ job[Refresh(key)].todo = {}
  /\ job' = [job EXCEPT ![Refresh(key)] = Idle]
  /\ UNCHANGED <<registryVars, current, callVars, inFlight, crossed>>

RefreshEnds(key) ==
  LET next == {s \in job[Refresh(key)].due : s \notin inFlight}
      ended == [job EXCEPT ![Refresh(key)] = Idle]
  IN  /\ job[Refresh(key)].at = "next" /\ job[Refresh(key)].todo = {}
      /\ \/ next = {} /\ inFlight' = inFlight \ {key} /\ job' = ended
         \/ /\ next # {}
            /\ inFlight' = (inFlight \ {key}) \cup {First(next)}
            /\ job' = [ended EXCEPT ![Refresh(First(next))] =
                         Job("next", current, {First(next)}, {s \in next : s > First(next)})]
      /\ UNCHANGED <<registryVars, current, callVars, crossed>>

-----------------------------------------------------------------------------
\* reloadAgents() up to the first server of McpRegistry.create().
reloadAgents ==
  /\ reloads < MaxReloads /\ Spare
  /\ calls' = calls + 1
  /\ reloads' = reloads + 1
  /\ job' = [job EXCEPT ![Reload(reloads + 1)] = Job("next", reloads + 1, Servers, {})]
  /\ UNCHANGED <<registryVars, current, inFlight, crossed>>

\* The new registry is ready: the one in use is closed and replaced.
RegistryReplaced(g) ==
  /\ job[Reload(g)].at = "next" /\ job[Reload(g)].todo = {}
  /\ job' = [job EXCEPT ![Reload(g)] = Idle]
  /\ open' = open \ {<<current, s, clients[current][s]>> : s \in Servers}
  /\ clients' = [clients EXCEPT ![current] = [s \in Servers |-> NoClient]]
  /\ tools' = [tools EXCEPT ![current] = {}]
  /\ current' = g
  /\ crossed' = crossed \cup {s \in Servers : \E j \in Jobs : AtServer(j, current, s)}
  /\ UNCHANGED <<enabled, status, callVars, inFlight>>

-----------------------------------------------------------------------------
\* The gateway has made its first registry.
Init ==
  /\ enabled \in SUBSET Servers
  /\ current = 0 /\ calls = 0 /\ reloads = 0
  /\ \E first \in [Servers -> {"disabled", "connected", "waiting", "broken"}] :
       /\ \A s \in Servers : first[s] = "disabled" <=> s \notin enabled
       /\ status = [g \in Registries |-> IF g = 0 THEN first ELSE [s \in Servers |-> "none"]]
  /\ tools = [g \in Registries |-> {s \in Servers : status[g][s] = "connected"}]
  /\ \E unlisted \in SUBSET (enabled \ tools[0]) :
       clients = [g \in Registries |->
                    [s \in Servers |-> IF g = 0 /\ s \in tools[0] \cup unlisted
                                       THEN Reload(0) ELSE NoClient]]
  /\ open = {<<0, s, Reload(0)>> : s \in {x \in Servers : clients[0][x] # NoClient}}
  /\ job = [j \in Jobs |-> Idle]
  /\ inFlight = {}
  /\ crossed = {}

JobStep(j) ==
  \E s \in Servers :
    initializeServer(j, s) \/ ClientCreated(j, s) \/ ToolsListed(j, s) \/ InitializeFails(j, s)

Next ==
  \/ \E key \in Keys : refreshMcpRuntime(key) \/ RefreshEnds(key)
  \/ runDueMcpAutoReconnects
  \/ reloadAgents
  \/ \E j \in Jobs : JobStep(j)
  \/ \E g \in Registries : RegistryReplaced(g)
  \/ \E s \in Servers : DelayElapses(s)

Spec == Init /\ [][Next]_vars

\* Timers fire, and connecting a server comes to an end: its requests are timed.
FairSpec ==
  /\ Spec
  /\ WF_vars(runDueMcpAutoReconnects)
  /\ \A s \in Servers : WF_vars(DelayElapses(s))
  /\ \A j \in Jobs : WF_vars(JobStep(j))
  /\ \A key \in Keys : WF_vars(RefreshEnds(key))

-----------------------------------------------------------------------------
\* Among the types: the keys in flight are those of the refreshes under way.
TypeOK ==
  /\ enabled \subseteq Servers
  /\ clients \in [Registries -> [Servers -> Jobs \cup {NoClient}]]
  /\ tools \in [Registries -> SUBSET Servers]
  /\ status \in [Registries ->
                   [Servers -> {"none", "disabled", "connecting", "connected", "waiting", "due", "broken"}]]
  /\ open \subseteq Registries \X Servers \X Jobs
  /\ current \in 0..reloads /\ reloads \in Registries /\ calls \in 0..MaxLoad
  /\ job \in [Jobs -> [at : {"idle", "next", "connect", "list"}, reg : Registries,
                       todo : SUBSET Servers, server : SUBSET Servers, due : SUBSET Servers]]
  /\ inFlight = {key \in Keys : job[Refresh(key)].at # "idle"}
  /\ crossed \subseteq Servers

\* A client is closed before it is given up: one that is open is held by the
\* registry in use, or by one that is being made (lines 138-142, 187-188, 308-313);
\* save for servers that a refresh of all and one of their own have met on, or a
\* refresh and a reload.
KeptClients ==
  \A g \in Registries, s \in Servers, j \in Jobs :
    <<g, s, j>> \in open /\ s \notin crossed =>
      /\ clients[g][s] = j
      /\ g = current \/ job[Reload(g)].at \in {"next", "connect", "list"}

\* What mcp.status says is so (lines 158-283): a server that nobody is at work on
\* is shown as connected just when its tools are there, with an open client to
\* take their calls, and it is not left shown as one still being connected.
StatusIsTrue ==
  \A s \in Servers \ crossed : (\A j \in Jobs : ~AtServer(j, current, s)) =>
    /\ (status[current][s] = "connected") <=> (s \in tools[current])
    /\ s \in tools[current] => <<current, s, clients[current][s]>> \in open
    /\ status[current][s] # "connecting"

\* A server that could not be connected for a reason that may pass is tried again
\* (lifecycle.ts:830-854), whatever refreshes and reloads come in between.
RetriesGoOn ==
  \A s \in Servers :
    (status[current][s] \in {"waiting", "due"}) ~> (status[current][s] \notin {"waiting", "due"})

=============================================================================
