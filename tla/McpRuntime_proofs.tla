--------------------------- MODULE McpRuntime_proofs ---------------------------
(***************************************************************************)
(* Proofs about McpRuntime for any finite set of servers and any number of *)
(* reloads and refreshes: that clients are closed before they are given    *)
(* up, and that what is said of a server is so.                            *)
(***************************************************************************)
EXTENDS McpRuntime, FiniteSetTheorems, WellFoundedInduction, TLAPS

Making(g) == job[Reload(g)].at # "idle"
InUse(g) == g = current \/ Making(g)
InUseOrNew(g) == InUse(g) \/ g > reloads

\* A reload makes the registry of its number, which is not in use yet; a
\* refresh works on a registry that has been made.
JobsAreSound ==
  /\ \A g \in Registries : Making(g) =>
       g # current /\ g <= reloads /\ job[Reload(g)].reg = g
  /\ \A key \in Keys : job[Refresh(key)].at # "idle" =>
       job[Refresh(key)].reg <= reloads /\ ~ Making(job[Refresh(key)].reg)

\* A client that is open is held, by a registry that is in use or being made.
OpenIsHeld(g, s) ==
  \A j \in Jobs : <<g, s, j>> \in open => clients[g][s] = j /\ InUse(g)

\* One job at most is at work on the server, in a registry in use or being made;
\* its tools are not there, and the client is the one the job has created.
WorkIsSound(g, s) ==
  /\ \A i, j \in Jobs : AtServer(i, g, s) /\ AtServer(j, g, s) => i = j
  /\ \A j \in Jobs : AtServer(j, g, s) =>
       /\ InUse(g) /\ s \notin tools[g] /\ s \in enabled
       /\ job[j].at = "connect" => clients[g][s] = NoClient
       /\ job[j].at = "list" => clients[g][s] = j

\* What a registry says of a server that nobody is at work on.
ShownIsSo(g, s) ==
  InUseOrNew(g) /\ (\A j \in Jobs : ~ AtServer(j, g, s)) =>
    /\ (status[g][s] = "connected") <=> (s \in tools[g])
    /\ s \in tools[g] => <<g, s, clients[g][s]>> \in open
    /\ status[g][s] # "connecting"

Sound(g, s) == OpenIsHeld(g, s) /\ WorkIsSound(g, s) /\ ShownIsSo(g, s)

ServersAreSound == \A g \in Registries, s \in Servers : s \notin crossed => Sound(g, s)

\* The inductive invariant.
RuntimeIsSound == TypeOK /\ JobsAreSound /\ ServersAreSound

-----------------------------------------------------------------------------
Records ==
  [at : {"idle", "next", "connect", "list"}, reg : Registries,
   todo : SUBSET Servers, server : SUBSET Servers, due : SUBSET Servers]
Statuses == {"none", "disabled", "connecting", "connected", "waiting", "due", "broken"}

\* The least server of a set is one of them.
LEMMA FirstIsIn ==
  ASSUME NEW S \in SUBSET Servers, S # {}
  PROVE  First(S) \in S
<1>0. S \in SUBSET Nat
  BY McpAssumption
<1> DEFINE Below == OpToRel(<, Nat)
<1>1. \E s \in S : \A t \in S : ~ (<<t, s>> \in Below)
  BY <1>0, NatLessThanWellFounded, WFMin
<1>2. \A s, t \in S : t < s => <<t, s>> \in Below
  BY <1>0 DEF OpToRel
<1> HIDE DEF Below
<1>3. PICK s \in S : \A t \in S : ~ (<<t, s>> \in Below)
  BY <1>1
<1>4. \A t \in S : ~ (t < s)
  BY <1>2, <1>3
<1>5. \A t \in S : s <= t
  BY <1>0, <1>4
<1> QED
  BY <1>5 DEF First

\* Refreshes and reloads are told apart by their keys and registries.
LEMMA JobsDiffer ==
  /\ \A key \in Keys : Refresh(key) \in Jobs
  /\ \A g \in Registries : Reload(g) \in Jobs
  /\ \A key \in Keys, g \in Registries : Refresh(key) # Reload(g)
  /\ \A k, l \in Keys : Refresh(k) = Refresh(l) => k = l
  /\ \A g, h \in Registries : Reload(g) = Reload(h) => g = h
  /\ \A j \in Jobs : \/ \E key \in Keys : j = Refresh(key) /\ j[1] = "refresh"
                     \/ \E g \in Registries : j = Reload(g) /\ j[1] # "refresh"
  /\ NoClient \notin Jobs
  BY DEF Refresh, Reload, Jobs, NoClient

LEMMA RegistriesAreNumbers ==
  /\ Registries \subseteq Nat /\ 0 \in Registries /\ All \in Keys /\ Servers \subseteq Keys
  /\ \A g \in Registries : \A h \in Nat : h <= g => h \in Registries
  BY McpAssumption DEF Registries, All, Keys

\* What a job becomes when it goes on.
LEMMA GoingOn ==
  ASSUME job \in [Jobs -> Records], NEW j \in Jobs,
         NEW at \in {"next", "connect", "list"}, NEW todo \in SUBSET Servers,
         NEW server \in SUBSET Servers, GoesOn(j, at, todo, server)
  PROVE  /\ job' \in [Jobs -> Records]
         /\ job'[j].at = at /\ job'[j].reg = job[j].reg /\ job'[j].server = server
         /\ \A i \in Jobs \ {j} : job'[i] = job[i]
<1> DEFINE r == [at |-> at, reg |-> job[j].reg, todo |-> todo, server |-> server, due |-> job[j].due]
<1>1. job' = [job EXCEPT ![j] = r]
  BY DEF GoesOn
<1>2. r \in Records /\ r.at = at /\ r.reg = job[j].reg /\ r.server = server
  BY DEF Records
<1> HIDE DEF r
<1> QED
  BY <1>1, <1>2

\* What a job is when it begins.
LEMMA JobTyped ==
  ASSUME NEW at \in {"idle", "next"}, NEW g \in Registries,
         NEW todo \in SUBSET Servers, NEW due \in SUBSET Servers
  PROVE  /\ Job(at, g, todo, due) \in Records
         /\ Job(at, g, todo, due).at = at /\ Job(at, g, todo, due).reg = g
  BY DEF Job, Records

LEMMA IdleTyped == Idle \in Records /\ Idle.at = "idle"
<1>1. 0 \in Registries
  BY RegistriesAreNumbers
<1> QED
  BY <1>1, JobTyped DEF Idle

\* The types, with the job records named.
Typed ==
  /\ enabled \subseteq Servers
  /\ clients \in [Registries -> [Servers -> Jobs \cup {NoClient}]]
  /\ tools \in [Registries -> SUBSET Servers]
  /\ status \in [Registries -> [Servers -> Statuses]]
  /\ open \subseteq Registries \X Servers \X Jobs
  /\ current \in 0..reloads /\ reloads \in Registries /\ calls \in 0..MaxLoad
  /\ job \in [Jobs -> Records]
  /\ inFlight = {key \in Keys : job[Refresh(key)].at # "idle"}
  /\ crossed \subseteq Servers

LEMMA TypedIsTypeOK == TypeOK <=> Typed
  BY DEF TypeOK, Typed, Records, Statuses

LEMMA CurrentIsRegistry ==
  ASSUME Typed
  PROVE  current \in Registries /\ current \in Nat /\ reloads \in Nat /\ current <= reloads
<1>1. reloads \in Registries /\ current \in 0..reloads
  BY DEF Typed
<1>2. reloads \in Nat
  BY <1>1, RegistriesAreNumbers
<1>3. current \in Nat /\ current <= reloads
  BY <1>1, <1>2
<1> QED
  BY <1>1, <1>2, <1>3, RegistriesAreNumbers

-----------------------------------------------------------------------------
LEMMA SoundInit == Init => Typed /\ JobsAreSound /\ ServersAreSound
<1> SUFFICES ASSUME Init PROVE Typed /\ JobsAreSound /\ ServersAreSound
  OBVIOUS
<1>1. /\ enabled \in SUBSET Servers /\ current = 0 /\ calls = 0 /\ reloads = 0
      /\ job = [j \in Jobs |-> Idle] /\ inFlight = {} /\ crossed = {}
      /\ tools = [g \in Registries |-> {s \in Servers : status[g][s] = "connected"}]
      /\ open = {<<0, s, Reload(0)>> : s \in {x \in Servers : clients[0][x] # NoClient}}
  BY DEF Init
<1>2. PICK first \in [Servers -> {"disabled", "connected", "waiting", "broken"}] :
        status = [g \in Registries |-> IF g = 0 THEN first ELSE [s \in Servers |-> "none"]]
  BY DEF Init
<1>3. PICK unlisted \in SUBSET (enabled \ tools[0]) :
        clients = [g \in Registries |->
                     [s \in Servers |-> IF g = 0 /\ s \in tools[0] \cup unlisted
                                        THEN Reload(0) ELSE NoClient]]
  BY DEF Init
<1>4. /\ 0 \in Registries /\ Reload(0) \in Jobs /\ MaxLoad \in Nat
      /\ \A j \in Jobs : job[j] = Idle /\ job[j].at = "idle"
      /\ \A key \in Keys : job[Refresh(key)].at = "idle"
      /\ \A g \in Registries : job[Reload(g)].at = "idle"
  BY <1>1, McpAssumption, RegistriesAreNumbers, JobsDiffer, IdleTyped
<1>5. Typed
  <2>1. status \in [Registries -> [Servers -> Statuses]]
    BY <1>2 DEF Statuses
  <2>2. clients \in [Registries -> [Servers -> Jobs \cup {NoClient}]]
    BY <1>3, <1>4
  <2>3. open \subseteq Registries \X Servers \X Jobs
    BY <1>1, <1>4
  <2>4. job \in [Jobs -> Records]
    BY <1>1, IdleTyped
  <2>5. current \in 0..reloads /\ reloads \in Registries /\ calls \in 0..MaxLoad
    BY <1>1, <1>4
  <2>6. tools \in [Registries -> SUBSET Servers]
    BY <1>1
  <2>7. inFlight = {key \in Keys : job[Refresh(key)].at # "idle"}
    BY <1>1, <1>4
  <2> QED
    BY <1>1, <2>1, <2>2, <2>3, <2>4, <2>5, <2>6, <2>7 DEF Typed
<1>6. JobsAreSound
  BY <1>4 DEF JobsAreSound, Making
<1>7. ASSUME NEW g \in Registries, NEW s \in Servers PROVE Sound(g, s)
  <2>1. \A j \in Jobs : ~ AtServer(j, g, s)
    BY <1>4 DEF AtServer
  <2>2. (status[g][s] = "connected") <=> (s \in tools[g])
    BY <1>1
  <2>3. status[g][s] # "connecting"
    BY <1>2
  <2>4. s \in tools[g] => g = 0
    BY <1>2, <2>2
  <2>5. s \in tools[g] => clients[g][s] = Reload(0)
    BY <1>3, <1>4, <2>4
  <2>6. s \in tools[g] => <<g, s, clients[g][s]>> \in open
    BY <1>1, <1>4, <2>4, <2>5, JobsDiffer
  <2>7. ASSUME NEW j \in Jobs, <<g, s, j>> \in open PROVE clients[g][s] = j /\ InUse(g)
    <3>1. PICK x \in Servers : clients[0][x] # NoClient /\ <<g, s, j>> = <<0, x, Reload(0)>>
      BY <1>1, <2>7
    <3>2. g = 0 /\ x = s /\ j = Reload(0) /\ clients[0][s] # NoClient
      BY <3>1
    <3>3. clients[0][s] = Reload(0)
      BY <1>3, <1>4, <3>2
    <3> QED
      BY <1>1, <3>2, <3>3 DEF InUse
  <2> QED
    BY <2>1, <2>2, <2>3, <2>6, <2>7 DEF Sound, OpenIsHeld, WorkIsSound, ShownIsSo
<1> QED
  BY <1>5, <1>6, <1>7 DEF ServersAreSound

-----------------------------------------------------------------------------
\* Types.

\* A job that goes on keeps its key in flight.
LEMMA KeysStay ==
  ASSUME Typed, NEW j \in Jobs, job[j].at # "idle", job' \in [Jobs -> Records],
         job'[j].at # "idle", \A i \in Jobs \ {j} : job'[i] = job[i], inFlight' = inFlight
  PROVE  inFlight' = {key \in Keys : job'[Refresh(key)].at # "idle"}
<1>1. \A key \in Keys : (job'[Refresh(key)].at # "idle") <=> (job[Refresh(key)].at # "idle")
  BY JobsDiffer
<1> QED
  BY <1>1 DEF Typed

\* What resetting a server leaves typed.
LEMMA ResetTyped ==
  ASSUME Typed, NEW g \in Registries, NEW s \in Servers, resetServer(g, s)
  PROVE  /\ open' \subseteq Registries \X Servers \X Jobs
         /\ clients' \in [Registries -> [Servers -> Jobs \cup {NoClient}]]
         /\ tools' \in [Registries -> SUBSET Servers]
  BY DEF Typed, resetServer

\* A job at work on a server goes on, with its registry, and the other jobs stay.
LEMMA JobGoesOn ==
  ASSUME Typed, NEW j \in Jobs, NEW s \in Servers,
         initializeServer(j, s) \/ ClientCreated(j, s) \/ ToolsListed(j, s) \/ InitializeFails(j, s)
  PROVE  /\ job[j].at # "idle" /\ job'[j].at # "idle"
         /\ job' \in [Jobs -> Records] /\ job'[j].reg = job[j].reg
         /\ \A i \in Jobs \ {j} : job'[i] = job[i]
         /\ enabled' = enabled /\ current' = current /\ calls' = calls /\ reloads' = reloads
         /\ inFlight' = inFlight
         /\ \/ /\ initializeServer(j, s) /\ s \in enabled
               /\ job'[j].at = "connect" /\ job'[j].server = {s}
            \/ /\ initializeServer(j, s) /\ s \notin enabled
               /\ job'[j].at = "next" /\ job'[j].server = {}
            \/ ClientCreated(j, s) /\ job'[j].at = "list" /\ job'[j].server = {s}
            \/ /\ ToolsListed(j, s) \/ InitializeFails(j, s)
               /\ job'[j].at = "next" /\ job'[j].server = {}
<1>1. /\ job \in [Jobs -> Records] /\ job[j].todo \in SUBSET Servers
      /\ job[j].todo \ {s} \in SUBSET Servers
      /\ {s} \in SUBSET Servers /\ {} \in SUBSET Servers
  BY DEF Typed, Records
<1>2. /\ enabled' = enabled /\ current' = current /\ calls' = calls /\ reloads' = reloads
      /\ inFlight' = inFlight /\ job[j].at # "idle"
  BY DEF initializeServer, ClientCreated, ToolsListed, InitializeFails, callVars, AtServer
<1>3. CASE initializeServer(j, s) /\ s \in enabled
  <2>1. GoesOn(j, "connect", job[j].todo \ {s}, {s})
    BY <1>3 DEF initializeServer
  <2> QED
    BY <1>1, <1>2, <1>3, <2>1, GoingOn
<1>4. CASE initializeServer(j, s) /\ s \notin enabled
  <2>1. GoesOn(j, "next", job[j].todo \ {s}, {})
    BY <1>4 DEF initializeServer
  <2> QED
    BY <1>1, <1>2, <1>4, <2>1, GoingOn
<1>5. CASE ClientCreated(j, s)
  <2>1. GoesOn(j, "list", job[j].todo, {s})
    BY <1>5 DEF ClientCreated
  <2> QED
    BY <1>1, <1>2, <1>5, <2>1, GoingOn
<1>6. CASE ToolsListed(j, s) \/ InitializeFails(j, s)
  <2>1. GoesOn(j, "next", job[j].todo, {})
    BY <1>6 DEF ToolsListed, InitializeFails
  <2> QED
    BY <1>1, <1>2, <1>6, <2>1, GoingOn
<1> QED
  BY <1>3, <1>4, <1>5, <1>6

LEMMA JobStepTyped ==
  ASSUME Typed, NEW j \in Jobs, JobStep(j)
  PROVE  Typed'
<1>0. PICK s \in Servers :
        initializeServer(j, s) \/ ClientCreated(j, s) \/ ToolsListed(j, s) \/ InitializeFails(j, s)
  BY DEF JobStep
<1> DEFINE g == job[j].reg
<1>1. g \in Registries
  BY DEF Typed, Records
<1>2. ASSUME clients' \in [Registries -> [Servers -> Jobs \cup {NoClient}]],
             tools' \in [Registries -> SUBSET Servers],
             status' \in [Registries -> [Servers -> Statuses]],
             open' \subseteq Registries \X Servers \X Jobs,
             crossed' \subseteq Servers
      PROVE  Typed'
  <2>1. /\ job[j].at # "idle" /\ job'[j].at # "idle"
        /\ job' \in [Jobs -> Records] /\ \A i \in Jobs \ {j} : job'[i] = job[i]
        /\ enabled' = enabled /\ current' = current /\ calls' = calls /\ reloads' = reloads
        /\ inFlight' = inFlight
    BY <1>0, JobGoesOn
  <2>2. inFlight' = {key \in Keys : job'[Refresh(key)].at # "idle"}
    BY <2>1, KeysStay
  <2> QED
    BY <1>2, <2>1, <2>2 DEF Typed
<1>3. ASSUME NEW t \in Statuses, status' = [status EXCEPT ![g][s] = t]
      PROVE  status' \in [Registries -> [Servers -> Statuses]]
  BY <1>1, <1>3 DEF Typed
<1>4. CASE initializeServer(j, s)
  <2>1. /\ resetServer(g, s)
        /\ \/ status' = [status EXCEPT ![g][s] = "connecting"]
           \/ status' = [status EXCEPT ![g][s] = "disabled"]
        /\ crossed' = crossed \cup {s} \/ crossed' = crossed
    <3>1. CASE s \in enabled
      BY <1>4, <3>1 DEF initializeServer
    <3>2. CASE s \notin enabled
      BY <1>4, <3>2 DEF initializeServer
    <3> QED
      BY <3>1, <3>2
  <2>2. status' \in [Registries -> [Servers -> Statuses]] /\ crossed' \subseteq Servers
    <3>1. "connecting" \in Statuses /\ "disabled" \in Statuses
      BY DEF Statuses
    <3>2. crossed' \subseteq Servers
      BY <2>1 DEF Typed
    <3> QED
      BY <1>3, <2>1, <3>1, <3>2
  <2> HIDE DEF g
  <2> QED
    BY <1>1, <1>2, <2>1, <2>2, ResetTyped
<1>5. CASE ClientCreated(j, s)
  <2>1. /\ clients' = [clients EXCEPT ![g][s] = j] /\ open' = open \cup {<<g, s, j>>}
        /\ tools' = tools /\ status' = status /\ crossed' = crossed
    BY <1>5 DEF ClientCreated
  <2>2. clients' \in [Registries -> [Servers -> Jobs \cup {NoClient}]]
    BY <1>1, <2>1 DEF Typed
  <2>3. open' \subseteq Registries \X Servers \X Jobs
    BY <1>1, <2>1 DEF Typed
  <2> QED
    BY <1>2, <2>1, <2>2, <2>3 DEF Typed
<1>6. CASE ToolsListed(j, s)
  <2>1. /\ tools' = [tools EXCEPT ![g] = @ \cup {s}]
        /\ status' = [status EXCEPT ![g][s] = "connected"] /\ "connected" \in Statuses
        /\ clients' = clients /\ open' = open /\ crossed' = crossed
    BY <1>6 DEF ToolsListed, Statuses
  <2>2. tools' \in [Registries -> SUBSET Servers]
    BY <1>1, <2>1 DEF Typed
  <2> QED
    BY <1>2, <1>3, <2>1, <2>2 DEF Typed
<1>7. CASE InitializeFails(j, s)
  <2>1. PICK outcome \in {"waiting", "broken"} : status' = [status EXCEPT ![g][s] = outcome]
    BY <1>7 DEF InitializeFails
  <2>2. outcome \in Statuses
    BY DEF Statuses
  <2>3. tools' = tools /\ clients' = clients /\ open' = open /\ crossed' = crossed
    BY <1>7 DEF InitializeFails
  <2> QED
    BY <1>2, <1>3, <2>1, <2>2, <2>3 DEF Typed
<1> QED
  BY <1>0, <1>4, <1>5, <1>6, <1>7

\* There is room for one more call.
LEMMA SpareTyped ==
  ASSUME Typed, Spare
  PROVE  calls + 1 \in 0..MaxLoad
<1>1. Cardinality(enabled) \in Nat
  BY McpAssumption, FS_Subset, FS_CardinalityType DEF Typed
<1> QED
  BY <1>1, McpAssumption DEF Typed, Spare

\* A refresh that begins, on a key that is free.
LEMMA RefreshBeginsTyped ==
  ASSUME Typed, NEW key \in Keys, NEW due \in SUBSET Servers,
         RefreshBegins(key, due)
  PROVE  /\ job' \in [Jobs -> Records]
         /\ job'[Refresh(key)].at = "next" /\ job'[Refresh(key)].reg = current
         /\ \A i \in Jobs \ {Refresh(key)} : job'[i] = job[i]
<1> DEFINE todo == IF key = All THEN Servers ELSE {key}
           r == Job("next", current, todo, due)
<1>1. todo \in SUBSET Servers
  BY DEF Keys
<1> HIDE DEF todo
<1>2. r \in Records /\ r.at = "next" /\ r.reg = current
  BY <1>1, CurrentIsRegistry, JobTyped
<1>3. job' = [job EXCEPT ![Refresh(key)] = r] /\ Refresh(key) \in Jobs
  BY JobsDiffer DEF RefreshBegins, todo
<1> HIDE DEF r
<1> QED
  BY <1>2, <1>3 DEF Typed

\* The jobs after a refresh has ended: it is idle, and so is every other but one
\* that may have begun, on the registry in use.
LEMMA RefreshEndsTyped ==
  ASSUME Typed, NEW key \in Keys, RefreshEnds(key)
  PROVE  /\ job' \in [Jobs -> Records]
         /\ inFlight' = {k \in Keys : job'[Refresh(k)].at # "idle"}
         /\ job[Refresh(key)].at = "next" /\ job'[Refresh(key)].at = "idle"
         /\ \A i \in Jobs \ {Refresh(key)} :
              \/ job'[i] = job[i]
              \/ /\ \E k \in Keys : i = Refresh(k)
                 /\ job[i].at = "idle" /\ job'[i].at = "next" /\ job'[i].reg = current
<1> DEFINE next == {s \in job[Refresh(key)].due : s \notin inFlight}
           ended == [job EXCEPT ![Refresh(key)] = Idle]
           new == Job("next", current, {First(next)}, {s \in next : s > First(next)})
<1>1. /\ job[Refresh(key)].at = "next"
      /\ \/ next = {} /\ inFlight' = inFlight \ {key} /\ job' = ended
         \/ /\ next # {}
            /\ inFlight' = (inFlight \ {key}) \cup {First(next)}
            /\ job' = [ended EXCEPT ![Refresh(First(next))] = new]
  BY DEF RefreshEnds
<1>2. /\ Refresh(key) \in Jobs /\ job \in [Jobs -> Records] /\ next \in SUBSET Servers
      /\ job[Refresh(key)].due \in SUBSET Servers
      /\ inFlight = {k \in Keys : job[Refresh(k)].at # "idle"}
  BY JobsDiffer DEF Typed, Records
<1>3. /\ ended \in [Jobs -> Records] /\ ended[Refresh(key)].at = "idle"
      /\ \A i \in Jobs \ {Refresh(key)} : ended[i] = job[i]
  BY <1>2, IdleTyped
<1>4. \A k \in Keys \ {key} : Refresh(k) \in Jobs \ {Refresh(key)}
  BY JobsDiffer
<1> HIDE DEF ended
<1>5. CASE next = {} /\ inFlight' = inFlight \ {key} /\ job' = ended
  <2>1. inFlight' = {k \in Keys : job'[Refresh(k)].at # "idle"}
    BY <1>2, <1>3, <1>4, <1>5
  <2> QED
    BY <1>1, <1>3, <1>5, <2>1
<1>6. CASE /\ next # {} /\ inFlight' = (inFlight \ {key}) \cup {First(next)}
           /\ job' = [ended EXCEPT ![Refresh(First(next))] = new]
  <2> DEFINE f == First(next)
  <2>1. f \in next
    BY <1>2, <1>6, FirstIsIn
  <2>2. f \in Servers /\ f \in Keys /\ f \notin inFlight /\ Refresh(f) \in Jobs
    BY <1>2, <2>1, RegistriesAreNumbers, JobsDiffer
  <2>3. job[Refresh(f)].at = "idle" /\ key \in inFlight /\ f # key /\ Refresh(f) # Refresh(key)
    BY <1>1, <1>2, <2>2, JobsDiffer
  <2>4. new \in Records /\ new.at = "next" /\ new.reg = current
    <3>1. {f} \in SUBSET Servers /\ {s \in next : s > f} \in SUBSET Servers
      BY <1>2, <2>2
    <3> QED
      BY <3>1, CurrentIsRegistry, JobTyped
  <2>5. job' = [ended EXCEPT ![Refresh(f)] = new] /\ inFlight' = (inFlight \ {key}) \cup {f}
    BY <1>6
  <2> HIDE DEF f, next, new
  <2>6. /\ job' \in [Jobs -> Records] /\ job'[Refresh(f)].at = "next"
        /\ job'[Refresh(f)].reg = current
        /\ \A i \in Jobs \ {Refresh(f)} : job'[i] = ended[i]
    BY <1>3, <2>2, <2>4, <2>5
  <2>7. job'[Refresh(key)].at = "idle"
    BY <1>2, <1>3, <2>3, <2>6
  <2>8. \A k \in Keys \ {key, f} : job'[Refresh(k)] = job[Refresh(k)]
    BY <1>3, <1>4, <2>6, <2>2, JobsDiffer
  <2>9. inFlight' = {k \in Keys : job'[Refresh(k)].at # "idle"}
    BY <1>2, <2>2, <2>5, <2>6, <2>7, <2>8
  <2> QED
    BY <1>1, <1>3, <2>2, <2>3, <2>6, <2>7, <2>9
<1> QED
  BY <1>1, <1>5, <1>6

LEMMA TypedStep == Typed /\ JobsAreSound /\ [Next]_vars => Typed'
<1> SUFFICES ASSUME Typed, JobsAreSound, [Next]_vars PROVE Typed'
  OBVIOUS
<1>0. /\ \A key \in Keys : Refresh(key) \in Jobs
      /\ \A g \in Registries : Reload(g) \in Jobs
      /\ job \in [Jobs -> Records]
  BY JobsDiffer DEF Typed
<1>1. ASSUME NEW key \in Keys, NEW due \in SUBSET Servers, key \notin inFlight,
             inFlight' = inFlight \cup {key}, RefreshBegins(key, due),
             calls' \in 0..MaxLoad,
             UNCHANGED <<registryVars, current, reloads, crossed>>
      PROVE  Typed'
  <2>1. /\ job' \in [Jobs -> Records] /\ job'[Refresh(key)].at = "next"
        /\ \A i \in Jobs \ {Refresh(key)} : job'[i] = job[i]
    BY <1>1, RefreshBeginsTyped
  <2>2. \A k \in Keys \ {key} : job'[Refresh(k)] = job[Refresh(k)]
    BY <2>1, JobsDiffer
  <2>3. inFlight' = {k \in Keys : job'[Refresh(k)].at # "idle"}
    BY <1>1, <2>1, <2>2 DEF Typed
  <2> QED
    BY <1>1, <2>1, <2>3 DEF Typed, registryVars
<1>2. ASSUME NEW key \in Keys, refreshMcpRuntime(key) PROVE Typed'
  BY <1>1, <1>2, SpareTyped DEF refreshMcpRuntime
<1>3. ASSUME runDueMcpAutoReconnects PROVE Typed'
  <2> DEFINE due == {s \in Servers : status[current][s] = "due" /\ s \notin inFlight}
  <2>1. /\ due # {} /\ inFlight' = inFlight \cup {First(due)}
        /\ RefreshBegins(First(due), due \ {First(due)})
        /\ UNCHANGED <<registryVars, current, reloads, crossed>> /\ calls' = calls
    BY <1>3 DEF runDueMcpAutoReconnects, callVars
  <2>2. due \in SUBSET Servers /\ First(due) \in due
    BY <2>1, FirstIsIn
  <2>3. First(due) \in Keys /\ First(due) \notin inFlight
    BY <2>2, RegistriesAreNumbers
  <2>4. due \ {First(due)} \in SUBSET Servers /\ calls' \in 0..MaxLoad
    BY <2>1, <2>2 DEF Typed
  <2> HIDE DEF due
  <2> QED
    BY <1>1, <2>1, <2>3, <2>4
<1>4. ASSUME NEW key \in Keys, RefreshEnds(key) PROVE Typed'
  <2>1. /\ job' \in [Jobs -> Records]
        /\ inFlight' = {k \in Keys : job'[Refresh(k)].at # "idle"}
    BY <1>4, RefreshEndsTyped
  <2>2. UNCHANGED <<registryVars, current, callVars, crossed>>
    BY <1>4 DEF RefreshEnds
  <2> QED
    BY <2>1, <2>2 DEF Typed, registryVars, callVars
<1>5. ASSUME reloadAgents PROVE Typed'
  <2>1. /\ reloads < MaxReloads /\ calls' = calls + 1 /\ reloads' = reloads + 1 /\ Spare
        /\ job' = [job EXCEPT ![Reload(reloads + 1)] = Job("next", reloads + 1, Servers, {})]
        /\ UNCHANGED <<registryVars, current, inFlight, crossed>>
    BY <1>5 DEF reloadAgents
  <2>2. reloads + 1 \in Registries /\ current' \in 0..reloads'
    <3>1. reloads \in Nat /\ current \in Nat /\ current <= reloads
      BY CurrentIsRegistry
    <3>2. reloads + 1 \in 0..MaxReloads
      BY <2>1, <3>1, McpAssumption
    <3> QED
      BY <2>1, <3>1, <3>2 DEF Registries
  <2>3. Job("next", reloads + 1, Servers, {}) \in Records
    BY <2>2, JobTyped
  <2>4. job' \in [Jobs -> Records] /\ \A k \in Keys : job'[Refresh(k)] = job[Refresh(k)]
    BY <1>0, <2>1, <2>2, <2>3, JobsDiffer
  <2>5. calls' \in 0..MaxLoad
    BY <2>1, SpareTyped
  <2>6. inFlight' = {k \in Keys : job'[Refresh(k)].at # "idle"}
    BY <2>1, <2>4 DEF Typed
  <2> QED
    BY <2>1, <2>2, <2>4, <2>5, <2>6 DEF Typed, registryVars
<1>6. ASSUME NEW g \in Registries, RegistryReplaced(g) PROVE Typed'
  <2>1. /\ job[Reload(g)].at = "next" /\ job' = [job EXCEPT ![Reload(g)] = Idle]
        /\ open' = open \ {<<current, s, clients[current][s]>> : s \in Servers}
        /\ clients' = [clients EXCEPT ![current] = [s \in Servers |-> NoClient]]
        /\ tools' = [tools EXCEPT ![current] = {}]
        /\ current' = g
        /\ crossed' = crossed \cup {s \in Servers : \E j \in Jobs : AtServer(j, current, s)}
        /\ UNCHANGED <<enabled, status, callVars, inFlight>>
    BY <1>6 DEF RegistryReplaced
  <2>2. job' \in [Jobs -> Records] /\ \A k \in Keys : job'[Refresh(k)] = job[Refresh(k)]
    BY <1>0, <2>1, IdleTyped, JobsDiffer
  <2>3. inFlight' = {k \in Keys : job'[Refresh(k)].at # "idle"}
    BY <2>1, <2>2 DEF Typed
  <2>4. current' \in 0..reloads
    <3>1. g <= reloads /\ g \in Nat /\ reloads \in Nat
      BY <2>1, CurrentIsRegistry, RegistriesAreNumbers DEF JobsAreSound, Making
    <3> QED
      BY <2>1, <3>1
  <2>5. clients' \in [Registries -> [Servers -> Jobs \cup {NoClient}]]
    BY <2>1, CurrentIsRegistry DEF Typed
  <2>6. tools' \in [Registries -> SUBSET Servers]
    BY <2>1, CurrentIsRegistry DEF Typed
  <2>7. open' \subseteq Registries \X Servers \X Jobs /\ crossed' \subseteq Servers
    BY <2>1 DEF Typed
  <2> QED
    BY <2>1, <2>2, <2>3, <2>4, <2>5, <2>6, <2>7 DEF Typed, callVars
<1>7. ASSUME NEW s \in Servers, DelayElapses(s) PROVE Typed'
  <2>1. status' = [status EXCEPT ![current][s] = "due"] /\ "due" \in Statuses
    BY <1>7 DEF DelayElapses, Statuses
  <2>2. status' \in [Registries -> [Servers -> Statuses]]
    BY <2>1, CurrentIsRegistry DEF Typed
  <2>3. UNCHANGED <<enabled, clients, tools, open, current, callVars, job, inFlight, crossed>>
    BY <1>7 DEF DelayElapses
  <2> QED
    BY <2>2, <2>3 DEF Typed, callVars
<1>8. CASE UNCHANGED vars
  BY <1>8 DEF vars, Typed
<1> QED
  BY <1>2, <1>3, <1>4, <1>5, <1>6, <1>7, <1>8, JobStepTyped DEF Next

-----------------------------------------------------------------------------
\* What jobs are there, and on which registries.
LEMMA JobsStep == Typed /\ JobsAreSound /\ [Next]_vars => JobsAreSound'
<1> SUFFICES ASSUME Typed, JobsAreSound, [Next]_vars PROVE JobsAreSound'
  OBVIOUS
<1>0. /\ job \in [Jobs -> Records]
      /\ current \in Registries /\ current \in Nat /\ reloads \in Nat /\ current <= reloads
      /\ ~ Making(current)
  BY CurrentIsRegistry DEF Typed, JobsAreSound
<1>1. ASSUME current' = current, reloads' = reloads,
             \A g \in Registries : Making(g)' => Making(g) /\ job'[Reload(g)].reg = job[Reload(g)].reg,
             \A key \in Keys : job'[Refresh(key)].at # "idle" =>
               \/ job'[Refresh(key)].reg = current
               \/ /\ job[Refresh(key)].at # "idle"
                  /\ job'[Refresh(key)].reg = job[Refresh(key)].reg
      PROVE  JobsAreSound'
  <2>1. ASSUME NEW g \in Registries, Making(g)'
        PROVE  g # current' /\ g <= reloads' /\ job'[Reload(g)].reg = g
    BY <1>1, <2>1 DEF JobsAreSound
  <2>2. ASSUME NEW key \in Keys, job'[Refresh(key)].at # "idle"
        PROVE  /\ job'[Refresh(key)].reg <= reloads'
               /\ job'[Reload(job'[Refresh(key)].reg)].at = "idle"
    <3>1. job'[Refresh(key)].reg <= reloads /\ ~ Making(job'[Refresh(key)].reg)
      BY <1>0, <1>1, <2>2 DEF JobsAreSound
    <3>2. job'[Refresh(key)].reg \in Registries
      BY TypedStep, JobsDiffer DEF Typed, Records
    <3> QED
      BY <1>1, <3>1, <3>2 DEF Making
  <2> QED
    BY <2>1, <2>2 DEF JobsAreSound, Making
<1>2. ASSUME NEW j \in Jobs, job[j].at # "idle", job'[j].reg = job[j].reg,
             \A i \in Jobs \ {j} : job'[i] = job[i],
             current' = current, reloads' = reloads
      PROVE  JobsAreSound'
  <2>1. \A i \in Jobs : /\ job'[i].reg = job[i].reg
                        /\ job'[i].at # "idle" => job[i].at # "idle"
    BY <1>2
  <2> QED
    BY <1>1, <1>2, <2>1, JobsDiffer DEF Making
<1>3. ASSUME NEW key \in Keys, NEW due \in SUBSET Servers, RefreshBegins(key, due),
             current' = current, reloads' = reloads
      PROVE  JobsAreSound'
  <2>1. /\ job'[Refresh(key)].reg = current
        /\ \A i \in Jobs \ {Refresh(key)} : job'[i] = job[i]
    BY <1>3, RefreshBeginsTyped
  <2> QED
    BY <1>1, <1>3, <2>1, JobsDiffer DEF Making
<1>4. ASSUME NEW key \in Keys, refreshMcpRuntime(key) PROVE JobsAreSound'
  BY <1>3, <1>4 DEF refreshMcpRuntime
<1>5. ASSUME runDueMcpAutoReconnects PROVE JobsAreSound'
  <2> DEFINE due == {s \in Servers : status[current][s] = "due" /\ s \notin inFlight}
  <2>1. /\ due # {} /\ RefreshBegins(First(due), due \ {First(due)})
        /\ current' = current /\ reloads' = reloads
    BY <1>5 DEF runDueMcpAutoReconnects, callVars
  <2>2. First(due) \in Keys /\ due \ {First(due)} \in SUBSET Servers
    BY <2>1, FirstIsIn, RegistriesAreNumbers
  <2> HIDE DEF due
  <2> QED
    BY <1>3, <2>1, <2>2
<1>6. ASSUME NEW key \in Keys, RefreshEnds(key) PROVE JobsAreSound'
  <2>1. /\ job'[Refresh(key)].at = "idle"
        /\ \A i \in Jobs \ {Refresh(key)} :
             \/ job'[i] = job[i]
             \/ (\E k \in Keys : i = Refresh(k)) /\ job'[i].reg = current
    BY <1>6, RefreshEndsTyped
  <2>2. current' = current /\ reloads' = reloads
    BY <1>6 DEF RefreshEnds, callVars
  <2>3. \A g \in Registries : job'[Reload(g)] = job[Reload(g)]
    BY <2>1, JobsDiffer
  <2>4. \A k \in Keys : job'[Refresh(k)].at # "idle" =>
          job'[Refresh(k)].reg = current \/ job'[Refresh(k)] = job[Refresh(k)]
    BY <2>1, JobsDiffer
  <2> QED
    BY <1>1, <2>2, <2>3, <2>4 DEF Making
<1>7. ASSUME reloadAgents PROVE JobsAreSound'
  <2> DEFINE n == reloads + 1
             r == Job("next", n, Servers, {})
  <2>1. /\ reloads < MaxReloads /\ reloads' = n /\ current' = current
        /\ job' = [job EXCEPT ![Reload(n)] = r]
    BY <1>7 DEF reloadAgents
  <2>2. n \in Registries /\ n \in Nat /\ n > reloads /\ n # current
    BY <1>0, <2>1, McpAssumption DEF Registries
  <2>3. r.reg = n /\ r.at = "next"
    BY <2>2, JobTyped
  <2> HIDE DEF r, n
  <2>4. /\ job'[Reload(n)] = r /\ \A g \in Registries \ {n} : job'[Reload(g)] = job[Reload(g)]
        /\ \A key \in Keys : job'[Refresh(key)] = job[Refresh(key)]
    BY <1>0, <2>1, <2>2, JobsDiffer
  <2>5. ASSUME NEW g \in Registries, Making(g)'
        PROVE  g # current' /\ g <= reloads' /\ job'[Reload(g)].reg = g
    <3>1. CASE g = n
      BY <2>1, <2>2, <2>3, <2>4, <3>1
    <3>2. CASE g # n
      <4>1. Making(g) /\ job'[Reload(g)].reg = job[Reload(g)].reg
        BY <2>4, <2>5, <3>2 DEF Making
      <4>2. g # current /\ g <= reloads /\ job[Reload(g)].reg = g /\ g \in Nat
        BY <4>1, RegistriesAreNumbers DEF JobsAreSound
      <4> QED
        BY <1>0, <2>1, <2>2, <4>1, <4>2
    <3> QED
      BY <3>1, <3>2
  <2>6. ASSUME NEW key \in Keys, job'[Refresh(key)].at # "idle"
        PROVE  /\ job'[Refresh(key)].reg <= reloads'
               /\ job'[Reload(job'[Refresh(key)].reg)].at = "idle"
    <3>1. /\ job[Refresh(key)].reg <= reloads /\ ~ Making(job[Refresh(key)].reg)
          /\ job[Refresh(key)].reg \in Registries /\ job'[Refresh(key)].reg = job[Refresh(key)].reg
      BY <1>0, <2>4, <2>6, JobsDiffer DEF JobsAreSound, Records
    <3>2. job[Refresh(key)].reg \in Nat
      BY <3>1, RegistriesAreNumbers
    <3>3. job[Refresh(key)].reg # n /\ job[Refresh(key)].reg <= n
      BY <1>0, <2>2, <3>1, <3>2
    <3> QED
      BY <2>1, <2>4, <3>1, <3>3 DEF Making
  <2> QED
    BY <2>5, <2>6 DEF JobsAreSound, Making
<1>8. ASSUME NEW g \in Registries, RegistryReplaced(g) PROVE JobsAreSound'
  <2>1. /\ Making(g) /\ job' = [job EXCEPT ![Reload(g)] = Idle]
        /\ current' = g /\ reloads' = reloads
    BY <1>8 DEF RegistryReplaced, Making, callVars
  <2>2. /\ job'[Reload(g)].at = "idle"
        /\ \A h \in Registries \ {g} : job'[Reload(h)] = job[Reload(h)]
        /\ \A key \in Keys : job'[Refresh(key)] = job[Refresh(key)]
    BY <1>0, <2>1, IdleTyped, JobsDiffer
  <2>3. ASSUME NEW h \in Registries, Making(h)'
        PROVE  h # current' /\ h <= reloads' /\ job'[Reload(h)].reg = h
    <3>1. h # g
      BY <2>2, <2>3 DEF Making
    <3> QED
      BY <2>1, <2>2, <2>3, <3>1 DEF JobsAreSound, Making
  <2>4. ASSUME NEW key \in Keys, job'[Refresh(key)].at # "idle"
        PROVE  /\ job'[Refresh(key)].reg <= reloads'
               /\ job'[Reload(job'[Refresh(key)].reg)].at = "idle"
    <3>1. /\ job[Refresh(key)].reg <= reloads /\ ~ Making(job[Refresh(key)].reg)
          /\ job[Refresh(key)].reg \in Registries /\ job'[Refresh(key)].reg = job[Refresh(key)].reg
      BY <1>0, <2>2, <2>4, JobsDiffer DEF JobsAreSound, Records
    <3>2. job'[Reload(job[Refresh(key)].reg)].at = "idle"
      BY <2>2, <3>1 DEF Making
    <3> QED
      BY <2>1, <3>1, <3>2
  <2> QED
    BY <2>3, <2>4 DEF JobsAreSound, Making
<1>9. ASSUME NEW j \in Jobs, JobStep(j) PROVE JobsAreSound'
  <2>1. PICK s \in Servers :
          initializeServer(j, s) \/ ClientCreated(j, s) \/ ToolsListed(j, s) \/ InitializeFails(j, s)
    BY <1>9 DEF JobStep
  <2>2. /\ job[j].at # "idle" /\ current' = current /\ reloads' = reloads
        /\ job'[j].reg = job[j].reg /\ \A i \in Jobs \ {j} : job'[i] = job[i]
    BY <2>1, JobGoesOn
  <2> QED
    BY <1>2, <2>2
<1>10. ASSUME NEW s \in Servers, DelayElapses(s) PROVE JobsAreSound'
  BY <1>10 DEF DelayElapses, JobsAreSound, Making, callVars
<1>11. CASE UNCHANGED vars
  BY <1>11 DEF vars, JobsAreSound, Making
<1> QED
  BY <1>4, <1>5, <1>6, <1>7, <1>8, <1>9, <1>10, <1>11 DEF Next

-----------------------------------------------------------------------------
\* What is said of a server in a registry stays so if nothing there changes.
Alike(g, s) ==
  /\ \A j \in Jobs : AtServer(j, g, s)' <=> AtServer(j, g, s)
  /\ \A j \in Jobs : AtServer(j, g, s) => job'[j].at = job[j].at
  /\ clients'[g][s] = clients[g][s] /\ (s \in tools'[g] <=> s \in tools[g])
  /\ \A j \in Jobs : <<g, s, j>> \in open' <=> <<g, s, j>> \in open
  /\ (status'[g][s] = "connected") <=> (status[g][s] = "connected")
  /\ (status'[g][s] = "connecting") <=> (status[g][s] = "connecting")

LEMMA AlikeIsSound ==
  ASSUME Typed, Typed', NEW g \in Registries, NEW s \in Servers, Sound(g, s), Alike(g, s),
         InUse(g) => InUse(g)', InUseOrNew(g)' => InUseOrNew(g), enabled' = enabled
  PROVE  Sound(g, s)'
<1>1. OpenIsHeld(g, s)'
  BY DEF Sound, OpenIsHeld, Alike
<1>2. WorkIsSound(g, s)'
  BY DEF Sound, WorkIsSound, Alike
<1>3. ShownIsSo(g, s)'
  <2> SUFFICES ASSUME InUseOrNew(g)', \A j \in Jobs : ~ AtServer(j, g, s)'
               PROVE  /\ (status'[g][s] = "connected") <=> (s \in tools'[g])
                      /\ s \in tools'[g] => <<g, s, clients'[g][s]>> \in open'
                      /\ status'[g][s] # "connecting"
    BY DEF ShownIsSo
  <2>1. /\ (status[g][s] = "connected") <=> (s \in tools[g])
        /\ s \in tools[g] => <<g, s, clients[g][s]>> \in open
        /\ status[g][s] # "connecting"
    BY DEF Alike, Sound, ShownIsSo
  <2>2. ASSUME s \in tools[g] PROVE clients[g][s] \in Jobs
    <3>1. <<g, s, clients[g][s]>> \in Registries \X Servers \X Jobs
      BY <2>1, <2>2 DEF Typed
    <3> QED
      BY <3>1
  <2> QED
    BY <2>1, <2>2 DEF Alike
<1> QED
  BY <1>1, <1>2, <1>3 DEF Sound

\* So it is when only jobs that are at no server, now or then, begin or end.
LEMMA QuietJobsAreSound ==
  ASSUME Typed, Typed', ServersAreSound, UNCHANGED <<registryVars, crossed>>,
         \A i \in Jobs : \/ job'[i] = job[i]
                         \/ /\ job[i].at \notin {"connect", "list"}
                            /\ job'[i].at \notin {"connect", "list"},
         \A g \in Registries : /\ InUse(g) => InUse(g)'
                               /\ InUseOrNew(g)' => InUseOrNew(g)
  PROVE  ServersAreSound'
<1>1. ASSUME NEW g \in Registries, NEW s \in Servers PROVE Alike(g, s)
  BY DEF Alike, AtServer, registryVars
<1> QED
  BY <1>1, AlikeIsSound DEF ServersAreSound, registryVars

\* A job changes what there is of its server in its registry only.
LEMMA ElsewhereAlike ==
  ASSUME Typed, NEW j \in Jobs, NEW s \in Servers,
         initializeServer(j, s) \/ ClientCreated(j, s) \/ ToolsListed(j, s) \/ InitializeFails(j, s),
         NEW h \in Registries, NEW t \in Servers, h # job[j].reg \/ t # s
  PROVE  Alike(h, t)
<1> DEFINE g == job[j].reg
<1>0. /\ g \in Registries /\ job \in [Jobs -> Records]
      /\ clients \in [Registries -> [Servers -> Jobs \cup {NoClient}]]
      /\ tools \in [Registries -> SUBSET Servers]
      /\ status \in [Registries -> [Servers -> Statuses]]
  BY DEF Typed, Records
<1>1. /\ job'[j].reg = g /\ \A i \in Jobs \ {j} : job'[i] = job[i]
      /\ job'[j].at = "next" \/ job'[j].server = {s}
      /\ job[j].at = "next" \/ job[j].server = {s}
  <2>1. job[j].at = "next" \/ job[j].server = {s}
    BY DEF initializeServer, ClientCreated, ToolsListed, InitializeFails, AtServer
  <2> QED
    BY <2>1, JobGoesOn
<1>2. /\ clients' = clients \/ \E c : clients' = [clients EXCEPT ![g][s] = c]
      /\ \/ tools' = tools \/ tools' = [tools EXCEPT ![g] = @ \ {s}]
         \/ tools' = [tools EXCEPT ![g] = @ \cup {s}]
      /\ status' = status \/ \E x : status' = [status EXCEPT ![g][s] = x]
      /\ \E c : open' = open \/ open' = open \ {<<g, s, c>>} \/ open' = open \cup {<<g, s, c>>}
  <2>1. CASE initializeServer(j, s)
    <3>1. resetServer(g, s)
      BY <2>1 DEF initializeServer
    <3>2. \E x : status' = [status EXCEPT ![g][s] = x]
      <4>1. CASE s \in enabled
        BY <2>1, <4>1 DEF initializeServer
      <4>2. CASE s \notin enabled
        BY <2>1, <4>2 DEF initializeServer
      <4> QED
        BY <4>1, <4>2
    <3> HIDE DEF g
    <3> QED
      BY <3>1, <3>2 DEF resetServer
  <2>2. CASE ClientCreated(j, s)
    BY <2>2 DEF ClientCreated
  <2>3. CASE ToolsListed(j, s)
    BY <2>3 DEF ToolsListed
  <2>4. CASE InitializeFails(j, s)
    BY <2>4 DEF InitializeFails
  <2> QED
    BY <2>1, <2>2, <2>3, <2>4
<1> HIDE DEF g
<1>3. h # g \/ t # s
  BY DEF g
<1>4. ASSUME NEW i \in Jobs
      PROVE  /\ AtServer(i, h, t)' <=> AtServer(i, h, t)
             /\ AtServer(i, h, t) => job'[i].at = job[i].at
  <2>1. CASE i = j
    <3>1. ~ AtServer(j, h, t) /\ ~ AtServer(j, h, t)'
      BY <1>1, <1>3 DEF AtServer, g
    <3> QED
      BY <2>1, <3>1
  <2>2. CASE i # j
    BY <1>1, <2>2 DEF AtServer
  <2> QED
    BY <2>1, <2>2
<1>5. clients'[h][t] = clients[h][t]
  BY <1>0, <1>2, <1>3
<1>6. t \in tools'[h] <=> t \in tools[h]
  BY <1>0, <1>2, <1>3
<1>7. status'[h][t] = status[h][t]
  BY <1>0, <1>2, <1>3
<1>8. \A i \in Jobs : <<h, t, i>> \in open' <=> <<h, t, i>> \in open
  BY <1>2, <1>3
<1> QED
  BY <1>4, <1>5, <1>6, <1>7, <1>8 DEF Alike

\* A server is reset, and begins to be connected unless it is disabled.
LEMMA InitializeIsSound ==
  ASSUME Typed, JobsAreSound, ServersAreSound, NEW j \in Jobs, NEW s \in Servers,
         initializeServer(j, s), s \notin crossed', NEW g \in Registries, g = job[j].reg
  PROVE  Sound(g, s)'
<1>0. g \in Registries /\ job[j].at = "next"
  BY DEF Typed, Records, initializeServer
<1>1. /\ enabled' = enabled /\ current' = current /\ reloads' = reloads
      /\ job'[j].reg = g /\ \A i \in Jobs \ {j} : job'[i] = job[i]
      /\ IF s \in enabled THEN job'[j].at = "connect" /\ job'[j].server = {s}
                          ELSE job'[j].at = "next"
  BY <1>0, JobGoesOn DEF ClientCreated, ToolsListed, InitializeFails, AtServer
<1>2. /\ open' = open \ {<<g, s, clients[g][s]>>}
      /\ clients' = [clients EXCEPT ![g][s] = NoClient]
      /\ tools' = [tools EXCEPT ![g] = @ \ {s}]
  BY DEF initializeServer, resetServer
<1>3. /\ clients'[g][s] = NoClient /\ s \notin tools'[g]
  BY <1>0, <1>2 DEF Typed
<1>4. s \notin crossed
  <2>1. CASE s \in enabled
    BY <2>1 DEF initializeServer
  <2>2. CASE s \notin enabled
    BY <2>2 DEF initializeServer
  <2> QED
    BY <2>1, <2>2
<1>5. OpenIsHeld(g, s) /\ WorkIsSound(g, s) /\ ShownIsSo(g, s)
  BY <1>0, <1>4 DEF ServersAreSound, Sound
<1>6. \A i \in Jobs : <<g, s, i>> \notin open'
  BY <1>2, <1>5 DEF OpenIsHeld
<1>7. CASE s \in enabled
  <2>1. /\ \A i \in Jobs : ~ AtServer(i, g, s)
        /\ j[1] = "refresh" => g = current
        /\ status' = [status EXCEPT ![g][s] = "connecting"]
    BY <1>4, <1>7 DEF initializeServer
  <2>2. \A i \in Jobs : AtServer(i, g, s)' => i = j
    BY <1>1, <2>1 DEF AtServer
  <2>3. AtServer(j, g, s)'
    BY <1>1, <1>7 DEF AtServer
  <2>4. InUse(g)'
    <3>1. CASE j[1] = "refresh"
      BY <1>1, <2>1, <3>1 DEF InUse
    <3>2. CASE j[1] # "refresh"
      <4>1. PICK h \in Registries : j = Reload(h)
        BY <3>2, JobsDiffer
      <4>2. h = g
        BY <1>0, <4>1 DEF JobsAreSound, Making
      <4> QED
        BY <1>1, <1>7, <4>1, <4>2 DEF InUse, Making
    <3> QED
      BY <3>1, <3>2
  <2>5. OpenIsHeld(g, s)'
    BY <1>6 DEF OpenIsHeld
  <2>6. WorkIsSound(g, s)'
    BY <1>1, <1>3, <1>7, <2>2, <2>4 DEF WorkIsSound
  <2>7. ShownIsSo(g, s)'
    BY <2>3 DEF ShownIsSo
  <2> QED
    BY <2>5, <2>6, <2>7 DEF Sound
<1>8. CASE s \notin enabled
  <2>1. status' = [status EXCEPT ![g][s] = "disabled"]
    BY <1>8 DEF initializeServer
  <2>2. status'[g][s] = "disabled"
    BY <1>0, <2>1 DEF Typed
  <2>3. \A i \in Jobs : ~ AtServer(i, g, s)
    BY <1>5, <1>8 DEF WorkIsSound
  <2>4. \A i \in Jobs : ~ AtServer(i, g, s)'
    BY <1>1, <1>8, <2>3 DEF AtServer
  <2>5. OpenIsHeld(g, s)'
    BY <1>6 DEF OpenIsHeld
  <2>6. WorkIsSound(g, s)'
    BY <2>4 DEF WorkIsSound
  <2>7. ShownIsSo(g, s)'
    BY <1>3, <2>2 DEF ShownIsSo
  <2> QED
    BY <2>5, <2>6, <2>7 DEF Sound
<1> QED
  BY <1>7, <1>8

\* A client is created, listed or given up by the only job at its server.
LEMMA ConnectingIsSound ==
  ASSUME Typed, JobsAreSound, ServersAreSound, NEW j \in Jobs, NEW s \in Servers,
         ClientCreated(j, s) \/ ToolsListed(j, s) \/ InitializeFails(j, s), s \notin crossed',
         NEW g \in Registries, g = job[j].reg
  PROVE  Sound(g, s)'
<1>0. g \in Registries /\ job[j].at # "next" /\ AtServer(j, g, s) /\ s \notin crossed
  BY DEF Typed, Records, ClientCreated, ToolsListed, InitializeFails, AtServer
<1>1. /\ enabled' = enabled /\ current' = current /\ reloads' = reloads
      /\ job'[j].reg = g /\ \A i \in Jobs \ {j} : job'[i] = job[i]
      /\ job[j].at # "idle" /\ job'[j].at # "idle"
  BY JobGoesOn
<1>2. OpenIsHeld(g, s) /\ WorkIsSound(g, s) /\ ShownIsSo(g, s)
  BY <1>0 DEF ServersAreSound, Sound
<1>3. /\ InUse(g) /\ s \notin tools[g] /\ s \in enabled
      /\ job[j].at = "connect" => clients[g][s] = NoClient
      /\ job[j].at = "list" => clients[g][s] = j
      /\ \A i \in Jobs \ {j} : ~ AtServer(i, g, s)
  BY <1>0, <1>2 DEF WorkIsSound
<1>4. \A h \in Registries : Making(h)' <=> Making(h)
  BY <1>1, JobsDiffer DEF Making
<1>5. InUse(g)'
  BY <1>0, <1>1, <1>3, <1>4 DEF InUse
<1>6. \A i \in Jobs \ {j} : ~ AtServer(i, g, s)'
  BY <1>1, <1>3 DEF AtServer
<1>7. CASE ClientCreated(j, s)
  <2>1. /\ clients' = [clients EXCEPT ![g][s] = j] /\ open' = open \cup {<<g, s, j>>}
        /\ tools' = tools /\ job[j].at = "connect"
    BY <1>7 DEF ClientCreated
  <2>2. job'[j].at = "list" /\ job'[j].server = {s}
    BY <1>7, <2>1, JobGoesOn DEF initializeServer, ToolsListed, InitializeFails, ClientCreated, GoesOn
  <2>3. clients'[g][s] = j
    BY <1>0, <2>1 DEF Typed
  <2>4. \A i \in Jobs : <<g, s, i>> \in open' => i = j
    BY <1>2, <1>3, <2>1, JobsDiffer DEF OpenIsHeld
  <2>5. AtServer(j, g, s)'
    BY <1>1, <2>2 DEF AtServer
  <2>6. OpenIsHeld(g, s)'
    BY <1>5, <2>3, <2>4 DEF OpenIsHeld
  <2>7. WorkIsSound(g, s)'
    BY <1>1, <1>3, <1>5, <1>6, <2>1, <2>2, <2>3 DEF WorkIsSound
  <2>8. ShownIsSo(g, s)'
    BY <2>5 DEF ShownIsSo
  <2> QED
    BY <2>6, <2>7, <2>8 DEF Sound
<1>8. ASSUME job'[j].at = "next", clients' = clients, open' = open,
             (status'[g][s] = "connected") <=> (s \in tools'[g]),
             s \in tools'[g] => <<g, s, clients[g][s]>> \in open,
             status'[g][s] # "connecting"
      PROVE  Sound(g, s)'
  <2>1. \A i \in Jobs : ~ AtServer(i, g, s)'
    BY <1>6, <1>8 DEF AtServer
  <2>2. OpenIsHeld(g, s)'
    BY <1>2, <1>5, <1>8 DEF OpenIsHeld
  <2>3. WorkIsSound(g, s)'
    BY <2>1 DEF WorkIsSound
  <2>4. ShownIsSo(g, s)'
    BY <1>8 DEF ShownIsSo
  <2> QED
    BY <2>2, <2>3, <2>4 DEF Sound
<1>9. CASE ToolsListed(j, s)
  <2>1. /\ tools' = [tools EXCEPT ![g] = @ \cup {s}]
        /\ status' = [status EXCEPT ![g][s] = "connected"]
        /\ clients' = clients /\ open' = open /\ <<g, s, j>> \in open
    BY <1>9 DEF ToolsListed
  <2>2. s \in tools'[g] /\ status'[g][s] = "connected"
    BY <1>0, <2>1 DEF Typed
  <2>3. clients[g][s] = j
    BY <1>2, <2>1 DEF OpenIsHeld
  <2>4. job'[j].at = "next"
    BY <1>9, JobGoesOn DEF initializeServer, ToolsListed, ClientCreated
  <2> QED
    BY <1>8, <2>1, <2>2, <2>3, <2>4
<1>10. CASE InitializeFails(j, s)
  <2>1. PICK outcome \in {"waiting", "broken"} : status' = [status EXCEPT ![g][s] = outcome]
    BY <1>10 DEF InitializeFails
  <2>2. tools' = tools /\ clients' = clients /\ open' = open
    BY <1>10 DEF InitializeFails
  <2>3. status'[g][s] = outcome
    BY <1>0, <2>1 DEF Typed
  <2>4. job'[j].at = "next"
    <3>1. GoesOn(j, "next", job[j].todo, {})
      BY <1>10 DEF InitializeFails
    <3> QED
      BY <3>1 DEF GoesOn, Typed
  <2> QED
    BY <1>3, <1>8, <2>1, <2>2, <2>3, <2>4
<1> QED
  BY <1>7, <1>9, <1>10

\* The registry in use is closed: of the servers that nobody has crossed it
\* holds all the clients that are open, and nobody is at work there.
LEMMA ReplacingIsSound ==
  ASSUME Typed, Typed', JobsAreSound, ServersAreSound, NEW n \in Registries, RegistryReplaced(n)
  PROVE  ServersAreSound'
<1>1. /\ job[Reload(n)].at = "next" /\ job' = [job EXCEPT ![Reload(n)] = Idle]
      /\ open' = open \ {<<current, s, clients[current][s]>> : s \in Servers}
      /\ clients' = [clients EXCEPT ![current] = [s \in Servers |-> NoClient]]
      /\ tools' = [tools EXCEPT ![current] = {}]
      /\ current' = n /\ reloads' = reloads /\ enabled' = enabled /\ status' = status
      /\ crossed' = crossed \cup {s \in Servers : \E j \in Jobs : AtServer(j, current, s)}
  BY DEF RegistryReplaced, callVars
<1>2. /\ current \in Registries /\ current \in Nat /\ reloads \in Nat /\ current <= reloads
      /\ job \in [Jobs -> Records] /\ Reload(n) \in Jobs
  BY CurrentIsRegistry, JobsDiffer DEF Typed
<1>3. ~ Making(current) /\ Making(n) /\ n # current
  BY <1>1, <1>2 DEF JobsAreSound, Making
<1>4. /\ job'[Reload(n)] = Idle /\ Idle.at = "idle"
      /\ \A i \in Jobs \ {Reload(n)} : job'[i] = job[i]
  BY <1>1, <1>2, IdleTyped
<1>5. \A h \in Registries \ {n} : Making(h)' <=> Making(h)
  BY <1>4, JobsDiffer DEF Making
<1>6. \A i \in Jobs, g \in Registries, s \in Servers :
        /\ AtServer(i, g, s)' <=> AtServer(i, g, s)
        /\ AtServer(i, g, s) => job'[i].at = job[i].at
  <2>1. ASSUME NEW i \in Jobs, NEW g \in Registries, NEW s \in Servers
        PROVE  /\ AtServer(i, g, s)' <=> AtServer(i, g, s)
               /\ AtServer(i, g, s) => job'[i].at = job[i].at
    <3>1. CASE i = Reload(n)
      BY <1>1, <1>4, <3>1 DEF AtServer
    <3>2. CASE i # Reload(n)
      BY <1>4, <3>2 DEF AtServer
    <3> QED
      BY <3>1, <3>2
  <2> QED
    BY <2>1
<1>7. ASSUME NEW g \in Registries, NEW s \in Servers, s \notin crossed' PROVE Sound(g, s)'
  <2>1. Sound(g, s) /\ s \notin crossed
    BY <1>1, <1>7 DEF ServersAreSound
  <2>2. CASE g = current
    <3>1. \A j \in Jobs : ~ AtServer(j, g, s) /\ ~ AtServer(j, g, s)'
      BY <1>1, <1>6, <1>7, <2>2
    <3>2. ASSUME NEW j \in Jobs, <<g, s, j>> \in open' PROVE FALSE
      <4>1. <<g, s, j>> \in open /\ <<g, s, j>> # <<current, s, clients[current][s]>>
        BY <1>1, <3>2
      <4>2. clients[g][s] = j
        BY <2>1, <4>1 DEF Sound, OpenIsHeld
      <4> QED
        BY <2>2, <4>1, <4>2
    <3>3. ~ InUseOrNew(g)'
      <4>1. g # n /\ ~ (g > reloads)
        BY <1>2, <1>3, <2>2
      <4>2. ~ Making(g)'
        BY <1>3, <1>5, <2>2, <4>1
      <4> QED
        BY <1>1, <4>1, <4>2 DEF InUseOrNew, InUse
    <3> QED
      BY <3>1, <3>2, <3>3 DEF Sound, OpenIsHeld, WorkIsSound, ShownIsSo
  <2>3. CASE g # current
    <3>1. /\ clients'[g][s] = clients[g][s] /\ tools'[g] = tools[g] /\ status'[g][s] = status[g][s]
          /\ \A j \in Jobs : <<g, s, j>> \in open' <=> <<g, s, j>> \in open
      BY <1>1, <2>3 DEF Typed
    <3>2. Alike(g, s)
      BY <1>6, <3>1 DEF Alike
    <3>3. (InUse(g)' <=> InUse(g)) /\ (InUseOrNew(g)' <=> InUseOrNew(g))
      <4>1. CASE g = n
        BY <1>1, <1>3, <4>1 DEF InUse, InUseOrNew
      <4>2. CASE g # n
        BY <1>1, <1>5, <2>3, <4>2 DEF InUse, InUseOrNew
      <4> QED
        BY <4>1, <4>2
    <3> QED
      BY <1>1, <2>1, <3>2, <3>3, AlikeIsSound
  <2> QED
    BY <2>2, <2>3
<1> QED
  BY <1>7 DEF ServersAreSound

LEMMA ServersStep ==
  Typed /\ Typed' /\ JobsAreSound /\ ServersAreSound /\ [Next]_vars => ServersAreSound'
<1> SUFFICES ASSUME Typed, Typed', JobsAreSound, ServersAreSound, [Next]_vars
             PROVE  ServersAreSound'
  OBVIOUS
<1>0. /\ job \in [Jobs -> Records]
      /\ current \in Registries /\ current \in Nat /\ reloads \in Nat /\ current <= reloads
  BY CurrentIsRegistry DEF Typed
<1>1. ASSUME UNCHANGED <<registryVars, current, reloads, crossed>>,
             \A g \in Registries : job'[Reload(g)] = job[Reload(g)],
             \A i \in Jobs : \/ job'[i] = job[i]
                             \/ /\ job[i].at \notin {"connect", "list"}
                                /\ job'[i].at \notin {"connect", "list"}
      PROVE  ServersAreSound'
  <2>1. \A g \in Registries : /\ InUse(g) => InUse(g)'
                              /\ InUseOrNew(g)' => InUseOrNew(g)
    BY <1>1 DEF InUse, InUseOrNew, Making
  <2> QED
    BY <1>1, <2>1, QuietJobsAreSound
<1>2. ASSUME NEW key \in Keys, NEW due \in SUBSET Servers, RefreshBegins(key, due),
             key \notin inFlight, UNCHANGED <<registryVars, current, reloads, crossed>>
      PROVE  ServersAreSound'
  <2>1. /\ job'[Refresh(key)].at = "next"
        /\ \A i \in Jobs \ {Refresh(key)} : job'[i] = job[i]
    BY <1>2, RefreshBeginsTyped
  <2>2. job[Refresh(key)].at = "idle"
    BY <1>2 DEF Typed
  <2>3. \A g \in Registries : job'[Reload(g)] = job[Reload(g)]
    BY <2>1, JobsDiffer
  <2>4. \A i \in Jobs : \/ job'[i] = job[i]
                        \/ /\ job[i].at \notin {"connect", "list"}
                           /\ job'[i].at \notin {"connect", "list"}
    BY <2>1, <2>2
  <2> QED
    BY <1>1, <1>2, <2>3, <2>4
<1>3. ASSUME NEW key \in Keys, refreshMcpRuntime(key) PROVE ServersAreSound'
  BY <1>2, <1>3 DEF refreshMcpRuntime
<1>4. ASSUME runDueMcpAutoReconnects PROVE ServersAreSound'
  <2> DEFINE due == {s \in Servers : status[current][s] = "due" /\ s \notin inFlight}
  <2>1. /\ due # {} /\ RefreshBegins(First(due), due \ {First(due)})
        /\ UNCHANGED <<registryVars, current, reloads, crossed>>
    BY <1>4 DEF runDueMcpAutoReconnects, callVars
  <2>2. /\ First(due) \in Keys /\ First(due) \notin inFlight
        /\ due \ {First(due)} \in SUBSET Servers
    BY <2>1, FirstIsIn, RegistriesAreNumbers
  <2> HIDE DEF due
  <2> QED
    BY <1>2, <2>1, <2>2
<1>5. ASSUME NEW key \in Keys, RefreshEnds(key) PROVE ServersAreSound'
  <2>1. /\ job[Refresh(key)].at = "next" /\ job'[Refresh(key)].at = "idle"
        /\ \A i \in Jobs \ {Refresh(key)} :
             \/ job'[i] = job[i]
             \/ /\ \E k \in Keys : i = Refresh(k)
                /\ job[i].at = "idle" /\ job'[i].at = "next"
    BY <1>5, RefreshEndsTyped
  <2>2. UNCHANGED <<registryVars, current, reloads, crossed>>
    BY <1>5 DEF RefreshEnds, callVars
  <2>3. \A g \in Registries : job'[Reload(g)] = job[Reload(g)]
    BY <2>1, JobsDiffer
  <2>4. \A i \in Jobs : \/ job'[i] = job[i]
                        \/ /\ job[i].at \notin {"connect", "list"}
                           /\ job'[i].at \notin {"connect", "list"}
    BY <2>1
  <2> QED
    BY <1>1, <2>2, <2>3, <2>4
<1>6. ASSUME reloadAgents PROVE ServersAreSound'
  <2> DEFINE n == reloads + 1
             r == Job("next", n, Servers, {})
  <2>1. /\ reloads < MaxReloads /\ reloads' = n /\ current' = current
        /\ job' = [job EXCEPT ![Reload(n)] = r] /\ UNCHANGED <<registryVars, crossed>>
    BY <1>6 DEF reloadAgents
  <2>2. n \in Registries /\ n \in Nat /\ n > reloads /\ n # current
    BY <1>0, <2>1, McpAssumption DEF Registries
  <2>3. r.at = "next" /\ Reload(n) \in Jobs
    BY <2>2, JobTyped, JobsDiffer
  <2>n. n = reloads + 1
    OBVIOUS
  <2> HIDE DEF r, n
  <2>4. job'[Reload(n)] = r /\ \A i \in Jobs \ {Reload(n)} : job'[i] = job[i]
    BY <1>0, <2>1, <2>3
  <2>5. job[Reload(n)].at = "idle"
    <3>1. ~ (n <= reloads)
      BY <1>0, <2>2
    <3> QED
      BY <2>2, <3>1 DEF JobsAreSound, Making
  <2>6. \A i \in Jobs : \/ job'[i] = job[i]
                        \/ /\ job[i].at \notin {"connect", "list"}
                           /\ job'[i].at \notin {"connect", "list"}
    BY <2>3, <2>4, <2>5
  <2>7. ASSUME NEW g \in Registries
        PROVE  /\ InUse(g) => InUse(g)'
               /\ InUseOrNew(g)' => InUseOrNew(g)
    <3>1. CASE g = n
      BY <2>1, <2>2, <2>3, <2>4, <2>5, <3>1 DEF InUse, InUseOrNew, Making
    <3>2. CASE g # n
      <4>1. Making(g)' <=> Making(g)
        BY <2>2, <2>4, <3>2, JobsDiffer DEF Making
      <4>2. g > reloads' => g > reloads
        BY <1>0, <2>1, <2>2, RegistriesAreNumbers
      <4> QED
        BY <2>1, <4>1, <4>2 DEF InUse, InUseOrNew
    <3> QED
      BY <3>1, <3>2
  <2> QED
    BY <2>1, <2>6, <2>7, QuietJobsAreSound
<1>7. ASSUME NEW j \in Jobs, JobStep(j) PROVE ServersAreSound'
  <2>1. PICK s \in Servers :
          initializeServer(j, s) \/ ClientCreated(j, s) \/ ToolsListed(j, s) \/ InitializeFails(j, s)
    BY <1>7 DEF JobStep
  <2>2. /\ current' = current /\ reloads' = reloads /\ enabled' = enabled
        /\ job[j].at # "idle" /\ job'[j].at # "idle"
        /\ \A i \in Jobs \ {j} : job'[i] = job[i]
    BY <2>1, JobGoesOn
  <2>3. crossed \subseteq crossed'
    <3>1. CASE initializeServer(j, s)
      <4>1. CASE s \in enabled
        BY <3>1, <4>1 DEF initializeServer
      <4>2. CASE s \notin enabled
        BY <3>1, <4>2 DEF initializeServer
      <4> QED
        BY <4>1, <4>2
    <3>2. CASE ClientCreated(j, s) \/ ToolsListed(j, s) \/ InitializeFails(j, s)
      BY <3>2 DEF ClientCreated, ToolsListed, InitializeFails
    <3> QED
      BY <2>1, <3>1, <3>2
  <2>4. \A h \in Registries : Making(h)' <=> Making(h)
    BY <2>2, JobsDiffer DEF Making
  <2>5. ASSUME NEW h \in Registries, NEW t \in Servers, t \notin crossed' PROVE Sound(h, t)'
    <3>1. CASE h = job[j].reg /\ t = s
      BY <2>1, <2>5, <3>1, InitializeIsSound, ConnectingIsSound
    <3>2. CASE h # job[j].reg \/ t # s
      <4>1. Alike(h, t) /\ Sound(h, t)
        BY <2>1, <2>3, <2>5, <3>2, ElsewhereAlike DEF ServersAreSound
      <4>2. (InUse(h)' <=> InUse(h)) /\ (InUseOrNew(h)' <=> InUseOrNew(h))
        BY <2>2, <2>4 DEF InUse, InUseOrNew
      <4> QED
        BY <2>2, <4>1, <4>2, AlikeIsSound
    <3> QED
      BY <3>1, <3>2
  <2> QED
    BY <2>5 DEF ServersAreSound
<1>8. ASSUME NEW s \in Servers, DelayElapses(s) PROVE ServersAreSound'
  <2>1. /\ status[current][s] = "waiting" /\ status' = [status EXCEPT ![current][s] = "due"]
        /\ UNCHANGED <<enabled, clients, tools, open, current, callVars, job, inFlight, crossed>>
    BY <1>8 DEF DelayElapses
  <2>2. ASSUME NEW h \in Registries, NEW t \in Servers
        PROVE  /\ (status'[h][t] = "connected") <=> (status[h][t] = "connected")
               /\ (status'[h][t] = "connecting") <=> (status[h][t] = "connecting")
    <3>1. CASE h = current /\ t = s
      <4>1. status'[h][t] = "due"
        BY <1>0, <2>1, <3>1 DEF Typed
      <4> QED
        BY <2>1, <3>1, <4>1
    <3>2. CASE h # current \/ t # s
      <4>1. status'[h][t] = status[h][t]
        BY <1>0, <2>1, <3>2 DEF Typed
      <4> QED
        BY <4>1
    <3> QED
      BY <3>1, <3>2
  <2>3. \A h \in Registries, t \in Servers : Alike(h, t)
    BY <2>1, <2>2 DEF Alike, AtServer
  <2>4. \A h \in Registries : (InUse(h)' <=> InUse(h)) /\ (InUseOrNew(h)' <=> InUseOrNew(h))
    BY <2>1 DEF InUse, InUseOrNew, Making, callVars
  <2> QED
    BY <2>1, <2>3, <2>4, AlikeIsSound DEF ServersAreSound
<1>9. CASE UNCHANGED vars
  BY <1>1, <1>9 DEF vars, registryVars
<1> QED
  BY <1>3, <1>4, <1>5, <1>6, <1>7, <1>8, <1>9, ReplacingIsSound DEF Next

-----------------------------------------------------------------------------
\* The invariant holds in every reachable state.
THEOREM RuntimeStaysSound == Spec => []RuntimeIsSound
<1>1. Init => RuntimeIsSound
  BY SoundInit, TypedIsTypeOK DEF RuntimeIsSound
<1>2. RuntimeIsSound /\ [Next]_vars => RuntimeIsSound'
  <2> SUFFICES ASSUME RuntimeIsSound, [Next]_vars PROVE RuntimeIsSound'
    OBVIOUS
  <2>1. Typed /\ JobsAreSound /\ ServersAreSound
    BY TypedIsTypeOK DEF RuntimeIsSound
  <2>2. Typed' /\ JobsAreSound'
    BY <2>1, TypedStep, JobsStep
  <2>3. ServersAreSound'
    BY <2>1, <2>2, ServersStep
  <2>4. TypeOK' <=> Typed'
    BY DEF TypeOK, Typed, Records, Statuses
  <2> QED
    BY <2>2, <2>3, <2>4 DEF RuntimeIsSound
<1> QED
  BY <1>1, <1>2, PTL DEF Spec

\* Every variable keeps its type, and a key is in flight just while its refresh
\* is under way.
THEOREM RuntimeTypes == Spec => []TypeOK
<1>1. RuntimeIsSound => TypeOK
  BY DEF RuntimeIsSound
<1> QED
  BY <1>1, RuntimeStaysSound, PTL

\* No client of a server that jobs have not met on is left open by a registry
\* that is closed, or given up by one that is not.
THEOREM ClientsAreKept == Spec => []KeptClients
<1>1. RuntimeIsSound => KeptClients
  <2> SUFFICES ASSUME RuntimeIsSound, NEW g \in Registries, NEW s \in Servers, NEW j \in Jobs,
                      <<g, s, j>> \in open, s \notin crossed
               PROVE  /\ clients[g][s] = j
                      /\ g = current \/ job[Reload(g)].at \in {"next", "connect", "list"}
    BY DEF KeptClients
  <2>1. clients[g][s] = j /\ InUse(g)
    BY DEF RuntimeIsSound, ServersAreSound, Sound, OpenIsHeld
  <2>2. job[Reload(g)] \in Records
    BY TypedIsTypeOK, JobsDiffer DEF RuntimeIsSound, Typed
  <2> QED
    BY <2>1, <2>2 DEF InUse, Making, Records
<1> QED
  BY <1>1, RuntimeStaysSound, PTL

\* What mcp.status says of a server that nobody is at work on is so.
THEOREM StatusIsSo == Spec => []StatusIsTrue
<1>1. RuntimeIsSound => StatusIsTrue
  <2> SUFFICES ASSUME RuntimeIsSound, NEW s \in Servers \ crossed,
                      \A j \in Jobs : ~ AtServer(j, current, s)
               PROVE  /\ (status[current][s] = "connected") <=> (s \in tools[current])
                      /\ s \in tools[current] => <<current, s, clients[current][s]>> \in open
                      /\ status[current][s] # "connecting"
    BY DEF StatusIsTrue
  <2>1. current \in Registries
    BY TypedIsTypeOK, CurrentIsRegistry DEF RuntimeIsSound
  <2>2. ShownIsSo(current, s)
    BY <2>1 DEF RuntimeIsSound, ServersAreSound, Sound
  <2> QED
    BY <2>2 DEF ShownIsSo, InUseOrNew, InUse
<1> QED
  BY <1>1, RuntimeStaysSound, PTL

=============================================================================
