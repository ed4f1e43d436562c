---------------------------- MODULE CatalogProofs ----------------------------
(***************************************************************************)
(* Proofs about Catalog, for every set of models, agents, resources and    *)
(* releases and every bound: references stay whole, every admitted model   *)
(* is served once the gateway has models, and a form replaces the draft    *)
(* that it read.                                                           *)
(***************************************************************************)
EXTENDS Catalog, SequenceTheorems, TLAPS

----------------------------------------------------------------------------
(* The inductive invariant *)

Fields == {"models", "resources", "agents", "tombstones", "templates", "gateway", "releases"}
ModelMaps == UNION {[S -> ModelStates] : S \in SUBSET Models}
ResourceRecords ==
  [owner : Agents \cup {Shared}, archived : BOOLEAN, draft : Contents, versions : Seq(Contents)]
VersionRecords == [version : Nat, config : Configs]
AgentRecords ==
  [draft : Configs, versions : Seq(VersionRecords), active : Nat,
   lifecycle : {"active", "archived", "deleting"}]

(* The document's fields, each with its type. *)
ResourcesTyped(resources) ==
  DOMAIN resources \subseteq Resources /\ \A r \in DOMAIN resources : resources[r] \in ResourceRecords
AgentsTyped(agents) ==
  DOMAIN agents \subseteq Agents /\ \A a \in DOMAIN agents : agents[a] \in AgentRecords
GatewayTyped(gateway) == gateway \in [versions : Seq(ModelMaps), active : Nat]
IsRelease(release) ==
  /\ DOMAIN release = {"target", "version", "content", "old", "committed"}
  /\ release.target \in Agents \cup {Gateway}
  /\ release.old \in Nat /\ release.version = release.old + 1
  /\ release.target # Gateway => release.content \in Configs
  /\ release.target = Gateway => release.content \in [models : ModelMaps]
ReleasesTyped(releases) == \A x \in DOMAIN releases : IsRelease(releases[x])

DocumentTyped(data) ==
  /\ DOMAIN data = Fields
  /\ data.models \in ModelMaps
  /\ ResourcesTyped(data.resources) /\ AgentsTyped(data.agents)
  /\ GatewayTyped(data.gateway) /\ ReleasesTyped(data.releases)

(* Versions carry their positions, and the last one is active. *)
Numbered(agents) ==
  \A a \in DOMAIN agents :
    /\ \A n \in DOMAIN agents[a].versions : agents[a].versions[n].version = n
    /\ agents[a].active = Len(agents[a].versions)
Sound(data) ==
  /\ DocumentTyped(data)
  /\ Numbered(data.agents) /\ data.gateway.active = Len(data.gateway.versions)

(* A reference counts whatever the lifecycle of the agent. *)
Whole(data) ==
  /\ \A a \in DOMAIN data.agents : Valid(data, a, data.agents[a].draft)
  /\ \A r \in DOMAIN data.resources : data.resources[r].owner \in {Shared} \cup DOMAIN data.agents
  /\ data.tombstones \cap DOMAIN data.agents = {}

(* A transaction that removes files holds the document, and only agents on *)
(* their way out lose any.                                                 *)
RemovalInv ==
  /\ revision \in 0..MaxEdits
  /\ lost \subseteq {a \in DOMAIN doc.agents : doc.agents[a].lifecycle = "deleting"}
  /\ removing # Nobody => removing \in DOMAIN doc.agents /\ revision < MaxEdits

(* A form is as old as its revision says. *)
FormInv ==
  request.pc = "form" =>
    /\ request.agent \in Agents /\ request.base \in Nat /\ request.base <= revision
    /\ request.base = revision =>
         request.agent \in DOMAIN doc.agents /\ doc.agents[request.agent].draft = request.cfg
RequestInv ==
  /\ FormInv
  /\ request.pc = "publish" => request.resource \in Resources /\ request.draft \in Contents

(* Once the gateway has models, what an active version may call is served, *)
(* archived or not; a release under way keeps what it was compared with,   *)
(* because none that could disturb it runs beside it.                      *)
Serving(data) ==
  ~Fallback(data) => \A a \in DOMAIN data.agents :
    data.agents[a].active # 0 =>
      LET cfg == data.agents[a].versions[data.agents[a].active].config
      IN  cfg.enabled => cfg.allowed \subseteq Served(data)
Compared(x) ==
  IF doc.releases[x].target = Gateway
  THEN open = {x} /\ ServesActive(doc.releases[x].content.models)
  ELSE ~Fallback(doc) => doc.releases[x].content.allowed \subseteq Served(doc)
OpenInv ==
  /\ open \subseteq DOMAIN doc.releases
  /\ late = {} => Serving(doc) /\ \A x \in open : Compared(x)

IInv == Sound(doc) /\ Whole(doc) /\ RemovalInv /\ RequestInv /\ OpenInv

----------------------------------------------------------------------------
(* Finite maps and the fields of the document *)

LEMMA MapPut ==
  ASSUME NEW f, NEW k, NEW v
  PROVE  /\ DOMAIN Put(f, k, v) = DOMAIN f \cup {k} /\ Put(f, k, v)[k] = v
         /\ \A x \in DOMAIN f : x # k => Put(f, k, v)[x] = f[x]
BY DEF Put

LEMMA MapDrop ==
  ASSUME NEW f, NEW S
  PROVE  /\ DOMAIN Drop(f, S) = DOMAIN f \ S
         /\ \A x \in DOMAIN f \ S : Drop(f, S)[x] = f[x]
BY DEF Drop, Restrict

LEMMA ModelMapIs ==
  ASSUME NEW f
  PROVE  /\ f \in ModelMaps => DOMAIN f \subseteq Models /\ \A m \in DOMAIN f : f[m] \in ModelStates
         /\ (f = [m \in DOMAIN f |-> f[m]] /\ DOMAIN f \subseteq Models
             /\ \A m \in DOMAIN f : f[m] \in ModelStates) => f \in ModelMaps
BY DEF ModelMaps

SameBut(data, new, fields) ==
  /\ DOMAIN new = Fields
  /\ \A f \in Fields \ fields : new[f] = data[f]

LEMMA SameFields ==
  ASSUME NEW data, NEW new, NEW fields, SameBut(data, new, fields)
  PROVE  /\ "models" \notin fields => new.models = data.models
         /\ "resources" \notin fields => new.resources = data.resources
         /\ "agents" \notin fields => new.agents = data.agents
         /\ "tombstones" \notin fields => new.tombstones = data.tombstones
         /\ "gateway" \notin fields => new.gateway = data.gateway
         /\ "releases" \notin fields => new.releases = data.releases
BY DEF SameBut, Fields

----------------------------------------------------------------------------
(* An edit that leaves what is active alone *)

ActiveKept ==
  \A a \in DOMAIN doc'.agents :
    doc'.agents[a].active # 0 =>
      /\ a \in DOMAIN doc.agents
      /\ doc'.agents[a].active = doc.agents[a].active
      /\ doc'.agents[a].versions = doc.agents[a].versions
DeletingKept ==
  \A a \in DOMAIN doc.agents :
    doc.agents[a].lifecycle = "deleting" =>
      a \in DOMAIN doc'.agents /\ doc'.agents[a].lifecycle = "deleting"
Revised ==
  /\ up /\ removing = Nobody /\ revision < MaxEdits /\ revision' = revision + 1

LEMMA Edits == ASSUME NEW data, Edit(data) PROVE Revised /\ doc' = data
  BY DEF Edit, Revised

LEMMA RevisionType == ASSUME RemovalInv PROVE revision \in Nat /\ MaxEdits \in Nat
  BY CatalogAssumption DEF RemovalInv

LEMMA RequestKept ==
  ASSUME RequestInv, RemovalInv, revision' = revision + 1, request' = request \/ request' = Nothing
  PROVE  RequestInv'
<1>1. revision \in Nat
  BY RevisionType
<1>2. CASE request' = Nothing
  BY <1>2 DEF RequestInv, FormInv, Nothing
<1>3. CASE request' = request
  BY <1>1, <1>3 DEF RequestInv, FormInv
<1> QED
  BY <1>2, <1>3

LEMMA ActiveIs ==
  ASSUME NEW agents, Numbered(agents), AgentsTyped(agents),
         NEW a \in DOMAIN agents, agents[a].active # 0
  PROVE  /\ ActiveVersion(agents[a]) = agents[a].versions[agents[a].active]
         /\ agents[a].active \in DOMAIN agents[a].versions
<1> DEFINE versions == agents[a].versions
           n == agents[a].active
<1>1. versions \in Seq(VersionRecords) /\ n = Len(versions) /\ n \in Nat
      /\ \A i \in DOMAIN versions : versions[i].version = i
  BY DEF Numbered, AgentsTyped, AgentRecords
<1>2. DOMAIN versions = 1..n
  BY <1>1, LenProperties
<1>3. n \in DOMAIN versions
  BY <1>1, <1>2
<1>4. versions[n] \in Range(versions) /\ versions[n].version = n
  BY <1>1, <1>3 DEF Range
<1>5. \A v \in Range(versions) : v.version = n => v = versions[n]
  BY <1>1 DEF Range
<1> QED
  BY <1>3, <1>4, <1>5 DEF ActiveVersion

LEMMA ServesActiveIs ==
  ASSUME Sound(doc), NEW models
  PROVE  ServesActive(models) <=>
           \A a \in DOMAIN doc.agents :
             doc.agents[a].active # 0 =>
               LET cfg == doc.agents[a].versions[doc.agents[a].active].config
               IN  cfg.enabled => \A m \in cfg.allowed : m \in DOMAIN models /\ models[m] # "disabled"
BY ActiveIs DEF Sound, DocumentTyped, ServesActive

LEMMA OpenKept ==
  ASSUME OpenInv, Sound(doc), Sound(doc)', ActiveKept, UNCHANGED <<open, late>>,
         doc'.gateway = doc.gateway, doc'.releases = doc.releases
  PROVE  OpenInv'
<1>1. Served(doc)' = Served(doc) /\ Fallback(doc)' = Fallback(doc)
  BY DEF Served, Fallback
<1>2. Serving(doc) => Serving(doc)'
  BY <1>1 DEF Serving, ActiveKept
<1>3. ASSUME NEW models, ServesActive(models) PROVE ServesActive(models)'
  <2>1. \A a \in DOMAIN doc.agents :
             doc.agents[a].active # 0 =>
               LET cfg == doc.agents[a].versions[doc.agents[a].active].config
               IN  cfg.enabled => \A m \in cfg.allowed : m \in DOMAIN models /\ models[m] # "disabled"
    BY <1>3, ServesActiveIs
  <2>2. \A a \in DOMAIN doc'.agents :
             doc'.agents[a].active # 0 =>
               LET cfg == doc'.agents[a].versions[doc'.agents[a].active].config
               IN  cfg.enabled => \A m \in cfg.allowed : m \in DOMAIN models /\ models[m] # "disabled"
    BY <2>1 DEF ActiveKept
  <2>3. \A a \in DOMAIN doc'.agents : doc'.agents[a].active # 0 =>
          ActiveVersion(doc'.agents[a]) = doc'.agents[a].versions[doc'.agents[a].active]
    BY ActiveIs DEF Sound, DocumentTyped
  <2> QED
    BY <2>2, <2>3 DEF ServesActive
<1>4. ASSUME NEW x \in open, Compared(x) PROVE Compared(x)'
  BY <1>1, <1>3, <1>4 DEF Compared
<1> QED
  BY <1>2, <1>4 DEF OpenInv

LEMMA EditSafe ==
  ASSUME IInv, Revised, Sound(doc)', Whole(doc)', ActiveKept, DeletingKept,
         doc'.gateway = doc.gateway, doc'.releases = doc.releases,
         request' = request \/ request' = Nothing, UNCHANGED <<open, late, removing, lost>>
  PROVE  IInv'
<1>1. RequestInv'
  BY RequestKept DEF IInv, Revised
<1>2. RemovalInv'
  <2>1. revision' \in 0..MaxEdits
    BY RevisionType DEF Revised, IInv
  <2>2. lost' \subseteq {a \in DOMAIN doc'.agents : doc'.agents[a].lifecycle = "deleting"}
    BY DEF IInv, RemovalInv, DeletingKept
  <2> QED
    BY <2>1, <2>2 DEF Revised, RemovalInv
<1>3. OpenInv'
  BY OpenKept DEF IInv
<1> QED
  BY <1>1, <1>2, <1>3 DEF IInv

----------------------------------------------------------------------------
(* Models *)

LEMMA SetField ==
  ASSUME NEW data, DOMAIN data = Fields, NEW v
  PROVE  /\ [data EXCEPT !.models = v].models = v
         /\ SameBut(data, [data EXCEPT !.models = v], {"models"})
         /\ [data EXCEPT !.resources = v].resources = v
         /\ SameBut(data, [data EXCEPT !.resources = v], {"resources"})
         /\ [data EXCEPT !.agents = v].agents = v
         /\ SameBut(data, [data EXCEPT !.agents = v], {"agents"})
         /\ [data EXCEPT !.releases = v].releases = v
         /\ SameBut(data, [data EXCEPT !.releases = v], {"releases"})
BY DEF SameBut, Fields

(* What every draft needs of the models. *)
ModelsServe(models) ==
  \A a \in DOMAIN doc.agents :
    LET cfg == doc.agents[a].draft
    IN  \A m \in cfg.allowed : m \in DOMAIN models /\ (cfg.enabled => models[m] # "disabled")

LEMMA ModelsEdit ==
  ASSUME IInv, NEW models \in ModelMaps, ModelsServe(models),
         Edit([doc EXCEPT !.models = models]), UNCHANGED <<request, operations, service>>
  PROVE  IInv'
<1>1. Revised /\ doc' = [doc EXCEPT !.models = models] /\ Sound(doc) /\ Whole(doc)
  BY Edits DEF IInv
<1>2. DOMAIN doc = Fields
  BY <1>1 DEF Sound, DocumentTyped
<1>3. SameBut(doc, doc', {"models"}) /\ doc'.models = models
  BY <1>1, <1>2, SetField
<1>4. /\ DOMAIN doc' = Fields
      /\ doc'.resources = doc.resources /\ doc'.agents = doc.agents
      /\ doc'.tombstones = doc.tombstones
      /\ doc'.gateway = doc.gateway /\ doc'.releases = doc.releases
  BY <1>3, SameFields DEF SameBut
<1>5. Sound(doc)'
  BY <1>1, <1>3, <1>4 DEF Sound, DocumentTyped
<1>6. Whole(doc)'
  BY <1>1, <1>3, <1>4 DEF Whole, Valid, Published, ModelsServe
<1>7. ActiveKept /\ DeletingKept
  BY <1>4 DEF ActiveKept, DeletingKept
<1> QED
  BY <1>1, <1>4, <1>5, <1>6, <1>7, EditSafe DEF operations, service

(* A model that is not referenced may be disabled; any other stays usable. *)
LEMMA UnreferencedDisabled ==
  ASSUME Whole(doc), NEW a \in DOMAIN doc.agents, NEW m \in doc.agents[a].draft.allowed
  PROVE  /\ m \in DOMAIN doc.models
         /\ doc.agents[a].draft.enabled => doc.models[m] # "disabled"
         /\ ModelReferences(doc, m, FALSE) # {}
         /\ doc.agents[a].draft.enabled => ModelReferences(doc, m, TRUE) # {}
<1>1. doc.agents[a].draft \in LiveConfigs(doc.agents[a])
  BY DEF LiveConfigs
<1> QED
  BY <1>1 DEF Whole, Valid, ModelReferences

LEMMA SaveModelSafe ==
  ASSUME IInv, NEW m \in Models, SaveModel(m) PROVE IInv'
<1>1. PICK value \in ModelStates \cup {"invalid"} :
        /\ ValidModel(value)
        /\ value = "disabled" => ModelReferences(doc, m, TRUE) = {}
        /\ Edit([doc EXCEPT !.models = Put(@, m, value)])
        /\ UNCHANGED <<request, operations, service>>
  BY DEF SaveModel
<1> DEFINE models == Put(doc.models, m, value)
<1>2. doc.models \in ModelMaps /\ Whole(doc) /\ DOMAIN doc = Fields
  BY DEF IInv, Sound, DocumentTyped
<1>3. Edit([doc EXCEPT !.models = models])
  BY <1>1, <1>2 DEF Fields
<1>4. value \in ModelStates
  BY <1>1 DEF ValidModel
<1>5. /\ models = [k \in DOMAIN models |-> models[k]]
      /\ DOMAIN models = DOMAIN doc.models \cup {m} /\ models[m] = value
      /\ \A k \in DOMAIN doc.models : k # m => models[k] = doc.models[k]
  BY DEF Put
<1> HIDE DEF models
<1>6. models \in ModelMaps
  <2>1. DOMAIN doc.models \subseteq Models /\ \A k \in DOMAIN doc.models : doc.models[k] \in ModelStates
    BY <1>2, ModelMapIs
  <2>2. DOMAIN models \subseteq Models /\ \A k \in DOMAIN models : models[k] \in ModelStates
    BY <1>4, <1>5, <2>1
  <2> QED
    BY <1>5, <2>2, ModelMapIs
<1>7. ModelsServe(models)
  BY <1>1, <1>2, <1>5, UnreferencedDisabled DEF ModelsServe
<1> QED
  BY <1>1, <1>3, <1>6, <1>7, ModelsEdit

LEMMA ImportModelsSafe ==
  ASSUME IInv, ImportModels PROVE IInv'
<1>1. PICK ms \in (SUBSET Models) \ {{}} :
        \E values \in [ms -> ModelStates \cup {"invalid"}], replace \in BOOLEAN :
          /\ \A m \in ms : /\ ValidModel(values[m])
                           /\ m \in DOMAIN doc.models => replace
                           /\ values[m] = "disabled" => ModelReferences(doc, m, TRUE) = {}
          /\ Edit([doc EXCEPT !.models = [m \in DOMAIN @ \cup ms |-> IF m \in ms THEN values[m] ELSE @[m]]])
          /\ UNCHANGED <<request, operations, service>>
  BY DEF ImportModels
<1>2. PICK values \in [ms -> ModelStates \cup {"invalid"}], replace \in BOOLEAN :
          /\ \A m \in ms : /\ ValidModel(values[m])
                           /\ m \in DOMAIN doc.models => replace
                           /\ values[m] = "disabled" => ModelReferences(doc, m, TRUE) = {}
          /\ Edit([doc EXCEPT !.models = [m \in DOMAIN @ \cup ms |-> IF m \in ms THEN values[m] ELSE @[m]]])
          /\ UNCHANGED <<request, operations, service>>
  BY <1>1
<1> DEFINE models == [m \in DOMAIN doc.models \cup ms |-> IF m \in ms THEN values[m] ELSE doc.models[m]]
<1>3. doc.models \in ModelMaps /\ Whole(doc) /\ DOMAIN doc = Fields
  BY DEF IInv, Sound, DocumentTyped
<1>4. Edit([doc EXCEPT !.models = models])
  BY <1>2, <1>3 DEF Fields
<1>5. models \in ModelMaps
  <2>1. \A m \in ms : values[m] \in ModelStates
    BY <1>2 DEF ValidModel
  <2>2. models = [k \in DOMAIN models |-> models[k]]
    OBVIOUS
  <2>3. DOMAIN models \subseteq Models /\ \A k \in DOMAIN models : models[k] \in ModelStates
    BY <1>3, <2>1, ModelMapIs
  <2> HIDE DEF models
  <2> QED
    BY <2>2, <2>3, ModelMapIs
<1>6. ModelsServe(models)
  BY <1>2, <1>3, UnreferencedDisabled DEF ModelsServe
<1> HIDE DEF models
<1> QED
  BY <1>2, <1>4, <1>5, <1>6, ModelsEdit

LEMMA DeleteModelSafe ==
  ASSUME IInv, NEW m \in Models, DeleteModel(m) PROVE IInv'
<1> DEFINE models == Drop(doc.models, {m})
<1>1. doc.models \in ModelMaps /\ Whole(doc) /\ DOMAIN doc = Fields
  BY DEF IInv, Sound, DocumentTyped
<1>2. /\ ModelReferences(doc, m, FALSE) = {}
      /\ Edit([doc EXCEPT !.models = models]) /\ UNCHANGED <<request, operations, service>>
  BY <1>1 DEF DeleteModel, Deletable, Fields
<1>3. /\ models = [k \in DOMAIN models |-> models[k]]
      /\ DOMAIN models = DOMAIN doc.models \ {m}
      /\ \A k \in DOMAIN models : models[k] = doc.models[k]
  BY DEF Drop, Restrict
<1> HIDE DEF models
<1>4. models \in ModelMaps
  <2>1. DOMAIN doc.models \subseteq Models /\ \A k \in DOMAIN doc.models : doc.models[k] \in ModelStates
    BY <1>1, ModelMapIs
  <2>2. DOMAIN models \subseteq Models /\ \A k \in DOMAIN models : models[k] \in ModelStates
    BY <1>3, <2>1
  <2> QED
    BY <1>3, <2>2, ModelMapIs
<1>5. ModelsServe(models)
  BY <1>1, <1>2, <1>3, UnreferencedDisabled DEF ModelsServe
<1> QED
  BY <1>2, <1>4, <1>5, ModelsEdit

----------------------------------------------------------------------------
(* Drafts *)

LEMMA NewRecord ==
  ASSUME NEW cfg \in Configs
  PROVE  /\ NewAgent(cfg) \in AgentRecords /\ NewAgent(cfg).active = 0
         /\ NewAgent(cfg).versions = <<>> /\ NewAgent(cfg).draft = cfg
<1>1. <<>> \in Seq(VersionRecords)
  BY EmptySeq
<1> QED
  BY <1>1 DEF NewAgent, AgentRecords

LEMMA Redrafted ==
  ASSUME NEW cfg \in Configs, NEW agent \in AgentRecords, NEW new, new = [agent EXCEPT !.draft = cfg]
  PROVE  /\ new \in AgentRecords /\ new.draft = cfg
         /\ new.versions = agent.versions /\ new.active = agent.active
         /\ new.lifecycle = agent.lifecycle
BY DEF AgentRecords

(* The agents with one draft put. *)
DraftPut(agents, new, a, cfg) ==
  /\ AgentsTyped(new) /\ Numbered(new)
  /\ DOMAIN new = DOMAIN agents \cup {a} /\ new[a].draft = cfg
  /\ \A b \in DOMAIN agents : b # a => new[b] = agents[b]
  /\ \A b \in DOMAIN agents : /\ new[b].active = agents[b].active
                              /\ new[b].versions = agents[b].versions
                              /\ new[b].lifecycle = agents[b].lifecycle
  /\ a \notin DOMAIN agents => new[a].active = 0

LEMMA DraftIsPut ==
  ASSUME NEW agents, AgentsTyped(agents), Numbered(agents), NEW a \in Agents, NEW cfg \in Configs,
         NEW new, new = Put(agents, a, IF a \in DOMAIN agents THEN [agents[a] EXCEPT !.draft = cfg]
                                       ELSE NewAgent(cfg))
  PROVE  DraftPut(agents, new, a, cfg)
<1>1. /\ DOMAIN new = DOMAIN agents \cup {a}
      /\ \A b \in DOMAIN agents : b # a => new[b] = agents[b]
      /\ new[a] = IF a \in DOMAIN agents THEN [agents[a] EXCEPT !.draft = cfg] ELSE NewAgent(cfg)
  BY DEF Put
<1>2. /\ new[a] \in AgentRecords /\ new[a].draft = cfg
      /\ a \in DOMAIN agents => /\ new[a].versions = agents[a].versions
                                /\ new[a].active = agents[a].active
                                /\ new[a].lifecycle = agents[a].lifecycle
      /\ a \notin DOMAIN agents => new[a].versions = <<>> /\ new[a].active = 0
  <2>1. CASE a \in DOMAIN agents
    <3>1. agents[a] \in AgentRecords /\ new[a] = [agents[a] EXCEPT !.draft = cfg]
      BY <1>1, <2>1 DEF AgentsTyped
    <3> QED
      BY <2>1, <3>1, Redrafted
  <2>2. CASE a \notin DOMAIN agents
    <3>1. new[a] = NewAgent(cfg)
      BY <1>1, <2>2
    <3> QED
      BY <2>2, <3>1, NewRecord
  <2> QED
    BY <2>1, <2>2
<1>3. AgentsTyped(new)
  BY <1>1, <1>2 DEF AgentsTyped
<1>4. Len(<<>>) = 0 /\ DOMAIN <<>> = {}
  OBVIOUS
<1>5. Numbered(new)
  BY <1>1, <1>2, <1>4 DEF Numbered
<1> QED
  BY <1>1, <1>2, <1>3, <1>5 DEF DraftPut

LEMMA SavedEdit ==
  ASSUME IInv, NEW a \in Agents, NEW cfg \in Configs, Valid(doc, a, cfg), a \notin doc.tombstones,
         Edit(Saved(doc, a, cfg)), request' = request \/ request' = Nothing,
         UNCHANGED <<open, late, removing, lost>>
  PROVE  IInv'
<1>1. Revised /\ doc' = Saved(doc, a, cfg) /\ Sound(doc) /\ Whole(doc)
  BY Edits DEF IInv
<1>2. DOMAIN doc = Fields /\ AgentsTyped(doc.agents) /\ Numbered(doc.agents)
  BY <1>1 DEF Sound, DocumentTyped
<1> DEFINE new == Put(doc.agents, a, IF a \in DOMAIN doc.agents THEN [doc.agents[a] EXCEPT !.draft = cfg]
                                     ELSE NewAgent(cfg))
<1>3. doc' = [doc EXCEPT !.agents = new]
  BY <1>1, <1>2 DEF Saved, Fields
<1>4. DraftPut(doc.agents, new, a, cfg)
  BY <1>2, DraftIsPut
<1> HIDE DEF new
<1>5. SameBut(doc, doc', {"agents"}) /\ doc'.agents = new
  BY <1>2, <1>3, SetField
<1>6. /\ DOMAIN doc' = Fields
      /\ doc'.resources = doc.resources /\ doc'.models = doc.models
      /\ doc'.tombstones = doc.tombstones
      /\ doc'.gateway = doc.gateway /\ doc'.releases = doc.releases
  BY <1>5, SameFields DEF SameBut
<1>7. Sound(doc)'
  BY <1>1, <1>4, <1>5, <1>6 DEF Sound, DocumentTyped, DraftPut
<1>8. \A b, c : Valid(doc, b, c) => Valid(doc, b, c)'
  BY <1>6 DEF Valid, Published
<1>9. ASSUME NEW b \in DOMAIN new PROVE Valid(doc', b, new[b].draft)
  <2>1. Valid(doc, b, new[b].draft)
    BY <1>1, <1>4 DEF DraftPut, Whole
  <2> QED
    BY <1>6, <2>1 DEF Valid, Published
<1>10. Whole(doc)'
  BY <1>1, <1>4, <1>5, <1>6, <1>9 DEF Whole, DraftPut
<1>11. ActiveKept /\ DeletingKept
  BY <1>4, <1>5 DEF ActiveKept, DeletingKept, DraftPut
<1> QED
  BY <1>1, <1>6, <1>7, <1>10, <1>11, EditSafe

LEMMA SaveAgentSafe == ASSUME IInv, NEW a \in Agents, SaveAgent(a) PROVE IInv'
<1>1. PICK cfg \in Configs : Valid(doc, a, cfg) /\ Edit(Saved(doc, a, cfg))
  BY DEF SaveAgent
<1>2. a \notin doc.tombstones /\ UNCHANGED <<request, operations, service>>
  BY DEF SaveAgent, Editable
<1> QED
  BY <1>1, <1>2, SavedEdit DEF operations, service

LEMMA SubmitFormSafe == ASSUME IInv, SubmitForm PROVE IInv'
<1>1. PICK cfg \in Configs : Valid(doc, request.agent, cfg) /\ Edit(Saved(doc, request.agent, cfg))
  BY DEF SubmitForm
<1>2. /\ request.pc = "form" /\ request.agent \notin doc.tombstones /\ request' = Nothing
      /\ UNCHANGED <<operations, service>>
  BY DEF SubmitForm, Editable
<1>3. request.agent \in Agents
  BY <1>2 DEF IInv, RequestInv, FormInv
<1> QED
  BY <1>1, <1>2, <1>3, SavedEdit DEF operations, service

LEMMA RestoreTemplateSafe == ASSUME IInv, NEW a \in Agents, RestoreTemplate(a) PROVE IInv'
<1>1. PICK template \in doc.templates, cfg \in Configs : Valid(doc, a, cfg) /\ Edit(Saved(doc, a, cfg))
  BY DEF RestoreTemplate
<1>2. a \notin doc.tombstones /\ UNCHANGED <<request, operations, service>>
  BY DEF RestoreTemplate, Unused
<1> QED
  BY <1>1, <1>2, SavedEdit DEF operations, service

----------------------------------------------------------------------------
(* Resources *)

(* What the drafts need of the resources. *)
ResourcesServe(resources) ==
  \A a \in DOMAIN doc.agents :
    LET cfg == doc.agents[a].draft
    IN  \A r \in DOMAIN cfg.bindings :
          /\ r \in DOMAIN resources /\ cfg.bindings[r] \in DOMAIN resources[r].versions
          /\ resources[r].owner \in {Shared, a}

LEMMA ResourcesEdit ==
  ASSUME IInv, NEW resources, ResourcesTyped(resources), ResourcesServe(resources),
         \A r \in DOMAIN resources : resources[r].owner \in {Shared} \cup DOMAIN doc.agents,
         Edit([doc EXCEPT !.resources = resources]),
         request' = request \/ request' = Nothing, UNCHANGED <<operations, service>>
  PROVE  IInv'
<1>1. Revised /\ doc' = [doc EXCEPT !.resources = resources] /\ Sound(doc) /\ Whole(doc)
  BY Edits DEF IInv
<1>2. DOMAIN doc = Fields
  BY <1>1 DEF Sound, DocumentTyped
<1>3. SameBut(doc, doc', {"resources"}) /\ doc'.resources = resources
  BY <1>1, <1>2, SetField
<1>4. /\ DOMAIN doc' = Fields
      /\ doc'.models = doc.models /\ doc'.agents = doc.agents
      /\ doc'.tombstones = doc.tombstones
      /\ doc'.gateway = doc.gateway /\ doc'.releases = doc.releases
  BY <1>3, SameFields DEF SameBut
<1>5. Sound(doc)'
  BY <1>1, <1>3, <1>4 DEF Sound, DocumentTyped
<1>6. Whole(doc)'
  BY <1>1, <1>3, <1>4 DEF Whole, Valid, Published, ResourcesServe
<1>7. ActiveKept /\ DeletingKept
  BY <1>4 DEF ActiveKept, DeletingKept
<1> QED
  BY <1>1, <1>4, <1>5, <1>6, <1>7, EditSafe DEF operations, service

LEMMA BindingsServed == ASSUME Whole(doc) PROVE ResourcesServe(doc.resources)
  BY DEF Whole, Valid, Published, ResourcesServe

(* One resource is put: if it was there, with its owner and its versions.  *)
LEMMA ResourcePut ==
  ASSUME IInv, NEW r \in Resources, NEW resource \in ResourceRecords, NEW new,
         DOMAIN new = DOMAIN doc.resources \cup {r}, new[r] = resource,
         \A s \in DOMAIN doc.resources : s # r => new[s] = doc.resources[s],
         resource.owner \in {Shared} \cup DOMAIN doc.agents,
         r \in DOMAIN doc.resources =>
           /\ resource.owner = doc.resources[r].owner
           /\ DOMAIN doc.resources[r].versions \subseteq DOMAIN resource.versions,
         Edit([doc EXCEPT !.resources = new]),
         request' = request \/ request' = Nothing, UNCHANGED <<operations, service>>
  PROVE  IInv'
<1>1. Whole(doc) /\ ResourcesTyped(doc.resources) /\ ResourcesServe(doc.resources)
  BY BindingsServed DEF IInv, Sound, DocumentTyped
<1>2. ResourcesTyped(new)
  BY <1>1 DEF ResourcesTyped
<1>3. ResourcesServe(new)
  BY <1>1 DEF ResourcesServe
<1>4. \A s \in DOMAIN new : new[s].owner \in {Shared} \cup DOMAIN doc.agents
  BY <1>1 DEF Whole
<1> QED
  BY <1>2, <1>3, <1>4, ResourcesEdit

LEMMA DraftedIs ==
  ASSUME ResourcesTyped(doc.resources), NEW r \in Resources, NEW owner \in Agents \cup {Shared},
         NEW content \in Contents, OwnerKept(r, owner)
  PROVE  /\ Drafted(r, owner, content) \in ResourceRecords
         /\ Drafted(r, owner, content).owner = owner
         /\ r \in DOMAIN doc.resources =>
              Drafted(r, owner, content).versions = doc.resources[r].versions
<1>1. <<>> \in Seq(Contents)
  BY EmptySeq
<1>2. CASE r \in DOMAIN doc.resources
  BY <1>2 DEF Drafted, ResourcesTyped, ResourceRecords, OwnerKept
<1>3. CASE r \notin DOMAIN doc.resources
  BY <1>1, <1>3 DEF Drafted, NewResource, ResourceRecords
<1> QED
  BY <1>2, <1>3

LEMMA Archives ==
  ASSUME NEW resource \in ResourceRecords, NEW archived \in BOOLEAN
  PROVE  /\ [resource EXCEPT !.archived = archived] \in ResourceRecords
         /\ [resource EXCEPT !.archived = archived].owner = resource.owner
         /\ [resource EXCEPT !.archived = archived].versions = resource.versions
BY DEF ResourceRecords

LEMMA DocumentFacts ==
  ASSUME IInv
  PROVE  /\ DOMAIN doc = Fields /\ ResourcesTyped(doc.resources) /\ Whole(doc)
         /\ AgentsTyped(doc.agents) /\ DOMAIN doc.agents \subseteq Agents
         /\ \A owner : Owned(owner) => owner \in {Shared} \cup DOMAIN doc.agents
BY DEF IInv, Sound, DocumentTyped, AgentsTyped, Owned

LEMMA SaveResourceSafe == ASSUME IInv, NEW r \in Resources, SaveResource(r) PROVE IInv'
<1>1. PICK owner \in Agents \cup {Shared}, content \in Contents \cup {"broken"}, archived \in BOOLEAN :
        /\ OwnerFree(owner) /\ OwnerKept(r, owner) /\ ValidContent(content)
        /\ Edit([doc EXCEPT !.resources =
                   Put(@, r, [Drafted(r, owner, content) EXCEPT !.archived = archived])])
        /\ UNCHANGED <<request, operations, service>>
  BY DEF SaveResource
<1> DEFINE resource == [Drafted(r, owner, content) EXCEPT !.archived = archived]
<1>2. content \in Contents /\ Owned(owner)
  BY <1>1 DEF ValidContent, OwnerFree
<1>3. /\ resource \in ResourceRecords /\ resource.owner = owner
      /\ r \in DOMAIN doc.resources => /\ resource.versions = doc.resources[r].versions
                                       /\ owner = doc.resources[r].owner
  BY <1>1, <1>2, DocumentFacts, DraftedIs, Archives DEF OwnerKept
<1> DEFINE new == Put(doc.resources, r, resource)
<1>4. Edit([doc EXCEPT !.resources = new])
  BY <1>1, DocumentFacts DEF Fields
<1> HIDE DEF resource
<1>5. /\ DOMAIN new = DOMAIN doc.resources \cup {r} /\ new[r] = resource
      /\ \A s \in DOMAIN doc.resources : s # r => new[s] = doc.resources[s]
  BY DEF Put
<1> HIDE DEF new
<1> QED
  BY <1>1, <1>2, <1>3, <1>4, <1>5, DocumentFacts, ResourcePut

LEMMA UploadSkillSafe == ASSUME IInv, NEW r \in Resources, UploadSkill(r) PROVE IInv'
<1>1. PICK owner \in Agents \cup {Shared}, content \in Contents \cup {"broken"} :
        /\ OwnerFree(owner) /\ OwnerKept(r, owner) /\ ValidUpload(content)
        /\ Edit([doc EXCEPT !.resources = Put(@, r, Drafted(r, owner, content))])
        /\ UNCHANGED <<request, operations, service>>
  BY DEF UploadSkill
<1> DEFINE resource == Drafted(r, owner, content)
<1>2. content \in Contents /\ Owned(owner)
  BY <1>1 DEF ValidUpload, OwnerFree
<1>3. /\ resource \in ResourceRecords /\ resource.owner = owner
      /\ r \in DOMAIN doc.resources => /\ resource.versions = doc.resources[r].versions
                                       /\ owner = doc.resources[r].owner
  BY <1>1, <1>2, DocumentFacts, DraftedIs DEF OwnerKept
<1> DEFINE new == Put(doc.resources, r, resource)
<1>4. Edit([doc EXCEPT !.resources = new])
  BY <1>1, DocumentFacts DEF Fields
<1> HIDE DEF resource
<1>5. /\ DOMAIN new = DOMAIN doc.resources \cup {r} /\ new[r] = resource
      /\ \A s \in DOMAIN doc.resources : s # r => new[s] = doc.resources[s]
  BY DEF Put
<1> HIDE DEF new
<1> QED
  BY <1>1, <1>2, <1>3, <1>4, <1>5, DocumentFacts, ResourcePut

LEMMA ArchiveResourceSafe == ASSUME IInv, NEW r \in Resources, ArchiveResource(r) PROVE IInv'
<1>1. PICK archived \in BOOLEAN : Edit([doc EXCEPT !.resources[r].archived = archived])
  BY DEF ArchiveResource
<1> DEFINE resource == [doc.resources[r] EXCEPT !.archived = archived]
           new == [doc.resources EXCEPT ![r] = resource]
<1>2. r \in DOMAIN doc.resources /\ UNCHANGED <<request, operations, service>>
  BY DEF ArchiveResource
<1>3. doc.resources[r] \in ResourceRecords /\ doc.resources[r].owner \in {Shared} \cup DOMAIN doc.agents
  BY <1>2, DocumentFacts DEF ResourcesTyped, Whole
<1>4. /\ resource \in ResourceRecords /\ resource.owner = doc.resources[r].owner
      /\ resource.versions = doc.resources[r].versions
  BY <1>3, Archives
<1>5. Edit([doc EXCEPT !.resources = new])
  BY <1>1, DocumentFacts DEF Fields
<1> HIDE DEF resource
<1>6. /\ DOMAIN new = DOMAIN doc.resources \cup {r} /\ new[r] = resource
      /\ \A s \in DOMAIN doc.resources : s # r => new[s] = doc.resources[s]
  BY <1>2
<1> HIDE DEF new
<1> QED
  BY <1>2, <1>3, <1>4, <1>5, <1>6, ResourcePut

LEMMA CopyResourceSafe ==
  ASSUME IInv, NEW r \in Resources, NEW s \in Resources, CopyResource(r, s) PROVE IInv'
<1>1. PICK owner \in Agents \cup {Shared} :
        /\ Owned(owner)
        /\ Edit([doc EXCEPT !.resources = Put(@, s, [@[r] EXCEPT !.owner = owner, !.archived = FALSE])])
  BY DEF CopyResource
<1> DEFINE resource == [doc.resources[r] EXCEPT !.owner = owner, !.archived = FALSE]
           new == Put(doc.resources, s, resource)
<1>2. /\ r \in DOMAIN doc.resources /\ s \notin DOMAIN doc.resources
      /\ UNCHANGED <<request, operations, service>>
  BY DEF CopyResource
<1>3. doc.resources[r] \in ResourceRecords
  BY <1>2, DocumentFacts DEF ResourcesTyped
<1>4. resource \in ResourceRecords /\ resource.owner = owner
  BY <1>3 DEF ResourceRecords
<1>5. Edit([doc EXCEPT !.resources = new])
  BY <1>1, DocumentFacts DEF Fields
<1> HIDE DEF resource
<1>6. /\ DOMAIN new = DOMAIN doc.resources \cup {s} /\ new[s] = resource
      /\ \A t \in DOMAIN doc.resources : t # s => new[t] = doc.resources[t]
  BY DEF Put
<1> HIDE DEF new
<1> QED
  BY <1>1, <1>2, <1>4, <1>5, <1>6, DocumentFacts, ResourcePut

LEMMA PublishResourceSafe == ASSUME IInv, PublishResource PROVE IInv'
<1> DEFINE r == request.resource
           resource == [doc.resources[r] EXCEPT !.versions = Append(doc.resources[r].versions, request.draft)]
           new == [doc.resources EXCEPT ![r] = resource]
<1>1. /\ request.pc = "publish" /\ r \in DOMAIN doc.resources /\ request' = Nothing
      /\ UNCHANGED <<operations, service>>
      /\ Edit([doc EXCEPT !.resources[r].versions = Append(@, request.draft)])
  BY DEF PublishResource
<1>2. /\ doc.resources[r] \in ResourceRecords /\ doc.resources[r].owner \in {Shared} \cup DOMAIN doc.agents
      /\ request.draft \in Contents /\ r \in Resources
  BY <1>1, DocumentFacts DEF ResourcesTyped, Whole, IInv, RequestInv
<1>3. /\ Append(doc.resources[r].versions, request.draft) \in Seq(Contents)
      /\ DOMAIN doc.resources[r].versions \subseteq DOMAIN Append(doc.resources[r].versions, request.draft)
  <2>1. doc.resources[r].versions \in Seq(Contents)
    BY <1>2 DEF ResourceRecords
  <2> QED
    BY <1>2, <2>1
<1>4. /\ resource \in ResourceRecords /\ resource.owner = doc.resources[r].owner
      /\ DOMAIN doc.resources[r].versions \subseteq DOMAIN resource.versions
  BY <1>2, <1>3 DEF ResourceRecords
<1>5. Edit([doc EXCEPT !.resources = new])
  BY <1>1, DocumentFacts DEF Fields
<1> HIDE DEF resource
<1>6. /\ DOMAIN new = DOMAIN doc.resources \cup {r} /\ new[r] = resource
      /\ \A s \in DOMAIN doc.resources : s # r => new[s] = doc.resources[s]
  BY <1>1
<1> HIDE DEF new, r
<1> QED
  BY <1>1, <1>2, <1>4, <1>5, <1>6, ResourcePut DEF r

LEMMA DeleteResourceSafe == ASSUME IInv, NEW r \in Resources, DeleteResource(r) PROVE IInv'
<1> DEFINE new == Drop(doc.resources, {r})
<1>1. ~Referenced(r) /\ UNCHANGED <<request, operations, service>>
      /\ Edit([doc EXCEPT !.resources = new])
  BY DocumentFacts DEF DeleteResource, Fields
<1>2. /\ DOMAIN new = DOMAIN doc.resources \ {r}
      /\ \A s \in DOMAIN new : new[s] = doc.resources[s]
  BY DEF Drop, Restrict
<1> HIDE DEF new
<1>3. ResourcesServe(new)
  BY <1>1, <1>2, DocumentFacts, BindingsServed DEF ResourcesServe, Referenced
<1>4. ResourcesTyped(new) /\ \A s \in DOMAIN new : new[s].owner \in {Shared} \cup DOMAIN doc.agents
  BY <1>2, DocumentFacts DEF ResourcesTyped, Whole
<1> QED
  BY <1>1, <1>3, <1>4, ResourcesEdit

----------------------------------------------------------------------------
(* Imports and copies *)

LEMMA CommitImportSafe == ASSUME IInv, CommitImport PROVE IInv'
<1>1. PICK file \in ImportFiles, replace \in BOOLEAN :
       /\ \A m \in file.models : ImportableModel(m, file.value, replace)
       /\ \A r \in file.resources : ImportableResource(r, file.content, replace)
       /\ Edit([doc EXCEPT
                  !.models = [m \in DOMAIN @ \cup file.models |->
                                IF m \in file.models THEN Imported(file.value) ELSE @[m]],
                  !.resources = [r \in DOMAIN @ \cup file.resources |->
                                   IF r \in file.resources THEN Drafted(r, Shared, file.content) ELSE @[r]],
                  !.templates = @ \cup {[models |-> 1, bindings |-> file.resources]}])
  BY DEF CommitImport
<1> DEFINE models == [m \in DOMAIN doc.models \cup file.models |->
                        IF m \in file.models THEN Imported(file.value) ELSE doc.models[m]]
           resources == [r \in DOMAIN doc.resources \cup file.resources |->
                           IF r \in file.resources THEN Drafted(r, Shared, file.content) ELSE doc.resources[r]]
<1>2. request' = Nothing /\ UNCHANGED <<operations, service>>
  BY DEF CommitImport
<1>3. /\ DOMAIN doc = Fields /\ ResourcesTyped(doc.resources) /\ Whole(doc) /\ Sound(doc)
      /\ doc.models \in ModelMaps /\ ResourcesServe(doc.resources)
  BY DocumentFacts, BindingsServed DEF IInv, Sound, DocumentTyped
<1>4. /\ Revised /\ SameBut(doc, doc', {"models", "resources", "templates"})
      /\ doc'.models = models /\ doc'.resources = resources
  <2>1. Revised /\ doc' = [doc EXCEPT !.models = models, !.resources = resources,
                             !.templates = doc.templates \cup {[models |-> 1, bindings |-> file.resources]}]
    BY <1>1, <1>3, Edits DEF Fields
  <2> HIDE DEF models, resources
  <2> QED
    BY <1>3, <2>1 DEF SameBut, Fields
<1>5. /\ DOMAIN doc' = Fields /\ doc'.agents = doc.agents /\ doc'.tombstones = doc.tombstones
      /\ doc'.gateway = doc.gateway /\ doc'.releases = doc.releases
  BY <1>4, SameFields DEF SameBut
<1>6. file.models \subseteq Models /\ file.resources \subseteq Resources
      /\ file.value \in ModelStates \cup {"invalid"} /\ file.content \in Contents \cup {"broken"}
  BY <1>1 DEF ImportFiles
<1>7. /\ models = [m \in DOMAIN models |-> models[m]]
      /\ DOMAIN models = DOMAIN doc.models \cup file.models
      /\ \A m \in file.models : models[m] = Imported(file.value)
      /\ \A m \in DOMAIN doc.models : m \notin file.models => models[m] = doc.models[m]
  OBVIOUS
<1>8. /\ DOMAIN resources = DOMAIN doc.resources \cup file.resources
      /\ \A r \in file.resources : resources[r] = Drafted(r, Shared, file.content)
      /\ \A r \in DOMAIN doc.resources : r \notin file.resources => resources[r] = doc.resources[r]
  OBVIOUS
<1> HIDE DEF models, resources
<1>9. models \in ModelMaps
  <2>1. DOMAIN doc.models \subseteq Models /\ \A m \in DOMAIN doc.models : doc.models[m] \in ModelStates
    BY <1>3, ModelMapIs
  <2>2. Imported(file.value) \in ModelStates
    BY DEF Imported, ModelStates
  <2>3. DOMAIN models \subseteq Models /\ \A m \in DOMAIN models : models[m] \in ModelStates
    BY <1>6, <1>7, <2>1, <2>2
  <2> QED
    BY <1>7, <2>3, ModelMapIs
<1>10. ModelsServe(models)
  BY <1>1, <1>3, <1>7, UnreferencedDisabled DEF ModelsServe, ImportableModel
<1>11. \A r \in file.resources :
         /\ resources[r] \in ResourceRecords /\ resources[r].owner = Shared
         /\ r \in DOMAIN doc.resources => /\ resources[r].versions = doc.resources[r].versions
                                          /\ doc.resources[r].owner = Shared
  <2>1. SUFFICES ASSUME NEW r \in file.resources
                 PROVE  /\ resources[r] \in ResourceRecords /\ resources[r].owner = Shared
                        /\ r \in DOMAIN doc.resources => /\ resources[r].versions = doc.resources[r].versions
                                                         /\ doc.resources[r].owner = Shared
    OBVIOUS
  <2>2. file.content \in Contents /\ OwnerKept(r, Shared) /\ r \in Resources
    BY <1>1, <1>6 DEF ImportableResource, ValidEntry, OwnerKept
  <2> QED
    BY <1>3, <1>8, <2>2, DraftedIs DEF OwnerKept
<1>12. ResourcesTyped(resources)
  BY <1>3, <1>6, <1>8, <1>11 DEF ResourcesTyped
<1>13. ResourcesServe(resources)
  BY <1>3, <1>8, <1>11 DEF ResourcesServe
<1>14. \A r \in DOMAIN resources : resources[r].owner \in {Shared} \cup DOMAIN doc.agents
  BY <1>3, <1>8, <1>11 DEF Whole
<1>15. Sound(doc)'
  BY <1>3, <1>4, <1>5, <1>9, <1>12 DEF Sound, DocumentTyped
<1>16. Whole(doc)'
  BY <1>3, <1>4, <1>5, <1>10, <1>13, <1>14 DEF Whole, Valid, Published, ModelsServe, ResourcesServe
<1>17. ActiveKept /\ DeletingKept
  BY <1>5 DEF ActiveKept, DeletingKept
<1> QED
  BY <1>2, <1>4, <1>5, <1>15, <1>16, <1>17, EditSafe DEF operations, service

LEMMA ConfigIs ==
  ASSUME NEW cfg \in Configs, NEW S \in SUBSET Resources, NEW bindings \in [S -> 1..MaxVersions],
         NEW new, new = [cfg EXCEPT !.bindings = bindings]
  PROVE  new \in Configs
<1>1. bindings \in UNION {[T -> 1..MaxVersions] : T \in SUBSET Resources}
  OBVIOUS
<1> QED
  BY <1>1 DEF Configs

LEMMA BindingsOf ==
  ASSUME NEW cfg \in Configs
  PROVE  /\ DOMAIN cfg.bindings \in SUBSET Resources
         /\ \A r \in DOMAIN cfg.bindings : cfg.bindings[r] \in 1..MaxVersions
<1>1. PICK S \in SUBSET Resources : cfg.bindings \in [S -> 1..MaxVersions]
  BY DEF Configs
<1> QED
  BY <1>1

LEMMA Reowned ==
  ASSUME NEW resource \in ResourceRecords, NEW a \in Agents, NEW new, new = [resource EXCEPT !.owner = a]
  PROVE  new \in ResourceRecords /\ new.owner = a
BY DEF ResourceRecords

LEMMA CopyAgentSafe ==
  ASSUME IInv, NEW a \in Agents, NEW source \in Agents, CopyAgent(source, a) PROVE IInv'
<1> DEFINE draft   == doc.agents[source].draft
           private == {r \in DOMAIN draft.bindings \cap DOMAIN doc.resources :
                         doc.resources[r].owner = source}
           origin(copy, r) == IF r \in Range(copy) THEN CHOOSE p \in private : copy[p] = r ELSE r
           bindings(copy) == [r \in (DOMAIN draft.bindings \ private) \cup Range(copy) |->
                                draft.bindings[origin(copy, r)]]
           cfg(copy) == [draft EXCEPT !.bindings = bindings(copy)]
           resources(copy) == [r \in DOMAIN doc.resources \cup Range(copy) |->
                                 IF r \in Range(copy) THEN [doc.resources[origin(copy, r)] EXCEPT !.owner = a]
                                 ELSE doc.resources[r]]
           data(copy) == [doc EXCEPT !.resources = resources(copy)]
<1>1. /\ DOMAIN doc = Fields /\ ResourcesTyped(doc.resources) /\ Whole(doc) /\ Sound(doc)
      /\ AgentsTyped(doc.agents) /\ Numbered(doc.agents) /\ ResourcesServe(doc.resources)
  BY DocumentFacts, BindingsServed DEF IInv, Sound, DocumentTyped
<1>2. /\ a \notin DOMAIN doc.agents /\ a \notin doc.tombstones /\ source \in DOMAIN doc.agents
      /\ UNCHANGED <<request, operations, service>>
  BY DEF CopyAgent, Unused
<1>3. PICK copy \in [private -> Resources \ DOMAIN doc.resources] :
        Valid(data(copy), a, cfg(copy)) /\ Edit(Saved(data(copy), a, cfg(copy)))
  BY <1>1 DEF CopyAgent, Fields
<1> DEFINE new == resources(copy)
           fresh == Range(copy)
<1>4. /\ fresh \subseteq Resources /\ fresh \cap DOMAIN doc.resources = {}
      /\ \A r \in fresh : origin(copy, r) \in private
      /\ \A r : r \notin fresh => origin(copy, r) = r
  <2>1. fresh \subseteq Resources \ DOMAIN doc.resources
    BY <1>3 DEF Range
  <2>2. \A r \in fresh : \E p \in private : copy[p] = r
    BY <1>3 DEF Range
  <2> QED
    BY <2>1, <2>2
<1>5. private \subseteq DOMAIN draft.bindings /\ private \subseteq DOMAIN doc.resources
  OBVIOUS
<1>6. draft \in Configs /\ DOMAIN draft.bindings \in SUBSET Resources
      /\ \A r \in DOMAIN draft.bindings : draft.bindings[r] \in 1..MaxVersions
  <2>1. draft \in Configs
    BY <1>1, <1>2 DEF AgentsTyped, AgentRecords
  <2> QED
    BY <2>1, BindingsOf
<1> HIDE DEF private, origin
<1>7. cfg(copy) \in Configs
  <2>1. \A r \in (DOMAIN draft.bindings \ private) \cup fresh :
          draft.bindings[origin(copy, r)] \in 1..MaxVersions
    BY <1>4, <1>5, <1>6
  <2>2. bindings(copy) \in [(DOMAIN draft.bindings \ private) \cup fresh -> 1..MaxVersions]
    BY <2>1
  <2>3. (DOMAIN draft.bindings \ private) \cup fresh \in SUBSET Resources
    BY <1>4, <1>6
  <2> HIDE DEF bindings, draft
  <2> QED
    BY <1>6, <2>2, <2>3, ConfigIs
<1>8. /\ DOMAIN new = DOMAIN doc.resources \cup fresh
      /\ \A r \in DOMAIN doc.resources : new[r] = doc.resources[r]
      /\ \A r \in fresh : new[r] = [doc.resources[origin(copy, r)] EXCEPT !.owner = a]
  BY <1>4
<1>9. \A r \in fresh : new[r] \in ResourceRecords /\ new[r].owner = a
  <2>1. SUFFICES ASSUME NEW r \in fresh PROVE new[r] \in ResourceRecords /\ new[r].owner = a
    OBVIOUS
  <2>2. doc.resources[origin(copy, r)] \in ResourceRecords
    BY <1>1, <1>4, <1>5 DEF ResourcesTyped
  <2>3. new[r] = [doc.resources[origin(copy, r)] EXCEPT !.owner = a]
    BY <1>8
  <2> HIDE DEF new
  <2> QED
    BY <2>2, <2>3, Reowned
<1> DEFINE other == data(copy)
           config == cfg(copy)
<1>10. other = [doc EXCEPT !.resources = new]
  OBVIOUS
<1>11. Valid(other, a, config) /\ Edit(Saved(other, a, config)) /\ config \in Configs
  BY <1>3, <1>7
<1> HIDE DEF new, fresh, other, config, data, cfg, resources
<1>12. other.resources = new /\ SameBut(doc, other, {"resources"})
  BY <1>1, <1>10, SetField
<1>13. /\ DOMAIN other = Fields /\ other.models = doc.models /\ other.agents = doc.agents
       /\ other.tombstones = doc.tombstones
       /\ other.gateway = doc.gateway /\ other.releases = doc.releases
  BY <1>12, SameFields DEF SameBut
<1> DEFINE put == Put(doc.agents, a, IF a \in DOMAIN doc.agents THEN [doc.agents[a] EXCEPT !.draft = config]
                                     ELSE NewAgent(config))
<1>14. DraftPut(doc.agents, put, a, config)
  BY <1>1, <1>11, DraftIsPut
<1>15. Revised /\ doc' = [other EXCEPT !.agents = put]
  BY <1>11, <1>13, Edits DEF Saved, Fields
<1> HIDE DEF put
<1>16. SameBut(other, doc', {"agents"}) /\ doc'.agents = put
  BY <1>13, <1>15, SetField
<1>17. /\ DOMAIN doc' = Fields /\ doc'.models = doc.models /\ doc'.resources = new
       /\ doc'.tombstones = doc.tombstones
       /\ doc'.gateway = doc.gateway /\ doc'.releases = doc.releases
  BY <1>12, <1>13, <1>16, SameFields DEF SameBut
<1>18. ResourcesTyped(new)
  BY <1>1, <1>4, <1>8, <1>9 DEF ResourcesTyped
<1>19. Sound(doc)'
  BY <1>1, <1>14, <1>16, <1>17, <1>18 DEF Sound, DocumentTyped, DraftPut
<1>20. ASSUME NEW b \in DOMAIN put PROVE Valid(doc', b, put[b].draft)
  <2>1. CASE b = a
    BY <1>11, <1>12, <1>13, <1>14, <1>17, <2>1 DEF DraftPut, Valid, Published
  <2>2. CASE b # a
    <3>1. b \in DOMAIN doc.agents /\ put[b] = doc.agents[b]
      BY <1>14, <2>2 DEF DraftPut
    <3>2. Valid(doc, b, doc.agents[b].draft)
      BY <1>1, <3>1 DEF Whole
    <3> QED
      BY <1>8, <1>17, <3>1, <3>2 DEF Valid, Published
  <2> QED
    BY <2>1, <2>2
<1>21. Whole(doc)'
  <2>1. \A r \in DOMAIN new : new[r].owner \in {Shared} \cup DOMAIN put
    BY <1>1, <1>8, <1>9, <1>14 DEF Whole, DraftPut
  <2>2. doc.tombstones \cap DOMAIN put = {}
    BY <1>1, <1>2, <1>14 DEF Whole, DraftPut
  <2> QED
    BY <1>16, <1>17, <1>20, <2>1, <2>2 DEF Whole
<1>22. ActiveKept /\ DeletingKept
  BY <1>14, <1>16 DEF ActiveKept, DeletingKept, DraftPut
<1> QED
  BY <1>2, <1>15, <1>17, <1>19, <1>21, <1>22, EditSafe DEF operations, service

----------------------------------------------------------------------------
(* Releases *)

LEMMA PreparedSafe ==
  ASSUME IInv, NEW x, NEW release, IsRelease(release), Prepared(x, release),
         (late = {} => Compared(x)') , \A y \in open : late = {} => doc.releases[y].target # Gateway
  PROVE  IInv'
<1> DEFINE new == Put(doc.releases, x, release)
<1>1. /\ DOMAIN doc = Fields /\ Sound(doc) /\ Whole(doc) /\ ReleasesTyped(doc.releases)
  BY DEF IInv, Sound, DocumentTyped
<1>2. /\ x \notin DOMAIN doc.releases /\ Edit([doc EXCEPT !.releases = new])
      /\ open' = open \cup {x} /\ UNCHANGED <<late, intent, request, service>>
  BY <1>1 DEF Prepared, Fields
<1>3. /\ DOMAIN new = DOMAIN doc.releases \cup {x} /\ new[x] = release
      /\ \A y \in DOMAIN doc.releases : new[y] = doc.releases[y]
  BY <1>2 DEF Put
<1> HIDE DEF new
<1>4. Revised /\ doc' = [doc EXCEPT !.releases = new]
  BY <1>2, Edits
<1>5. SameBut(doc, doc', {"releases"}) /\ doc'.releases = new
  BY <1>1, <1>4, SetField
<1>6. /\ DOMAIN doc' = Fields /\ doc'.models = doc.models /\ doc'.resources = doc.resources
      /\ doc'.agents = doc.agents /\ doc'.tombstones = doc.tombstones /\ doc'.gateway = doc.gateway
  BY <1>5, SameFields DEF SameBut
<1>7. ReleasesTyped(new)
  BY <1>1, <1>3 DEF ReleasesTyped
<1>8. Sound(doc)'
  BY <1>1, <1>5, <1>6, <1>7 DEF Sound, DocumentTyped
<1>9. Whole(doc)'
  BY <1>1, <1>6 DEF Whole, Valid, Published
<1>10. RequestInv'
  BY <1>2, <1>4, RequestKept DEF IInv, Revised
<1>11. RemovalInv'
  BY <1>2, <1>4, <1>6, RevisionType DEF IInv, RemovalInv, Revised, service
<1>12. Served(doc)' = Served(doc) /\ Fallback(doc)' = Fallback(doc)
  BY <1>6 DEF Served, Fallback
<1>13. late = {} => Serving(doc)'
  BY <1>6, <1>12 DEF IInv, OpenInv, Serving
<1>14. ASSUME late = {}, NEW y \in open PROVE Compared(y)'
  <2>1. y \in DOMAIN doc.releases /\ new[y] = doc.releases[y] /\ doc.releases[y].target # Gateway
    BY <1>3, <1>14 DEF IInv, OpenInv
  <2>2. Compared(y)
    BY <1>14 DEF IInv, OpenInv
  <2> QED
    BY <1>5, <1>12, <2>1, <2>2 DEF Compared
<1>15. OpenInv'
  BY <1>2, <1>3, <1>5, <1>13, <1>14 DEF OpenInv, IInv
<1> QED
  BY <1>8, <1>9, <1>10, <1>11, <1>15 DEF IInv

LEMMA PrepareAgentSafe ==
  ASSUME IInv, NEW x \in Releases, NEW a \in Agents, PrepareAgent(x, a) PROVE IInv'
<1>1. /\ ~Held(a) /\ a \in DOMAIN doc.agents
  BY DEF PrepareAgent
<1>2. PICK cfg \in {doc.agents[a].draft} \cup History(doc.agents[a]) :
       /\ cfg.allowed \subseteq Available(doc)
       /\ Prepared(x, [target |-> a, version |-> Len(doc.agents[a].versions) + 1,
                       content |-> cfg, old |-> doc.agents[a].active, committed |-> FALSE])
  BY DEF PrepareAgent
<1> DEFINE release == [target |-> a, version |-> Len(doc.agents[a].versions) + 1,
                       content |-> cfg, old |-> doc.agents[a].active, committed |-> FALSE]
<1>3. DOMAIN doc = Fields /\ doc.agents[a] \in AgentRecords /\ Numbered(doc.agents)
  BY <1>1 DEF IInv, Sound, DocumentTyped, AgentsTyped
<1>4. cfg \in Configs
  <2>1. doc.agents[a].versions \in Seq(VersionRecords) /\ doc.agents[a].draft \in Configs
    BY <1>3 DEF AgentRecords
  <2>2. \A n \in DOMAIN doc.agents[a].versions : doc.agents[a].versions[n] \in VersionRecords
    BY <2>1, LenProperties
  <2> QED
    BY <1>2, <2>1, <2>2 DEF History, Range, VersionRecords
<1>5. a # Gateway
  BY CatalogAssumption DEF Gateway
<1>6. IsRelease(release)
  BY <1>1, <1>3, <1>4, <1>5 DEF IsRelease, Numbered, AgentRecords
<1>7. \A y \in open : doc.releases[y].target # Gateway
  BY <1>1 DEF Held
<1>8. Compared(x)'
  <2>1. doc' = [doc EXCEPT !.releases = Put(doc.releases, x, release)]
    BY <1>2, <1>3, Edits DEF Prepared, Fields
  <2> DEFINE new == Put(doc.releases, x, release)
  <2>2. new[x] = release
    BY DEF Put
  <2> HIDE DEF new
  <2>3. doc'.releases = new /\ doc'.gateway = doc.gateway
    <3>1. doc' = [doc EXCEPT !.releases = new]
      BY <2>1 DEF new
    <3> QED
      BY <1>3, <3>1, SetField, SameFields
  <2>4. Served(doc)' = Served(doc) /\ Fallback(doc)' = Fallback(doc)
    BY <2>3 DEF Served, Fallback
  <2>5. ~Fallback(doc) => cfg.allowed \subseteq Served(doc)
    BY <1>2 DEF Available
  <2> QED
    BY <1>5, <2>2, <2>3, <2>4, <2>5 DEF Compared
<1> QED
  BY <1>2, <1>6, <1>7, <1>8, PreparedSafe

LEMMA PrepareGatewaySafe ==
  ASSUME IInv, NEW x \in Releases, PrepareGateway(x) PROVE IInv'
<1>1. PICK models \in {doc.models} \cup Range(doc.gateway.versions) :
       /\ ServesActive(models)
       /\ Prepared(x, [target |-> Gateway, version |-> Len(doc.gateway.versions) + 1,
                       content |-> [models |-> models], old |-> doc.gateway.active, committed |-> FALSE])
  BY DEF PrepareGateway
<1> DEFINE release == [target |-> Gateway, version |-> Len(doc.gateway.versions) + 1,
                       content |-> [models |-> models], old |-> doc.gateway.active, committed |-> FALSE]
<1>2. /\ DOMAIN doc = Fields /\ doc.models \in ModelMaps /\ Sound(doc)
      /\ doc.gateway.versions \in Seq(ModelMaps) /\ doc.gateway.active \in Nat
      /\ doc.gateway.active = Len(doc.gateway.versions)
  BY DEF IInv, Sound, DocumentTyped, GatewayTyped
<1>3. open = {}
  BY DEF PrepareGateway, Held
<1>4. models \in ModelMaps
  <2>1. \A n \in DOMAIN doc.gateway.versions : doc.gateway.versions[n] \in ModelMaps
    BY <1>2, LenProperties
  <2> QED
    BY <1>1, <1>2, <2>1 DEF Range
<1>5. IsRelease(release)
  BY <1>2, <1>4 DEF IsRelease
<1> DEFINE new == Put(doc.releases, x, release)
<1>6. new[x] = release
  BY DEF Put
<1>7. doc' = [doc EXCEPT !.releases = new] /\ open' = open \cup {x}
  BY <1>1, <1>2, Edits DEF Prepared, Fields
<1>8. doc'.releases = new /\ doc'.agents = doc.agents
  BY <1>2, <1>7, SetField, SameFields
<1>9. ServesActive(models)'
  BY <1>1, <1>8 DEF ServesActive
<1>10. Compared(x)'
  BY <1>3, <1>6, <1>7, <1>8, <1>9 DEF Compared
<1> QED
  BY <1>1, <1>3, <1>5, <1>10, PreparedSafe

LEMMA SameRelease ==
  ASSUME NEW releases, ReleasesTyped(releases), NEW x \in DOMAIN releases, NEW new,
         new = [releases EXCEPT ![x].committed = TRUE]
  PROVE  /\ ReleasesTyped(new) /\ DOMAIN new = DOMAIN releases
         /\ \A y \in DOMAIN releases : new[y].target = releases[y].target
                                       /\ new[y].content = releases[y].content
<1> DEFINE release == [releases[x] EXCEPT !.committed = TRUE]
<1>1. /\ new[x] = release /\ DOMAIN new = DOMAIN releases
      /\ \A y \in DOMAIN releases : y # x => new[y] = releases[y]
  OBVIOUS
<1>2. IsRelease(releases[x])
  BY DEF ReleasesTyped
<1>3. /\ DOMAIN release = DOMAIN releases[x] /\ release.target = releases[x].target
      /\ release.content = releases[x].content /\ release.old = releases[x].old
      /\ release.version = releases[x].version
  BY <1>2 DEF IsRelease
<1>4. IsRelease(release)
  BY <1>2, <1>3 DEF IsRelease
<1> QED
  BY <1>1, <1>3, <1>4 DEF ReleasesTyped

LEMMA VersionAppended ==
  ASSUME NEW S, NEW s \in Seq(S), NEW v \in S
  PROVE  /\ Append(s, v) \in Seq(S) /\ Len(Append(s, v)) = Len(s) + 1 /\ Len(s) \in Nat
         /\ Append(s, v)[Len(s) + 1] = v /\ Len(s) + 1 \in DOMAIN Append(s, v)
         /\ \A n \in DOMAIN Append(s, v) : n = Len(s) + 1 \/ (n \in DOMAIN s /\ Append(s, v)[n] = s[n])
BY LenProperties

(* The release of an agent is committed. *)
LEMMA CommitAgentSafe ==
  ASSUME IInv, NEW x \in Releases, Commit(x), doc.releases[x].target # Gateway PROVE IInv'
<1> DEFINE t == doc.releases[x].target
           release == doc.releases[x]
           agent == doc.agents[t]
           entry == [version |-> release.version, config |-> release.content]
           versions == Append(agent.versions, entry)
           put == [agent EXCEPT !.versions = versions, !.active = release.version]
           agents == [doc.agents EXCEPT ![t] = put]
           releases == [doc.releases EXCEPT ![x].committed = TRUE]
<1>1. /\ DOMAIN doc = Fields /\ Sound(doc) /\ Whole(doc) /\ ReleasesTyped(doc.releases)
      /\ AgentsTyped(doc.agents) /\ Numbered(doc.agents)
  BY DEF IInv, Sound, DocumentTyped
<1>2. /\ x \in DOMAIN doc.releases /\ t \in DOMAIN doc.agents /\ release.old = agent.active
      /\ Edit(Appended(x)) /\ UNCHANGED <<intent, request, service>>
      /\ open' = open \ {x} /\ late' = IF x \in open THEN late ELSE late \cup {x}
  BY DEF Commit, Unmoved
<1>3. /\ Revised /\ doc' = [doc EXCEPT !.agents = agents, !.releases = releases]
  <2>1. Revised /\ doc' = Appended(x)
    BY <1>2, Edits
  <2>2. Appended(x) = [doc EXCEPT !.agents[t].versions = Append(@, entry),
                                  !.agents[t].active = release.version,
                                  !.releases[x].committed = TRUE]
    BY DEF Appended
  <2>3. [doc EXCEPT !.agents[t].versions = Append(@, entry),
                    !.agents[t].active = release.version,
                    !.releases[x].committed = TRUE]
          = [doc EXCEPT !.agents = agents, !.releases = releases]
    BY <1>1, <1>2 DEF Fields, AgentsTyped, AgentRecords
  <2> QED
    BY <2>1, <2>2, <2>3
<1>4. agent \in AgentRecords /\ agent.active = Len(agent.versions)
      /\ agent.versions \in Seq(VersionRecords) /\ release.version = agent.active + 1
      /\ release.content \in Configs /\ IsRelease(release)
  <2>1. IsRelease(release)
    BY <1>1, <1>2 DEF ReleasesTyped
  <2>2. agent \in AgentRecords /\ agent.active = Len(agent.versions)
    BY <1>1, <1>2 DEF AgentsTyped, Numbered
  <2> QED
    BY <1>2, <2>1, <2>2 DEF IsRelease, AgentRecords
<1>5. entry \in VersionRecords /\ entry.version = agent.active + 1 /\ entry.config = release.content
  BY <1>4 DEF VersionRecords, AgentRecords
<1> HIDE DEF entry
<1>6. /\ versions \in Seq(VersionRecords) /\ Len(versions) = agent.active + 1 /\ agent.active \in Nat
      /\ versions[agent.active + 1] = entry
      /\ \A n \in DOMAIN versions :
           n = agent.active + 1 \/ (n \in DOMAIN agent.versions /\ versions[n] = agent.versions[n])
  <2> DEFINE old == agent.versions
  <2>1. old \in Seq(VersionRecords) /\ agent.active = Len(old) /\ entry \in VersionRecords
    BY <1>4, <1>5
  <2>2. versions = Append(old, entry)
    OBVIOUS
  <2> HIDE DEF old, versions
  <2>3. /\ versions \in Seq(VersionRecords) /\ Len(versions) = Len(old) + 1 /\ Len(old) \in Nat
        /\ versions[Len(old) + 1] = entry
        /\ \A n \in DOMAIN versions : n = Len(old) + 1 \/ (n \in DOMAIN old /\ versions[n] = old[n])
    BY <2>1, <2>2, VersionAppended
  <2> QED
    BY <2>1, <2>3 DEF old
<1> HIDE DEF versions
<1>7. /\ put \in AgentRecords /\ put.versions = versions
      /\ put.active = agent.active + 1 /\ put.draft = agent.draft /\ put.lifecycle = agent.lifecycle
  <2>1. put = [agent EXCEPT !.versions = versions, !.active = release.version]
    OBVIOUS
  <2>2. agent \in AgentRecords /\ release.version = agent.active + 1
    BY <1>4
  <2>3. versions \in Seq(VersionRecords) /\ agent.active \in Nat
    BY <1>6
  <2> HIDE DEF put, agent, release
  <2>4. release.version \in Nat
    BY <2>2, <2>3
  <2> QED
    BY <2>1, <2>2, <2>3, <2>4 DEF AgentRecords
<1> HIDE DEF put
<1>8. /\ DOMAIN agents = DOMAIN doc.agents /\ agents[t] = put
      /\ \A a \in DOMAIN doc.agents : a # t => agents[a] = doc.agents[a]
  BY <1>2
<1>9. /\ ReleasesTyped(releases) /\ DOMAIN releases = DOMAIN doc.releases
      /\ \A y \in DOMAIN releases : releases[y].target = doc.releases[y].target
                                    /\ releases[y].content = doc.releases[y].content
  BY <1>1, <1>2, SameRelease
<1> HIDE DEF agents, releases
<1>10. /\ SameBut(doc, doc', {"agents", "releases"}) /\ doc'.agents = agents /\ doc'.releases = releases
  BY <1>1, <1>3 DEF SameBut, Fields
<1>11. /\ DOMAIN doc' = Fields /\ doc'.models = doc.models /\ doc'.resources = doc.resources
       /\ doc'.tombstones = doc.tombstones /\ doc'.gateway = doc.gateway
  BY <1>10, SameFields DEF SameBut
<1>12. AgentsTyped(agents)
  BY <1>1, <1>2, <1>7, <1>8 DEF AgentsTyped
<1>13. Numbered(agents)
  <2>1. /\ \A n \in DOMAIN put.versions : put.versions[n].version = n
        /\ put.active = Len(put.versions)
    <3>1. \A n \in DOMAIN agent.versions : agent.versions[n].version = n
      BY <1>1, <1>2 DEF Numbered
    <3> QED
      BY <1>5, <1>6, <1>7, <3>1
  <2> QED
    BY <1>1, <1>8, <2>1 DEF Numbered
<1>14. Sound(doc)'
  BY <1>1, <1>9, <1>10, <1>11, <1>12, <1>13 DEF Sound, DocumentTyped
<1>15. \A a \in DOMAIN agents : agents[a].draft = doc.agents[a].draft
                                /\ agents[a].lifecycle = doc.agents[a].lifecycle
  BY <1>7, <1>8
<1>16. Whole(doc)'
  BY <1>1, <1>8, <1>10, <1>11, <1>15 DEF Whole, Valid, Published
<1>17. RequestInv'
  BY <1>2, <1>3, RequestKept DEF IInv, Revised
<1>18. RemovalInv'
  BY <1>2, <1>3, <1>8, <1>10, <1>15, RevisionType DEF IInv, RemovalInv, Revised, service
<1>19. Served(doc)' = Served(doc) /\ Fallback(doc)' = Fallback(doc)
  BY <1>11 DEF Served, Fallback
<1>20. ASSUME late' = {} PROVE Serving(doc)' /\ \A y \in open' : Compared(y)'
  <2>1. late = {} /\ x \in open /\ Serving(doc) /\ \A y \in open : Compared(y)
    BY <1>2, <1>20 DEF IInv, OpenInv
  <2>2. ~Fallback(doc) => release.content.allowed \subseteq Served(doc)
    BY <2>1 DEF Compared
  <2>3. put.versions[put.active].config = release.content
    BY <1>5, <1>6, <1>7
  <2>4. Serving(doc)'
    BY <1>8, <1>10, <1>19, <2>1, <2>2, <2>3 DEF Serving
  <2>5. ASSUME NEW y \in open' PROVE Compared(y)'
    <3>1. y \in open /\ y # x /\ y \in DOMAIN doc.releases
      BY <1>2 DEF IInv, OpenInv
    <3>2. /\ doc.releases[y].target # Gateway
          /\ ~Fallback(doc) => doc.releases[y].content.allowed \subseteq Served(doc)
      BY <2>1, <3>1 DEF Compared
    <3> QED
      BY <1>9, <1>10, <1>19, <3>1, <3>2 DEF Compared
  <2> QED
    BY <2>4, <2>5
<1>21. OpenInv'
  BY <1>2, <1>9, <1>10, <1>20 DEF OpenInv, IInv
<1> QED
  BY <1>14, <1>16, <1>17, <1>18, <1>21 DEF IInv

(* The release of the gateway's models is committed. *)
LEMMA CommitGatewaySafe ==
  ASSUME IInv, NEW x \in Releases, Commit(x), doc.releases[x].target = Gateway PROVE IInv'
<1> DEFINE release == doc.releases[x]
           models == release.content.models
           versions == Append(doc.gateway.versions, models)
           gateway == [doc.gateway EXCEPT !.versions = versions, !.active = release.version]
           releases == [doc.releases EXCEPT ![x].committed = TRUE]
<1>1. /\ DOMAIN doc = Fields /\ Sound(doc) /\ Whole(doc) /\ ReleasesTyped(doc.releases)
      /\ GatewayTyped(doc.gateway) /\ doc.gateway.active = Len(doc.gateway.versions)
  BY DEF IInv, Sound, DocumentTyped
<1>2. /\ x \in DOMAIN doc.releases /\ release.old = doc.gateway.active
      /\ Edit(Appended(x)) /\ UNCHANGED <<intent, request, service>>
      /\ open' = open \ {x} /\ late' = IF x \in open THEN late ELSE late \cup {x}
  BY DEF Commit, Unmoved
<1>3. /\ Revised /\ doc' = [doc EXCEPT !.gateway = gateway, !.releases = releases]
  <2>1. Revised /\ doc' = Appended(x)
    BY <1>2, Edits
  <2>2. Appended(x) = [doc EXCEPT !.gateway.versions = Append(@, models),
                                  !.gateway.active = release.version,
                                  !.releases[x].committed = TRUE]
    BY DEF Appended
  <2>3. [doc EXCEPT !.gateway.versions = Append(@, models),
                    !.gateway.active = release.version,
                    !.releases[x].committed = TRUE]
          = [doc EXCEPT !.gateway = gateway, !.releases = releases]
    BY <1>1, <1>2 DEF Fields, GatewayTyped
  <2> QED
    BY <2>1, <2>2, <2>3
<1>4. /\ release.version = doc.gateway.active + 1 /\ models \in ModelMaps
      /\ doc.gateway.versions \in Seq(ModelMaps) /\ doc.gateway.active \in Nat
  BY <1>1, <1>2 DEF ReleasesTyped, IsRelease, GatewayTyped
<1>5. /\ versions \in Seq(ModelMaps) /\ Len(versions) = doc.gateway.active + 1
      /\ versions[doc.gateway.active + 1] = models
  <2> DEFINE old == doc.gateway.versions
             new == models
  <2>1. old \in Seq(ModelMaps) /\ doc.gateway.active = Len(old) /\ new \in ModelMaps
        /\ versions = Append(old, new)
    BY <1>1, <1>4
  <2> HIDE DEF old, versions, new
  <2>2. /\ versions \in Seq(ModelMaps) /\ Len(versions) = Len(old) + 1
        /\ versions[Len(old) + 1] = new
    BY <2>1, VersionAppended
  <2> QED
    BY <2>1, <2>2 DEF new
<1> HIDE DEF versions
<1>6. /\ gateway \in [versions : Seq(ModelMaps), active : Nat]
      /\ gateway.versions = versions /\ gateway.active = doc.gateway.active + 1
  <2>1. release.version \in Nat
    BY <1>4
  <2>2. gateway = [doc.gateway EXCEPT !.versions = versions, !.active = release.version]
    OBVIOUS
  <2>3. GatewayTyped(doc.gateway) /\ versions \in Seq(ModelMaps)
        /\ release.version = doc.gateway.active + 1
    BY <1>1, <1>4, <1>5
  <2> HIDE DEF gateway, release
  <2> QED
    BY <2>1, <2>2, <2>3 DEF GatewayTyped
<1>7. gateway.active = Len(gateway.versions) /\ gateway.versions[gateway.active] = models
  BY <1>6, <1>5
<1>8. /\ ReleasesTyped(releases) /\ DOMAIN releases = DOMAIN doc.releases
  BY <1>1, <1>2, SameRelease
<1> HIDE DEF gateway, releases
<1>9. SameBut(doc, doc', {"gateway", "releases"}) /\ doc'.gateway = gateway /\ doc'.releases = releases
  BY <1>1, <1>3 DEF SameBut, Fields
<1>10. /\ DOMAIN doc' = Fields /\ doc'.models = doc.models /\ doc'.resources = doc.resources
      /\ doc'.tombstones = doc.tombstones /\ doc'.agents = doc.agents
  BY <1>9, SameFields DEF SameBut
<1>11. Sound(doc)'
  BY <1>1, <1>6, <1>7, <1>8, <1>9, <1>10 DEF Sound, DocumentTyped, GatewayTyped
<1>12. Whole(doc)'
  BY <1>1, <1>10 DEF Whole, Valid, Published
<1>13. RequestInv'
  BY <1>2, <1>3, RequestKept DEF IInv, Revised
<1>14. RemovalInv'
  BY <1>2, <1>3, <1>10, RevisionType DEF IInv, RemovalInv, Revised, service
<1>15. ASSUME late' = {} PROVE Serving(doc)' /\ open' = {}
  <2>1. late = {} /\ x \in open /\ Compared(x)
    BY <1>2, <1>15 DEF IInv, OpenInv
  <2>2. open' = {} /\ ServesActive(models)
    BY <1>2, <2>1 DEF Compared
  <2>3. Served(doc)' = {m \in DOMAIN models : models[m] # "disabled"}
    <3>1. gateway.active # 0
      BY <1>4, <1>6
    <3> QED
      BY <1>7, <1>9, <3>1 DEF Served
  <2>4. Serving(doc)'
    BY <1>1, <1>10, <2>2, <2>3, ServesActiveIs DEF Serving
  <2> QED
    BY <2>2, <2>4
<1>16. OpenInv'
  BY <1>2, <1>8, <1>9, <1>15 DEF OpenInv, IInv
<1> QED
  BY <1>11, <1>12, <1>13, <1>14, <1>16 DEF IInv

----------------------------------------------------------------------------
(* Lifecycle and deletion *)

LEMMA MovedSafe ==
  ASSUME IInv, NEW a \in DOMAIN doc.agents, NEW lifecycle \in {"active", "archived", "deleting"},
         doc.agents[a].lifecycle = "deleting" => lifecycle = "deleting",
         Moved(a, lifecycle), UNCHANGED <<request, open, late, service>>
  PROVE  IInv'
<1> DEFINE put == [doc.agents[a] EXCEPT !.lifecycle = lifecycle]
           agents == [doc.agents EXCEPT ![a] = put]
<1>1. /\ DOMAIN doc = Fields /\ Sound(doc) /\ Whole(doc)
      /\ AgentsTyped(doc.agents) /\ Numbered(doc.agents) /\ doc.agents[a] \in AgentRecords
  BY DEF IInv, Sound, DocumentTyped, AgentsTyped
<1>2. Revised /\ doc' = [doc EXCEPT !.agents = agents]
  BY <1>1, Edits DEF Moved, Fields
<1>3. /\ put \in AgentRecords /\ put.versions = doc.agents[a].versions /\ put.lifecycle = lifecycle
      /\ put.active = doc.agents[a].active /\ put.draft = doc.agents[a].draft
  BY <1>1 DEF AgentRecords
<1> HIDE DEF put
<1>4. /\ DOMAIN agents = DOMAIN doc.agents /\ agents[a] = put
      /\ \A b \in DOMAIN doc.agents : b # a => agents[b] = doc.agents[b]
  OBVIOUS
<1> HIDE DEF agents
<1>5. SameBut(doc, doc', {"agents"}) /\ doc'.agents = agents
  BY <1>1, <1>2, SetField
<1>6. /\ DOMAIN doc' = Fields
      /\ doc'.resources = doc.resources /\ doc'.models = doc.models
      /\ doc'.tombstones = doc.tombstones
      /\ doc'.gateway = doc.gateway /\ doc'.releases = doc.releases
  BY <1>5, SameFields DEF SameBut
<1>7. AgentsTyped(agents) /\ Numbered(agents)
  BY <1>1, <1>3, <1>4 DEF AgentsTyped, Numbered
<1>8. Sound(doc)'
  BY <1>1, <1>5, <1>6, <1>7 DEF Sound, DocumentTyped
<1>9. \A b \in DOMAIN agents : agents[b].draft = doc.agents[b].draft
  BY <1>3, <1>4
<1>10. Whole(doc)'
  BY <1>1, <1>4, <1>5, <1>6, <1>9 DEF Whole, Valid, Published
<1>11. ActiveKept
  BY <1>3, <1>4, <1>5 DEF ActiveKept
<1>12. DeletingKept
  BY <1>3, <1>4, <1>5 DEF DeletingKept
<1> QED
  BY <1>2, <1>6, <1>8, <1>10, <1>11, <1>12, EditSafe DEF service

LEMMA ArchiveSafe == ASSUME IInv, NEW a \in Agents, Archive(a) PROVE IInv'
<1>1. a \in DOMAIN doc.agents /\ UNCHANGED <<request, open, late, service>>
  BY DEF Archive, operations
<1>2. PICK lifecycle \in {"active", "archived"} :
        doc.agents[a].lifecycle # "deleting" /\ Moved(a, lifecycle)
  BY DEF Archive
<1> QED
  BY <1>1, <1>2, MovedSafe

LEMMA StartDeletionSafe == ASSUME IInv, StartDeletion PROVE IInv'
<1>1. intent.agent \in DOMAIN doc.agents /\ Moved(intent.agent, "deleting")
      /\ UNCHANGED <<request, open, late, service>>
  BY DEF StartDeletion, Deletes
<1> QED
  BY <1>1, MovedSafe

LEMMA DeleteAgentSafe == ASSUME IInv, DeleteAgent PROVE IInv'
<1> DEFINE a == removing
           resources == Drop(doc.resources, {r \in DOMAIN doc.resources : doc.resources[r].owner = a})
           agents == Drop(doc.agents, {a})
<1>1. /\ DOMAIN doc = Fields /\ Sound(doc) /\ Whole(doc) /\ RemovalInv
      /\ AgentsTyped(doc.agents) /\ Numbered(doc.agents) /\ ResourcesTyped(doc.resources)
      /\ ResourcesServe(doc.resources)
  BY BindingsServed DEF IInv, Sound, DocumentTyped
<1>2. /\ removing # Nobody /\ revision' = revision + 1 /\ doc' = Without(doc, a)
      /\ removing' = Nobody /\ lost' = lost \ {a}
      /\ UNCHANGED <<request, open, late, up>>
  BY DEF DeleteAgent
<1>3. a \in DOMAIN doc.agents /\ revision < MaxEdits /\ a # Shared
  BY <1>1, <1>2, CatalogAssumption DEF RemovalInv, AgentsTyped, Shared
<1> HIDE DEF a
<1>4. doc' = [doc EXCEPT !.resources = resources, !.agents = agents,
                         !.tombstones = doc.tombstones \cup {a}]
  BY <1>1, <1>2 DEF Without, Fields
<1>5. /\ DOMAIN resources = {r \in DOMAIN doc.resources : doc.resources[r].owner # a}
      /\ \A r \in DOMAIN resources : resources[r] = doc.resources[r]
  BY DEF Drop, Restrict
<1>6. /\ DOMAIN agents = DOMAIN doc.agents \ {a}
      /\ \A b \in DOMAIN agents : agents[b] = doc.agents[b]
  BY DEF Drop, Restrict
<1> HIDE DEF resources, agents
<1>7. /\ SameBut(doc, doc', {"resources", "agents", "tombstones"})
      /\ doc'.resources = resources /\ doc'.agents = agents
      /\ doc'.tombstones = doc.tombstones \cup {a}
  BY <1>1, <1>4 DEF SameBut, Fields
<1>8. /\ DOMAIN doc' = Fields /\ doc'.models = doc.models
      /\ doc'.gateway = doc.gateway /\ doc'.releases = doc.releases
  BY <1>7, SameFields DEF SameBut
<1>9. AgentsTyped(agents) /\ Numbered(agents) /\ ResourcesTyped(resources)
  BY <1>1, <1>5, <1>6 DEF AgentsTyped, Numbered, ResourcesTyped
<1>10. Sound(doc)'
  BY <1>1, <1>7, <1>8, <1>9 DEF Sound, DocumentTyped
<1>11. ASSUME NEW b \in DOMAIN agents PROVE Valid(doc', b, agents[b].draft)
  <2>1. b \in DOMAIN doc.agents /\ b # a /\ agents[b] = doc.agents[b]
    BY <1>6
  <2>2. Valid(doc, b, doc.agents[b].draft)
    BY <1>1, <2>1 DEF Whole
  <2>3. \A r \in DOMAIN doc.agents[b].draft.bindings :
          r \in DOMAIN doc.resources /\ doc.resources[r].owner # a
    BY <1>3, <2>1, <2>2 DEF Valid, Published
  <2> QED
    BY <1>5, <1>7, <1>8, <2>1, <2>2, <2>3 DEF Valid, Published
<1>12. \A r \in DOMAIN resources : resources[r].owner \in {Shared} \cup DOMAIN agents
  BY <1>1, <1>5, <1>6 DEF Whole
<1>13. Whole(doc)'
  BY <1>1, <1>6, <1>7, <1>11, <1>12 DEF Whole
<1>14. RequestInv'
  BY <1>1, <1>2, RequestKept DEF IInv
<1>15. RemovalInv'
  <2>1. revision' \in 0..MaxEdits
    BY <1>1, <1>2, <1>3, RevisionType
  <2>2. lost' \subseteq {b \in DOMAIN agents : agents[b].lifecycle = "deleting"}
    BY <1>1, <1>2, <1>6 DEF RemovalInv, a
  <2> QED
    BY <1>2, <1>7, <2>1, <2>2 DEF RemovalInv
<1>16. ActiveKept
  BY <1>6, <1>7 DEF ActiveKept
<1>17. OpenInv'
  BY <1>1, <1>2, <1>8, <1>10, <1>16, OpenKept DEF IInv
<1> QED
  BY <1>10, <1>13, <1>14, <1>15, <1>17 DEF IInv

----------------------------------------------------------------------------
(* Steps that leave the document alone *)

LEMMA NoEditSafe ==
  ASSUME IInv, UNCHANGED <<revision, doc, open, late>>, RequestInv', RemovalInv'
  PROVE  IInv'
<1>1. Sound(doc)' /\ Whole(doc)'
  BY DEF IInv
<1>2. OpenInv'
  BY DEF IInv, OpenInv, Serving, Served, Fallback, Compared, ServesActive
<1> QED
  BY <1>1, <1>2 DEF IInv

LEMMA RequestStays ==
  ASSUME RequestInv, UNCHANGED <<revision, doc>>, request' = request \/ request' = Nothing
  PROVE  RequestInv'
<1>1. CASE request' = Nothing
  BY <1>1 DEF RequestInv, FormInv, Nothing
<1>2. CASE request' = request
  BY <1>2 DEF RequestInv, FormInv
<1> QED
  BY <1>1, <1>2

LEMMA RemovalStays ==
  ASSUME RemovalInv, UNCHANGED <<revision, doc, lost>>, removing' = removing \/ removing' = Nobody
  PROVE  RemovalInv'
BY DEF RemovalInv

LEMMA ReadFormSafe == ASSUME IInv, NEW a \in Agents, ReadForm(a) PROVE IInv'
<1>1. /\ a \in DOMAIN doc.agents /\ UNCHANGED <<revision, doc, open, late, removing, lost>>
      /\ \E given \in BOOLEAN :
           request' = [pc |-> "form", agent |-> a, cfg |-> doc.agents[a].draft,
                       given |-> given, base |-> revision]
  BY DEF ReadForm, operations, service
<1>2. RequestInv'
  BY <1>1, RevisionType DEF IInv, RequestInv, FormInv
<1> QED
  BY <1>1, <1>2, RemovalStays, NoEditSafe DEF IInv

LEMMA ReadResourceSafe == ASSUME IInv, NEW r \in Resources, ReadResource(r) PROVE IInv'
<1>1. /\ r \in DOMAIN doc.resources /\ UNCHANGED <<revision, doc, open, late, removing, lost>>
      /\ request' = [pc |-> "publish", resource |-> r, draft |-> doc.resources[r].draft]
  BY DEF ReadResource, operations, service
<1>2. doc.resources[r].draft \in Contents
  BY <1>1 DEF IInv, Sound, DocumentTyped, ResourcesTyped, ResourceRecords
<1>3. RequestInv'
  BY <1>1, <1>2 DEF RequestInv, FormInv
<1> QED
  BY <1>1, <1>3, RemovalStays, NoEditSafe DEF IInv

LEMMA PreviewSafe == ASSUME IInv, Preview PROVE IInv'
<1>1. /\ UNCHANGED <<revision, doc, open, late, removing, lost>> /\ request'.pc = "import"
  BY DEF Preview, operations, service
<1>2. RequestInv'
  BY <1>1 DEF RequestInv, FormInv
<1> QED
  BY <1>1, <1>2, RemovalStays, NoEditSafe DEF IInv

LEMMA AbandonSafe == ASSUME IInv, NEW x \in Releases, Abandon(x) PROVE IInv'
<1>1. /\ x \in open /\ open' = open \ {x}
      /\ UNCHANGED <<revision, doc, late, request, removing, lost>>
  BY DEF Abandon, service
<1>2. ASSUME late = {}, NEW y \in open' PROVE Compared(y)'
  <2>1. Compared(y) /\ y \in open /\ y # x
    BY <1>1, <1>2 DEF IInv, OpenInv
  <2>2. doc.releases[y].target # Gateway
    BY <1>1, <2>1 DEF Compared
  <2> QED
    BY <1>1, <2>1, <2>2 DEF Compared, Served, Fallback
<1>3. OpenInv'
  BY <1>1, <1>2 DEF IInv, OpenInv, Serving, Served, Fallback
<1>4. Sound(doc)' /\ Whole(doc)'
  BY <1>1 DEF IInv
<1> QED
  BY <1>1, <1>3, <1>4, RequestStays, RemovalStays DEF IInv

LEMMA RemoveFilesSafe == ASSUME IInv, RemoveFiles PROVE IInv'
<1>1. /\ UNCHANGED <<revision, doc, open, late, request>> /\ revision < MaxEdits
      /\ removing' = intent.agent
      /\ Deleting(doc, intent.agent) /\ lost' \subseteq lost \cup {intent.agent}
  BY DEF RemoveFiles, operations
<1>2. intent.agent \in DOMAIN doc.agents /\ doc.agents[intent.agent].lifecycle = "deleting"
  BY <1>1 DEF Deleting
<1>3. RemovalInv'
  BY <1>1, <1>2 DEF IInv, RemovalInv
<1> QED
  BY <1>1, <1>3, RequestStays, NoEditSafe DEF IInv

(* A refusal, a preview of a deletion or its end, a crash, a start. *)
LEMMA QuietSafe ==
  ASSUME IInv, Refused \/ Crash \/ Start \/ DropDeletion \/ \E a \in Agents : CheckDeletion(a)
  PROVE  IInv'
<1>1. /\ UNCHANGED <<revision, doc, open, late, lost>>
      /\ request' = request \/ request' = Nothing
      /\ removing' = removing \/ removing' = Nobody
  BY DEF Refused, Crash, Start, DropDeletion, CheckDeletion, operations, service
<1> QED
  BY <1>1, RequestStays, RemovalStays, NoEditSafe DEF IInv

----------------------------------------------------------------------------
(* The invariant *)

LEMMA InitSafe == ASSUME Init PROVE IInv
<1>1. /\ revision = 0 /\ doc = EmptyDocument /\ request = Nothing /\ open = {}
      /\ removing = Nobody /\ lost = {}
  BY DEF Init, Idle
<1>2. /\ DOMAIN doc = Fields /\ doc.models = <<>> /\ doc.resources = <<>> /\ doc.agents = <<>>
      /\ doc.tombstones = {} /\ doc.releases = <<>>
      /\ doc.gateway = [versions |-> <<>>, active |-> 0]
  BY <1>1 DEF EmptyDocument, Fields
<1>3. DOMAIN <<>> = {}
  OBVIOUS
<1>4. doc.models \in ModelMaps
  <2>1. <<>> \in Seq(ModelStates) /\ Len(<<>>) = 0 /\ 1..0 = {}
    OBVIOUS
  <2>2. <<>> \in [{} -> ModelStates]
    BY <2>1, LenProperties
  <2> QED
    BY <1>2, <2>2 DEF ModelMaps
<1>5. GatewayTyped(doc.gateway) /\ doc.gateway.active = Len(doc.gateway.versions)
  BY <1>2 DEF GatewayTyped
<1>6. Sound(doc)
  BY <1>2, <1>3, <1>4, <1>5
     DEF Sound, DocumentTyped, ResourcesTyped, AgentsTyped, ReleasesTyped, Numbered
<1>7. Whole(doc)
  BY <1>2, <1>3 DEF Whole
<1>8. RemovalInv
  BY <1>1, CatalogAssumption DEF RemovalInv
<1>9. RequestInv
  BY <1>1 DEF RequestInv, FormInv, Nothing
<1>10. OpenInv
  BY <1>1, <1>2, <1>3 DEF OpenInv, Serving
<1> QED
  BY <1>6, <1>7, <1>8, <1>9, <1>10 DEF IInv

LEMMA AdministratorSafe == ASSUME IInv, AdministratorNext PROVE IInv'
<1>1. ASSUME NEW m \in Models, SaveModel(m) \/ DeleteModel(m) PROVE IInv'
  BY <1>1, SaveModelSafe, DeleteModelSafe
<1>2. CASE ImportModels
  BY <1>2, ImportModelsSafe
<1>3. ASSUME NEW a \in Agents, SaveAgent(a) \/ ReadForm(a) \/ RestoreTemplate(a) PROVE IInv'
  BY <1>3, SaveAgentSafe, ReadFormSafe, RestoreTemplateSafe
<1>4. ASSUME NEW a \in Agents, NEW b \in Agents, CopyAgent(a, b) PROVE IInv'
  BY <1>4, CopyAgentSafe
<1>5. ASSUME NEW r \in Resources,
             SaveResource(r) \/ UploadSkill(r) \/ ArchiveResource(r) \/ DeleteResource(r) \/ ReadResource(r)
      PROVE IInv'
  BY <1>5, SaveResourceSafe, UploadSkillSafe, ArchiveResourceSafe, DeleteResourceSafe, ReadResourceSafe
<1>6. ASSUME NEW r \in Resources, NEW s \in Resources, CopyResource(r, s) PROVE IInv'
  BY <1>6, CopyResourceSafe
<1>7. CASE SubmitForm \/ Refused \/ PublishResource \/ Preview \/ CommitImport
  BY <1>7, SubmitFormSafe, QuietSafe, PublishResourceSafe, PreviewSafe, CommitImportSafe
<1> QED
  BY <1>1, <1>2, <1>3, <1>4, <1>5, <1>6, <1>7 DEF AdministratorNext

LEMMA OperationsSafe == ASSUME IInv, OperationsNext PROVE IInv'
<1>1. ASSUME NEW x \in Releases, NEW a \in Agents, PrepareAgent(x, a) PROVE IInv'
  BY <1>1, PrepareAgentSafe
<1>2. ASSUME NEW x \in Releases, PrepareGateway(x) \/ Commit(x) \/ Abandon(x) PROVE IInv'
  BY <1>2, PrepareGatewaySafe, CommitAgentSafe, CommitGatewaySafe, AbandonSafe
<1>3. ASSUME NEW a \in Agents, Archive(a) \/ CheckDeletion(a) PROVE IInv'
  BY <1>3, ArchiveSafe, QuietSafe
<1>4. CASE StartDeletion \/ RemoveFiles \/ DeleteAgent \/ DropDeletion
  BY <1>4, StartDeletionSafe, RemoveFilesSafe, DeleteAgentSafe, QuietSafe
<1> QED
  BY <1>1, <1>2, <1>3, <1>4 DEF OperationsNext

LEMMA NextSafe == ASSUME IInv, [Next]_vars PROVE IInv'
<1>1. CASE AdministratorNext
  BY <1>1, AdministratorSafe
<1>2. CASE OperationsNext
  BY <1>2, OperationsSafe
<1>3. CASE Crash \/ Start
  BY <1>3, QuietSafe
<1>4. CASE UNCHANGED vars
  BY <1>4, RequestStays, RemovalStays, NoEditSafe DEF IInv, vars, operations, service
<1> QED
  BY <1>1, <1>2, <1>3, <1>4 DEF Next

(* The document stays sound and whole, removals touch only agents on their *)
(* way out, forms are as old as they say, and a release under way keeps    *)
(* what its prepare() compared (management.py edit, main.py prepare).      *)
THEOREM CatalogInvariance == Spec => []IInv
<1>1. Init => IInv
  BY InitSafe
<1>2. IInv /\ [Next]_vars => IInv'
  BY NextSafe
<1> QED
  BY <1>1, <1>2, PTL DEF Spec

----------------------------------------------------------------------------
(* What follows *)

(* Every revision is an edit, versions carry their positions, and only an  *)
(* agent on its way out has lost files.                                    *)
THEOREM CatalogTypeCorrectness == Spec => []TypeOK
<1>1. ASSUME IInv PROVE TypeOK
  <2>1. \A m \in DOMAIN doc.models : m \in Models /\ doc.models[m] \in ModelStates
    BY <1>1, ModelMapIs DEF IInv, Sound, DocumentTyped
  <2>2. \A r \in DOMAIN doc.resources :
          r \in Resources /\ doc.resources[r].draft \in Contents
          /\ doc.resources[r].versions \in Seq(Contents)
    BY <1>1 DEF IInv, Sound, DocumentTyped, ResourcesTyped, ResourceRecords
  <2>3. \A a \in DOMAIN doc.agents : a \in Agents /\ doc.agents[a].draft \in Configs
    BY <1>1 DEF IInv, Sound, DocumentTyped, AgentsTyped, AgentRecords
  <2> QED
    BY <1>1, <2>1, <2>2, <2>3 DEF IInv, Sound, Numbered, RemovalInv, TypeOK
<1> QED
  BY <1>1, CatalogInvariance, PTL

(* What every draft names exists, published, and may be used by its agent; *)
(* every private resource has its agent; a retired id is never used again  *)
(* (validate_agent, model_references, resource_lifecycle, lifecycle).      *)
THEOREM ReferencesStayWhole == Spec => []ReferencesWhole
<1>1. ASSUME IInv PROVE ReferencesWhole
  BY <1>1 DEF IInv, Whole, ReferencesWhole, DraftsWhole, OwnersExist, Owned, RetiredUnused
<1> QED
  BY <1>1, CatalogInvariance, PTL

(* While the gateway has an active version with models, every model with   *)
(* which a request is admitted is served by it, unless a commit came after *)
(* its job (authorize, prepare, commit).                                   *)
THEOREM AdmittedIsServed == Spec => []GatewayServes
<1>1. ASSUME IInv PROVE GatewayServes
  <2> SUFFICES ASSUME late = {}, ~Fallback(doc), NEW a \in DOMAIN doc.agents
               PROVE  Authorized(doc, a) \subseteq Served(doc)
    BY DEF GatewayServes
  <2>1. Serving(doc) /\ Numbered(doc.agents) /\ AgentsTyped(doc.agents)
    BY <1>1 DEF IInv, OpenInv, Sound, DocumentTyped
  <2>2. CASE doc.agents[a].active = 0
    BY <2>2 DEF Authorized
  <2>3. CASE doc.agents[a].active # 0
    <3>1. ActiveVersion(doc.agents[a]) = doc.agents[a].versions[doc.agents[a].active]
      BY <2>1, <2>3, ActiveIs
    <3> QED
      BY <2>1, <2>3, <3>1 DEF Authorized, Serving
  <2> QED
    BY <2>2, <2>3
<1> QED
  BY <1>1, CatalogInvariance, PTL

(* Only the submission of a form takes it away and edits. *)
LEMMA OnlySubmitted ==
  ASSUME IInv, [Next]_vars, request.pc = "form", request'.pc = "none", revision' # revision
  PROVE  SubmitForm
<1>1. request' # request /\ revision' # revision
  OBVIOUS
<1>2. CASE AdministratorNext
  BY <1>1, <1>2
     DEF AdministratorNext, SaveModel, DeleteModel, ImportModels, SaveAgent, ReadForm, RestoreTemplate,
         CopyAgent, SaveResource, UploadSkill, ArchiveResource, DeleteResource, ReadResource,
         CopyResource, Refused, PublishResource, Preview, CommitImport
<1>3. CASE OperationsNext
  BY <1>1, <1>3
     DEF OperationsNext, PrepareAgent, PrepareGateway, Prepared, Commit, Abandon, Archive,
         CheckDeletion, StartDeletion, RemoveFiles, DeleteAgent, DropDeletion
<1>4. CASE Crash \/ Start \/ UNCHANGED vars
  BY <1>1, <1>4 DEF Crash, Start, vars
<1> QED
  BY <1>2, <1>3, <1>4 DEF Next

(* A bindings request that gives the revision it saw replaces exactly the  *)
(* draft that it read (admin_api.py bindings, management.py edit).         *)
THEOREM FormsReplaceWhatTheyRead == Spec => FormsUndisturbed
<1> DEFINE Replaces ==
      request.pc = "form" /\ request'.pc = "none" /\ revision' # revision /\ request.given
        => doc.agents[request.agent].draft = request.cfg
<1>1. ASSUME IInv, [Next]_vars PROVE Replaces
  <2> SUFFICES ASSUME request.pc = "form", request'.pc = "none", revision' # revision, request.given
               PROVE  doc.agents[request.agent].draft = request.cfg
    OBVIOUS
  <2>1. SubmitForm
    BY <1>1, OnlySubmitted
  <2>2. request.base = revision
    BY <2>1 DEF SubmitForm, Expected
  <2> QED
    BY <1>1, <2>2 DEF IInv, RequestInv, FormInv
<1>2. IInv /\ [Next]_vars => [Replaces]_vars
  BY <1>1
<1> QED
  BY <1>2, CatalogInvariance, PTL DEF Spec, FormsUndisturbed
=============================================================================
