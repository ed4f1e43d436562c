------------------------------ MODULE Catalog ------------------------------
(***************************************************************************)
(* catalog_service: one versioned document (management.py) that            *)
(* administrators edit (admin_api.py), files are imported into             *)
(* (transfers.py, agent_templates.py), operations publishes releases from  *)
(* and deletes agents from (main.py).  Every request is one transaction on *)
(* the document, except those that read it, do something else and then     *)
(* edit: the bindings form, the publication of a resource, an import, the  *)
(* deletion of an agent with its compiled files, and a release.            *)
(* Data is what the guards tell apart: a model is enabled, enabled without *)
(* a key, enabled and marked as one of the original deployment (legacy),   *)
(* or disabled; a resource has a content; a configuration names models and *)
(* the resource versions it binds.                                         *)
(***************************************************************************)
EXTENDS Naturals, Sequences, FiniteSets, Functions

CONSTANTS
  Models, Agents, Resources, Contents,
  Releases,    \* release ids
  MaxVersions, \* bound: versions of an agent or of a resource
  MaxGateways, \* bound: versions of the gateway's models
  MaxEdits     \* bound: edits of the document

ASSUME CatalogAssumption ==
  /\ MaxVersions \in Nat \ {0} /\ MaxGateways \in Nat /\ MaxEdits \in Nat
  /\ IsFiniteSet(Models) /\ IsFiniteSet(Resources)
  /\ Agents \cap {"shared", "*", "nobody"} = {}  \* Shared, Gateway and Nobody

VARIABLES
  revision, doc, \* the only row of the database
  request,       \* a request between its read and its edit
  open,          \* operations: releases whose job is under way
  late,          \* releases committed after their job had ended
  intent,        \* operations: a deletion, with what its preview showed
  removing,      \* the agent whose files a transaction has removed
  lost,          \* agents whose compiled files are gone
  up

operations == <<open, late, intent>>
service == <<removing, lost, up>>
vars == <<revision, doc, request, operations, service>>

Shared == "shared"
Gateway == "*"
Nobody == "nobody"
Nothing == [pc |-> "none"]

ModelStates == {"enabled", "keyless", "legacy", "disabled"}
Configs == [enabled : BOOLEAN, allowed : (SUBSET Models) \ {{}},
            bindings : UNION {[S -> 1..MaxVersions] : S \in SUBSET Resources}]

Put(f, k, v) == [x \in DOMAIN f \cup {k} |-> IF x = k THEN v ELSE f[x]]
Drop(f, S) == Restrict(f, DOMAIN f \ S)

(* The document of a new database: bundled examples are templates only.    *)
EmptyDocument ==
  [models |-> <<>>, resources |-> <<>>, agents |-> <<>>, tombstones |-> {},
   templates |-> {[models |-> 1, bindings |-> {}]},
   gateway |-> [versions |-> <<>>, active |-> 0], releases |-> <<>>]

Idle ==
  /\ request = Nothing
  /\ open = {} /\ late = {} /\ intent = Nothing
  /\ removing = Nobody /\ lost = {} /\ up = TRUE

Init == revision = 0 /\ doc = EmptyDocument /\ Idle

----------------------------------------------------------------------------
(* Reading the document *)

ActiveVersion(agent) == CHOOSE v \in Range(agent.versions) : v.version = agent.active

(* The draft and the active configuration: what model_references() reads.  *)
LiveConfigs(agent) ==
  {agent.draft} \cup (IF agent.active = 0 THEN {} ELSE {ActiveVersion(agent).config})

History(agent) == {v.config : v \in Range(agent.versions)}

ModelReferences(data, m, enabledOnly) ==
  {a \in DOMAIN data.agents :
     \E cfg \in LiveConfigs(data.agents[a]) : m \in cfg.allowed /\ (enabledOnly => cfg.enabled)}

Published(data, r, v) == r \in DOMAIN data.resources /\ v \in DOMAIN data.resources[r].versions

(* validate_agent() *)
Valid(data, a, cfg) ==
  /\ \A m \in cfg.allowed :
       m \in DOMAIN data.models /\ (cfg.enabled => data.models[m] # "disabled")
  /\ \A r \in DOMAIN cfg.bindings :
       Published(data, r, cfg.bindings[r]) /\ data.resources[r].owner \in {Shared, a}

(* What the active version of the gateway serves. *)
Served(data) ==
  IF data.gateway.active = 0 THEN {}
  ELSE LET models == data.gateway.versions[data.gateway.active]
       IN  {m \in DOMAIN models : models[m] # "disabled"}

(* Without an active version, or when it has no model, the models that are *)
(* marked legacy stand in for those the gateway serves.                    *)
Fallback(data) ==
  data.gateway.active = 0 \/ DOMAIN data.gateway.versions[data.gateway.active] = {}

Legacy(data) == {m \in DOMAIN data.models : data.models[m] = "legacy"}

Available(data) == IF Fallback(data) THEN Legacy(data) ELSE Served(data)

(* The models with which authorize() lets a request of an agent through. *)
Authorized(data, a) ==
  LET agent == data.agents[a]
  IN  IF agent.active = 0 \/ agent.lifecycle # "active" \/ ~ActiveVersion(agent).config.enabled
      THEN {} ELSE ActiveVersion(agent).config.allowed

(* export() looks up every binding of every draft and version. *)
Exported(data) ==
  \A a \in DOMAIN data.agents :
    \A cfg \in {data.agents[a].draft} \cup History(data.agents[a]) :
      \A r \in DOMAIN cfg.bindings : Published(data, r, cfg.bindings[r])

Deleting(data, a) == a \in DOMAIN data.agents /\ data.agents[a].lifecycle = "deleting"
Unused(data, a) == a \notin DOMAIN data.agents /\ a \notin data.tombstones
NewAgent(cfg) == [draft |-> cfg, versions |-> <<>>, active |-> 0, lifecycle |-> "active"]

(* Every edit is a transaction of its own and moves the revision. *)
Edit(data) ==
  /\ up /\ removing = Nobody /\ revision < MaxEdits
  /\ revision' = revision + 1
  /\ doc' = data

(* A client that gives a revision is refused when the document moved on.   *)
(* Mutant: the revision is not compared.                                   *)
ExpectedIgnored(given, base) == TRUE
Expected(given, base) == given => base = revision

----------------------------------------------------------------------------
(* Models *)

ValidModel(value) == value # "invalid"

(* A model may be marked legacy under any provider but "legacy", which     *)
(* only a model of the original deployment keeps.                          *)
SaveModel(m) ==
  \E value \in ModelStates \cup {"invalid"} :
    /\ ValidModel(value)
    /\ value = "disabled" => ModelReferences(doc, m, TRUE) = {}
    /\ Edit([doc EXCEPT !.models = Put(@, m, value)])
    /\ UNCHANGED <<request, operations, service>>

(* Several models in one edit; those that exist only when told to replace  *)
(* them, and none that claims to be legacy.                                *)
ImportModels ==
  \E ms \in (SUBSET Models) \ {{}} :
    \E values \in [ms -> ModelStates \cup {"invalid"}], replace \in BOOLEAN :
      /\ \A m \in ms : /\ ValidModel(values[m]) /\ values[m] # "legacy"
                       /\ m \in DOMAIN doc.models => replace
                       /\ values[m] = "disabled" => ModelReferences(doc, m, TRUE) = {}
      /\ Edit([doc EXCEPT !.models = [m \in DOMAIN @ \cup ms |-> IF m \in ms THEN values[m] ELSE @[m]]])
      /\ UNCHANGED <<request, operations, service>>

Deletable(m) == m \in DOMAIN doc.models /\ ModelReferences(doc, m, FALSE) = {}

DeleteModel(m) ==
  /\ Deletable(m)
  /\ Edit([doc EXCEPT !.models = Drop(@, {m})])
  /\ UNCHANGED <<request, operations, service>>

----------------------------------------------------------------------------
(* Drafts of agents *)

Saved(data, a, cfg) ==
  [data EXCEPT !.agents =
     Put(@, a, IF a \in DOMAIN @ THEN [@[a] EXCEPT !.draft = cfg] ELSE NewAgent(cfg))]

(* save_agent(): jobs belong to operations, so the guard on them sees none. *)
Editable(a) == a \notin doc.tombstones /\ ~Deleting(doc, a)

SaveAgent(a) ==
  /\ Editable(a)
  /\ \E cfg \in Configs : Valid(doc, a, cfg) /\ Edit(Saved(doc, a, cfg))
  /\ UNCHANGED <<request, operations, service>>

(* A copy of an agent owns copies of its private resources, versions and   *)
(* all, under new ids.                                                     *)
CopyAgent(source, a) ==
  /\ Unused(doc, a) /\ source \in DOMAIN doc.agents /\ ~Deleting(doc, source)
  /\ LET draft   == doc.agents[source].draft
         private == {r \in DOMAIN draft.bindings \cap DOMAIN doc.resources :
                      doc.resources[r].owner = source}
     IN  \E copy \in [private -> Resources \ DOMAIN doc.resources] :
           LET origin(r) == IF r \in Range(copy) THEN CHOOSE p \in private : copy[p] = r ELSE r
               cfg  == [draft EXCEPT !.bindings =
                          [r \in (DOMAIN @ \ private) \cup Range(copy) |-> @[origin(r)]]]
               data == [doc EXCEPT !.resources =
                          [r \in DOMAIN @ \cup Range(copy) |->
                             IF r \in Range(copy) THEN [@[origin(r)] EXCEPT !.owner = a] ELSE @[r]]]
           IN  /\ IsInjective(copy)
               /\ Valid(data, a, cfg)
               /\ Edit(Saved(data, a, cfg))
  /\ UNCHANGED <<request, operations, service>>

(* PUT bindings reads the draft before it edits; the revision is the       *)
(* client's choice.                                                        *)
ReadForm(a) ==
  /\ up /\ request = Nothing /\ a \in DOMAIN doc.agents
  /\ \E given \in BOOLEAN :
       request' = [pc |-> "form", agent |-> a, cfg |-> doc.agents[a].draft,
                   given |-> given, base |-> revision]
  /\ UNCHANGED <<revision, doc, operations, service>>

SubmitForm ==
  /\ request.pc = "form"
  /\ Expected(request.given, request.base)
  /\ Editable(request.agent)
  /\ \E cfg \in Configs :
       /\ cfg.enabled = request.cfg.enabled
       /\ Valid(doc, request.agent, cfg)
       /\ Edit(Saved(doc, request.agent, cfg))
  /\ request' = Nothing
  /\ UNCHANGED <<operations, service>>

(* A request that its edit refuses, or a preview that expires. *)
Refused ==
  /\ request # Nothing /\ request' = Nothing
  /\ UNCHANGED <<revision, doc, operations, service>>

----------------------------------------------------------------------------
(* Resources *)

(* validate_mcp(), or the limits of a hook's sources. *)
ValidContent(content) == content # "broken"

(* unpack_skill() and skill_metadata(). *)
ValidUpload(content) == content # "broken"

Owned(owner) == owner = Shared \/ owner \in DOMAIN doc.agents
OwnerFree(owner) == Owned(owner) /\ ~Deleting(doc, owner)

NewResource(owner, content) ==
  [owner |-> owner, archived |-> FALSE, draft |-> content, versions |-> <<>>]

(* A new draft; the versions stay. *)
Drafted(r, owner, content) ==
  IF r \in DOMAIN doc.resources THEN [doc.resources[r] EXCEPT !.draft = content]
  ELSE NewResource(owner, content)

OwnerKept(r, owner) == r \in DOMAIN doc.resources => doc.resources[r].owner = owner

SaveResource(r) ==
  \E owner \in Agents \cup {Shared}, content \in Contents \cup {"broken"}, archived \in BOOLEAN :
    /\ OwnerFree(owner) /\ OwnerKept(r, owner) /\ ValidContent(content)
    /\ r \notin DOMAIN doc.resources => ~archived
    /\ Edit([doc EXCEPT !.resources =
               Put(@, r, [Drafted(r, owner, content) EXCEPT !.archived = archived])])
    /\ UNCHANGED <<request, operations, service>>

(* An upload leaves the archived flag alone. *)
UploadSkill(r) ==
  \E owner \in Agents \cup {Shared}, content \in Contents \cup {"broken"} :
    /\ OwnerFree(owner) /\ OwnerKept(r, owner) /\ ValidUpload(content)
    /\ Edit([doc EXCEPT !.resources = Put(@, r, Drafted(r, owner, content))])
    /\ UNCHANGED <<request, operations, service>>

ArchiveResource(r) ==
  /\ r \in DOMAIN doc.resources
  /\ \E archived \in BOOLEAN : Edit([doc EXCEPT !.resources[r].archived = archived])
  /\ UNCHANGED <<request, operations, service>>

(* Mutant: drafts are not looked at. *)
ReferencedVersions(r) ==
  \/ \E a \in DOMAIN doc.agents : \E cfg \in History(doc.agents[a]) : r \in DOMAIN cfg.bindings
  \/ \E t \in doc.templates : r \in t.bindings

Referenced(r) ==
  \/ \E a \in DOMAIN doc.agents :
       \E cfg \in {doc.agents[a].draft} \cup History(doc.agents[a]) : r \in DOMAIN cfg.bindings
  \/ \E t \in doc.templates : r \in t.bindings

DeleteResource(r) ==
  /\ r \in DOMAIN doc.resources /\ doc.resources[r].archived /\ ~Referenced(r)
  /\ Edit([doc EXCEPT !.resources = Drop(@, {r})])
  /\ UNCHANGED <<request, operations, service>>

(* The copy of a resource keeps its versions; its owner may be under       *)
(* deletion.                                                               *)
CopyResource(r, new) ==
  /\ r \in DOMAIN doc.resources /\ new \notin DOMAIN doc.resources
  /\ \E owner \in Agents \cup {Shared} :
       /\ Owned(owner)
       /\ Edit([doc EXCEPT !.resources =
                  Put(@, new, [@[r] EXCEPT !.owner = owner, !.archived = FALSE])])
  /\ UNCHANGED <<request, operations, service>>

(* publish() awaits the compilation and the probe between its read and its *)
(* edit.                                                                   *)
ReadResource(r) ==
  /\ up /\ request = Nothing
  /\ r \in DOMAIN doc.resources /\ ~doc.resources[r].archived
  /\ request' = [pc |-> "publish", resource |-> r, draft |-> doc.resources[r].draft]
  /\ UNCHANGED <<revision, doc, operations, service>>

PublishResource ==
  /\ request.pc = "publish"
  /\ LET r == request.resource
     IN  /\ r \in DOMAIN doc.resources
         /\ ~doc.resources[r].archived /\ doc.resources[r].draft = request.draft
         /\ Len(doc.resources[r].versions) < MaxVersions
         /\ Edit([doc EXCEPT !.resources[r].versions = Append(@, request.draft)])
  /\ request' = Nothing
  /\ UNCHANGED <<operations, service>>

----------------------------------------------------------------------------
(* Imports and templates *)

(* preview() keeps the normalised entries with the revision they were      *)
(* compared with; what is in the file is chosen by the commit.             *)
Preview ==
  /\ up /\ request = Nothing
  /\ request' = [pc |-> "import", base |-> revision]
  /\ UNCHANGED <<revision, doc, operations, service>>

(* What native_zip(), parse_native() and skill_item() make of a file: a     *)
(* model, a resource or both, with whatever they contain.                  *)
ImportFiles ==
  [models : {{}} \cup {{m} : m \in Models}, value : ModelStates \cup {"invalid"},
   resources : {{}} \cup {{r} : r \in Resources}, content : Contents \cup {"broken"}]

(* A model without a key is imported disabled. *)
Imported(value) == IF value = "enabled" THEN value ELSE "disabled"

(* What validate() of an entry left without an error. *)
ValidEntry(entry) == entry \notin {"invalid", "legacy", "broken"}

ImportableModel(m, value, replace) ==
  /\ ValidEntry(value) /\ ValidModel(value)
  /\ m \in DOMAIN doc.models =>
       /\ replace
       /\ Imported(value) = "disabled" => ModelReferences(doc, m, FALSE) = {}

ImportableResource(r, content, replace) ==
  /\ ValidEntry(content)
  /\ r \in DOMAIN doc.resources => replace /\ doc.resources[r].owner = Shared

(* A model and a resource, and a template of an agent that uses them, in   *)
(* one transaction with the result, if the document is still the one that  *)
(* was previewed.  A repeated commit returns the result.                   *)
CommitImport ==
  /\ request.pc = "import"
  /\ Expected(TRUE, request.base)
  /\ \E file \in ImportFiles, replace \in BOOLEAN :
       /\ file.models \cup file.resources # {}
       /\ \A m \in file.models : ImportableModel(m, file.value, replace)
       /\ \A r \in file.resources : ImportableResource(r, file.content, replace)
       /\ Edit([doc EXCEPT
                  !.models = [m \in DOMAIN @ \cup file.models |->
                                IF m \in file.models THEN Imported(file.value) ELSE @[m]],
                  !.resources = [r \in DOMAIN @ \cup file.resources |->
                                   IF r \in file.resources THEN Drafted(r, Shared, file.content) ELSE @[r]],
                  !.templates = @ \cup {[models |-> 1, bindings |-> file.resources]}])
  /\ request' = Nothing
  /\ UNCHANGED <<operations, service>>

(* An agent appears only by an explicit restore, which may map every model *)
(* and every binding of the template to others.                            *)
RestoreTemplate(a) ==
  /\ Unused(doc, a)
  /\ \E template \in doc.templates, cfg \in Configs :
       /\ cfg.enabled
       /\ Cardinality(cfg.allowed) = template.models
       /\ Cardinality(DOMAIN cfg.bindings) = Cardinality(template.bindings)
       /\ Valid(doc, a, cfg)
       /\ Edit(Saved(doc, a, cfg))
  /\ UNCHANGED <<request, operations, service>>

----------------------------------------------------------------------------
(* Releases.  operations runs one job on a target at a time, and none      *)
(* beside a job on "*" (JobStore).                                         *)

Held(target) ==
  \E x \in open : target = Gateway \/ doc.releases[x].target \in {target, Gateway}

Prepared(x, release) ==
  /\ x \notin DOMAIN doc.releases
  /\ Edit([doc EXCEPT !.releases = Put(@, x, release)])
  /\ open' = open \cup {x}
  /\ UNCHANGED <<late, intent, request, service>>

(* compile_agent() validates again and writes a directory of its own.      *)
Compiles(a, cfg) == Valid(doc, a, cfg)

(* prepare() of an agent: its draft, or an old version's configuration.    *)
PrepareAgent(x, a) ==
  /\ ~Held(a) /\ a \in DOMAIN doc.agents /\ ~Deleting(doc, a)
  /\ Len(doc.agents[a].versions) < MaxVersions
  /\ \E cfg \in {doc.agents[a].draft} \cup History(doc.agents[a]) :
       /\ cfg.allowed \subseteq Available(doc)
       /\ Compiles(a, cfg)
       /\ Prepared(x, [target |-> a, version |-> Len(doc.agents[a].versions) + 1,
                       content |-> cfg, old |-> doc.agents[a].active, committed |-> FALSE])

(* deployment_entries() requires a real key.  A legacy model has its key   *)
(* in the environment, or the release is refused.                          *)
Keyed(value) == value # "keyless"

(* gateway_configuration() has an entry of every enabled model.            *)
Deployable(models) == \A m \in DOMAIN models : models[m] # "disabled" => Keyed(models[m])

(* Mutant: agents that use the models are not looked at. *)
ServesUnchecked(models) == TRUE
ServesActive(models) ==
  \A a \in DOMAIN doc.agents :
    doc.agents[a].active # 0 =>
      LET cfg == ActiveVersion(doc.agents[a]).config
      IN  cfg.enabled => \A m \in cfg.allowed : m \in DOMAIN models /\ models[m] # "disabled"

PrepareGateway(x) ==
  /\ ~Held(Gateway)
  /\ Len(doc.gateway.versions) < MaxGateways
  /\ \E models \in {doc.models} \cup Range(doc.gateway.versions) :
       /\ ServesActive(models) /\ Deployable(models)
       /\ Prepared(x, [target |-> Gateway, version |-> Len(doc.gateway.versions) + 1,
                       content |-> [models |-> models], old |-> doc.gateway.active, committed |-> FALSE])

(* Mutant: the active version is not compared with the release's. *)
UnmovedIgnored(x) == TRUE
Unmoved(x) ==
  LET release == doc.releases[x]
  IN  release.old = IF release.target = Gateway THEN doc.gateway.active
                    ELSE doc.agents[release.target].active

Appended(x) ==
  LET release == doc.releases[x]
  IN  IF release.target = Gateway
      THEN [doc EXCEPT !.gateway.versions = Append(@, release.content.models),
                       !.gateway.active = release.version,
                       !.releases[x].committed = TRUE]
      ELSE [doc EXCEPT !.agents[release.target].versions =
                         Append(@, [version |-> release.version, config |-> release.content]),
                       !.agents[release.target].active = release.version,
                       !.releases[x].committed = TRUE]

(* A commit that timed out may still come after its job has ended. *)
Commit(x) ==
  /\ x \in DOMAIN doc.releases /\ ~doc.releases[x].committed
  /\ doc.releases[x].target \in DOMAIN doc.agents \cup {Gateway}
  /\ Unmoved(x)
  /\ Edit(Appended(x))
  /\ open' = open \ {x}
  /\ late' = IF x \in open THEN late ELSE late \cup {x}
  /\ UNCHANGED <<intent, request, service>>

(* The job ends without a commit: it failed, or was cancelled. *)
Abandon(x) ==
  /\ x \in open
  /\ open' = open \ {x}
  /\ UNCHANGED <<revision, doc, late, intent, request, service>>

----------------------------------------------------------------------------
(* Lifecycle and permanent deletion *)

Moved(a, lifecycle) == Edit([doc EXCEPT !.agents[a].lifecycle = lifecycle])

(* operation-check refuses to archive twice and to restore what is active. *)
Archive(a) ==
  /\ ~Held(a) /\ a \in DOMAIN doc.agents
  /\ \/ doc.agents[a].lifecycle = "active" /\ Moved(a, "archived")
     \/ doc.agents[a].lifecycle = "archived" /\ Moved(a, "active")
  /\ UNCHANGED <<request, operations, service>>

(* What a deletion's preview shows and its fingerprint covers.             *)
Impact(a) ==
  [agent   |-> [doc.agents[a] EXCEPT !.lifecycle = "any"],
   private |-> Restrict(doc.resources, {r \in DOMAIN doc.resources : doc.resources[r].owner = a})]

(* submit(): the lifecycle is checked, then the job waits for its lease.   *)
(* An agent never published, without private resources, need not be        *)
(* archived.                                                               *)
CheckDeletion(a) ==
  /\ up /\ intent = Nothing /\ a \in DOMAIN doc.agents
  /\ \/ doc.agents[a].lifecycle \in {"archived", "deleting"}
     \/ doc.agents[a].versions = <<>> /\ Impact(a).private = <<>>
  /\ intent' = [pc |-> "checked", agent |-> a, impact |-> Impact(a)]
  /\ UNCHANGED <<revision, doc, open, late, request, service>>

(* A call of the job is refused when the preview no longer holds.          *)
Deletes(pc) ==
  /\ intent.pc = pc /\ intent.agent \in DOMAIN doc.agents
  /\ Impact(intent.agent) = intent.impact

(* The job's first call. *)
StartDeletion ==
  /\ Deletes("checked") /\ ~Held(intent.agent)
  /\ Moved(intent.agent, "deleting")
  /\ intent' = [intent EXCEPT !.pc = "deleting"]
  /\ UNCHANGED <<open, late, request, service>>

(* Refused or failed: a retry begins with another preview. *)
DropDeletion ==
  /\ intent # Nothing /\ removing = Nobody
  /\ intent' = Nothing
  /\ UNCHANGED <<revision, doc, open, late, request, service>>

(* Its last call removes the compiled files inside the transaction. *)
RemoveFiles ==
  /\ up /\ removing = Nobody /\ revision < MaxEdits
  /\ Deletes("deleting") /\ Deleting(doc, intent.agent)
  /\ removing' = intent.agent
  /\ lost' = IF doc.agents[intent.agent].versions = <<>> THEN lost ELSE lost \cup {intent.agent}
  /\ UNCHANGED <<revision, doc, request, operations, up>>

Without(data, a) ==
  [data EXCEPT !.resources = Drop(@, {r \in DOMAIN @ : @[r].owner = a}),
               !.agents = Drop(@, {a}),
               !.tombstones = @ \cup {a}]

DeleteAgent ==
  /\ removing # Nobody
  /\ revision' = revision + 1 /\ doc' = Without(doc, removing)
  /\ removing' = Nobody /\ lost' = lost \ {removing} /\ intent' = Nothing
  /\ UNCHANGED <<request, open, late, up>>

----------------------------------------------------------------------------
(* The database survives a crash; a transaction under way is undone, what  *)
(* it did to files is not.                                                 *)
Crash ==
  /\ up /\ up' = FALSE
  /\ removing' = Nobody
  /\ request' = IF request.pc = "import" THEN request ELSE Nothing
  /\ UNCHANGED <<revision, doc, operations, lost>>

(* create_app() refuses to start without the files of every version.       *)
Start ==
  /\ ~up
  /\ \A a \in DOMAIN doc.agents : a \in lost => doc.agents[a].versions = <<>>
  /\ up' = TRUE
  /\ UNCHANGED <<revision, doc, request, operations, removing, lost>>

AdministratorNext ==
  \/ \E m \in Models : SaveModel(m) \/ DeleteModel(m)
  \/ ImportModels
  \/ \E a \in Agents : SaveAgent(a) \/ ReadForm(a) \/ RestoreTemplate(a)
  \/ \E a, b \in Agents : CopyAgent(a, b)
  \/ \E r \in Resources :
       SaveResource(r) \/ UploadSkill(r) \/ ArchiveResource(r) \/ DeleteResource(r) \/ ReadResource(r)
  \/ \E r, s \in Resources : CopyResource(r, s)
  \/ SubmitForm \/ Refused \/ PublishResource \/ Preview \/ CommitImport

OperationsNext ==
  \/ \E x \in Releases, a \in Agents : PrepareAgent(x, a)
  \/ \E x \in Releases : PrepareGateway(x) \/ Commit(x) \/ Abandon(x)
  \/ \E a \in Agents : Archive(a) \/ CheckDeletion(a)
  \/ StartDeletion \/ RemoveFiles \/ DeleteAgent \/ DropDeletion

Next == AdministratorNext \/ OperationsNext \/ Crash \/ Start

Spec == Init /\ [][Next]_vars

----------------------------------------------------------------------------
(* Every revision is an edit, versions carry their positions, and only an  *)
(* agent on its way out has lost files.                                    *)
TypeOK ==
  /\ revision \in 0..MaxEdits
  /\ \A m \in DOMAIN doc.models : m \in Models /\ doc.models[m] \in ModelStates
  /\ \A r \in DOMAIN doc.resources :
       /\ r \in Resources
       /\ doc.resources[r].draft \in Contents
       /\ doc.resources[r].versions \in Seq(Contents)
  /\ \A a \in DOMAIN doc.agents :
       LET agent == doc.agents[a]
       IN  /\ a \in Agents /\ agent.draft \in Configs
           /\ \A n \in DOMAIN agent.versions : agent.versions[n].version = n
           /\ agent.active = Len(agent.versions)
  /\ doc.gateway.active = Len(doc.gateway.versions)
  /\ lost \subseteq {a \in DOMAIN doc.agents : doc.agents[a].lifecycle = "deleting"}

(* What every draft names exists, published, and may be used by its agent; *)
(* every private resource has its agent; an id that was retired is never   *)
(* used again -- whatever is disabled, deleted, imported, copied or        *)
(* restored in whatever order (validate_agent, model_references,           *)
(* resource_lifecycle, commit, lifecycle).                                 *)
DraftsWhole == \A a \in DOMAIN doc.agents : Valid(doc, a, doc.agents[a].draft)
OwnersExist == \A r \in DOMAIN doc.resources : Owned(doc.resources[r].owner)
RetiredUnused == doc.tombstones \cap DOMAIN doc.agents = {}
ReferencesWhole == DraftsWhole /\ OwnersExist /\ RetiredUnused

(* While the gateway has an active version with models, every model with   *)
(* which a request is admitted is offered and served by it -- the agents   *)
(* that were published on legacy models before the first version included  *)
(* -- unless a commit came after its job had ended (authorize, models,     *)
(* prepare and commit).                                                    *)
GatewayServes ==
  late = {} /\ ~Fallback(doc) => \A a \in DOMAIN doc.agents : Authorized(doc, a) \subseteq Served(doc)

(* A bindings request that gives the revision it saw replaces exactly the  *)
(* draft it read (admin_api.py bindings, management.py edit).              *)
FormsUndisturbed ==
  [][request.pc = "form" /\ request'.pc = "none" /\ revision' # revision /\ request.given
     => doc.agents[request.agent].draft = request.cfg]_vars

(* docs/api.md:312: a resource that a draft, a published version or a      *)
(* template refers to is not deleted, so that a whole catalog can be       *)
(* exported.                                                               *)
BindingsKept == Exported(doc)
=============================================================================
