------------------------------- MODULE Registry -------------------------------
(***************************************************************************)
(* backend/router/registry.py: the models a gateway serves, from the       *)
(* configuration file to the engines, and how a request's model field is   *)
(* routed to one of them, through the life of the process (the lifespan of *)
(* backend/gateway/main.py) and its restarts with another configuration.   *)
(*                                                                         *)
(* A model id is the sequence of the segments its colons separate, so that *)
(* "general:tarot" is <<"general", "tarot">>.  The catalog is the set of   *)
(* <<base_model, name>> of its rows; AdapterCache has what is in them.     *)
(***************************************************************************)
EXTENDS Naturals, Sequences, FiniteSets, SequencesExt

CONSTANTS
  Segments,
  Configs,     \* what models.yaml, or the settings without it, may declare
  Names,       \* adapter names
  None,
  MaxRestarts  \* bound

ModelSpecs == [served_model_id : Seq(Segments), capability : Seq(Segments),
               adapters : Seq(Names), max_dynamic_adapters : Nat]

ASSUME ConfigAssumption ==
  /\ Configs \subseteq Seq(ModelSpecs)
  /\ Names \subseteq Seq(Segments) \ {<< >>}
  /\ \A config \in Configs : \A i \in DOMAIN config :
       config[i].served_model_id # << >>
ASSUME BoundAssumption == MaxRestarts \in Nat

VARIABLES
  phase,      \* of the lifespan: "off", "starting", "serving", "failed"
  specs,      \* _specs, in the order of the file
  engines,    \* _engines: the served_model_ids whose engine runs
  adapters,   \* _adapters: <<served_model_id, name>> of the static ones
  loaded,     \* _dynamic._loaded: <<base_model, name>>
  table,      \* the rows of adapter_registry; they outlive the process
  restarts

vars == <<phase, specs, engines, adapters, loaded, table, restarts>>

Init ==
  /\ phase = "off"
  /\ specs = << >>
  /\ engines = {} /\ adapters = {} /\ loaded = {} /\ table = {}
  /\ restarts = 0

Served == {specs[i].served_model_id : i \in DOMAIN specs}

(* load_model_specs: no model, or an id twice, is a ValueError.            *)
IsValid(config) ==
  /\ config # << >>
  /\ \A i, j \in DOMAIN config :
       config[i].served_model_id = config[j].served_model_id => i = j

build_registry ==
  /\ phase = "off"
  /\ \E config \in Configs :
       \/ IsValid(config) /\ specs' = config /\ phase' = "starting"
       \/ ~IsValid(config) /\ phase' = "failed" /\ UNCHANGED specs
  /\ UNCHANGED <<engines, adapters, loaded, table, restarts>>

(* start: one model after the other, in the order of the file.             *)
Starting(i) ==
  /\ phase = "starting"
  /\ i \in DOMAIN specs
  /\ specs[i].served_model_id \notin engines
  /\ \A j \in 1..(i - 1) : specs[j].served_model_id \in engines

StartModel(i) ==
  /\ Starting(i)
  /\ engines' = engines \cup {specs[i].served_model_id}
  /\ adapters' = adapters \cup
       {<<specs[i].served_model_id, name>> : name \in ToSet(specs[i].adapters)}
  /\ UNCHANGED <<phase, specs, loaded, table, restarts>>

(* The engine, or the download of an adapter, raises: so does the lifespan,*)
(* and the process exits without having answered a request.                *)
StartFails(i) ==
  /\ Starting(i)
  /\ phase' = "failed"
  /\ UNCHANGED <<specs, engines, adapters, loaded, table, restarts>>

(* The lifespan yields after start: from here on requests are answered,    *)
(* unless NVML cannot be initialised.                                      *)
Serve ==
  /\ phase = "starting"
  /\ Served \subseteq engines
  /\ phase' \in {"serving", "failed"}
  /\ UNCHANGED <<specs, engines, adapters, loaded, table, restarts>>

-----------------------------------------------------------------------------
(* Routing.  A route is the engine and the adapter, None if there is none. *)

Route(engine, adapter) == [engine |-> engine, adapter |-> adapter]
NoRoute == Route(None, None)

(* resolve_capability: the first model of the file that has the tag.       *)
resolve_capability(tag) ==
  LET first == {i \in DOMAIN specs : specs[i].capability = tag
                  /\ \A j \in 1..(i - 1) : specs[j].capability # tag}
      ids == {specs[i].served_model_id : i \in first} \cap engines
  IN  IF ids = {} THEN NoRoute ELSE Route(CHOOSE id \in ids : TRUE, None)

(* Mutant: the tag is looked up before the id.                             *)
resolve_modelTagFirst(id) ==
  IF resolve_capability(id) # NoRoute THEN resolve_capability(id)
  ELSE IF id \in engines THEN Route(id, None) ELSE NoRoute
resolve_model(id) ==
  IF id \in engines THEN Route(id, None) ELSE resolve_capability(id)

(* The static adapters, then what the cache holds or the catalog knows.    *)
IsAdapter(base, name) == <<base, name>> \in adapters \cup loaded \cup table

(* What is before the first colon is the base, the rest the adapter.       *)
resolve_adapter(id) ==
  LET base == <<Head(id)>>
      name == Tail(id)
  IN  IF base \in engines /\ IsAdapter(base, name) THEN Route(base, name)
      ELSE NoRoute

resolve(id) == IF Len(id) > 1 THEN resolve_adapter(id) ELSE resolve_model(id)

(* /v1/models.  f"{base}:{name}" joins the segments again.                 *)
list_ids == Served \cup {a[1] \o a[2] : a \in adapters \cup loaded}

(* A request: resolving a dynamic adapter leaves it in the cache.          *)
Request(id) ==
  /\ phase = "serving"
  /\ resolve(id).adapter # None
  /\ LET adapter == <<resolve(id).engine, resolve(id).adapter>>
     IN  adapter \notin adapters /\ loaded' = loaded \cup {adapter}
  /\ UNCHANGED <<phase, specs, engines, adapters, table, restarts>>

(* POST /v1/admin/adapters: the base model must be served.                 *)
Register(base, name) ==
  /\ phase = "serving"
  /\ base \in engines
  /\ table' = table \cup {<<base, name>>}
  /\ UNCHANGED <<phase, specs, engines, adapters, loaded, restarts>>

(* DELETE /v1/admin/adapters/{base_model}/{name}.                          *)
Delete(a) ==
  /\ phase = "serving"
  /\ a \in table
  /\ table' = table \ {a}
  /\ loaded' = loaded \ {a}
  /\ UNCHANGED <<phase, specs, engines, adapters, restarts>>

(* The idle sweep.                                                         *)
Evict(a) ==
  /\ phase = "serving"
  /\ a \in loaded
  /\ loaded' = loaded \ {a}
  /\ UNCHANGED <<phase, specs, engines, adapters, table, restarts>>

(* Mutant: stop leaves the engines in the registry.                        *)
RestartKeepsEngines ==
  /\ restarts < MaxRestarts
  /\ restarts' = restarts + 1
  /\ phase' = "off"
  /\ specs' = << >>
  /\ adapters' = {} /\ loaded' = {}
  /\ UNCHANGED <<engines, table>>

(* stop, or the end of a process that failed or was killed, and the next   *)
(* process, whose configuration may be another one.                        *)
Restart ==
  /\ restarts < MaxRestarts
  /\ restarts' = restarts + 1
  /\ phase' = "off"
  /\ specs' = << >>
  /\ engines' = {} /\ adapters' = {} /\ loaded' = {}
  /\ UNCHANGED table

BaseModels == UNION {{config[i].served_model_id : i \in DOMAIN config} : config \in Configs}
Tags == UNION {{config[i].capability : i \in DOMAIN config} : config \in Configs}
ModelIds == BaseModels \cup Tags \cup {base \o name : base \in BaseModels, name \in Names}

Next ==
  \/ build_registry \/ Serve \/ Restart
  \/ \E i \in DOMAIN specs : StartModel(i) \/ StartFails(i)
  \/ \E id \in ModelIds : Request(id)
  \/ \E base \in BaseModels, name \in Names : Register(base, name)
  \/ \E a \in table : Delete(a)
  \/ \E a \in loaded : Evict(a)

Spec == Init /\ [][Next]_vars

-----------------------------------------------------------------------------
Adapters == Seq(Segments) \X Names

TypeOK ==
  /\ phase \in {"off", "starting", "serving", "failed"}
  /\ specs \in Seq(ModelSpecs)
  /\ engines \in SUBSET Served
  /\ adapters \in SUBSET Adapters
  /\ loaded \in SUBSET Adapters
  /\ table \in SUBSET Adapters
  /\ restarts \in Nat

NoColon == \A id \in Served : Len(id) = 1

(* Whatever /v1/models advertises is routed to the engine and the adapter  *)
(* of that name, which has been started: no capability tag and no other    *)
(* adapter, left in the catalog by another configuration or held by the    *)
(* cache, comes between.                                                   *)
AdvertisedIsRouted ==
  phase = "serving" /\ NoColon =>
    \A id \in list_ids :
      resolve(id) = IF Len(id) = 1 THEN Route(id, None)
                    ELSE Route(<<Head(id)>>, Tail(id))

(* register_adapter (main.py:244-246): "register a LoRA adapter for an     *)
(* already-running base model. No restart needed"; an engine only takes    *)
(* LoRA requests if it was started with enable_lora.                       *)
EnablesLora(i) == specs[i].adapters # << >> \/ specs[i].max_dynamic_adapters > 0
RegisteredCanBeServed ==
  phase = "serving" =>
    \A id \in ModelIds : resolve(id).adapter # None =>
      \E i \in DOMAIN specs :
        specs[i].served_model_id = resolve(id).engine /\ EnablesLora(i)
=============================================================================
