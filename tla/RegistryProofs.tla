---------------------------- MODULE RegistryProofs ----------------------------
(***************************************************************************)
(* Theorems about Registry: where a gateway that answers requests routes   *)
(* what it advertises, for every set of configurations and through any     *)
(* number of restarts.                                                     *)
(***************************************************************************)
EXTENDS Registry, SequenceTheorems, TLAPS

(* The declarations of a configuration are well typed.                     *)
LEMMA ConfigType ==
  ASSUME NEW config \in Configs
  PROVE  /\ config \in Seq(ModelSpecs)
         /\ \A i \in DOMAIN config : /\ config[i].served_model_id \in Seq(Segments)
                                     /\ ToSet(config[i].adapters) \subseteq Names
<1>1. config \in Seq(ModelSpecs)
  BY ConfigAssumption
<1>2. ASSUME NEW i \in DOMAIN config
      PROVE  /\ config[i].served_model_id \in Seq(Segments)
             /\ ToSet(config[i].adapters) \subseteq Names
  <2>1. config[i] \in ModelSpecs
    BY <1>1
  <2>2. /\ config[i].served_model_id \in Seq(Segments)
        /\ config[i].adapters \in Seq(Names)
    BY <2>1 DEF ModelSpecs
  <2>3. QED
    BY <2>2 DEF ToSet
<1>3. QED
  BY <1>1, <1>2

LEMMA SpecsType ==
  ASSUME TypeOK, NEW i \in DOMAIN specs
  PROVE  /\ specs[i].served_model_id \in Served
         /\ specs[i].served_model_id \in Seq(Segments)
         /\ ToSet(specs[i].adapters) \subseteq Names
<1>1. specs[i] \in ModelSpecs
  BY DEF TypeOK
<1>2. /\ specs[i].served_model_id \in Seq(Segments)
      /\ specs[i].adapters \in Seq(Names)
  BY <1>1 DEF ModelSpecs
<1>3. QED
  BY <1>2 DEF ToSet, Served

(* Only a route found through an adapter has one: the adapter is static,   *)
(* in the cache or in the catalog, and its engine runs.                    *)
LEMMA AdapterRoute ==
  ASSUME NEW id, resolve(id).adapter # None
  PROVE  /\ resolve(id).engine \in engines
         /\ <<resolve(id).engine, resolve(id).adapter>> \in adapters \cup loaded \cup table
<1>1. resolve_model(id).adapter = None
  BY DEF resolve_model, resolve_capability, NoRoute, Route
<1>2. resolve(id) = resolve_adapter(id) /\ resolve_adapter(id) # NoRoute
  BY <1>1 DEF resolve, NoRoute, Route
<1>3. PICK base, name : /\ resolve(id) = Route(base, name)
                        /\ base \in engines /\ IsAdapter(base, name)
  BY <1>2 DEF resolve_adapter
<1>4. resolve(id).engine = base /\ resolve(id).adapter = name
  BY <1>3 DEF Route
<1>5. QED
  BY <1>3, <1>4 DEF IsAdapter

-----------------------------------------------------------------------------
(* Before it serves, the registry has read a valid file, and before it has *)
(* read one, it has no model; while it serves, every model of the file     *)
(* runs; it never has an adapter of an engine that does not run.           *)

HasModels == /\ phase = "off" => specs = << >>
             /\ phase \in {"starting", "serving"} => specs # << >>
AllStarted == phase = "serving" => engines = Served
OnRunningEngines == \A a \in adapters \cup loaded : a[1] \in engines

RegistryInv == TypeOK /\ HasModels /\ AllStarted /\ OnRunningEngines

LEMMA RegistryInit == Init => RegistryInv
BY DEF Init, RegistryInv, TypeOK, HasModels, AllStarted, OnRunningEngines, Served

LEMMA BuildStep ==
  ASSUME RegistryInv, build_registry
  PROVE  RegistryInv'
<1>1. PICK config \in Configs :
        \/ IsValid(config) /\ specs' = config /\ phase' = "starting"
        \/ ~IsValid(config) /\ phase' = "failed" /\ UNCHANGED specs
  BY DEF build_registry
<1>2. /\ phase = "off"
      /\ UNCHANGED <<engines, adapters, loaded, table, restarts>>
  BY DEF build_registry
<1>3. specs = << >> /\ engines = {}
  BY <1>2 DEF RegistryInv, HasModels, TypeOK, Served
<1>4. TypeOK'
  BY <1>1, <1>2, <1>3, ConfigType DEF RegistryInv, TypeOK, Served
<1>5. HasModels' /\ AllStarted'
  BY <1>1 DEF HasModels, AllStarted, IsValid
<1>6. OnRunningEngines'
  BY <1>2 DEF RegistryInv, OnRunningEngines
<1>7. QED
  BY <1>4, <1>5, <1>6 DEF RegistryInv

(* A model starts, with its static adapters.                               *)
LEMMA StartModelStep ==
  ASSUME RegistryInv, NEW i \in DOMAIN specs, StartModel(i)
  PROVE  RegistryInv'
<1>1. PICK new : new = {<<specs[i].served_model_id, name>> :
                          name \in ToSet(specs[i].adapters)}
  OBVIOUS
<1>2. /\ phase = "starting"
      /\ engines' = engines \cup {specs[i].served_model_id}
      /\ adapters' = adapters \cup new
      /\ UNCHANGED <<phase, specs, loaded, table, restarts>>
  BY <1>1 DEF StartModel, Starting
<1>3. /\ specs[i].served_model_id \in Served
      /\ new \subseteq Adapters
      /\ \A a \in new : a[1] = specs[i].served_model_id
  BY <1>1, SpecsType DEF RegistryInv, Adapters
<1>4. TypeOK'
  BY <1>2, <1>3 DEF RegistryInv, TypeOK, Served
<1>5. HasModels' /\ AllStarted'
  BY <1>2 DEF RegistryInv, HasModels, AllStarted
<1>6. OnRunningEngines'
  BY <1>2, <1>3 DEF RegistryInv, OnRunningEngines
<1>7. QED
  BY <1>4, <1>5, <1>6 DEF RegistryInv

(* The process serves when every model has started, and not before.        *)
LEMMA ServeStep ==
  ASSUME RegistryInv, Serve
  PROVE  RegistryInv'
BY DEF Serve, RegistryInv, TypeOK, HasModels, AllStarted, OnRunningEngines, Served

(* A request that resolves to a dynamic adapter leaves it in the cache.    *)
LEMMA RequestStep ==
  ASSUME RegistryInv, NEW id \in ModelIds, Request(id)
  PROVE  RegistryInv'
<1>1. PICK adapter : adapter = <<resolve(id).engine, resolve(id).adapter>>
  OBVIOUS
<1>2. /\ phase = "serving" /\ resolve(id).adapter # None
      /\ loaded' = loaded \cup {adapter}
      /\ UNCHANGED <<phase, specs, engines, adapters, table, restarts>>
  BY <1>1 DEF Request
<1>3. adapter[1] \in engines /\ adapter \in Adapters
  BY <1>1, <1>2, AdapterRoute DEF RegistryInv, TypeOK
<1>4. TypeOK'
  BY <1>2, <1>3 DEF RegistryInv, TypeOK, Served
<1>5. QED
  BY <1>2, <1>3, <1>4
     DEF RegistryInv, HasModels, AllStarted, OnRunningEngines, Served

(* The handlers of the administration and the sweep.                       *)
LEMMA RegisterStep ==
  ASSUME RegistryInv, NEW base \in BaseModels, NEW name \in Names, Register(base, name)
  PROVE  RegistryInv'
<1>1. /\ table' = table \cup {<<base, name>>}
      /\ UNCHANGED <<phase, specs, engines, adapters, loaded, restarts>>
  BY DEF Register
<1>2. base \in Seq(Segments)
  BY ConfigType DEF BaseModels
<1>3. table' \in SUBSET Adapters
  BY <1>1, <1>2 DEF RegistryInv, TypeOK, Adapters
<1>4. QED
  BY <1>1, <1>3
     DEF RegistryInv, TypeOK, HasModels, AllStarted, OnRunningEngines, Served

LEMMA ForgetStep ==
  ASSUME RegistryInv, loaded' \subseteq loaded, table' \subseteq table,
         UNCHANGED <<phase, specs, engines, adapters>>, restarts' \in Nat
  PROVE  RegistryInv'
BY DEF RegistryInv, TypeOK, HasModels, AllStarted, OnRunningEngines, Served

(* Every step keeps the invariant.                                         *)
LEMMA RegistryStep == RegistryInv /\ [Next]_vars => RegistryInv'
<1> SUFFICES ASSUME RegistryInv, [Next]_vars PROVE RegistryInv'
  OBVIOUS
<1> restarts \in Nat
  BY DEF RegistryInv, TypeOK
<1>1. ASSUME NEW i \in DOMAIN specs, StartFails(i)
      PROVE  RegistryInv'
  BY <1>1 DEF StartFails, RegistryInv, TypeOK, HasModels, AllStarted,
              OnRunningEngines, Served
<1>2. ASSUME NEW a \in table, Delete(a)
      PROVE  RegistryInv'
  BY <1>2, ForgetStep DEF Delete
<1>3. ASSUME NEW a \in loaded, Evict(a)
      PROVE  RegistryInv'
  BY <1>3, ForgetStep DEF Evict
<1>4. CASE Restart
  BY <1>4 DEF Restart, RegistryInv, TypeOK, HasModels, AllStarted,
              OnRunningEngines, Served
<1>5. CASE UNCHANGED vars
  BY <1>5, ForgetStep DEF vars
<1>6. QED
  BY <1>1, <1>2, <1>3, <1>4, <1>5, BuildStep, StartModelStep, ServeStep,
     RequestStep, RegisterStep DEF Next

LEMMA RegistryInvariant == Spec => []RegistryInv
BY RegistryInit, RegistryStep, PTL DEF Spec

(* The registry, the cache and the catalog are well typed, and no engine   *)
(* runs that the configuration does not declare.                           *)
THEOREM RegistryTypeCorrect == Spec => []TypeOK
BY RegistryInvariant, PTL DEF RegistryInv

-----------------------------------------------------------------------------
(* An adapter's model id, with a base model without a colon, splits at its *)
(* first colon into the base model and the adapter's name.                 *)
LEMMA AdapterIdSplits ==
  ASSUME NEW a \in Adapters, Len(a[1]) = 1
  PROVE  LET id == a[1] \o a[2]
         IN  /\ Len(id) > 1
             /\ <<Head(id)>> = a[1]
             /\ Tail(id) = a[2]
<1>1. /\ a[1] \in Seq(Segments) /\ a[2] \in Seq(Segments) /\ a[2] # << >>
  BY ConfigAssumption DEF Adapters
<1>2. PICK b, n : b = a[1] /\ n = a[2]
  OBVIOUS
<1>3. /\ b \in Seq(Segments) /\ n \in Seq(Segments) /\ Len(b) = 1 /\ Len(n) > 0
  BY <1>1, <1>2
<1>4. /\ b \o n \in Seq(Segments) /\ Len(b \o n) = 1 + Len(n)
      /\ (b \o n)[1] = b[1]
      /\ \A i \in 1..Len(n) : (b \o n)[i + 1] = n[i]
  <2>1. /\ b \o n \in Seq(Segments) /\ Len(b \o n) = Len(b) + Len(n)
        /\ \A i \in 1..(Len(b) + Len(n)) :
             (b \o n)[i] = IF i <= Len(b) THEN b[i] ELSE n[i - Len(b)]
    BY <1>3, ConcatProperties
  <2>2. Len(n) \in Nat
    BY <1>3
  <2>3. QED
    BY <1>3, <2>1, <2>2
<1>5. b = <<b[1]>>
  BY <1>3
<1>6. Head(b \o n) = b[1]
  BY <1>3, <1>4
<1>7. Tail(b \o n) = n
  <2>1. /\ Tail(b \o n) \in Seq(Segments) /\ Len(Tail(b \o n)) = Len(n)
        /\ \A i \in 1..Len(n) : Tail(b \o n)[i] = (b \o n)[i + 1]
    BY <1>3, <1>4
  <2>2. QED
    BY <1>3, <1>4, <2>1, SeqEqual
<1>8. Len(b \o n) > 1
  BY <1>3, <1>4
<1>9. QED
  BY <1>2, <1>5, <1>6, <1>7, <1>8, Zenon

(* Whatever is advertised is routed to the engine and the adapter it names,*)
(* whatever tags the file has and whatever earlier processes registered.   *)
THEOREM AdvertisedRoutes == Spec => []AdvertisedIsRouted
<1>1. RegistryInv => AdvertisedIsRouted
  <2> SUFFICES ASSUME RegistryInv, phase = "serving", NoColon, NEW id \in list_ids
               PROVE  resolve(id) = IF Len(id) = 1 THEN Route(id, None)
                                    ELSE Route(<<Head(id)>>, Tail(id))
    BY DEF AdvertisedIsRouted
  <2>1. engines = Served
    BY DEF RegistryInv, AllStarted
  <2>2. CASE id \in Served
    <3>1. Len(id) = 1 /\ id \in engines
      BY <2>1, <2>2, Zenon DEF NoColon
    <3>2. QED
      BY <3>1 DEF resolve, resolve_model
  <2>3. ASSUME NEW a \in adapters \cup loaded, id = a[1] \o a[2]
        PROVE  resolve(id) = Route(<<Head(id)>>, Tail(id)) /\ Len(id) # 1
    <3>1. a \in Adapters /\ a[1] \in engines /\ Len(a[1]) = 1
      BY <2>1 DEF RegistryInv, TypeOK, OnRunningEngines, NoColon
    <3>2. Len(id) > 1 /\ <<Head(id)>> = a[1] /\ Tail(id) = a[2]
      BY <2>3, <3>1, AdapterIdSplits
    <3>3. a = <<a[1], a[2]>>
      BY <3>1 DEF Adapters
    <3>4. IsAdapter(<<Head(id)>>, Tail(id))
      BY <3>2, <3>3 DEF IsAdapter
    <3>5. Len(id) \in Nat
      BY <2>3, <3>1, ConfigAssumption DEF Adapters
    <3>6. QED
      BY <3>1, <3>2, <3>4, <3>5 DEF resolve, resolve_adapter
  <2>4. QED
    BY <2>2, <2>3 DEF list_ids
<1>2. QED
  BY <1>1, RegistryInvariant, PTL
=============================================================================
