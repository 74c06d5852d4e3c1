------------------------------ MODULE MCRegistry ------------------------------
(* Configurations of up to two models: a tag may be the id of the other    *)
(* model, one model may have the static adapter "x", and ids may repeat.   *)
EXTENDS Registry

CONSTANTS a, b, x, y

Model(id, tag, names, slots) ==
  [served_model_id |-> id, capability |-> tag, adapters |-> names,
   max_dynamic_adapters |-> slots]

MCNames == {<<x>>, <<x, y>>}

MCModels(ids) ==
  {Model(id, tag, names, 1) : id \in ids, tag \in {<<a>>, <<b>>, <<y>>},
                              names \in {<< >>, << <<x>> >>}}
UpToTwo(models) ==
  {<< >>} \cup {<<m>> : m \in models} \cup {<<m, n>> : m, n \in models}

MCConfigs == UpToTwo(MCModels({<<a>>, <<b>>}))

(* models.yaml: general has room for LoRA adapters, code has none.         *)
MCShipped == {<<Model(<<a>>, <<a>>, << >>, 3), Model(<<b>>, <<b>>, << >>, 0)>>}
=============================================================================
