---------------------------- MODULE GatewayProofs ----------------------------
(***************************************************************************)
(* Theorems about one gateway process with its clients: it is a sole       *)
(* process of AdapterCache, so what AdapterServiceProofs says of one holds *)
(* here whatever the clients do, and the hits of an adapter are the calls  *)
(* that were given it.                                                     *)
(***************************************************************************)
EXTENDS Gateway, AdapterServiceProofs

(* The gateway's process is the only one.                                  *)
LEMMA GatewayIsSole ==
  Sole \in Procs /\ SoleProcess /\ Procs # {} /\ \A p \in Procs : p = Sole
BY GatewayAssumption DEF SoleProcess

-----------------------------------------------------------------------------
(* Whatever a gateway does, its adapters take a step of AdapterCache.      *)

LEMMA GatewayStep ==
  ASSUME [GatewayNext]_gateway_vars
  PROVE  [Next]_vars
<1> USE GatewayIsSole
<1> HIDE DEF Sole
<1>1. ASSUME NEW c \in Calls, Arrive(c)
      PROVE  [Next]_vars
  <2>1. PICK k \in Keys : \/ Unauthorized(c, k) \/ TooMany(c, k)
                          \/ ArriveStatic(c, k) \/ ArriveDynamic(c, k)
                          \/ ArriveUnknown(c, k)
    BY <1>1 DEF Arrive
  <2>2. CASE UNCHANGED vars
    BY <2>2
  <2>3. CASE ResolveStatic(Sole, k) \/ ResolveCached(Sole, k) \/ ResolveMiss(Sole, k)
    BY <2>3 DEF Next, Resolve
  <2>4. QED
    BY <2>1, <2>2, <2>3
       DEF Unauthorized, TooMany, ArriveStatic, ArriveDynamic, ArriveUnknown
<1>2. ASSUME NEW c \in Calls, Proceed(c)
      PROVE  Next
  BY <1>2 DEF Proceed, Next, Resolve
<1>3. ASSUME NEW c \in Calls, ResolutionFails(c)
      PROVE  Next
  BY <1>3 DEF ResolutionFails, Next, Resolve
<1>4. ASSUME NEW c \in Calls, Finish(c)
      PROVE  UNCHANGED vars
  BY <1>4 DEF Finish
<1>5. CASE Background
  BY <1>5 DEF Background, Next
<1>6. CASE GatewayRestart
  BY <1>6 DEF GatewayRestart, Next
<1>7. CASE Clock
  BY <1>7 DEF Clock
<1>8. CASE UNCHANGED gateway_vars
  BY <1>8 DEF gateway_vars
<1>9. QED
  BY <1>1, <1>2, <1>3, <1>4, <1>5, <1>6, <1>7, <1>8 DEF GatewayNext

(* A gateway's behaviours are behaviours of AdapterCache: the limiter and  *)
(* the calls restrict which adapter handlers run, and change nothing else. *)
THEOREM GatewayIsAdapterCache == GatewaySpec => Spec
<1>1. GatewayInit => Init
  BY DEF GatewayInit
<1>2. [GatewayNext]_gateway_vars => [Next]_vars
  BY GatewayStep
<1>3. QED
  BY <1>1, <1>2, PTL DEF GatewaySpec, Spec

(* In a gateway a lora_int_id names one adapter on each engine.            *)
THEOREM GatewayIdsNameOneAdapter == GatewaySpec => []LoraIdNamesOneAdapter
BY GatewayIsAdapterCache, IdsNameOneAdapter, PTL

(* In a gateway a cached adapter has its row: DELETE takes effect at once. *)
THEOREM GatewayCacheFollowsCatalog == GatewaySpec => []CachedHasRow
BY GatewayIsAdapterCache, GatewayIsSole, CacheFollowsCatalog, PTL

(* In a gateway the sweep evicts only what has been idle past the limit.   *)
THEOREM GatewaySweepSpares == GatewaySpec => SweepSparesRecentlyUsed
BY GatewayIsAdapterCache, GatewayIsSole, SweepSpares, PTL

(* A gateway implements AdapterService, failing statements included.       *)
THEOREM GatewayImplementsService == GatewaySpec => ImplementsAdapterService
BY GatewayIsAdapterCache, GatewayIsSole, ServiceImplemented, PTL

-----------------------------------------------------------------------------
(* Types.                                                                  *)

CallRecord == [stage : Stages, key : Keys \cup {NoRow},
               adapter : LoRARequest \cup {NoAdapter}, row : Rids \cup {NoRow}]
LimiterType == /\ now \in Nat
               /\ accepted \in [Clients -> Seq(Nat)]
               /\ answer \in [Clients -> {"none", "admitted", "rejected"}]
CallType == call \in [Calls -> CallRecord]

LEMMA SetType ==
  ASSUME CallType, NEW c \in Calls, NEW record \in CallRecord, Set(c, record)
  PROVE  CallType'
BY DEF CallType, Set

LEMMA AskedType ==
  ASSUME NEW k \in Keys \cup {NoRow}, NEW stage \in Stages
  PROVE  /\ Asked(k, stage) \in CallRecord
         /\ Asked(k, stage).row = NoRow /\ Asked(k, stage).stage = stage
BY DEF Asked, Idle, CallRecord

LEMMA HandedType ==
  ASSUME NEW k \in Keys, NEW lora \in LoRARequest, NEW row \in Rids \cup {NoRow},
         NEW record \in Handed(k, lora, row)
  PROVE  /\ record \in CallRecord /\ record.row = row
         /\ record.stage \in {"generating", "500"}
BY DEF Handed, CallRecord, Stages

(* What a call is answered with when its section ends is well typed, and   *)
(* it names a row only if that row was written.                            *)
LEMMA OutcomeType ==
  ASSUME TypeInv, NEW s, s = section[Sole], s.at \in {"touch", "bump"},
         NEW record \in Outcomes(s)
  PROVE  /\ record \in CallRecord
         /\ record.row # NoRow => /\ s.at = "bump" /\ Exists(s.rid) /\ record.row = s.rid
                                  /\ record.stage \in {"generating", "500"}
         /\ s.at = "bump" /\ Exists(s.rid) => record.row = s.rid
<1>1. s \in Section /\ s.key \in Keys /\ loaded[Sole][s.key] \in LoRARequest
  BY GatewayIsSole, SectionFields DEF TypeInv, TypeOK, HandsOutCached, Cached
<1>2. CASE s.at = "bump" /\ ~Exists(s.rid)
  BY <1>1, <1>2, AskedType DEF Outcomes, Stages
<1>3. CASE s.at = "bump" /\ Exists(s.rid)
  <2>1. s.rid \in Rids
    BY <1>1, <1>3, SectionFields
  <2>2. record \in Handed(s.key, loaded[Sole][s.key], s.rid)
    BY <1>3 DEF Outcomes
  <2>3. QED
    BY <1>1, <1>3, <2>1, <2>2, HandedType
<1>4. CASE s.at = "touch"
  <2>1. record \in Handed(s.key, loaded[Sole][s.key], NoRow)
    BY <1>4 DEF Outcomes
  <2>2. QED
    BY <1>1, <1>4, <2>1, HandedType
<1>5. QED
  BY <1>2, <1>3, <1>4

(* The limiter's part.                                                     *)
LEMMA LimiterStep ==
  ASSUME LimiterType, [GatewayNext]_gateway_vars
  PROVE  LimiterType'
<1>1. ASSUME UNCHANGED limiter PROVE LimiterType'
  BY <1>1 DEF limiter, LimiterType
<1>2. ASSUME NEW c \in Calls, RL!Admit(ClientOf[c])
      PROVE  LimiterType'
  <2>1. ClientOf[c] \in Clients
    BY GatewayAssumption
  <2>2. accepted' \in [Clients -> Seq(Nat)]
    BY <1>2, <2>1 DEF RL!Admit, LimiterType
  <2>3. QED
    BY <1>2, <2>1, <2>2 DEF RL!Admit, LimiterType
<1>3. ASSUME NEW c \in Calls, RL!Reject(ClientOf[c])
      PROVE  LimiterType'
  BY <1>3, GatewayAssumption DEF RL!Reject, LimiterType
<1>4. CASE GatewayRestart
  BY <1>4 DEF GatewayRestart, LimiterType
<1>5. CASE Clock
  BY <1>5 DEF Clock, RL!Tick, LimiterType
<1>6. ASSUME NEW c \in Calls, Arrive(c)
      PROVE  LimiterType'
  BY <1>1, <1>2, <1>3, <1>6
     DEF Arrive, Unauthorized, TooMany, ArriveStatic, ArriveDynamic, ArriveUnknown
<1>7. ASSUME NEW c \in Calls, Proceed(c) \/ ResolutionFails(c) \/ Finish(c)
      PROVE  LimiterType'
  BY <1>1, <1>7 DEF Proceed, ResolutionFails, Finish
<1>8. CASE Background
  BY <1>1, <1>8 DEF Background
<1>9. CASE UNCHANGED gateway_vars
  BY <1>1, <1>9 DEF gateway_vars
<1>10. QED
  BY <1>4, <1>5, <1>6, <1>7, <1>8, <1>9 DEF GatewayNext

(* The calls' part.                                                        *)
LEMMA CallStep ==
  ASSUME TypeInv, CallType, [GatewayNext]_gateway_vars
  PROVE  CallType'
<1>1. ASSUME UNCHANGED call PROVE CallType'
  BY <1>1 DEF CallType
<1>2. ASSUME NEW c \in Calls, NEW k \in Keys \cup {NoRow}, NEW stage \in Stages,
             Set(c, Asked(k, stage))
      PROVE  CallType'
  BY <1>2, AskedType, SetType
<1>3. ASSUME NEW c \in Calls, Arrive(c)
      PROVE  CallType'
  <2>1. PICK k \in Keys : \/ Unauthorized(c, k) \/ TooMany(c, k)
                          \/ ArriveStatic(c, k) \/ ArriveDynamic(c, k)
                          \/ ArriveUnknown(c, k)
    BY <1>3 DEF Arrive
  <2>2. CASE ArriveStatic(c, k)
    <3>1. PICK record \in Handed(k, StaticAdapter(k), NoRow) : Set(c, record)
      BY <2>2 DEF ArriveStatic
    <3>2. StaticAdapter(k) \in LoRARequest
      BY <2>2, StaticAdapterType DEF ArriveStatic, ResolveStatic
    <3>3. QED
      BY <3>1, <3>2, HandedType, SetType
  <2>3. QED
    BY <1>2, <2>1, <2>2
       DEF Unauthorized, TooMany, ArriveDynamic, ArriveUnknown, Stages
<1>4. ASSUME NEW c \in Calls, Proceed(c)
      PROVE  CallType'
  <2>1. CASE section'[Sole] = Free
    <3>1. section[Sole].at # "fill"
      BY <1>4, <2>1, GatewayIsSole
         DEF Proceed, Fill, TakeId, TouchRead, TouchWrite, Goto, At, Free, TypeInv, TypeOK
    <3>2. section[Sole].at \in {"touch", "bump"}
      BY <1>4, <3>1 DEF Proceed, Fill, TakeId, TouchRead, TouchWrite, At
    <3>3. QED
      BY <1>4, <2>1, <3>2, OutcomeType, SetType DEF Proceed
  <2>2. QED
    BY <1>1, <1>4, <2>1 DEF Proceed
<1>5. ASSUME NEW c \in Calls, ResolutionFails(c)
      PROVE  CallType'
  <2>1. call[c].key \in Keys \cup {NoRow}
    BY DEF CallType, CallRecord
  <2>2. QED
    BY <1>2, <1>5, <2>1 DEF ResolutionFails, Stages
<1>6. ASSUME NEW c \in Calls, Finish(c)
      PROVE  CallType'
  <2>1. PICK status \in {"done", "500"} : call' = [call EXCEPT ![c].stage = status]
    BY <1>6 DEF Finish
  <2>2. [call[c] EXCEPT !.stage = status] \in CallRecord
    BY DEF CallType, CallRecord, Stages
  <2>3. QED
    BY <2>1, <2>2 DEF CallType
<1>7. CASE Background
  <2>1. \A c \in Calls : [call[c] EXCEPT !.row = NoRow] \in CallRecord
    BY DEF CallType, CallRecord
  <2>2. QED
    BY <1>7, <2>1 DEF Background, Forget, CallType
<1>8. CASE GatewayRestart
  <2>1. \A c \in Calls : [call[c] EXCEPT !.stage = "lost"] \in CallRecord
    BY DEF CallType, CallRecord, Stages
  <2>2. QED
    BY <1>8, <2>1 DEF GatewayRestart, CallType
<1>9. CASE Clock \/ UNCHANGED gateway_vars
  BY <1>1, <1>9 DEF Clock, gateway_vars
<1>10. QED
  BY <1>3, <1>4, <1>5, <1>6, <1>7, <1>8, <1>9 DEF GatewayNext

(* The states of a gateway are well typed: in particular an engine is only *)
(* ever given a LoRARequest that was cached or is static.                  *)
THEOREM GatewayTypeCorrect == GatewaySpec => []GatewayTypeOK
<1>1. GatewayInit => LimiterType /\ CallType
  BY DEF GatewayInit, RL!Init, LimiterType, CallType, CallRecord, Idle, Stages
<1>2. TypeInv /\ LimiterType /\ CallType /\ [GatewayNext]_gateway_vars
        => (LimiterType /\ CallType)'
  BY LimiterStep, CallStep
<1>3. TypeOK /\ LimiterType /\ CallType => GatewayTypeOK
  BY DEF GatewayTypeOK, LimiterType, CallType, CallRecord
<1>4. GatewaySpec => [](TypeInv /\ LimiterType /\ CallType)
  BY <1>1, <1>2, GatewayIsAdapterCache, TypeInvariant, PTL DEF GatewaySpec
<1>5. TypeInv => TypeOK
  BY DEF TypeInv
<1>6. QED
  BY <1>3, <1>4, <1>5, PTL

-----------------------------------------------------------------------------
(* Hits are calls.  A call that names a row is past its resolution, and    *)
(* its row is there; finitely many calls name one.                         *)

Users(r) == {c \in Calls : call[c].row = r}
Counted == {c \in Calls : call[c].row # NoRow}
CallInv ==
  /\ \A c \in Counted : /\ call[c].stage \notin {"idle", "429", "resolving"}
                        /\ Exists(call[c].row)
  /\ IsFiniteSet(Counted)
  /\ HitsAreCalls

(* Nobody's row changes, or a call loses the one it had.                   *)
LEMMA SameUsers ==
  ASSUME CallInv, CallType, CallType',
         \A c \in Calls : call'[c].row = call[c].row \/ call'[c].row = NoRow,
         \A c \in Calls : call'[c].row # NoRow =>
           /\ Exists(call[c].row)'
           /\ call'[c].stage \notin {"idle", "429", "resolving"},
         \A c \in Calls : call'[c].row # call[c].row => db'[call[c].row] = NoRow,
         \A r \in Rids : Exists(r)' => IF Exists(r) THEN db'[r].hits = db[r].hits
                                       ELSE db'[r].hits = 0
  PROVE  CallInv'
<1>1. Counted' \subseteq Counted
  BY DEF Counted
<1>2. IsFiniteSet(Counted')
  BY <1>1, FS_Subset DEF CallInv
<1>3. ASSUME NEW r \in Rids, Exists(r)'
      PROVE  Users(r)' = Users(r)
  BY <1>3, SentinelAssumption DEF Users, Exists
<1>4. ASSUME NEW r \in Rids, ~Exists(r)
      PROVE  Cardinality(Users(r)) = 0
  <2>1. Users(r) = {}
    BY <1>4, SentinelAssumption DEF CallInv, Counted, Users
  <2>2. QED
    BY <2>1, FS_EmptySet
<1>5. ASSUME NEW r \in Rids, Exists(r)'
      PROVE  db'[r].hits = Cardinality(Users(r)')
  <2>1. CASE Exists(r)
    BY <1>3, <1>5, <2>1 DEF CallInv, HitsAreCalls, Users
  <2>2. CASE ~Exists(r)
    BY <1>3, <1>4, <1>5, <2>2
  <2>3. QED
    BY <2>1, <2>2
<1>6. HitsAreCalls'
  BY <1>5 DEF HitsAreCalls, Users
<1>7. QED
  BY <1>2, <1>6 DEF CallInv, Counted

(* One more call was given the adapter of a row, and its hits say so.      *)
LEMMA OneMoreUser ==
  ASSUME CallInv, CallType, CallType', NEW c \in Calls, call[c].row = NoRow,
         NEW r \in Rids, Exists(r), call'[c].row = r,
         call'[c].stage \notin {"idle", "429", "resolving"},
         \A d \in Calls \ {c} : call'[d] = call[d],
         \A q \in Rids : Exists(q)' <=> Exists(q),
         \A q \in Rids \ {r} : Exists(q) => db'[q].hits = db[q].hits,
         db'[r].hits = db[r].hits + 1
  PROVE  CallInv'
<1>1. Counted' = Counted \cup {c} /\ c \notin Counted
  BY SentinelAssumption DEF Counted
<1>2. IsFiniteSet(Counted')
  BY <1>1, FS_AddElement DEF CallInv
<1>3. Users(r)' = Users(r) \cup {c} /\ c \notin Users(r)
  BY SentinelAssumption DEF Users
<1>4. IsFiniteSet(Users(r))
  <2>1. Users(r) \subseteq Counted
    BY SentinelAssumption DEF Users, Counted
  <2>2. QED
    BY <2>1, FS_Subset DEF CallInv
<1>5. Cardinality(Users(r)') = Cardinality(Users(r)) + 1
  BY <1>3, <1>4, FS_AddElement
<1>6. \A q \in Rids \ {r} : Users(q)' = Users(q)
  BY SentinelAssumption DEF Users
<1>7. db'[r].hits = Cardinality(Users(r)')
  BY <1>5 DEF CallInv, HitsAreCalls, Users
<1>8. ASSUME NEW q \in Rids \ {r}, Exists(q)'
      PROVE  db'[q].hits = Cardinality(Users(q)')
  BY <1>6, <1>8 DEF CallInv, HitsAreCalls, Users
<1>9. HitsAreCalls'
  BY <1>7, <1>8 DEF HitsAreCalls, Users
<1>10. \A d \in Counted' : /\ call'[d].stage \notin {"idle", "429", "resolving"}
                           /\ Exists(call[d].row)'
  <2>1. \A d \in Counted : call[d].row \in Rids
    BY DEF Counted, CallType, CallRecord
  <2>2. QED
    BY <1>1, <2>1 DEF CallInv, Counted
<1>11. QED
  BY <1>2, <1>9, <1>10 DEF CallInv

(* What admin handlers, the sweep and time do to the counts.               *)
LEMMA BackgroundHits ==
  ASSUME TypeInv, TypeOK, Background
  PROVE  \A r \in Rids : Exists(r)' => IF Exists(r) THEN db'[r].hits = db[r].hits
                                       ELSE db'[r].hits = 0
<1>1. PICK s \in Section : s = section[Sole]
  BY GatewayIsSole DEF TypeOK
<1>2. CASE UNCHANGED db
  BY <1>2 DEF Exists
<1>3. ASSUME NEW r \in Rids, Exists(r), NEW row, row.hits = db[r].hits,
             db' = [db EXCEPT ![r] = row]
      PROVE  \A q \in Rids : Exists(q)' => IF Exists(q) THEN db'[q].hits = db[q].hits
                                           ELSE db'[q].hits = 0
  BY <1>3 DEF Exists, TypeOK, Table
<1>4. CASE InsertRow(Sole)
  <2>1. PICK new : new = [key |-> s.key, repo |-> s.repo, status |-> "registered",
                          hits |-> 0, lastUsed |-> "never"]
    OBVIOUS
  <2>2. new.hits = 0
    BY <2>1
  <2>3. ASSUME NEW r \in Rids, ~Exists(r), db' = [db EXCEPT ![r] = new]
        PROVE  \A q \in Rids : Exists(q)' => IF Exists(q) THEN db'[q].hits = db[q].hits
                                             ELSE db'[q].hits = 0
    BY <2>2, <2>3 DEF Exists, TypeOK, Table
  <2>4. QED
    BY <1>1, <1>2, <1>4, <2>1, <2>3 DEF InsertRow
<1>5. CASE UpdateRow(Sole)
  <2>1. s.rid \in Rids
    BY <1>1, <1>5, SectionFields DEF UpdateRow, At
  <2>2. CASE Exists(s.rid) /\ db' = [db EXCEPT ![s.rid] = Updated(db[s.rid], s)]
    <3>1. db[s.rid] \in Row
      BY <2>1, <2>2 DEF Exists, TypeOK, Table
    <3>2. Updated(db[s.rid], s).hits = db[s.rid].hits
      BY <3>1 DEF Updated, Row
    <3>3. QED
      BY <1>3, <2>1, <2>2, <3>2
  <2>3. QED
    BY <1>1, <1>2, <1>5, <2>2 DEF UpdateRow
<1>6. CASE DeleteRow(Sole)
  BY <1>6 DEF DeleteRow, Exists, TypeOK, Table
<1>7. CASE SweepMark(Sole)
  <2>1. s.held \in Rids
    BY <1>1, <1>7, SectionFields DEF SweepMark, At
  <2>2. CASE Exists(s.held) /\ db' = [db EXCEPT ![s.held] = Marked(db[s.held])]
    <3>1. db[s.held] \in Row
      BY <2>1, <2>2 DEF Exists, TypeOK, Table
    <3>2. Marked(db[s.held]).hits = db[s.held].hits
      BY <3>1 DEF Marked, Row
    <3>3. QED
      BY <1>3, <2>1, <2>2, <3>2
  <2>3. QED
    BY <1>1, <1>2, <1>7, <2>2 DEF SweepMark
<1>8. ASSUME NEW r \in Rids, Age(r)
      PROVE  \A q \in Rids : Exists(q)' => IF Exists(q) THEN db'[q].hits = db[q].hits
                                           ELSE db'[q].hits = 0
  BY <1>8, AgeRows DEF Exists
<1>9. CASE SweepFails(Sole) \/ RequestFails(Sole)
  BY <1>2, <1>9 DEF SweepFails, RequestFails
<1>10. ASSUME Admin(Sole), ~InsertRow(Sole), ~UpdateRow(Sole), ~DeleteRow(Sole)
       PROVE  UNCHANGED db
  BY <1>10 DEF Admin, Register, Delete
<1>11. ASSUME Sweep(Sole), ~SweepMark(Sole)
       PROVE  UNCHANGED db
  BY <1>11 DEF Sweep, SweepSelect, SweepEvict, SweepRead, SweepLog
<1>12. QED
  BY <1>2, <1>4, <1>5, <1>6, <1>7, <1>8, <1>9, <1>10, <1>11 DEF Background

(* Every step of the gateway keeps the counts.                             *)
LEMMA CallInvStep ==
  ASSUME TypeInv, TypeInv', ServiceInv, CallType, CallType', CallInv,
         [GatewayNext]_gateway_vars
  PROVE  CallInv'
<1>1. TypeOK /\ SoleInv /\ AllInHand /\ Sole \in Procs
  BY GatewayIsSole DEF ServiceInv, TypeInv
<1>2. ASSUME UNCHANGED db,
             \A c \in Calls : /\ call'[c].row = call[c].row
                             /\ \/ call'[c].stage = call[c].stage
                                \/ call'[c].stage \notin {"idle", "429", "resolving"}
                                \/ call[c].row = NoRow
      PROVE  CallInv'
  BY <1>2, SameUsers DEF CallInv, Counted, Exists
<1>3. ASSUME UNCHANGED db, NEW c \in Calls, NEW record, Set(c, record),
             call[c].row = NoRow, record.row = NoRow
      PROVE  CallInv'
  BY <1>2, <1>3 DEF Set, CallType
<1>4. ASSUME NEW c \in Calls, Arrive(c)
      PROVE  CallInv'
  <2>1. PICK k \in Keys : \/ Unauthorized(c, k) \/ TooMany(c, k)
                          \/ ArriveStatic(c, k) \/ ArriveDynamic(c, k)
                          \/ ArriveUnknown(c, k)
    BY <1>4 DEF Arrive
  <2>2. UNCHANGED db /\ Sends(c)
    BY <2>1 DEF Unauthorized, TooMany, ArriveStatic, ArriveDynamic, ArriveUnknown, vars,
                ResolveStatic, ResolveCached, ResolveMiss
  <2>3. call[c].row = NoRow
    BY <2>2 DEF Sends, CallInv, Counted
  <2>4. \A stage \in Stages : Asked(k, stage).row = NoRow
    BY AskedType
  <2>5. CASE ArriveStatic(c, k)
    <3>1. PICK record \in Handed(k, StaticAdapter(k), NoRow) : Set(c, record)
      BY <2>5 DEF ArriveStatic
    <3>2. record.row = NoRow
      BY <3>1 DEF Handed
    <3>3. QED
      BY <1>3, <2>2, <2>3, <3>1, <3>2
  <2>6. QED
    BY <1>3, <2>1, <2>2, <2>3, <2>4, <2>5
       DEF Unauthorized, TooMany, ArriveDynamic, ArriveUnknown, Stages
<1>5. ASSUME NEW c \in Calls, Proceed(c)
      PROVE  CallInv'
  <2>1. call[c].row = NoRow
    BY <1>5 DEF Proceed, CallInv, Counted
  <2>2. PICK s \in Section : s = section[Sole]
    BY <1>1 DEF TypeOK
  <2>3. CASE Fill(Sole)
    <3>1. section'[Sole].at = "touch"
      BY <1>1, <2>3 DEF Fill, TakeId, Goto, TypeOK
    <3>2. UNCHANGED <<db, call>>
      BY <1>5, <2>3, <3>1 DEF Proceed, Fill, TakeId, Free
    <3>3. QED
      BY <1>2, <3>2
  <2>4. CASE TouchRead(Sole)
    <3>1. UNCHANGED db /\ s.at = "touch"
      BY <2>2, <2>4 DEF TouchRead, At
    <3>2. CASE UNCHANGED call
      BY <1>2, <3>1, <3>2
    <3>3. ASSUME NEW record \in Outcomes(s), Set(c, record)
          PROVE  CallInv'
      <4>1. record.row = NoRow
        BY <2>2, <3>1, OutcomeType
      <4>2. QED
        BY <1>3, <2>1, <3>1, <3>3, <4>1
    <3>4. QED
      BY <1>5, <2>2, <3>2, <3>3 DEF Proceed
  <2>5. CASE TouchWrite(Sole)
    <3>1. /\ s.at = "bump" /\ s.rid \in Rids /\ s.hits \in Nat
          /\ Exists(s.rid) /\ s.hits = db[s.rid].hits
      BY <1>1, <2>2, <2>5, SectionFields
         DEF TouchWrite, At, SoleInv, SectionCurrent
    <3>2. section'[Sole] = Free
      BY <1>1, <2>5 DEF TouchWrite, Goto, TypeOK
    <3>3. PICK record \in Outcomes(s) : Set(c, record)
      BY <1>5, <2>2, <3>2 DEF Proceed
    <3>4. record.row = s.rid /\ record.stage \in {"generating", "500"}
      BY <2>2, <3>1, <3>3, OutcomeType, SentinelAssumption
    <3>5. /\ call'[c] = record /\ \A d \in Calls \ {c} : call'[d] = call[d]
      BY <3>3 DEF Set, CallType
    <3>6. db' = [db EXCEPT ![s.rid] = Touched(db[s.rid], s)]
      BY <2>2, <2>5, <3>1 DEF TouchWrite
    <3>7. db[s.rid] \in Row
      BY <1>1, <3>1 DEF Exists, TypeOK, Table
    <3>8. Touched(db[s.rid], s) \in Row /\ Touched(db[s.rid], s).hits = s.hits + 1
      <4>1. Touched(db[s.rid], s) \in Row
        BY <3>1, <3>7, TouchedType
      <4>2. Touched(db[s.rid], s).hits = s.hits + 1
        BY <3>7 DEF Touched, Row
      <4>3. QED
        BY <4>1, <4>2
    <3>9. /\ db'[s.rid].hits = db[s.rid].hits + 1 /\ Exists(s.rid)'
          /\ \A q \in Rids \ {s.rid} : db'[q] = db[q]
      BY <1>1, <3>1, <3>6, <3>8, SentinelAssumption DEF Exists, TypeOK, Table
    <3>10. \A q \in Rids : Exists(q)' <=> Exists(q)
      BY <2>2, <3>1, <3>9 DEF Exists
    <3>11. QED
      BY <2>1, <3>1, <3>4, <3>5, <3>9, <3>10, OneMoreUser
  <2>6. QED
    BY <1>5, <2>3, <2>4, <2>5 DEF Proceed
<1>6. ASSUME NEW c \in Calls, ResolutionFails(c)
      PROVE  CallInv'
  <2>1. call[c].row = NoRow /\ UNCHANGED db
    BY <1>6 DEF ResolutionFails, CallInv, Counted, DownloadFails, RequestFails
  <2>2. Asked(call[c].key, "500").row = NoRow
    BY AskedType DEF CallType, CallRecord, Stages
  <2>3. QED
    BY <1>3, <1>6, <2>1, <2>2 DEF ResolutionFails
<1>7. ASSUME NEW c \in Calls, Finish(c)
      PROVE  CallInv'
  <2>1. PICK status \in {"done", "500"} : call' = [call EXCEPT ![c].stage = status]
    BY <1>7 DEF Finish
  <2>2. \A d \in Calls : call'[d].row = call[d].row
                         /\ (call'[d].stage = call[d].stage \/ call'[d].stage = status)
    BY <2>1 DEF CallType, CallRecord
  <2>3. UNCHANGED db
    BY <1>7 DEF Finish, vars
  <2>4. QED
    BY <1>2, <2>2, <2>3
<1>8. CASE Background
  <2>1. \A c \in Calls : /\ call'[c].stage = call[c].stage
                         /\ IF call[c].row # NoRow /\ db'[call[c].row] = NoRow
                            THEN call'[c].row = NoRow ELSE call'[c].row = call[c].row
    BY <1>8 DEF Background, Forget, CallType, CallRecord
  <2>2. \A c \in Calls : call'[c].row # NoRow =>
          /\ Exists(call[c].row)'
          /\ call'[c].stage \notin {"idle", "429", "resolving"}
    BY <2>1 DEF CallInv, Counted, Exists
  <2>3. QED
    BY <1>1, <1>8, <2>1, <2>2, BackgroundHits, SameUsers
<1>9. CASE GatewayRestart
  <2>1. \A c \in Calls : /\ call'[c].row = call[c].row
                         /\ call'[c].stage = call[c].stage \/ call'[c].stage = "lost"
    BY <1>9 DEF GatewayRestart, CallType, CallRecord
  <2>2. UNCHANGED db
    BY <1>9 DEF GatewayRestart, Restart
  <2>3. QED
    BY <1>2, <2>1, <2>2
<1>10. CASE Clock \/ UNCHANGED gateway_vars
  BY <1>2, <1>10 DEF Clock, gateway_vars, vars
<1>11. QED
  BY <1>4, <1>5, <1>6, <1>7, <1>8, <1>9, <1>10 DEF GatewayNext

(* The hits of an adapter are the calls that were given it, each of them   *)
(* once, for any number of clients, calls, adapters and rows, whatever     *)
(* fails and however often the process restarts.                           *)
THEOREM GatewayHitsAreCalls == GatewaySpec => []HitsAreCalls
<1>1. GatewayInit => CallType /\ CallInv
  <2> SUFFICES ASSUME GatewayInit PROVE CallType /\ CallInv
    OBVIOUS
  <2>1. CallType
    BY DEF GatewayInit, CallType, CallRecord, Idle, Stages
  <2>2. Counted = {}
    BY DEF GatewayInit, Counted, Idle
  <2>3. \A r \in Rids : ~Exists(r)
    BY DEF GatewayInit, Init, Exists
  <2>4. QED
    BY <2>1, <2>2, <2>3, FS_EmptySet DEF CallInv, HitsAreCalls
<1>2. /\ TypeInv /\ TypeInv' /\ ServiceInv /\ CallType /\ CallInv
      /\ [GatewayNext]_gateway_vars
      => (CallType /\ CallInv)'
  BY CallStep, CallInvStep
<1>3. GatewaySpec => [](TypeInv /\ ServiceInv)
  <2>1. Spec => []ServiceInv
    BY ServiceInvariant, GatewayIsSole
  <2>2. QED
    BY <2>1, GatewayIsAdapterCache, TypeInvariant, PTL
<1>4. CallInv => HitsAreCalls
  BY DEF CallInv
<1>5. QED
  BY <1>1, <1>2, <1>3, <1>4, PTL DEF GatewaySpec
=============================================================================
