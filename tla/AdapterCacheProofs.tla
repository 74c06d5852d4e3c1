------------------------- MODULE AdapterCacheProofs -------------------------
(***************************************************************************)
(* Theorems about AdapterCache, for any number of processes, adapters,     *)
(* repositories and rows.                                                  *)
(***************************************************************************)
EXTENDS AdapterCache, TLAPS

(* What a section holds, by where it stands.                               *)
LEMMA SectionFields ==
  ASSUME NEW s \in Section
  PROVE  /\ s.at \in {"fill", "insert"} => s.key \in Keys /\ s.repo \in Repos
         /\ s.at = "touch" => s.key \in Keys
         /\ s.at = "bump" => /\ s.key \in Keys /\ s.rid \in Rids
                             /\ s.hits \in Nat /\ s.status \in Status
         /\ s.at = "update" => /\ s.rid \in Rids /\ s.repo \in Repos
                               /\ s.oldRepo \in Repos /\ s.status \in Status
         /\ s.at = "delete" => s.key \in Keys /\ s.rid \in Rids
         /\ s.at = "sweep" => s.rows \in Visits /\ s.fresh \in BOOLEAN
         /\ s.at = "mark" => /\ s.key \in Keys /\ s.rid \in Rids
                             /\ s.status \in Status
                             /\ s.rows \in Visits /\ s.fresh \in BOOLEAN
         /\ s.at = "idle" => /\ s.rid \in Rids /\ s.held \in Rids
                             /\ s.status \in Status
                             /\ s.rows \in Visits /\ s.fresh \in BOOLEAN
         /\ s.at = "log" => /\ s.rid \in Rids
                            /\ s.rows \in Visits /\ s.fresh \in BOOLEAN
BY DEF Section

(* The id of a static adapter is its position in the list of its model.    *)
LEMMA StaticAdapterType ==
  ASSUME NEW k \in StaticKeys
  PROVE  /\ StaticAdapter(k) \in LoRARequest
         /\ StaticAdapter(k).key = k
         /\ StaticAt(k, StaticAdapter(k).id)
         /\ StaticAdapter(k).id \in DOMAIN StaticList[BaseOf[k]]
         /\ StaticAdapter(k).repo = StaticList[BaseOf[k]][StaticAdapter(k).id].repo
<1> DEFINE list == StaticList[BaseOf[k]]
           i == CHOOSE j \in DOMAIN list : StaticAt(k, j)
<1>1. k \in Keys /\ BaseOf[k] \in Bases /\ list \in Seq([key : Keys, repo : Repos])
  BY ConfigAssumption DEF StaticKeys
<1>2. i \in DOMAIN list /\ StaticAt(k, i)
  BY DEF StaticKeys
<1>3. StaticAdapter(k) = [key |-> k, id |-> i, repo |-> list[i].repo]
  BY DEF StaticAdapter
<1> HIDE DEF i
<1>4. i \in Nat /\ list[i] \in [key : Keys, repo : Repos]
  <2> DEFINE S == [key : Keys, repo : Repos]
  <2> HIDE DEF list, S
  <2>1. list \in Seq(S)
    BY <1>1 DEF S
  <2>2. i \in 1..Len(list)
    BY <1>2, <2>1
  <2>3. i \in Nat /\ list[i] \in S
    BY <2>1, <2>2
  <2>4. QED
    BY <2>3 DEF S
<1>5. list[i].repo \in Repos
  BY <1>4
<1>6. QED
  BY <1>1, <1>2, <1>3, <1>4, <1>5 DEF LoRARequest

(* Typing is inductive once a request about to be handed out is known to   *)
(* be cached.                                                              *)
HandsOutCached ==
  \A p \in Procs : section[p].at \in {"touch", "bump"} => Cached(p, section[p].key)
TypeInv == TypeOK /\ HandsOutCached

(* The initial state is well typed.                                        *)
LEMMA TypeInit == Init => TypeInv
BY IdRangeAssumption
   DEF Init, TypeInv, TypeOK, HandsOutCached, Table, Section, Free

(* A section typed like s replaces that of p.                              *)
LEMMA GotoType ==
  ASSUME TypeOK, NEW p \in Procs, NEW s \in Section, Goto(p, s)
  PROVE  /\ section' \in [Procs -> Section]
         /\ section'[p] = s
         /\ \A q \in Procs \ {p} : section'[q] = section[q]
BY DEF TypeOK, Goto

(* An idle event loop is a section.                                        *)
LEMMA FreeType == Free \in Section /\ Free.at = "free"
BY DEF Free, Section

(* Going on with the remaining rows is a section of the sweep, or its end. *)
LEMMA NextRowType ==
  ASSUME NEW rows \in Visits, NEW fresh \in BOOLEAN
  PROVE  /\ NextRow(rows, fresh) \in Section
         /\ NextRow(rows, fresh).at \in {"free", "sweep"}
BY FreeType DEF NextRow, Section

(* A section that is not about to hand out a request disturbs nothing.     *)
LEMMA MovesOn ==
  ASSUME TypeInv, NEW p \in Procs, NEW s \in Section, Goto(p, s),
         s.at \notin {"touch", "bump"},
         \A q \in Procs \ {p} : loaded'[q] = loaded[q]
  PROVE  section' \in [Procs -> Section] /\ HandsOutCached'
BY GotoType DEF TypeInv, HandsOutCached, Cached

(* The rows written keep the type and the key of the row read.             *)
LEMMA TouchedType ==
  ASSUME NEW row \in Row, NEW s, s.hits \in Nat
  PROVE  Touched(row, s) \in Row /\ Touched(row, s).key = row.key
<1> DEFINE status == IF s.status = "loaded" THEN row.status ELSE "loaded"
<1>1. /\ row.key \in Keys /\ row.repo \in Repos /\ status \in Status
      /\ s.hits + 1 \in Nat
  BY DEF Row, Status
<1>2. Touched(row, s) = [row EXCEPT !.hits = s.hits + 1, !.lastUsed = "recent",
                                    !.status = status]
  BY DEF Touched
<1> HIDE DEF status
<1>3. Touched(row, s) = [key |-> row.key, repo |-> row.repo, status |-> status,
                         hits |-> s.hits + 1, lastUsed |-> "recent"]
  BY <1>2 DEF Row
<1>4. QED
  BY <1>1, <1>3 DEF Row

(* A registration keeps the type and the key of the row.                   *)
LEMMA UpdatedType ==
  ASSUME NEW row \in Row, NEW s, s.repo \in Repos
  PROVE  Updated(row, s) \in Row /\ Updated(row, s).key = row.key
<1> DEFINE repo == IF s.oldRepo = s.repo THEN row.repo ELSE s.repo
           status == IF s.status = "registered" THEN row.status ELSE "registered"
<1>1. /\ row.key \in Keys /\ repo \in Repos /\ status \in Status
      /\ row.hits \in Nat /\ row.lastUsed \in {"never", "recent", "old"}
  BY DEF Row, Status
<1>2. Updated(row, s) = [row EXCEPT !.repo = repo, !.status = status]
  BY DEF Updated
<1> HIDE DEF repo, status
<1>3. Updated(row, s) = [key |-> row.key, repo |-> repo, status |-> status,
                         hits |-> row.hits, lastUsed |-> row.lastUsed]
  BY <1>2 DEF Row
<1>4. QED
  BY <1>1, <1>3 DEF Row

(* mark_idle keeps the type and the key of the row.                        *)
LEMMA MarkedType ==
  ASSUME NEW row \in Row
  PROVE  Marked(row) \in Row /\ Marked(row).key = row.key
BY DEF Marked, Row, Status

(* Resolving an adapter keeps the invariant.                               *)
LEMMA ResolveType ==
  ASSUME TypeInv, NEW p \in Procs, Resolve(p)
  PROVE  TypeInv'
<1> USE DEF TypeInv
<1>1. ASSUME NEW k \in Keys, ResolveStatic(p, k)
      PROVE  TypeInv'
  BY <1>1, StaticAdapterType
     DEF ResolveStatic, TypeOK, HandsOutCached, Cached
<1>2. ASSUME NEW k \in Keys, ResolveCached(p, k)
      PROVE  TypeInv'
  <2>1. [at |-> "touch", key |-> k] \in Section
    BY DEF Section
  <2>2. QED
    BY <1>2, <2>1, GotoType DEF ResolveCached, TypeOK, HandsOutCached, Cached
<1>3. ASSUME NEW k \in Keys, ResolveMiss(p, k)
      PROVE  TypeInv'
  <2>1. PICK r \in get_adapter(k) :
          Goto(p, [at |-> "fill", key |-> k, repo |-> db[r].repo])
    BY <1>3 DEF ResolveMiss
  <2>2. db[r] \in Row
    BY <2>1 DEF get_adapter, TypeOK, Table
  <2>3. [at |-> "fill", key |-> k, repo |-> db[r].repo] \in Section
    BY <2>2 DEF Section, Row
  <2>4. QED
    BY <1>3, <2>1, <2>3, GotoType DEF ResolveMiss, TypeOK, HandsOutCached, Cached
<1>4. ASSUME Fill(p)
      PROVE  TypeInv'
  <2>1. section[p].key \in Keys /\ section[p].repo \in Repos
    BY <1>4, SectionFields DEF Fill, TakeId, At, TypeOK
  <2>2. [at |-> "touch", key |-> section[p].key] \in Section
    BY <2>1 DEF Section
  <2>3. nextId[p] \in Nat
    BY DEF TypeOK
  <2> DEFINE k == section[p].key
             new == [key |-> k, id |-> nextId[p], repo |-> section[p].repo]
  <2>4. new \in LoRARequest
    BY <2>1, <2>3 DEF LoRARequest
  <2>a. loaded' = [loaded EXCEPT ![p][k] = new]
    BY <1>4 DEF Fill, TakeId
  <2> HIDE DEF new
  <2>b. nextId' \in [Procs -> Nat]
    BY <1>4, <2>3 DEF Fill, TakeId, TypeOK
  <2>5. loaded' \in [Procs -> [Keys -> LoRARequest \cup {NoAdapter}]]
    BY <2>1, <2>4, <2>a DEF TypeOK
  <2>6. loaded'[p][k] # NoAdapter
    BY <2>1, <2>4, <2>a, SentinelAssumption DEF TypeOK
  <2>7. \A q \in Procs \ {p} : loaded'[q] = loaded[q]
    BY <2>a DEF TypeOK
  <2>8. TypeOK'
    BY <1>4, <2>2, <2>b, <2>5, GotoType DEF Fill, TakeId, TypeOK
  <2>9. HandsOutCached'
    BY <1>4, <2>2, <2>6, <2>7, GotoType DEF Fill, TakeId, HandsOutCached, Cached
  <2>10. QED
    BY <2>8, <2>9
<1>5. CASE DownloadFails(p)
  BY <1>5, GotoType, FreeType DEF DownloadFails, TypeOK, HandsOutCached, Cached
<1>6. ASSUME NEW k \in Keys, Cached(p, k), HandOut(p, k)
      PROVE  issued' \in [Procs -> SUBSET LoRARequest]
  BY <1>6 DEF HandOut, Cached, TypeOK
<1>7. CASE TouchRead(p)
  <2> DEFINE k == section[p].key
  <2>1. k \in Keys /\ Cached(p, k)
    BY <1>7, SectionFields DEF TouchRead, At, TypeOK, HandsOutCached
  <2>2. CASE HandOut(p, k) /\ Goto(p, Free)
    <3>1. issued' \in [Procs -> SUBSET LoRARequest]
      BY <1>6, <2>1, <2>2
    <3>2. QED
      BY <1>7, <2>2, <3>1, GotoType, FreeType
         DEF TouchRead, TypeOK, HandsOutCached, Cached
  <2>3. ASSUME NEW r \in get_adapter(k), UNCHANGED issued,
               Goto(p, [at |-> "bump", key |-> k, rid |-> r,
                        hits |-> db[r].hits, status |-> db[r].status])
        PROVE  TypeInv'
    <3>1. r \in Rids /\ db[r] \in Row
      BY DEF get_adapter, TypeOK, Table
    <3>2. [at |-> "bump", key |-> k, rid |-> r,
           hits |-> db[r].hits, status |-> db[r].status] \in Section
      BY <2>1, <3>1 DEF Section, Row
    <3>3. QED
      BY <1>7, <2>1, <2>3, <3>2, GotoType
         DEF TouchRead, TypeOK, HandsOutCached, Cached
  <2>4. QED
    BY <1>7, <2>2, <2>3 DEF TouchRead
<1>8. CASE TouchWrite(p)
  <2> DEFINE s == section[p]
  <2>1. s.key \in Keys /\ Cached(p, s.key) /\ s.rid \in Rids /\ s.hits \in Nat
    BY <1>8, SectionFields DEF TouchWrite, At, TypeOK, HandsOutCached
  <2>2. db' \in Table
    <3>1. CASE UNCHANGED db
      BY <3>1 DEF TypeOK
    <3>2. CASE Exists(s.rid)
      <4>1. db[s.rid] \in Row
        BY <2>1, <3>2 DEF Exists, TypeOK, Table
      <4>2. db' = [db EXCEPT ![s.rid] = Touched(db[s.rid], s)]
        BY <1>8, <3>2 DEF TouchWrite
      <4>3. Touched(db[s.rid], s) \in Row
        BY <2>1, <4>1, TouchedType
      <4>4. QED
        BY <2>1, <4>2, <4>3 DEF TypeOK, Table
    <3>3. QED
      BY <1>8, <3>1, <3>2 DEF TouchWrite
  <2>a. uses' \in [Rids -> Nat]
    BY <1>8, <2>1 DEF TouchWrite, TypeOK
  <2>3. issued' \in [Procs -> SUBSET LoRARequest]
    BY <1>8, <1>6, <2>1 DEF TouchWrite, TypeOK
  <2>4. QED
    BY <1>8, <2>2, <2>a, <2>3, GotoType, FreeType
       DEF TouchWrite, TypeOK, HandsOutCached, Cached
<1>9. QED
  BY <1>1, <1>2, <1>3, <1>4, <1>5, <1>7, <1>8 DEF Resolve

(* Evicting keeps the type of the cache.                                   *)
LEMMA EvictType ==
  ASSUME TypeOK, NEW p \in Procs, NEW k \in Keys, Evict(p, k)
  PROVE  /\ loaded' \in [Procs -> [Keys -> LoRARequest \cup {NoAdapter}]]
         /\ \A q \in Procs \ {p} : loaded'[q] = loaded[q]
BY DEF Evict, TypeOK

(* The admin handlers keep the invariant.                                  *)
LEMMA AdminType ==
  ASSUME TypeInv, NEW p \in Procs, Admin(p)
  PROVE  TypeInv'
<1> USE DEF TypeInv
<1> DEFINE s == section[p]
<1>1. ASSUME NEW k \in Keys, NEW repo \in Repos, Register(p, k, repo)
      PROVE  TypeInv'
  <2>1. CASE Goto(p, [at |-> "insert", key |-> k, repo |-> repo])
    <3>1. [at |-> "insert", key |-> k, repo |-> repo] \in Section
      BY DEF Section
    <3>2. QED
      BY <1>1, <2>1, <3>1, GotoType DEF Register, TypeOK, HandsOutCached, Cached
  <2>2. ASSUME NEW r \in get_adapter(k),
               Goto(p, [at |-> "update", rid |-> r, repo |-> repo,
                        oldRepo |-> db[r].repo, status |-> db[r].status])
        PROVE  TypeInv'
    <3>1. r \in Rids /\ db[r] \in Row
      BY DEF get_adapter, TypeOK, Table
    <3>2. [at |-> "update", rid |-> r, repo |-> repo,
           oldRepo |-> db[r].repo, status |-> db[r].status] \in Section
      BY <3>1 DEF Section, Row
    <3>3. QED
      BY <1>1, <2>2, <3>2, GotoType DEF Register, TypeOK, HandsOutCached, Cached
  <2>3. QED
    BY <1>1, <2>1, <2>2 DEF Register
<1>2. CASE InsertRow(p)
  <2>1. s.key \in Keys /\ s.repo \in Repos
    BY <1>2, SectionFields DEF InsertRow, Unique, At, TypeOK
  <2>2. db' \in Table /\ uses' \in [Rids -> Nat]
    <3>1. CASE UNCHANGED <<db, uses>>
      BY <3>1 DEF TypeOK
    <3>2. ASSUME NEW r \in Rids,
                 db' = [db EXCEPT ![r] = [key |-> s.key, repo |-> s.repo,
                                          status |-> "registered", hits |-> 0,
                                          lastUsed |-> "never"]],
                 uses' = [uses EXCEPT ![r] = 0]
          PROVE  db' \in Table /\ uses' \in [Rids -> Nat]
      <4>1. [key |-> s.key, repo |-> s.repo, status |-> "registered", hits |-> 0,
             lastUsed |-> "never"] \in Row
        BY <2>1 DEF Row, Status
      <4>2. QED
        BY <3>2, <4>1 DEF TypeOK, Table
    <3>3. QED
      BY <1>2, <3>1, <3>2 DEF InsertRow, Unique
  <2>3. QED
    BY <1>2, <2>2, GotoType, FreeType DEF InsertRow, Unique, TypeOK, HandsOutCached, Cached
<1>3. CASE UpdateRow(p)
  <2>1. s.rid \in Rids /\ s.repo \in Repos
    BY <1>3, SectionFields DEF UpdateRow, At, TypeOK
  <2>2. db' \in Table
    <3>1. CASE UNCHANGED db
      BY <3>1 DEF TypeOK
    <3>2. CASE Exists(s.rid) /\ db' = [db EXCEPT ![s.rid] = Updated(db[s.rid], s)]
      <4>1. db[s.rid] \in Row
        BY <2>1, <3>2 DEF Exists, TypeOK, Table
      <4>2. Updated(db[s.rid], s) \in Row
        BY <2>1, <4>1, UpdatedType
      <4>3. QED
        BY <2>1, <3>2, <4>2 DEF TypeOK, Table
    <3>3. QED
      BY <1>3, <3>1, <3>2 DEF UpdateRow
  <2>3. QED
    BY <1>3, <2>2, GotoType, FreeType DEF UpdateRow, TypeOK, HandsOutCached, Cached
<1>4. ASSUME NEW k \in Keys, Delete(p, k)
      PROVE  TypeInv'
  <2>1. PICK r \in get_adapter(k) : Goto(p, [at |-> "delete", key |-> k, rid |-> r])
    BY <1>4 DEF Delete
  <2>2. [at |-> "delete", key |-> k, rid |-> r] \in Section
    BY DEF Section, get_adapter
  <2>3. QED
    BY <1>4, <2>1, <2>2, GotoType DEF Delete, TypeOK, HandsOutCached, Cached
<1>5. CASE DeleteRow(p)
  <2>1. s.key \in Keys /\ s.rid \in Rids
    BY <1>5, SectionFields DEF DeleteRow, At, TypeOK
  <2>2. db' \in Table
    BY <1>5, <2>1 DEF DeleteRow, TypeOK, Table
  <2>3. uses' \in [Rids -> Nat]
    BY <1>5, <2>1 DEF DeleteRow, TypeOK
  <2>4. QED
    <3>1. /\ loaded' \in [Procs -> [Keys -> LoRARequest \cup {NoAdapter}]]
          /\ \A q \in Procs \ {p} : loaded'[q] = loaded[q]
      BY <1>5, <2>1, EvictType DEF DeleteRow
    <3>2. section' \in [Procs -> Section] /\ HandsOutCached'
      BY <1>5, <3>1, MovesOn, FreeType DEF DeleteRow
    <3>3. QED
      BY <1>5, <2>2, <2>3, <3>1, <3>2 DEF DeleteRow, TypeOK
<1>6. QED
  BY <1>1, <1>2, <1>3, <1>4, <1>5, ConfigAssumption DEF Admin

(* A turn of the sweep keeps the invariant.                                *)
LEMMA SweepType ==
  ASSUME TypeInv, NEW p \in Procs, Sweep(p)
  PROVE  TypeInv'
<1> USE DEF TypeInv
<1> DEFINE s == section[p]
<1>1. CASE SweepSelect(p)
  <2>1. find_idle_since \in Visits
    BY DEF find_idle_since, Visits, IsIdle, TypeOK, Table, Row
  <2>2. QED
    <3>1. section' \in [Procs -> Section] /\ HandsOutCached'
      BY <1>1, <2>1, NextRowType, MovesOn DEF SweepSelect
    <3>2. QED
      BY <1>1, <3>1 DEF SweepSelect, TypeOK
<1>2. CASE SweepEvict(p)
  <2>1. s.rows \in Visits /\ s.fresh \in BOOLEAN
    BY <1>2, SectionFields DEF SweepEvict, At, TypeOK
  <2>2. CASE SweepDies(p) /\ UNCHANGED loaded
    BY <1>2, <2>2, GotoType, FreeType
       DEF SweepEvict, SweepDies, TypeOK, HandsOutCached, Cached
  <2>3. ASSUME NEW r \in Remaining(s.rows), s.fresh \/ Exists(r),
               Evict(p, VisitedRow(s, r).key),
               Goto(p, [at |-> "mark", key |-> VisitedRow(s, r).key, rid |-> r,
                        status |-> VisitedRow(s, r).status,
                        rows |-> [s.rows EXCEPT ![r] = NoRow], fresh |-> s.fresh]),
               UNCHANGED sweeping
        PROVE  TypeInv'
    <3> DEFINE k == VisitedRow(s, r).key
               st == VisitedRow(s, r).status
               rest == [s.rows EXCEPT ![r] = NoRow]
    <3>1. r \in Rids /\ s.rows[r] \in Keys /\ rest \in Visits
      BY <2>1 DEF Remaining, Visits
    <3>2. k \in Keys /\ st \in Status
      BY <2>3, <3>1 DEF VisitedRow, Exists, TypeOK, Table, Row, Status
    <3>3. [at |-> "mark", key |-> k, rid |-> r, status |-> st,
           rows |-> rest, fresh |-> s.fresh] \in Section
      BY <2>1, <3>1, <3>2 DEF Section
    <3> HIDE DEF k, st, rest
    <3>4. QED
      BY <1>2, <2>3, <3>2, <3>3, EvictType, GotoType
         DEF SweepEvict, TypeOK, HandsOutCached, Cached, k, st, rest
  <2>4. QED
    BY <1>2, <2>2, <2>3 DEF SweepEvict
<1>3. CASE SweepRead(p)
  <2>1. /\ s.key \in Keys /\ s.rid \in Rids /\ s.status \in Status
        /\ s.rows \in Visits /\ s.fresh \in BOOLEAN
    BY <1>3, SectionFields DEF SweepRead, At, TypeOK
  <2>2. CASE Goto(p, NextRow(s.rows, s.fresh))
    <3>1. section' \in [Procs -> Section] /\ HandsOutCached'
      BY <1>3, <2>1, <2>2, NextRowType, MovesOn DEF SweepRead
    <3>2. QED
      BY <1>3, <3>1 DEF SweepRead, TypeOK
  <2>3. ASSUME NEW h \in get_adapter(s.key),
               Goto(p, [at |-> "idle", rid |-> s.rid, held |-> h,
                        status |-> IF h = s.rid THEN s.status ELSE db[h].status,
                        rows |-> s.rows, fresh |-> s.fresh])
        PROVE  TypeInv'
    <3>1. h \in Rids /\ db[h].status \in Status
      BY DEF get_adapter, TypeOK, Table, Row
    <3>2. [at |-> "idle", rid |-> s.rid, held |-> h,
           status |-> IF h = s.rid THEN s.status ELSE db[h].status,
           rows |-> s.rows, fresh |-> s.fresh] \in Section
      BY <2>1, <3>1 DEF Section
    <3>3. QED
      BY <1>3, <2>3, <3>2, GotoType DEF SweepRead, TypeOK, HandsOutCached, Cached
  <2>4. QED
    BY <1>3, <2>2, <2>3 DEF SweepRead
<1>4. CASE SweepMark(p)
  <2>1. /\ s.rid \in Rids /\ s.held \in Rids /\ s.rows \in Visits
    BY <1>4, SectionFields DEF SweepMark, At, TypeOK
  <2>2. db' \in Table
    <3>1. CASE UNCHANGED db
      BY <3>1 DEF TypeOK
    <3>2. CASE Exists(s.held) /\ db' = [db EXCEPT ![s.held] = Marked(db[s.held])]
      <4>1. db[s.held] \in Row
        BY <2>1, <3>2 DEF Exists, TypeOK, Table
      <4>2. QED
        BY <2>1, <3>2, <4>1, MarkedType DEF TypeOK, Table
    <3>3. QED
      BY <1>4, <3>1, <3>2 DEF SweepMark
  <2>3. [at |-> "log", rid |-> s.rid, rows |-> s.rows, fresh |-> FALSE] \in Section
    BY <2>1 DEF Section
  <2>4. QED
    <3>1. section' \in [Procs -> Section] /\ HandsOutCached'
      BY <1>4, <2>3, MovesOn, FreeType DEF SweepMark, SweepDies
    <3>2. sweeping' \in [Procs -> BOOLEAN]
      BY <1>4 DEF SweepMark, SweepDies, TypeOK
    <3>3. QED
      BY <1>4, <2>2, <3>1, <3>2 DEF SweepMark, TypeOK
<1>5. CASE SweepLog(p)
  <2>1. s.rows \in Visits /\ s.fresh \in BOOLEAN
    BY <1>5, SectionFields DEF SweepLog, At, TypeOK
  <2>2. QED
    <3>1. section' \in [Procs -> Section] /\ HandsOutCached'
      BY <1>5, <2>1, NextRowType, MovesOn, FreeType DEF SweepLog, SweepDies
    <3>2. sweeping' \in [Procs -> BOOLEAN]
      BY <1>5 DEF SweepLog, SweepDies, TypeOK
    <3>3. QED
      BY <1>5, <3>1, <3>2 DEF SweepLog, TypeOK
<1>6. QED
  BY <1>1, <1>2, <1>3, <1>4, <1>5 DEF Sweep

(* Faults, time and restarts keep the invariant.                           *)
LEMMA EnvironmentType ==
  ASSUME TypeInv,
         \/ \E p \in Procs : RequestFails(p) \/ SweepFails(p) \/ Restart(p)
         \/ \E r \in Rids : Age(r)
  PROVE  TypeInv'
<1> USE DEF TypeInv
<1>1. ASSUME NEW p \in Procs, RequestFails(p) \/ SweepFails(p)
      PROVE  TypeInv'
  <2>1. Goto(p, Free) /\ UNCHANGED <<db, loaded, nextId, restarts, issued, uses>>
    BY <1>1 DEF RequestFails, SweepFails, SweepDies
  <2>2. sweeping' \in [Procs -> BOOLEAN]
    BY <1>1 DEF RequestFails, SweepFails, SweepDies, TypeOK
  <2>3. /\ section' \in [Procs -> Section]
        /\ section'[p].at = "free"
        /\ \A q \in Procs \ {p} : section'[q] = section[q]
    BY <2>1, FreeType DEF Goto, Free, TypeOK
  <2>4. QED
    BY <2>1, <2>2, <2>3 DEF TypeOK, HandsOutCached, Cached
<1>2. ASSUME NEW p \in Procs, Restart(p)
      PROVE  TypeInv'
  <2>1. /\ section' \in [Procs -> Section]
        /\ section'[p].at = "free"
        /\ \A q \in Procs \ {p} : section'[q] = section[q]
    BY <1>2, FreeType DEF Restart, TypeOK
  <2>2. /\ loaded' \in [Procs -> [Keys -> LoRARequest \cup {NoAdapter}]]
        /\ \A q \in Procs \ {p} : loaded'[q] = loaded[q]
    BY <1>2 DEF Restart, TypeOK
  <2>3. nextId' \in [Procs -> Nat] /\ restarts' \in [Procs -> Nat]
    BY <1>2, IdRangeAssumption DEF Restart, TypeOK
  <2>4. QED
    BY <1>2, <2>1, <2>2, <2>3 DEF Restart, TypeOK, HandsOutCached, Cached
<1>3. ASSUME NEW r \in Rids, Age(r)
      PROVE  TypeInv'
  <2>1. db[r] \in Row
    BY <1>3 DEF Age, Exists, TypeOK, Table
  <2>2. [db[r] EXCEPT !.lastUsed = "old"] \in Row
    BY <2>1 DEF Row
  <2>3. db' = [db EXCEPT ![r] = [db[r] EXCEPT !.lastUsed = "old"]]
    BY <1>3 DEF Age
  <2>4. db' \in Table
    BY <2>2, <2>3 DEF TypeOK, Table
  <2>5. QED
    BY <1>3, <2>4 DEF Age, TypeOK, HandsOutCached, Cached
<1>4. QED
  BY <1>1, <1>2, <1>3

(* Every step keeps the invariant.                                         *)
LEMMA TypeStep == TypeInv /\ [Next]_vars => TypeInv'
<1>1. CASE Next
  BY <1>1, ResolveType, AdminType, SweepType, EnvironmentType DEF Next
<1>2. CASE UNCHANGED vars
  BY <1>2 DEF vars, TypeInv, TypeOK, HandsOutCached, Cached
<1>3. QED
  BY <1>1, <1>2

(* The types; a section about to hand out an adapter has it cached.        *)
THEOREM TypeInvariant == Spec => []TypeInv
BY TypeInit, TypeStep, PTL DEF Spec

(* Every state of the model is well typed: in particular no request is     *)
(* ever handed out without a LoRARequest in the cache (get_or_load's last  *)
(* line indexes the cache and would raise), for any number of processes.   *)
THEOREM TypeCorrect == Spec => []TypeOK
BY TypeInvariant, PTL DEF TypeInv

-----------------------------------------------------------------------------
(* A lora_int_id names one adapter.  Of the requests a process knows, the  *)
(* static ones have the ids of their positions, below DynIdStart; the      *)
(* others have ids the counter has passed, no two the same.                *)

StaticRequests == {StaticAdapter(k) : k \in StaticKeys}
IdInv ==
  \A p \in Procs :
    /\ nextId[p] >= DynIdStart
    /\ \A x \in KnownRequests(p) :
         x \in StaticRequests \/ (DynIdStart <= x.id /\ x.id < nextId[p])
    /\ \A x, y \in KnownRequests(p) : x.id = y.id /\ x.id >= DynIdStart => x = y

(* Static ids stay below the range of the dynamic ones.                    *)
LEMMA StaticIdsBelowRange ==
  ASSUME NEW x \in StaticRequests
  PROVE  x \in LoRARequest /\ x.id \in Nat /\ x.id < DynIdStart
<1>1. PICK k \in StaticKeys : x = StaticAdapter(k)
  BY DEF StaticRequests
<1>2. /\ BaseOf[k] \in Bases
      /\ StaticList[BaseOf[k]] \in Seq([key : Keys, repo : Repos])
  BY ConfigAssumption DEF StaticKeys
<1>3. x.id \in 1..Len(StaticList[BaseOf[k]])
  <2> DEFINE S == [key : Keys, repo : Repos]
             list == StaticList[BaseOf[k]]
  <2>1. list \in Seq(S) /\ x.id \in DOMAIN list
    BY <1>1, <1>2, StaticAdapterType
  <2> HIDE DEF S, list
  <2>2. x.id \in 1..Len(list)
    BY <2>1
  <2>3. QED
    BY <2>2 DEF list
<1>4. Len(StaticList[BaseOf[k]]) < DynIdStart
  BY <1>2, IdRangeAssumption
<1>5. x \in LoRARequest
  BY <1>1, StaticAdapterType
<1>6. QED
  BY <1>2, <1>3, <1>4, <1>5, IdRangeAssumption

(* Two static adapters of one model with one id are one list entry.        *)
LEMMA StaticIdsDiffer ==
  ASSUME NEW x \in StaticRequests, NEW y \in StaticRequests,
         x.id = y.id, BaseOf[x.key] = BaseOf[y.key]
  PROVE  x = y
<1>1. PICK k \in StaticKeys : x = StaticAdapter(k)
  BY DEF StaticRequests
<1>2. PICK l \in StaticKeys : y = StaticAdapter(l)
  BY DEF StaticRequests
<1>3. /\ x.key = k /\ StaticAt(k, x.id) /\ y.key = l /\ StaticAt(l, y.id)
      /\ x.repo = StaticList[BaseOf[k]][x.id].repo
      /\ y.repo = StaticList[BaseOf[l]][y.id].repo
  BY <1>1, <1>2, StaticAdapterType
<1>4. k = l
  BY <1>3 DEF StaticAt
<1>5. QED
  BY <1>1, <1>2, <1>4

(* The strengthened invariant implies the property.                        *)
LEMMA IdInvImplies == TypeOK /\ IdInv => LoraIdNamesOneAdapter
<1> SUFFICES ASSUME TypeOK, IdInv, NEW p \in Procs,
                    NEW x \in KnownRequests(p), NEW y \in KnownRequests(p),
                    x.id = y.id, BaseOf[x.key] = BaseOf[y.key]
             PROVE  x = y
  BY DEF LoraIdNamesOneAdapter
<1>1. CASE x \in StaticRequests /\ y \in StaticRequests
  BY <1>1, StaticIdsDiffer
<1>2. CASE x \in StaticRequests /\ y \notin StaticRequests
  BY <1>2, StaticIdsBelowRange, IdRangeAssumption DEF IdInv
<1>3. CASE x \notin StaticRequests
  BY <1>3, StaticIdsBelowRange, IdRangeAssumption DEF IdInv
<1>4. QED
  BY <1>1, <1>2, <1>3

(* No process knows a request initially.                                   *)
LEMMA IdInit == Init => IdInv
<1> SUFFICES ASSUME Init, NEW p \in Procs PROVE KnownRequests(p) = {} /\ nextId[p] = DynIdStart
  BY IdRangeAssumption DEF IdInv
<1>1. QED
  BY DEF Init, KnownRequests, loaded_ids, Cached

(* Whoever knows no more requests and draws no id keeps the invariant.     *)
LEMMA IdShrinks ==
  ASSUME IdInv, nextId' = nextId,
         \A q \in Procs : KnownRequests(q)' \subseteq KnownRequests(q)
  PROVE  IdInv'
BY DEF IdInv

(* Evicting makes no request known.                                        *)
LEMMA EvictKnown ==
  ASSUME TypeOK, NEW p \in Procs, NEW k \in Keys, Evict(p, k), UNCHANGED issued
  PROVE  \A q \in Procs : KnownRequests(q)' \subseteq KnownRequests(q)
BY DEF Evict, TypeOK, KnownRequests, loaded_ids, Cached

(* A request that is handed out was known from the cache.                  *)
LEMMA HandOutKnown ==
  ASSUME TypeOK, NEW p \in Procs, NEW k \in Keys, Cached(p, k), HandOut(p, k),
         UNCHANGED loaded
  PROVE  \A q \in Procs : KnownRequests(q)' \subseteq KnownRequests(q)
BY DEF HandOut, TypeOK, KnownRequests, loaded_ids, Cached

(* What leaves cache and history alone makes no request known.             *)
LEMMA SameKnown ==
  ASSUME UNCHANGED <<loaded, issued>>
  PROVE  \A q \in Procs : KnownRequests(q)' \subseteq KnownRequests(q)
BY DEF KnownRequests, loaded_ids, Cached

(* A static adapter brings only the id of its position.                    *)
LEMMA IdStatic ==
  ASSUME TypeOK, IdInv, NEW p \in Procs, NEW k \in Keys, ResolveStatic(p, k)
  PROVE  IdInv'
<1> DEFINE new == StaticAdapter(k)
<1>1. new \in StaticRequests
  BY DEF ResolveStatic, StaticRequests
<1>2. new.id \in Nat /\ new.id < DynIdStart
  BY <1>1, StaticIdsBelowRange
<1>3. \A q \in Procs : KnownRequests(q)' \subseteq KnownRequests(q) \cup {new}
  BY DEF ResolveStatic, TypeOK, KnownRequests, loaded_ids, Cached
<1>4. nextId' = nextId
  BY DEF ResolveStatic
<1> HIDE DEF new
<1>5. QED
  BY <1>1, <1>2, <1>3, <1>4, IdRangeAssumption DEF IdInv

(* A new request takes an id that no known one has.                        *)
LEMMA IdFill ==
  ASSUME TypeOK, IdInv, NEW p \in Procs, Fill(p)
  PROVE  IdInv'
<1> DEFINE k == section[p].key
           new == [key |-> k, id |-> nextId[p], repo |-> section[p].repo]
<1>1. k \in Keys /\ nextId[p] \in Nat
  BY SectionFields DEF Fill, TakeId, At, TypeOK
<1>2. new.id = nextId[p]
  OBVIOUS
<1>3. loaded' = [loaded EXCEPT ![p][k] = new] /\ UNCHANGED issued
  BY DEF Fill, TakeId
<1>4. nextId' = [nextId EXCEPT ![p] = nextId[p] + 1]
  BY DEF Fill, TakeId
<1> HIDE DEF new
<1>5. KnownRequests(p)' \subseteq KnownRequests(p) \cup {new}
  BY <1>1, <1>3 DEF TypeOK, KnownRequests, loaded_ids, Cached
<1>6. \A q \in Procs \ {p} : KnownRequests(q)' \subseteq KnownRequests(q)
  BY <1>1, <1>3 DEF TypeOK, KnownRequests, loaded_ids, Cached
<1>7. nextId'[p] = nextId[p] + 1 /\ \A q \in Procs \ {p} : nextId'[q] = nextId[q]
  BY <1>4 DEF TypeOK
<1>8. \A x \in KnownRequests(p) : x.id # new.id
  BY <1>1, <1>2, StaticIdsBelowRange, IdRangeAssumption DEF IdInv
<1>9. \A x \in KnownRequests(p) :
        x \in StaticRequests \/ (DynIdStart <= x.id /\ x.id < nextId[p] + 1)
  <2> TAKE x \in KnownRequests(p)
  <2>1. x.id \in Nat
    BY DEF KnownRequests, loaded_ids, Cached, TypeOK, LoRARequest
  <2>2. QED
    BY <1>1, <2>1, IdRangeAssumption DEF IdInv
<1>10. DynIdStart <= nextId[p] /\ nextId[p] < nextId[p] + 1
       /\ nextId[p] + 1 >= DynIdStart
  BY <1>1, IdRangeAssumption DEF IdInv
<1>11. QED
  BY <1>2, <1>5, <1>6, <1>7, <1>8, <1>9, <1>10 DEF IdInv

(* Every step keeps the ids apart.                                         *)
LEMMA IdStep == TypeInv /\ IdInv /\ [Next]_vars => IdInv'
<1> SUFFICES ASSUME TypeInv, TypeOK, IdInv, [Next]_vars PROVE IdInv'
  BY DEF TypeInv
<1>1. ASSUME NEW p \in Procs, Resolve(p)
      PROVE  IdInv'
  <2>1. ASSUME NEW k \in Keys, ResolveCached(p, k) \/ ResolveMiss(p, k)
        PROVE  IdInv'
    BY <2>1, SameKnown, IdShrinks DEF ResolveCached, ResolveMiss
  <2>2. CASE DownloadFails(p)
    BY <2>2, SameKnown, IdShrinks DEF DownloadFails
  <2>3. CASE TouchRead(p) \/ TouchWrite(p)
    <3>1. section[p].key \in Keys /\ Cached(p, section[p].key)
      BY <2>3, SectionFields
         DEF TouchRead, TouchWrite, At, TypeOK, TypeInv, HandsOutCached
    <3>2. /\ UNCHANGED <<loaded, nextId>>
          /\ HandOut(p, section[p].key) \/ UNCHANGED issued
      BY <2>3 DEF TouchRead, TouchWrite
    <3>3. QED
      BY <3>1, <3>2, HandOutKnown, SameKnown, IdShrinks
  <2>4. QED
    BY <1>1, <2>1, <2>2, <2>3, IdStatic, IdFill DEF Resolve
<1>2. ASSUME NEW p \in Procs, Admin(p)
      PROVE  IdInv'
  <2>1. CASE DeleteRow(p)
    <3>1. section[p].key \in Keys
      BY <2>1, SectionFields DEF DeleteRow, At, TypeOK
    <3>2. QED
      BY <2>1, <3>1, EvictKnown, IdShrinks DEF DeleteRow
  <2>2. CASE ~DeleteRow(p)
    <3>1. UNCHANGED <<loaded, issued, nextId>>
      BY <1>2, <2>2 DEF Admin, Register, InsertRow, Unique, UpdateRow, Delete
    <3>2. QED
      BY <3>1, SameKnown, IdShrinks
  <2>3. QED
    BY <2>1, <2>2
<1>3. ASSUME NEW p \in Procs, Sweep(p)
      PROVE  IdInv'
  <2>1. UNCHANGED <<issued, nextId>>
    BY <1>3 DEF Sweep, SweepSelect, SweepEvict, SweepRead, SweepMark, SweepLog
  <2>2. UNCHANGED loaded \/ \E k \in Keys : Evict(p, k)
    <3>1. CASE SweepEvict(p)
      <4>1. section[p].rows \in Visits /\ section[p].fresh \in BOOLEAN
        BY <3>1, SectionFields DEF SweepEvict, At, TypeOK
      <4>2. ASSUME NEW r \in Remaining(section[p].rows),
                   section[p].fresh \/ Exists(r)
            PROVE  VisitedRow(section[p], r).key \in Keys
        BY <4>1, <4>2
           DEF Remaining, Visits, VisitedRow, Exists, TypeOK, Table, Row
      <4>3. QED
        BY <3>1, <4>2 DEF SweepEvict
    <3>2. CASE ~SweepEvict(p)
      BY <1>3, <3>2 DEF Sweep, SweepSelect, SweepRead, SweepMark, SweepLog
    <3>3. QED
      BY <3>1, <3>2
  <2>3. QED
    BY <2>1, <2>2, EvictKnown, SameKnown, IdShrinks
<1>4. ASSUME NEW p \in Procs, RequestFails(p) \/ SweepFails(p)
      PROVE  IdInv'
  BY <1>4, SameKnown, IdShrinks DEF RequestFails, SweepFails
<1>5. ASSUME NEW p \in Procs, Restart(p)
      PROVE  IdInv'
  <2>1. KnownRequests(p)' = {} /\ nextId'[p] = DynIdStart
    BY <1>5 DEF Restart, TypeOK, KnownRequests, loaded_ids, Cached
  <2>2. \A q \in Procs \ {p} : KnownRequests(q)' = KnownRequests(q)
                               /\ nextId'[q] = nextId[q]
    BY <1>5 DEF Restart, TypeOK, KnownRequests, loaded_ids, Cached
  <2>3. QED
    BY <2>1, <2>2, IdRangeAssumption DEF IdInv
<1>6. ASSUME NEW r \in Rids, Age(r)
      PROVE  IdInv'
  BY <1>6, SameKnown, IdShrinks DEF Age
<1>7. CASE UNCHANGED vars
  BY <1>7, SameKnown, IdShrinks DEF vars
<1>8. QED
  BY <1>1, <1>2, <1>3, <1>4, <1>5, <1>6, <1>7 DEF Next

(* The theorem for any number of processes and adapters, from the single   *)
(* assumption that no model lists DynIdStart adapters.                     *)
THEOREM IdsNameOneAdapter == Spec => []LoraIdNamesOneAdapter
<1>1. Init => TypeInv /\ IdInv
  BY TypeInit, IdInit
<1>2. TypeInv /\ IdInv /\ [Next]_vars => (TypeInv /\ IdInv)'
  BY TypeStep, IdStep
<1>3. TypeInv /\ IdInv => LoraIdNamesOneAdapter
  BY IdInvImplies DEF TypeInv
<1>4. QED
  BY <1>1, <1>2, <1>3, PTL DEF Spec

-----------------------------------------------------------------------------
(* One gateway process.  Its section is the only one at work, so what the  *)
(* section read is still so when it is used.                               *)

SoleProcess == \A p, q \in Procs : p = q

SectionCurrent(p) ==
  LET s == section[p] IN
  /\ s.at = "fill" => get_adapter(s.key) # {}
  /\ s.at = "bump" => Exists(s.rid) /\ s.hits = db[s.rid].hits
  /\ s.at = "delete" => Exists(s.rid) /\ db[s.rid].key = s.key
  /\ s.at \in SweepPoints => \A r \in Remaining(s.rows) : Exists(r)
  /\ s.at \in {"mark", "idle", "log"} => Exists(s.rid)
  /\ s.at = "idle" => Exists(s.held)

SoleInv ==
  /\ \A p \in Procs : SectionCurrent(p)
  /\ CachedHasRow
  /\ HitsAreExact
  /\ DbFaults \/ SweepSurvives

(* Rows survive with their keys, the cache does not grow.                  *)
KeepsRows == \A r \in Rids : Exists(r) => Exists(r)' /\ db'[r].key = db[r].key
CacheShrinks == \A p \in Procs, k \in Keys : Cached(p, k)' => Cached(p, k)

(* Rows that stay and a cache that does not grow keep CachedHasRow.        *)
LEMMA CachedKept ==
  ASSUME CachedHasRow, KeepsRows, CacheShrinks
  PROVE  CachedHasRow'
BY DEF CachedHasRow, KeepsRows, CacheShrinks, get_adapter, Exists

(* The section moves to s, and what it needs there holds.                  *)
LEMMA SoleMove ==
  ASSUME TypeOK, NEW p \in Procs, \A q \in Procs : q = p,
         NEW s \in Section, Goto(p, s),
         s.at = "fill" => get_adapter(s.key)' # {},
         s.at = "bump" => Exists(s.rid)' /\ s.hits = db'[s.rid].hits,
         s.at = "delete" => Exists(s.rid)' /\ db'[s.rid].key = s.key,
         s.at \in SweepPoints => \A r \in Remaining(s.rows) : Exists(r)',
         s.at \in {"mark", "idle", "log"} => Exists(s.rid)',
         s.at = "idle" => Exists(s.held)'
  PROVE  \A q \in Procs : SectionCurrent(q)'
<1>1. section'[p] = s
  BY GotoType
<1> SUFFICES SectionCurrent(p)'
  OBVIOUS
<1>2. QED
  BY <1>1 DEF SectionCurrent, Remaining

(* A section that ends needs nothing.                                      *)
LEMMA SoleFree ==
  ASSUME TypeOK, NEW p \in Procs, \A q \in Procs : q = p, Goto(p, Free)
  PROVE  \A q \in Procs : SectionCurrent(q)'
BY SoleMove, FreeType DEF SweepPoints

(* Resolving keeps cache, catalog and counts in step.                      *)
LEMMA SoleResolve ==
  ASSUME TypeInv, TypeOK, SoleInv, NEW p \in Procs, \A q \in Procs : q = p,
         Resolve(p)
  PROVE  SoleInv'
<1> DEFINE s == section[p]
<1>1. ASSUME NEW k \in Keys, ResolveStatic(p, k)
      PROVE  SoleInv'
  BY <1>1 DEF ResolveStatic, SoleInv, SectionCurrent, CachedHasRow, Cached,
              HitsAreExact, SweepSurvives, get_adapter, Exists
<1>2. ASSUME UNCHANGED <<db, loaded, sweeping, uses>>,
             \A q \in Procs : SectionCurrent(q)'
      PROVE  SoleInv'
  BY <1>2 DEF SoleInv, CachedHasRow, Cached, HitsAreExact, SweepSurvives,
              get_adapter, Exists
<1>3. ASSUME NEW k \in Keys, ResolveCached(p, k)
      PROVE  SoleInv'
  <2>1. [at |-> "touch", key |-> k] \in Section
    BY DEF Section
  <2>2. \A q \in Procs : SectionCurrent(q)'
    BY <1>3, <2>1, SoleMove DEF ResolveCached, SweepPoints
  <2>3. QED
    BY <1>2, <1>3, <2>2 DEF ResolveCached
<1>4. ASSUME NEW k \in Keys, ResolveMiss(p, k)
      PROVE  SoleInv'
  <2>1. PICK r \in get_adapter(k) :
          Goto(p, [at |-> "fill", key |-> k, repo |-> db[r].repo])
    BY <1>4 DEF ResolveMiss
  <2>2. db[r] \in Row
    BY <2>1 DEF get_adapter, TypeOK, Table
  <2>3. [at |-> "fill", key |-> k, repo |-> db[r].repo] \in Section
    BY <2>2 DEF Section, Row
  <2>4. get_adapter(k)' # {}
    BY <1>4, <2>1 DEF ResolveMiss, get_adapter
  <2>5. \A q \in Procs : SectionCurrent(q)'
    BY <2>1, <2>3, <2>4, SoleMove DEF SweepPoints
  <2>6. QED
    BY <1>2, <1>4, <2>5 DEF ResolveMiss
<1>5. CASE Fill(p)
  <2>1. s.key \in Keys /\ get_adapter(s.key) # {}
    BY <1>5, SectionFields DEF Fill, TakeId, At, TypeOK, SoleInv, SectionCurrent
  <2>2. [at |-> "touch", key |-> s.key] \in Section
    BY <2>1 DEF Section
  <2>3. \A q \in Procs : SectionCurrent(q)'
    BY <1>5, <2>2, SoleMove DEF Fill, TakeId, SweepPoints
  <2>4. \A k \in Keys \ {s.key} : Cached(p, k)' => Cached(p, k)
    BY <1>5, <2>1 DEF Fill, TakeId, Cached, TypeOK
  <2>5. \A k \in Keys : get_adapter(k)' = get_adapter(k)
    BY <1>5 DEF Fill, TakeId, get_adapter
  <2>6. CachedHasRow'
    BY <2>1, <2>4, <2>5 DEF SoleInv, CachedHasRow
  <2>7. HitsAreExact' /\ (DbFaults \/ SweepSurvives')
    BY <1>5 DEF Fill, TakeId, SoleInv, HitsAreExact, SweepSurvives, Exists
  <2>8. QED
    BY <2>3, <2>6, <2>7 DEF SoleInv
<1>6. CASE DownloadFails(p)
  BY <1>2, <1>6, SoleFree DEF DownloadFails
<1>7. CASE TouchRead(p)
  <2>1. s.key \in Keys
    BY <1>7, SectionFields DEF TouchRead, At, TypeOK
  <2>2. CASE Goto(p, Free)
    BY <1>2, <1>7, <2>2, SoleFree DEF TouchRead
  <2>3. ASSUME NEW r \in get_adapter(s.key),
               Goto(p, [at |-> "bump", key |-> s.key, rid |-> r,
                        hits |-> db[r].hits, status |-> db[r].status])
        PROVE  SoleInv'
    <3>1. r \in Rids /\ db[r] \in Row /\ Exists(r)
      BY DEF get_adapter, TypeOK, Table, Exists
    <3>2. [at |-> "bump", key |-> s.key, rid |-> r,
           hits |-> db[r].hits, status |-> db[r].status] \in Section
      BY <2>1, <3>1 DEF Section, Row
    <3>3. Exists(r)' /\ db'[r].hits = db[r].hits
      BY <1>7, <3>1 DEF TouchRead, Exists
    <3>4. \A q \in Procs : SectionCurrent(q)'
      BY <2>3, <3>2, <3>3, SoleMove DEF SweepPoints
    <3>5. QED
      BY <1>2, <1>7, <3>4 DEF TouchRead
  <2>4. QED
    BY <1>7, <2>2, <2>3 DEF TouchRead
<1>8. CASE TouchWrite(p)
  <2>1. s.rid \in Rids /\ s.hits \in Nat /\ Exists(s.rid) /\ s.hits = db[s.rid].hits
    BY <1>8, SectionFields DEF TouchWrite, At, TypeOK, SoleInv, SectionCurrent
  <2>2. db[s.rid] \in Row
    BY <2>1 DEF Exists, TypeOK, Table
  <2>3. /\ db' = [db EXCEPT ![s.rid] = Touched(db[s.rid], s)]
        /\ uses' = [uses EXCEPT ![s.rid] = uses[s.rid] + 1]
    BY <1>8, <2>1 DEF TouchWrite
  <2>4. /\ Touched(db[s.rid], s) \in Row
        /\ Touched(db[s.rid], s).key = db[s.rid].key
    BY <2>1, <2>2, TouchedType
  <2>5. Touched(db[s.rid], s).hits = s.hits + 1
    BY <2>2 DEF Touched, Row
  <2>6. KeepsRows
    BY <2>1, <2>3, <2>4, SentinelAssumption DEF KeepsRows, Exists, TypeOK, Table
  <2>7. CachedHasRow'
    BY <1>8, <2>6, CachedKept DEF TouchWrite, CacheShrinks, Cached, SoleInv
  <2>8. HitsAreExact'
    BY <2>1, <2>3, <2>5 DEF SoleInv, HitsAreExact, Exists, TypeOK, Table
  <2>9. QED
    BY <1>8, <2>7, <2>8, SoleFree DEF TouchWrite, SoleInv, SweepSurvives
<1>9. QED
  BY <1>1, <1>3, <1>4, <1>5, <1>6, <1>7, <1>8 DEF Resolve

(* So do the admin handlers.                                               *)
LEMMA SoleAdmin ==
  ASSUME TypeInv, TypeOK, SoleInv, NEW p \in Procs, \A q \in Procs : q = p,
         Admin(p)
  PROVE  SoleInv'
<1> DEFINE s == section[p]
<1>1. ASSUME UNCHANGED <<db, loaded, sweeping, uses>>,
             \A q \in Procs : SectionCurrent(q)'
      PROVE  SoleInv'
  BY <1>1 DEF SoleInv, CachedHasRow, Cached, HitsAreExact, SweepSurvives,
              get_adapter, Exists
<1>2. ASSUME NEW k \in Keys, NEW repo \in Repos, Register(p, k, repo)
      PROVE  SoleInv'
  <2>1. PICK t \in Section : t.at \in {"insert", "update"} /\ Goto(p, t)
    <3>1. CASE Goto(p, [at |-> "insert", key |-> k, repo |-> repo])
      BY <3>1 DEF Section
    <3>2. ASSUME NEW r \in get_adapter(k),
                 Goto(p, [at |-> "update", rid |-> r, repo |-> repo,
                          oldRepo |-> db[r].repo, status |-> db[r].status])
          PROVE  \E t \in Section : t.at \in {"insert", "update"} /\ Goto(p, t)
      <4>1. r \in Rids /\ db[r] \in Row
        BY DEF get_adapter, TypeOK, Table
      <4>2. [at |-> "update", rid |-> r, repo |-> repo,
             oldRepo |-> db[r].repo, status |-> db[r].status] \in Section
        BY <4>1 DEF Section, Row
      <4>3. QED
        BY <3>2, <4>2
    <3>3. QED
      BY <1>2, <3>1, <3>2 DEF Register
  <2>2. \A q \in Procs : SectionCurrent(q)'
    BY <2>1, SoleMove DEF SweepPoints
  <2>3. QED
    BY <1>1, <1>2, <2>2 DEF Register
<1>3. CASE InsertRow(p)
  <2>1. s.key \in Keys /\ s.repo \in Repos
    BY <1>3, SectionFields DEF InsertRow, Unique, At, TypeOK
  <2>2. CASE UNCHANGED <<db, uses>>
    BY <1>1, <1>3, <2>2, SoleFree DEF InsertRow, Unique
  <2>3. ASSUME NEW r \in Rids, ~Exists(r),
               db' = [db EXCEPT ![r] = [key |-> s.key, repo |-> s.repo,
                                        status |-> "registered", hits |-> 0,
                                        lastUsed |-> "never"]],
               uses' = [uses EXCEPT ![r] = 0]
        PROVE  SoleInv'
    <3>1. KeepsRows
      BY <2>3 DEF KeepsRows, Exists, TypeOK, Table
    <3>2. CachedHasRow'
      BY <1>3, <3>1, CachedKept DEF InsertRow, Unique, CacheShrinks, Cached, SoleInv
    <3>3. db'[r].hits = 0 /\ uses'[r] = 0
      BY <2>3 DEF TypeOK, Table
    <3>4. HitsAreExact'
      BY <2>3, <3>3 DEF SoleInv, HitsAreExact, Exists, TypeOK, Table
    <3>5. QED
      BY <1>3, <3>2, <3>4, SoleFree DEF InsertRow, Unique, SoleInv, SweepSurvives
  <2>4. QED
    BY <1>3, <2>2, <2>3 DEF InsertRow, Unique
<1>4. CASE UpdateRow(p)
  <2>1. s.rid \in Rids /\ s.repo \in Repos
    BY <1>4, SectionFields DEF UpdateRow, At, TypeOK
  <2>2. CASE UNCHANGED db
    BY <1>1, <1>4, <2>2, SoleFree DEF UpdateRow
  <2>3. CASE Exists(s.rid) /\ db' = [db EXCEPT ![s.rid] = Updated(db[s.rid], s)]
    <3>1. db[s.rid] \in Row
      BY <2>1, <2>3 DEF Exists, TypeOK, Table
    <3>2. /\ Updated(db[s.rid], s) \in Row
          /\ Updated(db[s.rid], s).key = db[s.rid].key
      BY <2>1, <3>1, UpdatedType
    <3>3. Updated(db[s.rid], s).hits = db[s.rid].hits
      BY <3>1 DEF Updated, Row
    <3>4. KeepsRows
      BY <2>1, <2>3, <3>2, SentinelAssumption DEF KeepsRows, Exists, TypeOK, Table
    <3>5. CachedHasRow'
      BY <1>4, <3>4, CachedKept DEF UpdateRow, CacheShrinks, Cached, SoleInv
    <3>6. HitsAreExact'
      BY <1>4, <2>1, <2>3, <3>3
         DEF UpdateRow, SoleInv, HitsAreExact, Exists, TypeOK, Table
    <3>7. QED
      BY <1>4, <3>5, <3>6, SoleFree DEF UpdateRow, SoleInv, SweepSurvives
  <2>4. QED
    BY <1>4, <2>2, <2>3 DEF UpdateRow
<1>5. ASSUME NEW k \in Keys, Delete(p, k)
      PROVE  SoleInv'
  <2>1. PICK r \in get_adapter(k) : Goto(p, [at |-> "delete", key |-> k, rid |-> r])
    BY <1>5 DEF Delete
  <2>2. [at |-> "delete", key |-> k, rid |-> r] \in Section
    BY DEF Section, get_adapter
  <2>3. Exists(r)' /\ db'[r].key = k
    BY <1>5, <2>1 DEF Delete, get_adapter, Exists
  <2>4. \A q \in Procs : SectionCurrent(q)'
    BY <2>1, <2>2, <2>3, SoleMove DEF SweepPoints
  <2>5. QED
    BY <1>1, <1>5, <2>4 DEF Delete
<1>6. CASE DeleteRow(p)
  <2>1. s.key \in Keys /\ s.rid \in Rids /\ db[s.rid].key = s.key
    BY <1>6, SectionFields DEF DeleteRow, At, TypeOK, SoleInv, SectionCurrent
  <2>2. loaded'[p][s.key] = NoAdapter /\ \A k \in Keys : Cached(p, k)' => Cached(p, k)
    BY <1>6, <2>1 DEF DeleteRow, Evict, Cached, TypeOK
  <2>3. \A k \in Keys \ {s.key} : get_adapter(k)' = get_adapter(k)
    BY <1>6, <2>1 DEF DeleteRow, get_adapter, TypeOK, Table
  <2>4. CachedHasRow'
    BY <2>2, <2>3 DEF SoleInv, CachedHasRow, Cached
  <2>5. HitsAreExact'
    BY <1>6, <2>1 DEF DeleteRow, SoleInv, HitsAreExact, Exists, TypeOK, Table
  <2>6. QED
    BY <1>6, <2>4, <2>5, SoleFree DEF DeleteRow, SoleInv, SweepSurvives
<1>7. QED
  BY <1>2, <1>3, <1>4, <1>5, <1>6, ConfigAssumption DEF Admin

(* So does the sweep, which meets no row that is gone.                     *)
LEMMA SoleSweep ==
  ASSUME TypeInv, TypeOK, SoleInv, NEW p \in Procs, \A q \in Procs : q = p,
         Sweep(p)
  PROVE  SoleInv'
<1> DEFINE s == section[p]
<1>1. ASSUME UNCHANGED <<db, sweeping, uses>>, CacheShrinks,
             \A q \in Procs : SectionCurrent(q)'
      PROVE  SoleInv'
  <2>1. CachedHasRow'
    BY <1>1, CachedKept DEF KeepsRows, Exists, SoleInv
  <2>2. QED
    BY <1>1, <2>1 DEF SoleInv, HitsAreExact, SweepSurvives, Exists
<1>2. ASSUME NEW rows \in Visits, NEW fresh \in BOOLEAN,
             Goto(p, NextRow(rows, fresh)),
             \A r \in Remaining(rows) : Exists(r)'
      PROVE  \A q \in Procs : SectionCurrent(q)'
  <2>1. CASE NextRow(rows, fresh) = Free
    BY <1>2, <2>1, SoleFree
  <2>2. CASE NextRow(rows, fresh) = [at |-> "sweep", rows |-> rows, fresh |-> fresh]
    <3>1. [at |-> "sweep", rows |-> rows, fresh |-> fresh] \in Section
      BY DEF Section
    <3>2. QED
      BY <1>2, <2>2, <3>1, SoleMove
  <2>3. QED
    BY <2>1, <2>2 DEF NextRow
<1>3. CASE SweepSelect(p)
  <2>1. find_idle_since \in Visits
    BY DEF find_idle_since, Visits, IsIdle, TypeOK, Table, Row
  <2>2. \A r \in Remaining(find_idle_since) : Exists(r)
    BY DEF Remaining, find_idle_since, IsIdle, Exists
  <2>3. \A r \in Remaining(find_idle_since) : Exists(r)'
    BY <1>3, <2>2 DEF SweepSelect, Exists
  <2>4. \A q \in Procs : SectionCurrent(q)'
    BY <1>2, <1>3, <2>1, <2>3 DEF SweepSelect
  <2>5. QED
    BY <1>1, <1>3, <2>4 DEF SweepSelect, CacheShrinks, Cached
<1>4. CASE SweepEvict(p)
  <2>1. s.rows \in Visits /\ s.fresh \in BOOLEAN
    BY <1>4, SectionFields DEF SweepEvict, At, TypeOK
  <2>2. \A r \in Remaining(s.rows) : r \in Rids /\ Exists(r)
    BY <1>4 DEF SweepEvict, At, SoleInv, SectionCurrent, SweepPoints, Remaining
  <2>3. PICK r \in Remaining(s.rows) :
          /\ Evict(p, VisitedRow(s, r).key)
          /\ Goto(p, [at |-> "mark", key |-> VisitedRow(s, r).key, rid |-> r,
                      status |-> VisitedRow(s, r).status,
                      rows |-> [s.rows EXCEPT ![r] = NoRow], fresh |-> s.fresh])
          /\ UNCHANGED sweeping
    BY <1>4, <2>2 DEF SweepEvict
  <2> DEFINE k == VisitedRow(s, r).key
             st == VisitedRow(s, r).status
             rest == [s.rows EXCEPT ![r] = NoRow]
  <2>4. r \in Rids /\ s.rows[r] \in Keys /\ rest \in Visits
        /\ Remaining(rest) \subseteq Remaining(s.rows)
    BY <2>1 DEF Remaining, Visits
  <2>5. k \in Keys /\ st \in Status
    BY <2>2, <2>4 DEF VisitedRow, Exists, TypeOK, Table, Row, Status
  <2>6. [at |-> "mark", key |-> k, rid |-> r, status |-> st,
         rows |-> rest, fresh |-> s.fresh] \in Section
    BY <2>1, <2>4, <2>5 DEF Section
  <2>7. \A q \in Remaining(rest) \cup {r} : Exists(q)'
    BY <1>4, <2>2, <2>4 DEF SweepEvict, Exists
  <2> HIDE DEF k, st, rest
  <2>8. \A q \in Procs : SectionCurrent(q)'
    BY <2>3, <2>6, <2>7, SoleMove DEF k, st, rest
  <2>9. CacheShrinks
    BY <2>3, <2>5 DEF Evict, CacheShrinks, Cached, TypeOK, k
  <2>10. QED
    BY <1>1, <1>4, <2>3, <2>8, <2>9 DEF SweepEvict
<1>5. CASE SweepRead(p)
  <2>1. /\ s.key \in Keys /\ s.rid \in Rids /\ s.status \in Status
        /\ s.rows \in Visits /\ s.fresh \in BOOLEAN
    BY <1>5, SectionFields DEF SweepRead, At, TypeOK
  <2>2. db'[s.rid] # NoRow /\ \A r \in Remaining(s.rows) : Exists(r)'
    BY <1>5 DEF SweepRead, At, SoleInv, SectionCurrent, SweepPoints, Exists
  <2>3. CASE Goto(p, NextRow(s.rows, s.fresh))
    BY <1>1, <1>2, <1>5, <2>1, <2>2, <2>3 DEF SweepRead, CacheShrinks, Cached
  <2>4. ASSUME NEW h \in get_adapter(s.key),
               Goto(p, [at |-> "idle", rid |-> s.rid, held |-> h,
                        status |-> IF h = s.rid THEN s.status ELSE db[h].status,
                        rows |-> s.rows, fresh |-> s.fresh])
        PROVE  SoleInv'
    <3>1. h \in Rids /\ db[h].status \in Status /\ Exists(h)
      BY DEF get_adapter, TypeOK, Table, Row, Exists
    <3>2. [at |-> "idle", rid |-> s.rid, held |-> h,
           status |-> IF h = s.rid THEN s.status ELSE db[h].status,
           rows |-> s.rows, fresh |-> s.fresh] \in Section
      BY <2>1, <3>1 DEF Section
    <3>3. Exists(h)'
      BY <1>5, <3>1 DEF SweepRead, Exists
    <3>4. \A q \in Procs : SectionCurrent(q)'
      BY <2>2, <2>4, <3>2, <3>3, SoleMove DEF Exists
    <3>5. QED
      BY <1>1, <1>5, <3>4 DEF SweepRead, CacheShrinks, Cached
  <2>5. QED
    BY <1>5, <2>3, <2>4 DEF SweepRead
<1>6. CASE SweepMark(p)
  <2>1. /\ s.rid \in Rids /\ s.held \in Rids /\ s.rows \in Visits
    BY <1>6, SectionFields DEF SweepMark, At, TypeOK
  <2>2. /\ Exists(s.rid) /\ Exists(s.held)
        /\ \A r \in Remaining(s.rows) : r \in Rids /\ Exists(r)
    BY <1>6 DEF SweepMark, At, SoleInv, SectionCurrent, SweepPoints, Remaining
  <2>3. /\ db' = db \/ db' = [db EXCEPT ![s.held] = Marked(db[s.held])]
        /\ Goto(p, [at |-> "log", rid |-> s.rid, rows |-> s.rows, fresh |-> FALSE])
        /\ UNCHANGED <<loaded, sweeping, uses>>
    BY <1>6, <2>2 DEF SweepMark
  <2>4. db[s.held] \in Row
    BY <2>1, <2>2 DEF Exists, TypeOK, Table
  <2>5. Marked(db[s.held]).hits = db[s.held].hits
    BY <2>4 DEF Marked, Row
  <2>6. KeepsRows
    BY <2>1, <2>3, <2>4, MarkedType, SentinelAssumption
       DEF KeepsRows, Exists, TypeOK, Table
  <2>7. CachedHasRow'
    BY <2>3, <2>6, CachedKept DEF CacheShrinks, Cached, SoleInv
  <2>8. HitsAreExact'
    BY <2>1, <2>2, <2>3, <2>5 DEF SoleInv, HitsAreExact, Exists, TypeOK, Table
  <2>9. [at |-> "log", rid |-> s.rid, rows |-> s.rows, fresh |-> FALSE] \in Section
    BY <2>1 DEF Section
  <2>10. db'[s.rid] # NoRow /\ \A r \in Remaining(s.rows) : Exists(r)'
    BY <2>1, <2>2, <2>6 DEF KeepsRows, Exists
  <2>11. \A q \in Procs : SectionCurrent(q)'
    BY <2>3, <2>9, <2>10, SoleMove DEF Exists
  <2>12. QED
    BY <2>3, <2>7, <2>8, <2>11 DEF SoleInv, SweepSurvives
<1>7. CASE SweepLog(p)
  <2>1. s.rows \in Visits /\ s.fresh \in BOOLEAN
    BY <1>7, SectionFields DEF SweepLog, At, TypeOK
  <2>2. Exists(s.rid) /\ \A r \in Remaining(s.rows) : Exists(r)
    BY <1>7 DEF SweepLog, At, SoleInv, SectionCurrent, SweepPoints
  <2>3. \A r \in Remaining(s.rows) : Exists(r)'
    BY <1>7, <2>2 DEF SweepLog, Exists
  <2>4. QED
    BY <1>1, <1>2, <1>7, <2>1, <2>2, <2>3 DEF SweepLog, CacheShrinks, Cached
<1>8. QED
  BY <1>3, <1>4, <1>5, <1>6, <1>7 DEF Sweep

(* So do faults, time and restarts.                                        *)
LEMMA SoleEnvironment ==
  ASSUME TypeInv, TypeOK, SoleInv, SoleProcess,
         \/ \E p \in Procs : RequestFails(p) \/ SweepFails(p) \/ Restart(p)
         \/ \E r \in Rids : Age(r)
  PROVE  SoleInv'
<1>1. ASSUME NEW p \in Procs, RequestFails(p) \/ SweepFails(p)
      PROVE  SoleInv'
  <2>1. DbFaults /\ Goto(p, Free) /\ UNCHANGED <<db, loaded, uses>>
    BY <1>1 DEF RequestFails, SweepFails, SweepDies
  <2>2. \A q \in Procs : SectionCurrent(q)'
    BY <2>1, SoleFree DEF SoleProcess
  <2>3. QED
    BY <2>1, <2>2 DEF SoleInv, CachedHasRow, Cached, HitsAreExact, get_adapter, Exists
<1>2. ASSUME NEW p \in Procs, Restart(p)
      PROVE  SoleInv'
  <2>1. Goto(p, Free) /\ UNCHANGED <<db, uses>>
    BY <1>2 DEF Restart, Goto
  <2>2. \A q \in Procs : SectionCurrent(q)'
    BY <2>1, SoleFree DEF SoleProcess
  <2>3. CachedHasRow'
    BY <1>2 DEF Restart, SoleProcess, CachedHasRow, Cached, TypeOK
  <2>4. HitsAreExact' /\ SweepSurvives'
    BY <1>2, <2>1
       DEF Restart, SoleProcess, SoleInv, HitsAreExact, SweepSurvives, Exists, TypeOK
  <2>5. QED
    BY <2>2, <2>3, <2>4 DEF SoleInv
<1>3. ASSUME NEW r \in Rids, Age(r)
      PROVE  SoleInv'
  <2>1. db[r] \in Row /\ db' = [db EXCEPT ![r] = [db[r] EXCEPT !.lastUsed = "old"]]
    BY <1>3 DEF Age, Exists, TypeOK, Table
  <2>2. /\ [db[r] EXCEPT !.lastUsed = "old"] \in Row
        /\ [db[r] EXCEPT !.lastUsed = "old"].key = db[r].key
        /\ [db[r] EXCEPT !.lastUsed = "old"].hits = db[r].hits
    BY <2>1 DEF Row
  <2> DEFINE aged == [db[r] EXCEPT !.lastUsed = "old"]
  <2> HIDE DEF aged
  <2>3. \A q \in Rids : /\ Exists(q) <=> Exists(q)'
                        /\ Exists(q) => db'[q].key = db[q].key /\ db'[q].hits = db[q].hits
    BY <1>3, <2>1, <2>2, SentinelAssumption
       DEF Age, Exists, TypeOK, Table, aged
  <2>4. CachedHasRow'
    BY <1>3, <2>3, CachedKept DEF Age, KeepsRows, CacheShrinks, Cached, SoleInv
  <2>5. HitsAreExact' /\ (DbFaults \/ SweepSurvives')
    BY <1>3, <2>3 DEF Age, SoleInv, HitsAreExact, SweepSurvives
  <2>6. \A k \in Keys : get_adapter(k)' = get_adapter(k)
    BY <2>3 DEF get_adapter, Exists
  <2>7. ASSUME NEW q \in Procs
        PROVE  SectionCurrent(q)'
    <3> DEFINE s == section[q]
    <3>1. section' = section /\ s \in Section /\ SectionCurrent(q)
      BY <1>3 DEF Age, TypeOK, SoleInv
    <3>2. s.at = "fill" => get_adapter(s.key)' # {}
      BY <1>3, <2>6, <3>1, SectionFields DEF Age, SectionCurrent
    <3>3. s.at = "bump" => s.rid \in Rids
      BY <3>1, SectionFields
    <3>4. s.at = "delete" => s.rid \in Rids
      BY <3>1, SectionFields
    <3>5. s.at \in {"mark", "idle", "log"} => s.rid \in Rids
      BY <3>1, SectionFields
    <3>6. s.at = "idle" => s.held \in Rids
      BY <3>1, SectionFields
    <3>7. \A t \in Remaining(s.rows) : t \in Rids
      BY DEF Remaining
    <3>8. Remaining(s.rows)' = Remaining(s.rows)
      BY <3>1 DEF Remaining
    <3>9. QED
      BY <2>3, <3>1, <3>2, <3>3, <3>4, <3>5, <3>6, <3>7, <3>8
         DEF SectionCurrent, Exists
  <2>8. QED
    BY <2>4, <2>5, <2>7 DEF SoleInv
<1>4. QED
  BY <1>1, <1>2, <1>3

(* Every step of a sole process keeps the invariant.                       *)
LEMMA SoleStep == SoleProcess /\ TypeInv /\ SoleInv /\ [Next]_vars => SoleInv'
<1> SUFFICES ASSUME SoleProcess, TypeInv, TypeOK, SoleInv, [Next]_vars
             PROVE  SoleInv'
  BY DEF TypeInv
<1>1. CASE Next
  BY <1>1, SoleResolve, SoleAdmin, SoleSweep, SoleEnvironment DEF Next, SoleProcess
<1>2. CASE UNCHANGED vars
  BY <1>2 DEF vars, SoleInv, SectionCurrent, CachedHasRow, Cached, HitsAreExact,
              SweepSurvives, get_adapter, Exists, Remaining
<1>3. QED
  BY <1>1, <1>2

(* The invariant of a sole process holds initially.                        *)
LEMMA SoleInit == Init => SoleInv
BY DEF Init, SoleInv, SectionCurrent, Free, SweepPoints, CachedHasRow, Cached,
       HitsAreExact, SweepSurvives, Exists

(* The invariant of a sole process.                                        *)
LEMMA SoleInvariant ==
  ASSUME SoleProcess
  PROVE  Spec => []SoleInv
<1>1. TypeInv /\ SoleInv /\ [Next]_vars => (TypeInv /\ SoleInv)'
  BY TypeStep, SoleStep
<1>2. Init => TypeInv /\ SoleInv
  BY TypeInit, SoleInit
<1>3. QED
  BY <1>1, <1>2, PTL DEF Spec

(* One gateway process: an adapter is in the cache only while it has a row,*)
(* database faults and restarts included.                                  *)
THEOREM CacheFollowsCatalog ==
  ASSUME SoleProcess
  PROVE  Spec => []CachedHasRow
BY SoleInvariant, PTL DEF SoleInv

(* One gateway process: no use of an adapter is lost or counted twice.     *)
THEOREM HitsCountUses ==
  ASSUME SoleProcess
  PROVE  Spec => []HitsAreExact
BY SoleInvariant, PTL DEF SoleInv

(* One gateway process and a database that does not fail: the sweep task   *)
(* never ends by an exception of its own.                                  *)
THEOREM SweepTaskLives ==
  ASSUME SoleProcess, ~DbFaults
  PROVE  Spec => []SweepSurvives
BY SoleInvariant, PTL DEF SoleInv
=============================================================================
