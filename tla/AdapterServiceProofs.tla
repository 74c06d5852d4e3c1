------------------------ MODULE AdapterServiceProofs ------------------------
(***************************************************************************)
(* Theorems about what the dynamic adapters promise: one row per adapter   *)
(* for any number of gateway processes, and for a sole process an accurate *)
(* catalog, a sweep that spares what is used, and the refinement of        *)
(* AdapterService.                                                         *)
(***************************************************************************)
EXTENDS AdapterCacheProofs, FiniteSetTheorems

-----------------------------------------------------------------------------
(* The statements that write the table; every other step leaves it alone.  *)
LEMMA TableWriters ==
  ASSUME [Next]_vars
  PROVE  \/ UNCHANGED db
         \/ \E p \in Procs : \/ TouchWrite(p) \/ InsertRow(p) \/ UpdateRow(p)
                            \/ DeleteRow(p) \/ SweepMark(p)
         \/ \E r \in Rids : Age(r)
<1>1. ASSUME NEW p \in Procs, Resolve(p), ~TouchWrite(p)
      PROVE  UNCHANGED db
  BY <1>1 DEF Resolve, ResolveStatic, ResolveCached, ResolveMiss, Fill, TakeId,
              DownloadFails, TouchRead
<1>2. ASSUME NEW p \in Procs, Admin(p),
             ~InsertRow(p), ~UpdateRow(p), ~DeleteRow(p)
      PROVE  UNCHANGED db
  BY <1>2 DEF Admin, Register, Delete
<1>3. ASSUME NEW p \in Procs, Sweep(p), ~SweepMark(p)
      PROVE  UNCHANGED db
  BY <1>3 DEF Sweep, SweepSelect, SweepEvict, SweepRead, SweepLog
<1>4. ASSUME NEW p \in Procs, RequestFails(p) \/ SweepFails(p) \/ Restart(p)
      PROVE  UNCHANGED db
  BY <1>4 DEF RequestFails, SweepFails, Restart
<1>5. QED
  BY <1>1, <1>2, <1>3, <1>4 DEF Next, vars

-----------------------------------------------------------------------------
(* One row per adapter.  Two registrations may both have found no row; the *)
(* constraint decides at the INSERT, which is the only statement that adds *)
(* a row, and no statement changes the key of one.                         *)

OneRow ==
  \A q, r \in Rids : Exists(q) /\ Exists(r) /\ db[q].key = db[r].key => q = r

(* Every row was there, with its key.                                      *)
NoNewRow == \A r \in Rids : Exists(r)' => Exists(r) /\ db'[r].key = db[r].key

LEMMA NoNewRowKeeps == OneRow /\ NoNewRow => OneRow'
BY DEF OneRow, NoNewRow, Exists

(* Rewriting one row under its key adds no row.                            *)
LEMMA RewriteAddsNone ==
  ASSUME TypeOK, NEW r \in Rids, Exists(r), NEW row, row.key = db[r].key,
         db' = [db EXCEPT ![r] = row]
  PROVE  NoNewRow
BY DEF NoNewRow, Exists, TypeOK, Table

(* An INSERT that succeeds found no row with its key.                      *)
LEMMA InsertKeepsOne ==
  ASSUME TypeOK, OneRow, NEW p \in Procs, InsertRow(p)
  PROVE  OneRow'
<1> DEFINE s == section[p]
<1>1. CASE UNCHANGED db
  BY <1>1 DEF OneRow, Exists
<1>2. ASSUME Unique(s.key), NEW r \in Rids, ~Exists(r),
             db' = [db EXCEPT ![r] = [key |-> s.key, repo |-> s.repo,
                                      status |-> "registered", hits |-> 0,
                                      lastUsed |-> "never"]]
      PROVE  OneRow'
  <2>1. db'[r].key = s.key /\ \A q \in Rids \ {r} : db'[q] = db[q]
    BY <1>2 DEF TypeOK, Table
  <2>2. \A q \in Rids : Exists(q) => db[q].key # s.key
    BY <1>2 DEF Unique, get_adapter, Exists
  <2>3. QED
    BY <2>1, <2>2 DEF OneRow, Exists
<1>3. QED
  BY <1>1, <1>2 DEF InsertRow

(* Every step keeps one row per adapter.                                   *)
LEMMA OneRowStep == TypeInv /\ OneRow /\ [Next]_vars => OneRow'
<1> SUFFICES ASSUME TypeInv, TypeOK, OneRow, [Next]_vars PROVE OneRow'
  BY DEF TypeInv
<1>1. ASSUME UNCHANGED db PROVE OneRow'
  BY <1>1 DEF OneRow, Exists
<1>2. ASSUME NEW p \in Procs, TouchWrite(p)
      PROVE  OneRow'
  <2> DEFINE s == section[p]
  <2>1. s.rid \in Rids /\ s.hits \in Nat
    BY <1>2, SectionFields DEF TouchWrite, At, TypeOK
  <2>2. CASE Exists(s.rid) /\ db' = [db EXCEPT ![s.rid] = Touched(db[s.rid], s)]
    <3>1. db[s.rid] \in Row
      BY <2>1, <2>2 DEF Exists, TypeOK, Table
    <3>2. Touched(db[s.rid], s).key = db[s.rid].key
      BY <2>1, <3>1, TouchedType
    <3>3. QED
      BY <2>1, <2>2, <3>2, RewriteAddsNone, NoNewRowKeeps
  <2>3. QED
    BY <1>1, <1>2, <2>2 DEF TouchWrite
<1>3. ASSUME NEW p \in Procs, UpdateRow(p)
      PROVE  OneRow'
  <2> DEFINE s == section[p]
  <2>1. s.rid \in Rids /\ s.repo \in Repos
    BY <1>3, SectionFields DEF UpdateRow, At, TypeOK
  <2>2. CASE Exists(s.rid) /\ db' = [db EXCEPT ![s.rid] = Updated(db[s.rid], s)]
    <3>1. db[s.rid] \in Row
      BY <2>1, <2>2 DEF Exists, TypeOK, Table
    <3>2. Updated(db[s.rid], s).key = db[s.rid].key
      BY <2>1, <3>1, UpdatedType
    <3>3. QED
      BY <2>1, <2>2, <3>2, RewriteAddsNone, NoNewRowKeeps
  <2>3. QED
    BY <1>1, <1>3, <2>2 DEF UpdateRow
<1>4. ASSUME NEW p \in Procs, DeleteRow(p)
      PROVE  OneRow'
  <2>1. db' = [db EXCEPT ![section[p].rid] = NoRow]
    BY <1>4 DEF DeleteRow
  <2>2. NoNewRow
    BY <2>1 DEF NoNewRow, Exists, TypeOK, Table
  <2>3. QED
    BY <2>2, NoNewRowKeeps
<1>5. ASSUME NEW p \in Procs, SweepMark(p)
      PROVE  OneRow'
  <2> DEFINE s == section[p]
  <2>1. s.held \in Rids
    BY <1>5, SectionFields DEF SweepMark, At, TypeOK
  <2>2. CASE Exists(s.held) /\ db' = [db EXCEPT ![s.held] = Marked(db[s.held])]
    <3>1. db[s.held] \in Row
      BY <2>1, <2>2 DEF Exists, TypeOK, Table
    <3>2. Marked(db[s.held]).key = db[s.held].key
      BY <3>1, MarkedType
    <3>3. QED
      BY <2>1, <2>2, <3>2, RewriteAddsNone, NoNewRowKeeps
  <2>3. QED
    BY <1>1, <1>5, <2>2 DEF SweepMark
<1>6. ASSUME NEW r \in Rids, Age(r)
      PROVE  OneRow'
  <2>1. /\ Exists(r) /\ db[r] \in Row
        /\ db' = [db EXCEPT ![r] = [db[r] EXCEPT !.lastUsed = "old"]]
    BY <1>6 DEF Age, Exists, TypeOK, Table
  <2>2. [db[r] EXCEPT !.lastUsed = "old"].key = db[r].key
    BY <2>1 DEF Row
  <2>3. QED
    BY <2>1, <2>2, RewriteAddsNone, NoNewRowKeeps
<1>7. QED
  BY <1>1, <1>2, <1>3, <1>4, <1>5, <1>6, InsertKeepsOne, TableWriters

(* No two rows share a key, in every reachable state.                      *)
LEMMA OneRowInvariant == Spec => []OneRow
<1>1. Init => OneRow
  BY DEF Init, OneRow, Exists
<1>2. TypeInv /\ OneRow /\ [Next]_vars => (TypeInv /\ OneRow)'
  BY TypeStep, OneRowStep
<1>3. QED
  BY <1>1, <1>2, TypeInit, PTL DEF Spec

(* scalar_one_or_none never meets two rows, however many processes race    *)
(* between the SELECT and the INSERT of a registration.                    *)
THEOREM OneRowEach == Spec => []OneRowPerAdapter
<1>1. OneRow => OneRowPerAdapter
  <2> SUFFICES ASSUME OneRow, NEW k \in Keys
               PROVE  Cardinality(get_adapter(k)) <= 1
    BY DEF OneRowPerAdapter
  <2>1. CASE get_adapter(k) = {}
    BY <2>1, FS_EmptySet
  <2>2. ASSUME NEW r \in get_adapter(k)
        PROVE  Cardinality(get_adapter(k)) <= 1
    <3>1. get_adapter(k) = {r}
      BY <2>2 DEF OneRow, get_adapter, Exists
    <3>2. QED
      BY <3>1, FS_Singleton
  <2>3. QED
    BY <2>1, <2>2
<1>2. QED
  BY <1>1, OneRowInvariant, PTL

-----------------------------------------------------------------------------
(* Time only makes a row old.                                              *)
LEMMA AgeRows ==
  ASSUME TypeOK, NEW r \in Rids, Age(r)
  PROVE  /\ Exists(r) /\ db[r] \in Row /\ db[r].lastUsed = "recent"
         /\ db' = [db EXCEPT ![r] = [db[r] EXCEPT !.lastUsed = "old"]]
         /\ \A q \in Rids \ {r} : db'[q] = db[q]
         /\ db'[r] \in Row /\ db'[r].key = db[r].key /\ db'[r].repo = db[r].repo
         /\ db'[r].status = db[r].status /\ db'[r].hits = db[r].hits
         /\ db'[r].lastUsed = "old"
         /\ \A k \in Keys : get_adapter(k)' = get_adapter(k)
<1>1. /\ Exists(r) /\ db[r] \in Row /\ db[r].lastUsed = "recent"
      /\ db' = [db EXCEPT ![r] = [db[r] EXCEPT !.lastUsed = "old"]]
  BY DEF Age, Exists, TypeOK, Table
<1> DEFINE aged == [db[r] EXCEPT !.lastUsed = "old"]
<1>2. /\ aged \in Row /\ aged.key = db[r].key /\ aged.repo = db[r].repo
      /\ aged.status = db[r].status /\ aged.hits = db[r].hits
      /\ aged.lastUsed = "old"
  BY <1>1 DEF Row
<1> HIDE DEF aged
<1>3. db' = [db EXCEPT ![r] = aged]
  BY <1>1 DEF aged
<1>4. db'[r] = aged /\ \A q \in Rids \ {r} : db'[q] = db[q]
  BY <1>3 DEF TypeOK, Table
<1>5. ASSUME NEW k \in Keys
      PROVE  get_adapter(k)' = get_adapter(k)
  BY <1>1, <1>2, <1>4, SentinelAssumption DEF get_adapter, Exists
<1>6. QED
  BY <1>1, <1>2, <1>4, <1>5

-----------------------------------------------------------------------------
(* A row that was ever used has a hit, for any number of processes: the    *)
(* same statement writes the count and the time.                           *)

UsesCounted == \A r \in Rids : Exists(r) /\ db[r].lastUsed # "never" => db[r].hits > 0

(* Rewriting one row keeps this if the new row has it.                     *)
LEMMA RewriteCounted ==
  ASSUME TypeOK, UsesCounted, NEW r \in Rids, NEW row,
         row = NoRow \/ row.lastUsed = "never" \/ row.hits > 0,
         db' = [db EXCEPT ![r] = row]
  PROVE  UsesCounted'
BY DEF UsesCounted, Exists, TypeOK, Table

(* Every step keeps it.                                                    *)
LEMMA UsesCountedStep == TypeInv /\ UsesCounted /\ [Next]_vars => UsesCounted'
<1> SUFFICES ASSUME TypeInv, TypeOK, UsesCounted, [Next]_vars PROVE UsesCounted'
  BY DEF TypeInv
<1>1. ASSUME UNCHANGED db PROVE UsesCounted'
  BY <1>1 DEF UsesCounted, Exists
<1>2. ASSUME NEW p \in Procs, TouchWrite(p)
      PROVE  UsesCounted'
  <2> DEFINE s == section[p]
             row == Touched(db[s.rid], s)
  <2>1. s.rid \in Rids /\ s.hits \in Nat
    BY <1>2, SectionFields DEF TouchWrite, At, TypeOK
  <2>2. CASE Exists(s.rid) /\ db' = [db EXCEPT ![s.rid] = row]
    <3>1. db[s.rid] \in Row
      BY <2>1, <2>2 DEF Exists, TypeOK, Table
    <3>2. row.hits = s.hits + 1
      BY <3>1 DEF Touched, Row
    <3>3. row.hits > 0
      BY <2>1, <3>2
    <3> HIDE DEF row
    <3>4. QED
      BY <2>1, <2>2, <3>3, RewriteCounted
  <2>3. QED
    BY <1>1, <1>2, <2>2 DEF TouchWrite
<1>3. ASSUME NEW p \in Procs, UpdateRow(p)
      PROVE  UsesCounted'
  <2> DEFINE s == section[p]
             row == Updated(db[s.rid], s)
  <2>1. s.rid \in Rids
    BY <1>3, SectionFields DEF UpdateRow, At, TypeOK
  <2>2. CASE Exists(s.rid) /\ db' = [db EXCEPT ![s.rid] = row]
    <3>1. db[s.rid] \in Row
      BY <2>1, <2>2 DEF Exists, TypeOK, Table
    <3>2. row.hits = db[s.rid].hits /\ row.lastUsed = db[s.rid].lastUsed
      BY <3>1 DEF Updated, Row
    <3> HIDE DEF row
    <3>3. QED
      BY <2>1, <2>2, <3>2, RewriteCounted DEF UsesCounted
  <2>3. QED
    BY <1>1, <1>3, <2>2 DEF UpdateRow
<1>4. ASSUME NEW p \in Procs, InsertRow(p)
      PROVE  UsesCounted'
  <2> DEFINE new == [key |-> section[p].key, repo |-> section[p].repo,
                     status |-> "registered", hits |-> 0, lastUsed |-> "never"]
  <2>1. ASSUME NEW r \in Rids, db' = [db EXCEPT ![r] = new]
        PROVE  UsesCounted'
    <3>1. new.lastUsed = "never"
      OBVIOUS
    <3> HIDE DEF new
    <3>2. QED
      BY <2>1, <3>1, RewriteCounted
  <2>2. QED
    BY <1>1, <1>4, <2>1 DEF InsertRow
<1>5. ASSUME NEW p \in Procs, DeleteRow(p)
      PROVE  UsesCounted'
  <2>1. section[p].rid \in Rids
    BY <1>5, SectionFields DEF DeleteRow, At, TypeOK
  <2>2. QED
    BY <1>5, <2>1, RewriteCounted DEF DeleteRow
<1>6. ASSUME NEW p \in Procs, SweepMark(p)
      PROVE  UsesCounted'
  <2> DEFINE s == section[p]
             row == Marked(db[s.held])
  <2>1. s.held \in Rids
    BY <1>6, SectionFields DEF SweepMark, At, TypeOK
  <2>2. CASE Exists(s.held) /\ db' = [db EXCEPT ![s.held] = row]
    <3>1. db[s.held] \in Row
      BY <2>1, <2>2 DEF Exists, TypeOK, Table
    <3>2. row.hits = db[s.held].hits /\ row.lastUsed = db[s.held].lastUsed
      BY <3>1 DEF Marked, Row
    <3> HIDE DEF row
    <3>3. QED
      BY <2>1, <2>2, <3>2, RewriteCounted DEF UsesCounted
  <2>3. QED
    BY <1>1, <1>6, <2>2 DEF SweepMark
<1>7. ASSUME NEW r \in Rids, Age(r)
      PROVE  UsesCounted'
  BY <1>7, AgeRows DEF UsesCounted, Exists
<1>8. QED
  BY <1>1, <1>2, <1>3, <1>4, <1>5, <1>6, <1>7, TableWriters

-----------------------------------------------------------------------------
(* One gateway process: what its section read from the table and the cache *)
(* still stands when it is used.                                           *)

InHand(p) ==
  LET s == section[p] IN
  /\ s.at = "fill" => /\ ~Cached(p, s.key)
                      /\ \A r \in get_adapter(s.key) : db[r].repo = s.repo
  /\ s.at = "bump" => db[s.rid].key = s.key /\ db[s.rid].status = s.status
  /\ s.at = "update" => /\ Exists(s.rid)
                        /\ db[s.rid].repo = s.oldRepo /\ db[s.rid].status = s.status
  /\ s.at \in SweepPoints =>
       \A r \in Remaining(s.rows) : IsIdle(db[r]) /\ db[r].key = s.rows[r]
  /\ s.at \in {"mark", "idle"} =>
       /\ IsIdle(db[s.rid]) /\ s.rid \notin Remaining(s.rows)
       /\ s.status = "loaded" /\ ~Cached(p, db[s.rid].key)
  /\ s.at = "mark" => s.key = db[s.rid].key
  /\ s.at = "idle" => s.held = s.rid

AllInHand == \A p \in Procs : InHand(p)

(* The section moves to s, and what it holds there is so.                  *)
LEMMA HandMove ==
  ASSUME TypeOK, NEW p \in Procs, \A q \in Procs : q = p,
         NEW s \in Section, Goto(p, s),
         s.at = "fill" => /\ ~Cached(p, s.key)'
                          /\ \A r \in get_adapter(s.key)' : db'[r].repo = s.repo,
         s.at = "bump" => db'[s.rid].key = s.key /\ db'[s.rid].status = s.status,
         s.at = "update" => /\ Exists(s.rid)'
                            /\ db'[s.rid].repo = s.oldRepo
                            /\ db'[s.rid].status = s.status,
         s.at \in SweepPoints =>
           \A r \in Remaining(s.rows) : IsIdle(db'[r]) /\ db'[r].key = s.rows[r],
         s.at \in {"mark", "idle"} =>
           /\ IsIdle(db'[s.rid]) /\ s.rid \notin Remaining(s.rows)
           /\ s.status = "loaded" /\ loaded'[p][db'[s.rid].key] = NoAdapter,
         s.at = "mark" => s.key = db'[s.rid].key,
         s.at = "idle" => s.held = s.rid
  PROVE  AllInHand'
<1>1. section'[p] = s
  BY GotoType
<1> SUFFICES InHand(p)'
  BY DEF AllInHand
<1>2. QED
  BY <1>1 DEF InHand, Remaining, Cached, Exists, IsIdle

(* A section that ends, or begins without a row in hand, holds nothing.    *)
LEMMA HandNothing ==
  ASSUME TypeOK, NEW p \in Procs, \A q \in Procs : q = p,
         NEW s \in Section, Goto(p, s), s.at \in {"free", "touch", "insert", "delete"}
  PROVE  AllInHand'
BY HandMove DEF SweepPoints

LEMMA HandFree ==
  ASSUME TypeOK, NEW p \in Procs, \A q \in Procs : q = p, Goto(p, Free)
  PROVE  AllInHand'
BY HandNothing, FreeType

(* The sweep goes on with rows that are idle still.                        *)
LEMMA HandNextRow ==
  ASSUME TypeOK, NEW p \in Procs, \A q \in Procs : q = p,
         NEW rows \in Visits, NEW fresh \in BOOLEAN, Goto(p, NextRow(rows, fresh)),
         \A r \in Remaining(rows) : IsIdle(db'[r]) /\ db'[r].key = rows[r]
  PROVE  AllInHand'
<1>1. CASE NextRow(rows, fresh) = Free
  BY <1>1, HandFree
<1>2. CASE NextRow(rows, fresh) = [at |-> "sweep", rows |-> rows, fresh |-> fresh]
  <2>1. [at |-> "sweep", rows |-> rows, fresh |-> fresh] \in Section
    BY DEF Section
  <2>2. QED
    BY <1>2, <2>1, HandMove
<1>3. QED
  BY <1>1, <1>2 DEF NextRow

(* Resolving.                                                              *)
LEMMA HandResolve ==
  ASSUME TypeInv, TypeOK, OneRow, AllInHand,
         NEW p \in Procs, \A q \in Procs : q = p, Resolve(p)
  PROVE  AllInHand'
<1> DEFINE s == section[p]
<1>1. ASSUME NEW k \in Keys, ResolveStatic(p, k)
      PROVE  AllInHand'
  BY <1>1 DEF ResolveStatic, AllInHand, InHand, Cached, Exists, get_adapter
<1>2. ASSUME NEW k \in Keys, ResolveCached(p, k)
      PROVE  AllInHand'
  <2>1. [at |-> "touch", key |-> k] \in Section
    BY DEF Section
  <2>2. QED
    BY <1>2, <2>1, HandNothing DEF ResolveCached
<1>3. ASSUME NEW k \in Keys, ResolveMiss(p, k)
      PROVE  AllInHand'
  <2>1. PICK r \in get_adapter(k) :
          Goto(p, [at |-> "fill", key |-> k, repo |-> db[r].repo])
    BY <1>3 DEF ResolveMiss
  <2>2. db[r] \in Row
    BY <2>1 DEF get_adapter, TypeOK, Table
  <2>3. [at |-> "fill", key |-> k, repo |-> db[r].repo] \in Section
    BY <2>2 DEF Section, Row
  <2>4. ~Cached(p, k)' /\ \A q \in get_adapter(k)' : db'[q].repo = db[r].repo
    BY <1>3 DEF ResolveMiss, get_adapter, OneRow, Exists, Cached
  <2>5. QED
    BY <2>1, <2>3, <2>4, HandMove DEF SweepPoints
<1>4. CASE Fill(p)
  <2>1. s.key \in Keys
    BY <1>4, SectionFields DEF Fill, TakeId, At, TypeOK
  <2>2. [at |-> "touch", key |-> s.key] \in Section
    BY <2>1 DEF Section
  <2>3. QED
    BY <1>4, <2>2, HandNothing DEF Fill, TakeId
<1>5. CASE DownloadFails(p)
  BY <1>5, HandFree DEF DownloadFails
<1>6. CASE TouchRead(p)
  <2>1. s.key \in Keys
    BY <1>6, SectionFields DEF TouchRead, At, TypeOK
  <2>2. ASSUME NEW r \in get_adapter(s.key),
               Goto(p, [at |-> "bump", key |-> s.key, rid |-> r,
                        hits |-> db[r].hits, status |-> db[r].status])
        PROVE  AllInHand'
    <3>1. r \in Rids /\ db[r] \in Row /\ db[r].key = s.key
      BY DEF get_adapter, TypeOK, Table
    <3>2. [at |-> "bump", key |-> s.key, rid |-> r,
           hits |-> db[r].hits, status |-> db[r].status] \in Section
      BY <2>1, <3>1 DEF Section, Row
    <3>3. db' = db
      BY <1>6 DEF TouchRead
    <3>4. QED
      BY <2>2, <3>1, <3>2, <3>3, HandMove DEF SweepPoints
  <2>3. QED
    BY <1>6, <2>2, HandFree DEF TouchRead
<1>7. CASE TouchWrite(p)
  BY <1>7, HandFree DEF TouchWrite
<1>8. QED
  BY <1>1, <1>2, <1>3, <1>4, <1>5, <1>6, <1>7 DEF Resolve

(* The admin handlers.                                                     *)
LEMMA HandAdmin ==
  ASSUME TypeInv, TypeOK, OneRow, AllInHand,
         NEW p \in Procs, \A q \in Procs : q = p, Admin(p)
  PROVE  AllInHand'
<1>1. ASSUME NEW k \in Keys, NEW repo \in Repos, Register(p, k, repo)
      PROVE  AllInHand'
  <2>1. CASE Goto(p, [at |-> "insert", key |-> k, repo |-> repo])
    <3>1. [at |-> "insert", key |-> k, repo |-> repo] \in Section
      BY DEF Section
    <3>2. QED
      BY <2>1, <3>1, HandNothing
  <2>2. ASSUME NEW r \in get_adapter(k),
               Goto(p, [at |-> "update", rid |-> r, repo |-> repo,
                        oldRepo |-> db[r].repo, status |-> db[r].status])
        PROVE  AllInHand'
    <3>1. r \in Rids /\ db[r] \in Row /\ Exists(r)
      BY DEF get_adapter, TypeOK, Table, Exists
    <3>2. [at |-> "update", rid |-> r, repo |-> repo,
           oldRepo |-> db[r].repo, status |-> db[r].status] \in Section
      BY <3>1 DEF Section, Row
    <3>3. db' = db /\ Exists(r)'
      BY <1>1, <3>1 DEF Register, Exists
    <3>4. QED
      BY <2>2, <3>2, <3>3, HandMove DEF SweepPoints
  <2>3. QED
    BY <1>1, <2>1, <2>2 DEF Register
<1>2. ASSUME NEW k \in Keys, Delete(p, k)
      PROVE  AllInHand'
  <2>1. PICK r \in get_adapter(k) : Goto(p, [at |-> "delete", key |-> k, rid |-> r])
    BY <1>2 DEF Delete
  <2>2. [at |-> "delete", key |-> k, rid |-> r] \in Section
    BY DEF Section, get_adapter
  <2>3. QED
    BY <2>1, <2>2, HandNothing
<1>3. CASE InsertRow(p) \/ UpdateRow(p) \/ DeleteRow(p)
  BY <1>3, HandFree DEF InsertRow, UpdateRow, DeleteRow
<1>4. QED
  BY <1>1, <1>2, <1>3, ConfigAssumption DEF Admin

(* A row that is marked idle or not, the others stay as the sweep saw them.*)
LEMMA HandSweep ==
  ASSUME TypeInv, TypeOK, OneRow, AllInHand,
         NEW p \in Procs, \A q \in Procs : q = p, Sweep(p)
  PROVE  AllInHand'
<1> DEFINE s == section[p]
<1>1. CASE SweepSelect(p)
  <2>1. find_idle_since \in Visits
    BY DEF find_idle_since, Visits, IsIdle, TypeOK, Table, Row
  <2>2. \A r \in Remaining(find_idle_since) :
          IsIdle(db[r]) /\ db[r].key = find_idle_since[r]
    BY DEF Remaining, find_idle_since
  <2>3. db' = db /\ Goto(p, NextRow(find_idle_since, TRUE))
    BY <1>1 DEF SweepSelect
  <2> DEFINE rows == find_idle_since
  <2> HIDE DEF rows
  <2>4. QED
    BY <2>1, <2>2, <2>3, HandNextRow DEF rows
<1>2. CASE SweepEvict(p)
  <2>1. s.rows \in Visits /\ s.fresh \in BOOLEAN
    BY <1>2, SectionFields DEF SweepEvict, At, TypeOK
  <2>2. \A r \in Remaining(s.rows) :
          r \in Rids /\ IsIdle(db[r]) /\ db[r].key = s.rows[r]
    BY <1>2 DEF SweepEvict, At, AllInHand, InHand, SweepPoints, Remaining
  <2>3. PICK r \in Remaining(s.rows) :
          /\ Evict(p, VisitedRow(s, r).key)
          /\ Goto(p, [at |-> "mark", key |-> VisitedRow(s, r).key, rid |-> r,
                      status |-> VisitedRow(s, r).status,
                      rows |-> [s.rows EXCEPT ![r] = NoRow], fresh |-> s.fresh])
    BY <1>2, <2>2 DEF SweepEvict, Exists, IsIdle
  <2> DEFINE k == db[r].key
             rest == [s.rows EXCEPT ![r] = NoRow]
  <2>4. VisitedRow(s, r).key = k /\ VisitedRow(s, r).status = "loaded"
    BY <2>2 DEF VisitedRow, IsIdle
  <2>5. k \in Keys /\ rest \in Visits /\ r \in Rids
    BY <2>1, <2>2 DEF IsIdle, TypeOK, Table, Row, Visits
  <2>6. \A q \in Remaining(rest) : q \in Remaining(s.rows) /\ q # r /\ rest[q] = s.rows[q]
    BY <2>1 DEF Remaining, Visits
  <2>7. db' = db /\ loaded'[p][k] = NoAdapter
    BY <1>2, <2>3, <2>4, <2>5 DEF SweepEvict, Evict, TypeOK
  <2>8. [at |-> "mark", key |-> k, rid |-> r, status |-> "loaded",
         rows |-> rest, fresh |-> s.fresh] \in Section
    BY <2>1, <2>5 DEF Section, Status
  <2>9. Goto(p, [at |-> "mark", key |-> k, rid |-> r, status |-> "loaded",
                 rows |-> rest, fresh |-> s.fresh])
    BY <2>3, <2>4
  <2> HIDE DEF rest
  <2>10. QED
    BY <2>2, <2>6, <2>7, <2>8, <2>9, HandMove
<1>3. CASE SweepRead(p)
  <2>1. /\ s.key \in Keys /\ s.rid \in Rids /\ s.status \in Status
        /\ s.rows \in Visits /\ s.fresh \in BOOLEAN
    BY <1>3, SectionFields DEF SweepRead, At, TypeOK
  <2>2. /\ s.key = db[s.rid].key /\ IsIdle(db[s.rid]) /\ s.status = "loaded"
        /\ s.rid \notin Remaining(s.rows) /\ ~Cached(p, db[s.rid].key)
        /\ \A r \in Remaining(s.rows) : IsIdle(db[r]) /\ db[r].key = s.rows[r]
        /\ UNCHANGED <<db, loaded>>
    BY <1>3 DEF SweepRead, At, AllInHand, InHand, SweepPoints
  <2>3. CASE Goto(p, NextRow(s.rows, s.fresh))
    BY <2>1, <2>2, <2>3, HandNextRow
  <2>4. ASSUME NEW h \in get_adapter(s.key),
               Goto(p, [at |-> "idle", rid |-> s.rid, held |-> h,
                        status |-> IF h = s.rid THEN s.status ELSE db[h].status,
                        rows |-> s.rows, fresh |-> s.fresh])
        PROVE  AllInHand'
    <3>1. h = s.rid
      BY <2>1, <2>2 DEF get_adapter, OneRow, Exists, IsIdle
    <3>2. [at |-> "idle", rid |-> s.rid, held |-> s.rid, status |-> "loaded",
           rows |-> s.rows, fresh |-> s.fresh] \in Section
      BY <2>1 DEF Section, Status
    <3>3. Goto(p, [at |-> "idle", rid |-> s.rid, held |-> s.rid, status |-> "loaded",
                   rows |-> s.rows, fresh |-> s.fresh])
      BY <2>2, <2>4, <3>1
    <3>4. QED
      BY <2>2, <3>2, <3>3, HandMove DEF Cached
  <2>5. QED
    BY <1>3, <2>3, <2>4 DEF SweepRead
<1>4. CASE SweepMark(p)
  <2>1. s.rid \in Rids /\ s.rows \in Visits
    BY <1>4, SectionFields DEF SweepMark, At, TypeOK
  <2>2. /\ s.held = s.rid /\ s.status = "loaded" /\ Exists(s.rid)
        /\ s.rid \notin Remaining(s.rows)
        /\ \A r \in Remaining(s.rows) : IsIdle(db[r]) /\ db[r].key = s.rows[r]
    BY <1>4 DEF SweepMark, At, AllInHand, InHand, SweepPoints, IsIdle, Exists
  <2>3. /\ db' = [db EXCEPT ![s.rid] = Marked(db[s.rid])]
        /\ Goto(p, [at |-> "log", rid |-> s.rid, rows |-> s.rows, fresh |-> FALSE])
    BY <1>4, <2>2 DEF SweepMark
  <2>4. \A r \in Remaining(s.rows) : IsIdle(db'[r]) /\ db'[r].key = s.rows[r]
    BY <2>2, <2>3 DEF Remaining, TypeOK, Table
  <2>5. [at |-> "log", rid |-> s.rid, rows |-> s.rows, fresh |-> FALSE] \in Section
    BY <2>1 DEF Section
  <2>6. QED
    BY <2>3, <2>4, <2>5, HandMove
<1>5. CASE SweepLog(p)
  <2>1. s.rows \in Visits /\ s.fresh \in BOOLEAN
    BY <1>5, SectionFields DEF SweepLog, At, TypeOK
  <2>2. /\ \A r \in Remaining(s.rows) : IsIdle(db[r]) /\ db[r].key = s.rows[r]
        /\ UNCHANGED db
    BY <1>5 DEF SweepLog, At, AllInHand, InHand, SweepPoints
  <2>3. QED
    BY <1>5, <2>1, <2>2, HandFree, HandNextRow DEF SweepLog, SweepDies
<1>6. QED
  BY <1>1, <1>2, <1>3, <1>4, <1>5 DEF Sweep

(* Time passes while a section holds its rows: none of what it holds about *)
(* them is a recent use.                                                   *)
LEMMA HandAge ==
  ASSUME TypeOK, AllInHand, NEW t \in Rids, Age(t)
  PROVE  AllInHand'
<1> SUFFICES ASSUME NEW p \in Procs PROVE InHand(p)'
  BY DEF AllInHand
<1> DEFINE s == section[p]
<1>1. section' = section /\ loaded' = loaded /\ s \in Section /\ InHand(p)
  BY DEF Age, TypeOK, AllInHand
<1>2. \A r \in Rids : Exists(r) => /\ Exists(r)' /\ db'[r].key = db[r].key
                                   /\ db'[r].repo = db[r].repo
                                   /\ db'[r].status = db[r].status
  BY AgeRows, SentinelAssumption DEF Exists
<1>3. \A r \in Rids : IsIdle(db[r]) => db'[r] = db[r]
  BY AgeRows DEF IsIdle
<1>4. s.at = "fill" => /\ ~Cached(p, s.key)'
                       /\ \A r \in get_adapter(s.key)' : db'[r].repo = s.repo
  BY <1>1, <1>2, AgeRows, SectionFields DEF InHand, Cached, get_adapter, Exists
<1>5. s.at = "bump" => db'[s.rid].key = s.key /\ db'[s.rid].status = s.status
  BY <1>1, <1>2, AgeRows, SectionFields DEF InHand, Exists
<1>6. s.at = "update" => /\ Exists(s.rid)'
                         /\ db'[s.rid].repo = s.oldRepo /\ db'[s.rid].status = s.status
  BY <1>1, <1>2, SectionFields DEF InHand
<1>7. s.at \in SweepPoints =>
        \A r \in Remaining(s.rows) : IsIdle(db'[r]) /\ db'[r].key = s.rows[r]
  BY <1>1, <1>3 DEF InHand, Remaining
<1>8. s.at \in {"mark", "idle"} => db'[s.rid] = db[s.rid]
  BY <1>1, <1>3, SectionFields DEF InHand
<1>9. QED
  BY <1>1, <1>4, <1>5, <1>6, <1>7, <1>8 DEF InHand, Cached, Remaining, Exists, IsIdle

(* A section keeps what it holds until its next statement.                 *)
LEMMA HandStep ==
  ASSUME SoleProcess, TypeInv, OneRow, AllInHand, [Next]_vars
  PROVE  AllInHand'
<1>1. TypeOK
  BY DEF TypeInv
<1>2. ASSUME NEW p \in Procs, RequestFails(p) \/ SweepFails(p) \/ Restart(p)
      PROVE  AllInHand'
  BY <1>1, <1>2, HandFree
     DEF RequestFails, SweepFails, SweepDies, Restart, Goto, SoleProcess
<1>3. CASE UNCHANGED vars
  BY <1>3 DEF vars, AllInHand, InHand, Cached, Exists, get_adapter
<1>4. QED
  BY <1>1, <1>2, <1>3, HandResolve, HandAdmin, HandSweep, HandAge
     DEF Next, SoleProcess

-----------------------------------------------------------------------------
(* An adapter whose row is idle is cached only between the moment it was   *)
(* loaded anew and the statement that says so.                             *)

Shown(p, k, r) == Cached(p, k) /\ r \in get_adapter(k) /\ db[r].status = "idle"
IdleHidden ==
  \A p \in Procs, k \in Keys, r \in Rids :
    Shown(p, k, r) => section[p].at \in {"touch", "bump"} /\ section[p].key = k

(* Away from those two points no row that is shown is idle; a step that    *)
(* shows no other one keeps the invariant.                                 *)
LEMMA HiddenKept ==
  ASSUME IdleHidden, NEW p \in Procs, \A q \in Procs : q = p,
         section[p].at \notin {"touch", "bump"},
         \A k \in Keys, r \in Rids : Shown(p, k, r)' => Shown(p, k, r)
  PROVE  IdleHidden'
BY DEF IdleHidden

(* Nothing else is shown when neither cache nor table gains anything.      *)
LEMMA ShownKept ==
  ASSUME NEW p \in Procs, CacheShrinks,
         \A r \in Rids : /\ Exists(r)' => Exists(r) \/ db'[r].status # "idle"
                         /\ Exists(r)' /\ Exists(r) /\ db'[r].status = "idle" =>
                              db'[r].key = db[r].key /\ db[r].status = "idle"
  PROVE  \A k \in Keys, r \in Rids : Shown(p, k, r)' => Shown(p, k, r)
BY DEF Shown, CacheShrinks, get_adapter, Exists

(* Every step of a sole process keeps it, when no statement fails.         *)
LEMMA HiddenStep ==
  ASSUME SoleProcess, ~DbFaults, TypeInv, SoleInv, OneRow, AllInHand, IdleHidden,
         [Next]_vars
  PROVE  IdleHidden'
<1>1. TypeOK
  BY DEF TypeInv
<1>2. ASSUME NEW p \in Procs, Resolve(p)
      PROVE  IdleHidden'
  <2> DEFINE s == section[p]
  <2>1. \A q \in Procs : q = p
    BY DEF SoleProcess
  <2>2. CASE /\ UNCHANGED <<db, loaded>>
             /\ s.at \notin {"touch", "bump"}
    BY <2>1, <2>2, HiddenKept DEF Shown, get_adapter, Exists, Cached
  <2>3. CASE Fill(p)
    <3>1. s.key \in Keys /\ s.at = "fill"
      BY <1>1, <2>3, SectionFields DEF Fill, TakeId, At, TypeOK
    <3>2. section'[p] = [at |-> "touch", key |-> s.key]
      BY <1>1, <2>3 DEF Fill, TakeId, Goto, TypeOK
    <3>3. \A k \in Keys \ {s.key} : Cached(p, k)' = Cached(p, k)
      BY <1>1, <2>3, <3>1 DEF Fill, TakeId, Cached, TypeOK
    <3>4. db' = db
      BY <2>3 DEF Fill, TakeId
    <3>5. QED
      BY <2>1, <3>1, <3>2, <3>3, <3>4 DEF IdleHidden, Shown, get_adapter, Exists
  <2>4. CASE TouchRead(p)
    <3>1. s.key \in Keys /\ Cached(p, s.key) /\ s.at = "touch"
      BY <1>1, <2>4, SectionFields
         DEF TouchRead, At, TypeOK, TypeInv, HandsOutCached
    <3>2. get_adapter(s.key) # {}
      BY <3>1 DEF SoleInv, CachedHasRow
    <3>3. section'[p].at = "bump" /\ section'[p].key = s.key
      BY <1>1, <2>4, <3>2 DEF TouchRead, Goto, TypeOK
    <3>4. UNCHANGED <<db, loaded>>
      BY <2>4 DEF TouchRead
    <3>5. QED
      BY <2>1, <3>1, <3>3, <3>4
         DEF IdleHidden, Shown, get_adapter, Exists, Cached
  <2>5. CASE TouchWrite(p)
    <3>1. /\ s.at = "bump" /\ s.key \in Keys /\ s.rid \in Rids /\ s.hits \in Nat
          /\ Exists(s.rid) /\ db[s.rid].key = s.key /\ db[s.rid].status = s.status
      BY <1>1, <2>5, SectionFields
         DEF TouchWrite, At, TypeOK, SoleInv, SectionCurrent, AllInHand, InHand
    <3>2. db[s.rid] \in Row
      BY <1>1, <3>1 DEF Exists, TypeOK, Table
    <3>3. Touched(db[s.rid], s).status = "loaded"
      BY <3>1, <3>2 DEF Touched, Row
    <3>4. /\ db' = [db EXCEPT ![s.rid] = Touched(db[s.rid], s)] /\ loaded' = loaded
      BY <2>5, <3>1 DEF TouchWrite
    <3>5. db'[s.rid].status = "loaded" /\ \A r \in Rids \ {s.rid} : db'[r] = db[r]
      BY <1>1, <3>1, <3>3, <3>4 DEF TypeOK, Table
    <3>6. \A k \in Keys, r \in Rids : ~Shown(p, k, r)'
      <4> SUFFICES ASSUME NEW k \in Keys, NEW r \in Rids, Shown(p, k, r)'
                   PROVE  FALSE
        OBVIOUS
      <4>1. r # s.rid
        BY <3>5 DEF Shown
      <4>2. Shown(p, k, r)
        BY <3>4, <3>5, <4>1 DEF Shown, Cached, get_adapter, Exists
      <4>3. k = s.key /\ Exists(r) /\ db[r].key = s.key
        BY <3>1, <4>2 DEF IdleHidden, Shown, get_adapter, Exists
      <4>4. QED
        BY <3>1, <4>1, <4>3 DEF OneRow
    <3>7. QED
      BY <2>1, <3>6 DEF IdleHidden
  <2>6. QED
    BY <1>2, <2>2, <2>3, <2>4, <2>5
       DEF Resolve, ResolveStatic, ResolveCached, ResolveMiss, DownloadFails, At
<1>3. ASSUME NEW p \in Procs, Admin(p)
      PROVE  IdleHidden'
  <2> DEFINE s == section[p]
  <2>1. \A q \in Procs : q = p
    BY DEF SoleProcess
  <2>2. s.at \notin {"touch", "bump"}
    BY <1>3 DEF Admin, Register, InsertRow, UpdateRow, Delete, DeleteRow, At
  <2>3. CacheShrinks
    <3>1. CASE DeleteRow(p)
      <4>1. s.key \in Keys
        BY <1>1, <3>1, SectionFields DEF DeleteRow, At, TypeOK
      <4>2. QED
        BY <1>1, <2>1, <3>1, <4>1 DEF DeleteRow, Evict, CacheShrinks, Cached, TypeOK
    <3>2. CASE UNCHANGED loaded
      BY <3>2 DEF CacheShrinks, Cached
    <3>3. QED
      BY <1>3, <3>1, <3>2 DEF Admin, Register, InsertRow, UpdateRow, Delete
  <2>4. CASE UNCHANGED db
    BY <2>1, <2>2, <2>3, <2>4, HiddenKept, ShownKept DEF Exists
  <2>5. CASE InsertRow(p)
    <3> DEFINE new == [key |-> s.key, repo |-> s.repo, status |-> "registered",
                       hits |-> 0, lastUsed |-> "never"]
    <3>1. ASSUME NEW r \in Rids, ~Exists(r), db' = [db EXCEPT ![r] = new]
          PROVE  IdleHidden'
      <4>1. new.status # "idle"
        OBVIOUS
      <4> HIDE DEF new
      <4>2. db'[r].status # "idle" /\ \A q \in Rids \ {r} : db'[q] = db[q]
        BY <1>1, <3>1, <4>1 DEF TypeOK, Table
      <4>3. QED
        BY <2>1, <2>2, <2>3, <4>2, HiddenKept, ShownKept DEF Exists
    <3>2. QED
      BY <2>4, <2>5, <3>1 DEF InsertRow
  <2>6. CASE UpdateRow(p)
    <3>1. /\ s.rid \in Rids /\ s.repo \in Repos /\ Exists(s.rid)
          /\ db[s.rid].status = s.status
      BY <1>1, <2>6, SectionFields DEF UpdateRow, At, TypeOK, AllInHand, InHand
    <3>2. db[s.rid] \in Row
      BY <1>1, <3>1 DEF Exists, TypeOK, Table
    <3>3. Updated(db[s.rid], s).status = "registered"
      BY <3>1, <3>2 DEF Updated, Row
    <3>4. db' = [db EXCEPT ![s.rid] = Updated(db[s.rid], s)]
      BY <2>6, <3>1 DEF UpdateRow
    <3>5. db'[s.rid].status = "registered" /\ \A q \in Rids \ {s.rid} : db'[q] = db[q]
      BY <1>1, <3>1, <3>3, <3>4 DEF TypeOK, Table
    <3>6. QED
      BY <2>1, <2>2, <2>3, <3>1, <3>5, HiddenKept, ShownKept DEF Exists
  <2>7. CASE DeleteRow(p)
    <3>1. \A q \in Rids : db'[q] = db[q] \/ db'[q] = NoRow
      BY <1>1, <2>7 DEF DeleteRow, TypeOK, Table
    <3>2. QED
      BY <2>1, <2>2, <2>3, <3>1, HiddenKept, ShownKept DEF Exists
  <2>8. QED
    BY <1>3, <2>4, <2>5, <2>6, <2>7 DEF Admin, Register, Delete
<1>4. ASSUME NEW p \in Procs, Sweep(p)
      PROVE  IdleHidden'
  <2> DEFINE s == section[p]
  <2>1. \A q \in Procs : q = p
    BY DEF SoleProcess
  <2>2. s.at \notin {"touch", "bump"}
    BY <1>4 DEF Sweep, SweepSelect, SweepEvict, SweepRead, SweepMark, SweepLog, At
  <2>3. CASE UNCHANGED <<db, loaded>>
    BY <2>1, <2>2, <2>3, HiddenKept DEF Shown, get_adapter, Exists, Cached
  <2>4. CASE SweepEvict(p)
    <3>1. CacheShrinks
      <4>1. CASE UNCHANGED loaded
        BY <4>1 DEF CacheShrinks, Cached
      <4>2. ASSUME NEW k, loaded' = [loaded EXCEPT ![p][k] = NoAdapter]
            PROVE  CacheShrinks
        BY <1>1, <2>1, <4>2 DEF CacheShrinks, Cached, TypeOK
      <4>3. QED
        BY <2>4, <4>1, <4>2 DEF SweepEvict, Evict
    <3>2. db' = db
      BY <2>4 DEF SweepEvict
    <3>3. QED
      BY <2>1, <2>2, <3>1, <3>2, HiddenKept, ShownKept DEF Exists
  <2>5. CASE SweepMark(p)
    <3>1. /\ s.held = s.rid /\ s.status = "loaded" /\ s.rid \in Rids /\ Exists(s.rid)
          /\ db[s.rid].key \in Keys /\ ~Cached(p, db[s.rid].key)
      BY <1>1, <2>5, SectionFields
         DEF SweepMark, At, AllInHand, InHand, IsIdle, Exists, TypeOK, Table, Row
    <3>2. /\ db' = [db EXCEPT ![s.rid] = Marked(db[s.rid])] /\ loaded' = loaded
      BY <2>5, <3>1 DEF SweepMark
    <3>3. Marked(db[s.rid]).key = db[s.rid].key
      BY <1>1, <3>1, MarkedType DEF Exists, TypeOK, Table
    <3>4. db'[s.rid].key = db[s.rid].key /\ \A q \in Rids \ {s.rid} : db'[q] = db[q]
      BY <1>1, <3>1, <3>2, <3>3 DEF TypeOK, Table
    <3>5. ASSUME NEW k \in Keys, NEW r \in Rids, Shown(p, k, r)'
          PROVE  Shown(p, k, r)
      <4>1. r # s.rid
        BY <3>1, <3>2, <3>4, <3>5 DEF Shown, Cached, get_adapter
      <4>2. QED
        BY <3>2, <3>4, <3>5, <4>1 DEF Shown, Cached, get_adapter
    <3>6. QED
      BY <2>1, <2>2, <3>5, HiddenKept
  <2>6. QED
    BY <1>4, <2>3, <2>4, <2>5 DEF Sweep, SweepSelect, SweepRead, SweepLog
<1>5. ASSUME NEW p \in Procs, RequestFails(p) \/ SweepFails(p)
      PROVE  IdleHidden'
  BY <1>5 DEF RequestFails, SweepFails
<1>6. ASSUME NEW p \in Procs, Restart(p)
      PROVE  IdleHidden'
  <2>1. \A k \in Keys : ~Cached(p, k)'
    BY <1>1, <1>6 DEF Restart, Cached, TypeOK
  <2>2. QED
    BY <2>1 DEF IdleHidden, Shown, SoleProcess
<1>7. ASSUME NEW t \in Rids, Age(t)
      PROVE  IdleHidden'
  <2>1. UNCHANGED <<section, loaded>>
    BY <1>7 DEF Age
  <2>2. \A p \in Procs, k \in Keys, r \in Rids : Shown(p, k, r)' => Shown(p, k, r)
    BY <1>1, <1>7, <2>1, AgeRows DEF Shown, Cached
  <2>3. QED
    BY <2>1, <2>2 DEF IdleHidden
<1>8. CASE UNCHANGED vars
  BY <1>8 DEF vars, IdleHidden, Shown, Cached, get_adapter, Exists
<1>9. QED
  BY <1>2, <1>3, <1>4, <1>5, <1>6, <1>7, <1>8 DEF Next

(* All that is known of a sole process.                                    *)
ServiceInv == TypeInv /\ SoleInv /\ OneRow /\ AllInHand /\ UsesCounted

LEMMA ServiceInit == Init => ServiceInv /\ IdleHidden
<1> SUFFICES ASSUME Init PROVE ServiceInv /\ IdleHidden
  OBVIOUS
<1>1. OneRow /\ UsesCounted
  BY DEF Init, OneRow, UsesCounted, Exists
<1>2. AllInHand
  BY DEF Init, AllInHand, InHand, Free, SweepPoints
<1>3. IdleHidden
  BY DEF Init, IdleHidden, Shown, Cached
<1>4. QED
  BY <1>1, <1>2, <1>3, TypeInit, SoleInit DEF ServiceInv

LEMMA ServiceStep == SoleProcess /\ ServiceInv /\ [Next]_vars => ServiceInv'
BY TypeStep, SoleStep, OneRowStep, HandStep, UsesCountedStep DEF ServiceInv

LEMMA ServiceInvariant ==
  ASSUME SoleProcess
  PROVE  Spec => []ServiceInv
BY ServiceInit, ServiceStep, PTL DEF Spec

(* One gateway process and a database that does not fail: what the table   *)
(* marks idle is not advertised, between the handlers.                     *)
THEOREM CatalogIsAccurate ==
  ASSUME SoleProcess, ~DbFaults
  PROVE  Spec => []IdleIsNotAdvertised
<1>1. ServiceInv /\ IdleHidden /\ [Next]_vars => (ServiceInv /\ IdleHidden)'
  BY ServiceStep, HiddenStep DEF ServiceInv
<1>2. IdleHidden => IdleIsNotAdvertised
  BY DEF IdleHidden, IdleIsNotAdvertised, Shown, loaded_ids, At, get_adapter
<1>3. QED
  BY <1>1, <1>2, ServiceInit, PTL DEF Spec

(* One gateway process, failing statements and restarts included: whatever *)
(* the sweep evicts has been idle past the limit until that very step.     *)
THEOREM SweepSpares ==
  ASSUME SoleProcess
  PROVE  Spec => SweepSparesRecentlyUsed
<1> DEFINE Spares == \A p \in Procs, k \in Keys :
             (Cached(p, k) /\ Sweep(p) /\ loaded'[p][k] = NoAdapter) =>
               \A r \in get_adapter(k) : db[r].lastUsed = "old"
<1>1. ServiceInv => Spares
  <2> SUFFICES ASSUME ServiceInv, TypeOK, OneRow, AllInHand,
                      NEW p \in Procs, NEW k \in Keys, Cached(p, k), Sweep(p),
                      loaded'[p][k] = NoAdapter, NEW q \in get_adapter(k)
               PROVE  db[q].lastUsed = "old"
    BY DEF ServiceInv, TypeInv
  <2> DEFINE s == section[p]
  <2>1. SweepEvict(p) /\ ~UNCHANGED loaded
    BY DEF Sweep, SweepSelect, SweepRead, SweepMark, SweepLog, Cached
  <2>2. PICK r \in Remaining(s.rows) : Evict(p, VisitedRow(s, r).key)
    BY <2>1 DEF SweepEvict
  <2>3. r \in Rids /\ IsIdle(db[r]) /\ db[r].key = s.rows[r]
    BY <2>1 DEF SweepEvict, At, AllInHand, InHand, SweepPoints, Remaining
  <2>4. VisitedRow(s, r).key = db[r].key
    BY <2>3 DEF VisitedRow
  <2>5. db[r].key = k
    BY <2>2, <2>4 DEF Evict, Cached, TypeOK
  <2>6. q = r
    BY <2>3, <2>5 DEF OneRow, get_adapter, Exists, IsIdle
  <2>7. QED
    BY <2>3, <2>6 DEF IsIdle
<1>2. ServiceInv /\ [Next]_vars => [Spares]_vars
  BY <1>1
<1>3. QED
  BY <1>2, ServiceInvariant, PTL DEF Spec, SweepSparesRecentlyUsed

-----------------------------------------------------------------------------
(* The refinement.  A key's row is the one get_adapter finds, before and   *)
(* after a step.                                                           *)

RowsByKey ==
  \A r \in Rids : Exists(r) => IsRegistered(db[r].key) /\ RowOf(db[r].key) = db[r]

LEMMA RowOfKey == OneRow => RowsByKey
<1> SUFFICES ASSUME OneRow, NEW r \in Rids, Exists(r)
             PROVE  IsRegistered(db[r].key) /\ RowOf(db[r].key) = db[r]
  BY DEF RowsByKey
<1>1. get_adapter(db[r].key) = {r}
  BY DEF OneRow, get_adapter, Exists
<1>2. QED
  BY <1>1 DEF IsRegistered, RowOf

LEMMA RowOfKeyNext == OneRow' => RowsByKey'
BY RowOfKey, PTL

(* Rows keep what can be told of them.                                     *)
LEMMA ViewSame ==
  ASSUME OneRow, OneRow',
         \A r \in Rids :
           /\ Exists(r) <=> Exists(r)'
           /\ Exists(r) => /\ db'[r].key = db[r].key /\ db'[r].repo = db[r].repo
                           /\ db'[r].hits = db[r].hits
                           /\ db'[r].lastUsed = "old" <=> db[r].lastUsed = "old"
  PROVE  UNCHANGED <<Catalog, Hits, IdleKeys>>
<1>1. ASSUME NEW k \in Keys
      PROVE  /\ IsRegistered(k)' <=> IsRegistered(k)
             /\ IsRegistered(k) => /\ RowOf(k)'.repo = RowOf(k).repo
                                   /\ RowOf(k)'.hits = RowOf(k).hits
                                   /\ RowOf(k)'.lastUsed = "old" <=> RowOf(k).lastUsed = "old"
  <2>1. get_adapter(k)' = get_adapter(k)
    BY DEF get_adapter, Exists
  <2>2. ASSUME NEW r \in get_adapter(k)
        PROVE  r \in Rids /\ Exists(r) /\ RowOf(k) = db[r] /\ RowOf(k)' = db'[r]
    <3>1. r \in Rids /\ Exists(r) /\ db[r].key = k /\ Exists(r)' /\ db'[r].key = k
      BY DEF get_adapter, Exists
    <3>2. QED
      BY <3>1, RowOfKey, RowOfKeyNext DEF RowsByKey
  <2>3. QED
    BY <2>1, <2>2 DEF IsRegistered
<1>2. QED
  BY <1>1 DEF Catalog, Hits, IdleKeys

(* One row is rewritten under its key: the other keys do not notice.       *)
LEMMA ViewRewrite ==
  ASSUME TypeOK, OneRow, OneRow', NEW r \in Rids, Exists(r),
         NEW row \in Row, row.key = db[r].key, db' = [db EXCEPT ![r] = row]
  PROVE  /\ \A k \in Keys : IsRegistered(k)' <=> IsRegistered(k)
         /\ \A k \in Keys \ {row.key} : IsRegistered(k) => RowOf(k)' = RowOf(k)
         /\ IsRegistered(row.key) /\ RowOf(row.key) = db[r] /\ RowOf(row.key)' = row
<1>1. db'[r] = row /\ Exists(r)' /\ \A q \in Rids \ {r} : db'[q] = db[q]
  BY SentinelAssumption DEF TypeOK, Table, Exists
<1>2. ASSUME NEW k \in Keys
      PROVE  get_adapter(k)' = get_adapter(k)
  BY <1>1 DEF get_adapter, Exists
<1>3. ASSUME NEW k \in Keys \ {row.key}, NEW q \in get_adapter(k)
      PROVE  RowOf(k)' = RowOf(k)
  <2>1. q \in Rids \ {r} /\ Exists(q) /\ db[q].key = k
    BY DEF get_adapter, Exists
  <2>2. Exists(q)' /\ db'[q] = db[q]
    BY <1>1, <2>1 DEF Exists
  <2>3. QED
    BY <2>1, <2>2, RowOfKey, RowOfKeyNext DEF RowsByKey
<1>4. IsRegistered(row.key) /\ RowOf(row.key) = db[r] /\ RowOf(row.key)' = row
  BY <1>1, RowOfKey, RowOfKeyNext DEF RowsByKey
<1>5. QED
  BY <1>2, <1>3, <1>4 DEF IsRegistered

(* An unchanged cache of the sole process.                                 *)
LEMMA ResidentSame ==
  ASSUME UNCHANGED loaded
  PROVE  UNCHANGED Resident
BY DEF Resident, Cached, Sole

LEMMA TableSame ==
  ASSUME UNCHANGED db
  PROVE  UNCHANGED <<Catalog, Hits, IdleKeys>>
BY DEF Catalog, Hits, IdleKeys, IsRegistered, RowOf, get_adapter

(* Dropping one adapter from the cache.                                    *)
LEMMA ResidentEvict ==
  ASSUME TypeOK, Sole \in Procs, NEW k \in Keys, Evict(Sole, k)
  PROVE  Resident' = [Resident EXCEPT ![k] = NoRow]
<1>1. loaded' = [loaded EXCEPT ![Sole][k] = NoAdapter]
  BY DEF Evict
<1>2. /\ loaded'[Sole][k] = NoAdapter
      /\ \A l \in Keys \ {k} : loaded'[Sole][l] = loaded[Sole][l]
  BY <1>1 DEF TypeOK
<1> HIDE DEF Sole
<1>3. QED
  BY <1>2 DEF Resident, Cached

(* Only these two fill or empty a place in the cache.                      *)
LEMMA MapsFill ==
  ASSUME TypeOK, Sole \in Procs, SoleInv, OneRow, AllInHand, Fill(Sole)
  PROVE  Service!Load(section[Sole].key)
<1> DEFINE s == section[Sole]
           k == s.key
           new == [key |-> k, id |-> nextId[Sole], repo |-> s.repo]
<1>1. /\ k \in Keys /\ s.repo \in Repos /\ get_adapter(k) # {} /\ ~Cached(Sole, k)
      /\ \A r \in get_adapter(k) : db[r].repo = s.repo
  BY SectionFields
     DEF Fill, TakeId, At, TypeOK, SoleInv, SectionCurrent, AllInHand, InHand
<1>2. nextId[Sole] \in Nat
  BY DEF TypeOK
<1>3. IsRegistered(k) /\ RowOf(k).repo = s.repo
  BY <1>1 DEF IsRegistered, RowOf
<1>4. Catalog[k] = s.repo /\ s.repo # NoRow /\ Resident[k] = NoRow
  BY <1>1, <1>3, SentinelAssumption DEF Catalog, Resident
<1>5. new \in LoRARequest /\ new.repo = s.repo
  BY <1>1, <1>2 DEF LoRARequest
<1>6. loaded' = [loaded EXCEPT ![Sole][k] = new] /\ db' = db
  BY DEF Fill, TakeId
<1> HIDE DEF new, s, k, Sole
<1>7. loaded'[Sole][k] = new /\ \A l \in Keys \ {k} : loaded'[Sole][l] = loaded[Sole][l]
  BY <1>1, <1>6 DEF TypeOK
<1>8. Resident' = [Resident EXCEPT ![k] = s.repo]
  BY <1>1, <1>5, <1>7, SentinelAssumption DEF Resident, Cached
<1>9. QED
  BY <1>4, <1>6, <1>8, TableSame DEF Service!Load, s, k

LEMMA MapsEvict ==
  ASSUME TypeOK, Sole \in Procs, OneRow, AllInHand, SweepEvict(Sole)
  PROVE  [Service!Next]_(Service!vars)
<1> DEFINE s == section[Sole]
<1>1. CASE UNCHANGED loaded
  BY <1>1, TableSame, ResidentSame DEF SweepEvict, Service!vars
<1>2. ASSUME NEW r \in Remaining(s.rows), Evict(Sole, VisitedRow(s, r).key)
      PROVE  Service!Next
  <2>1. r \in Rids /\ IsIdle(db[r]) /\ db[r].key = s.rows[r]
    BY DEF SweepEvict, At, AllInHand, InHand, SweepPoints, Remaining
  <2>2. Exists(r) /\ db[r].key \in Keys /\ VisitedRow(s, r).key = db[r].key
    BY <2>1 DEF IsIdle, Exists, TypeOK, Table, Row, VisitedRow
  <2> DEFINE k == db[r].key
  <2>3. IdleKeys[k]
    BY <2>1, <2>2, RowOfKey DEF RowsByKey, IdleKeys, IsIdle
  <2>4. Resident' = [Resident EXCEPT ![k] = NoRow]
    BY <1>2, <2>2, ResidentEvict
  <2>5. UNCHANGED <<Catalog, Hits, IdleKeys>>
    BY TableSame DEF SweepEvict
  <2> HIDE DEF k
  <2>6. k \in Keys
    BY <2>2 DEF k
  <2>7. Service!Drop(k)
    BY <2>3, <2>4, <2>5 DEF Service!Drop
  <2>8. QED
    BY <2>6, <2>7 DEF Service!Next
<1>3. QED
  BY <1>1, <1>2 DEF SweepEvict

(* What becomes of idle when it changes for one key.                       *)
LEMMA IdleKeysExcept ==
  ASSUME NEW k \in Keys, NEW old \in BOOLEAN,
         \A l \in Keys \ {k} : /\ IsRegistered(l)' <=> IsRegistered(l)
                               /\ IsRegistered(l) => RowOf(l)' = RowOf(l),
         (IsRegistered(k)' /\ RowOf(k)'.lastUsed = "old") <=> old
  PROVE  IdleKeys' = [IdleKeys EXCEPT ![k] = old]
<1> DEFINE new == [l \in Keys |-> (IsRegistered(l) /\ RowOf(l).lastUsed = "old")']
<1>1. IdleKeys' = new
  BY DEF IdleKeys
<1>2. ASSUME NEW l \in Keys
      PROVE  new[l] = [IdleKeys EXCEPT ![k] = old][l]
  <2>1. CASE l = k
    BY <2>1 DEF IdleKeys
  <2>2. CASE l # k
    BY <2>2 DEF IdleKeys
  <2>3. QED
    BY <2>1, <2>2
<1>3. [IdleKeys EXCEPT ![k] = old] = [l \in Keys |-> [IdleKeys EXCEPT ![k] = old][l]]
  BY DEF IdleKeys
<1> HIDE DEF new
<1>4. new = [l \in Keys |-> new[l]]
  BY DEF new
<1>5. QED
  BY <1>1, <1>2, <1>3, <1>4

(* The use of an adapter takes effect when its row is written.             *)
LEMMA MapsTouch ==
  ASSUME TypeInv, TypeOK, Sole \in Procs, SoleInv, OneRow, OneRow', AllInHand,
         TouchWrite(Sole), NEW k, k = section[Sole].key
  PROVE  k \in Keys /\ Service!Use(k)
<1>1. PICK s \in Section : s = section[Sole]
  BY DEF TypeOK
<1>2. /\ k \in Keys /\ s.rid \in Rids /\ s.hits \in Nat /\ Cached(Sole, k) /\ s.key = k
      /\ Exists(s.rid) /\ s.hits = db[s.rid].hits /\ db[s.rid].key = k
  BY <1>1, SectionFields DEF TouchWrite, At, TypeOK, TypeInv, HandsOutCached, SoleInv,
                             SectionCurrent, AllInHand, InHand
<1>3. db[s.rid] \in Row
  BY <1>2 DEF Exists, TypeOK, Table
<1>4. PICK row : row = Touched(db[s.rid], s)
  OBVIOUS
<1>5. /\ row \in Row /\ row.key = k /\ row.repo = db[s.rid].repo
      /\ row.hits = s.hits + 1 /\ row.lastUsed = "recent"
  BY <1>2, <1>3, <1>4, TouchedType DEF Touched, Row
<1>6. db' = [db EXCEPT ![s.rid] = row] /\ loaded' = loaded
  BY <1>1, <1>2, <1>4 DEF TouchWrite
<1>7. /\ \A l \in Keys : IsRegistered(l)' <=> IsRegistered(l)
      /\ \A l \in Keys \ {k} : IsRegistered(l) => RowOf(l)' = RowOf(l)
      /\ IsRegistered(k) /\ RowOf(k) = db[s.rid] /\ RowOf(k)' = row
  BY <1>2, <1>5, <1>6, ViewRewrite
<1>8. Resident[k] # NoRow
  <2>1. loaded[Sole][k] \in LoRARequest
    BY <1>2 DEF Cached, TypeOK
  <2>2. QED
    BY <1>2, <2>1, SentinelAssumption DEF Resident, LoRARequest
<1>9. Catalog' = Catalog
  BY <1>2, <1>5, <1>7 DEF Catalog
<1>10. Hits' = [Hits EXCEPT ![k] = Hits[k] + 1]
  BY <1>2, <1>5, <1>7 DEF Hits
<1>11. IdleKeys' = [IdleKeys EXCEPT ![k] = FALSE]
  BY <1>2, <1>5, <1>7, IdleKeysExcept
<1>12. QED
  BY <1>2, <1>6, <1>8, <1>9, <1>10, <1>11, ResidentSame DEF Service!Use

(* An INSERT registers an adapter that was not; one that violates the      *)
(* constraint cannot be told from no step.                                 *)
LEMMA MapsInsert ==
  ASSUME TypeOK, Sole \in Procs, OneRow, OneRow', InsertRow(Sole)
  PROVE  [Service!Next]_(Service!vars)
<1>1. PICK s \in Section : s = section[Sole]
  BY DEF TypeOK
<1>2. s.key \in Keys /\ s.repo \in Repos /\ loaded' = loaded
  BY <1>1, SectionFields DEF InsertRow, At
<1>3. CASE UNCHANGED db
  BY <1>2, <1>3, TableSame, ResidentSame DEF Service!vars
<1>4. PICK k : k = s.key
  OBVIOUS
<1>5. PICK new : new = [key |-> k, repo |-> s.repo, status |-> "registered",
                        hits |-> 0, lastUsed |-> "never"]
  OBVIOUS
<1>6. /\ new \in Row /\ new.key = k /\ new.repo = s.repo
      /\ new.hits = 0 /\ new.lastUsed = "never"
  BY <1>2, <1>4, <1>5 DEF Row, Status
<1>7. ASSUME Unique(k), NEW r \in Rids, ~Exists(r), db' = [db EXCEPT ![r] = new]
      PROVE  Service!Register(k, s.repo)
  <2>1. db'[r] = new /\ Exists(r)' /\ \A q \in Rids \ {r} : db'[q] = db[q]
    BY <1>6, <1>7, SentinelAssumption DEF TypeOK, Table, Exists
  <2>2. ~IsRegistered(k) /\ IsRegistered(k)' /\ RowOf(k)' = new
    BY <1>6, <1>7, <2>1, RowOfKeyNext DEF Unique, IsRegistered, RowsByKey
  <2>3. ASSUME NEW l \in Keys \ {k}
        PROVE  /\ IsRegistered(l)' <=> IsRegistered(l)
               /\ IsRegistered(l) => RowOf(l)' = RowOf(l)
    <3>1. get_adapter(l)' = get_adapter(l)
      BY <1>6, <1>7, <2>1 DEF get_adapter, Exists
    <3>2. ASSUME NEW q \in get_adapter(l)
          PROVE  RowOf(l)' = RowOf(l)
      <4>1. q \in Rids \ {r} /\ Exists(q) /\ db[q].key = l /\ db'[q] = db[q]
        BY <1>7, <2>1 DEF get_adapter, Exists
      <4>2. QED
        BY <4>1, RowOfKey, RowOfKeyNext DEF RowsByKey, Exists
    <3>3. QED
      BY <3>1, <3>2 DEF IsRegistered
  <2>4. Catalog' = [Catalog EXCEPT ![k] = s.repo]
    BY <1>2, <1>4, <1>6, <2>2, <2>3 DEF Catalog
  <2>5. Hits' = Hits
    BY <1>6, <2>2, <2>3 DEF Hits
  <2>6. IdleKeys' = [IdleKeys EXCEPT ![k] = FALSE]
    BY <1>2, <1>4, <1>6, <2>2, <2>3, IdleKeysExcept
  <2>7. IdleKeys[k] = FALSE
    BY <1>2, <1>4, <2>2 DEF IdleKeys
  <2>8. IdleKeys' = IdleKeys
    BY <2>6, <2>7 DEF IdleKeys
  <2>9. QED
    BY <1>2, <2>4, <2>5, <2>8, ResidentSame DEF Service!Register
<1>8. CASE Unique(k) /\ ~UNCHANGED db
  <2>1. Service!Register(k, s.repo)
    BY <1>1, <1>4, <1>5, <1>7, <1>8 DEF InsertRow
  <2>2. QED
    BY <1>2, <1>4, <2>1 DEF Service!Next
<1>9. QED
  BY <1>1, <1>3, <1>4, <1>8 DEF InsertRow

(* An UPDATE registers it again; hits and the time of use stay.            *)
LEMMA MapsUpdate ==
  ASSUME TypeOK, Sole \in Procs, OneRow, OneRow', AllInHand, UpdateRow(Sole)
  PROVE  Service!Next
<1>1. PICK s \in Section : s = section[Sole]
  BY DEF TypeOK
<1>2. s.rid \in Rids /\ s.repo \in Repos /\ Exists(s.rid) /\ db[s.rid].repo = s.oldRepo
  BY <1>1, SectionFields DEF UpdateRow, At, AllInHand, InHand
<1>3. db[s.rid] \in Row
  BY <1>2 DEF Exists, TypeOK, Table
<1>4. PICK k \in Keys : k = db[s.rid].key
  BY <1>3 DEF Row
<1>5. PICK row : row = Updated(db[s.rid], s)
  OBVIOUS
<1>6. /\ row \in Row /\ row.key = k
      /\ row.hits = db[s.rid].hits /\ row.lastUsed = db[s.rid].lastUsed
  <2>1. row \in Row /\ row.key = k
    BY <1>2, <1>3, <1>4, <1>5, UpdatedType
  <2>2. row.hits = db[s.rid].hits /\ row.lastUsed = db[s.rid].lastUsed
    BY <1>3, <1>5 DEF Updated, Row
  <2>3. QED
    BY <2>1, <2>2
<1>7. row.repo = s.repo
  BY <1>2, <1>3, <1>5 DEF Updated, Row
<1>8. db' = [db EXCEPT ![s.rid] = row] /\ loaded' = loaded
  BY <1>1, <1>2, <1>5 DEF UpdateRow
<1>9. /\ \A l \in Keys : IsRegistered(l)' <=> IsRegistered(l)
      /\ \A l \in Keys \ {k} : IsRegistered(l) => RowOf(l)' = RowOf(l)
      /\ IsRegistered(k) /\ RowOf(k) = db[s.rid] /\ RowOf(k)' = row
  BY <1>2, <1>4, <1>6, <1>8, ViewRewrite
<1>10. Catalog' = [Catalog EXCEPT ![k] = s.repo]
  BY <1>7, <1>9 DEF Catalog
<1>11. Hits' = Hits
  BY <1>6, <1>9 DEF Hits
<1>12. IdleKeys' = IdleKeys
  BY <1>6, <1>9 DEF IdleKeys
<1>13. Service!Register(k, s.repo)
  BY <1>8, <1>10, <1>11, <1>12, ResidentSame DEF Service!Register
<1>14. QED
  BY <1>2, <1>13 DEF Service!Next

(* DELETE and the eviction that goes with it are one step.                 *)
LEMMA MapsDelete ==
  ASSUME TypeOK, Sole \in Procs, SoleInv, OneRow, OneRow', DeleteRow(Sole)
  PROVE  Service!Next
<1>1. PICK s \in Section : s = section[Sole]
  BY DEF TypeOK
<1>2. PICK k : k = s.key
  OBVIOUS
<1>3. k \in Keys /\ s.rid \in Rids /\ Exists(s.rid) /\ db[s.rid].key = k
  BY <1>1, <1>2, SectionFields DEF DeleteRow, At, SoleInv, SectionCurrent
<1>4. db' = [db EXCEPT ![s.rid] = NoRow] /\ Evict(Sole, k)
  BY <1>1, <1>2 DEF DeleteRow
<1>5. ~Exists(s.rid)' /\ \A q \in Rids \ {s.rid} : db'[q] = db[q]
  BY <1>3, <1>4 DEF TypeOK, Table, Exists
<1>6. IsRegistered(k) /\ RowOf(k) = db[s.rid] /\ db[s.rid] \in Row
  BY <1>3, RowOfKey DEF RowsByKey, Exists, TypeOK, Table
<1>7. ~IsRegistered(k)'
  BY <1>3, <1>5 DEF IsRegistered, get_adapter, OneRow, Exists
<1>8. ASSUME NEW l \in Keys \ {k}
      PROVE  /\ IsRegistered(l)' <=> IsRegistered(l)
             /\ IsRegistered(l) => RowOf(l)' = RowOf(l)
  <2>1. get_adapter(l)' = get_adapter(l)
    BY <1>3, <1>5 DEF get_adapter, Exists
  <2>2. ASSUME NEW q \in get_adapter(l)
        PROVE  RowOf(l)' = RowOf(l)
    <3>1. q \in Rids \ {s.rid} /\ Exists(q) /\ db[q].key = l /\ db'[q] = db[q]
      BY <1>3, <1>5 DEF get_adapter, Exists
    <3>2. QED
      BY <3>1, RowOfKey, RowOfKeyNext DEF RowsByKey, Exists
  <2>3. QED
    BY <2>1, <2>2 DEF IsRegistered
<1>9. Catalog' = [Catalog EXCEPT ![k] = NoRow]
  BY <1>7, <1>8 DEF Catalog
<1>10. Hits' = [Hits EXCEPT ![k] = 0]
  BY <1>7, <1>8 DEF Hits
<1>11. IdleKeys' = [IdleKeys EXCEPT ![k] = FALSE]
  BY <1>3, <1>7, <1>8, IdleKeysExcept
<1>12. Resident' = [Resident EXCEPT ![k] = NoRow]
  BY <1>3, <1>4, ResidentEvict
<1>13. Catalog[k] # NoRow
  BY <1>3, <1>6, SentinelAssumption DEF Catalog, Row
<1>14. Service!Delete(k)
  BY <1>9, <1>10, <1>11, <1>12, <1>13 DEF Service!Delete
<1>15. QED
  BY <1>3, <1>14 DEF Service!Next

(* A status is not seen from outside.                                      *)
LEMMA MapsMark ==
  ASSUME TypeOK, Sole \in Procs, OneRow, OneRow', SweepMark(Sole)
  PROVE  UNCHANGED Service!vars
<1>1. PICK s \in Section : s = section[Sole]
  BY DEF TypeOK
<1>2. s.held \in Rids /\ loaded' = loaded
  BY <1>1, SectionFields DEF SweepMark, At
<1>3. CASE UNCHANGED db
  BY <1>2, <1>3, TableSame, ResidentSame DEF Service!vars
<1>4. CASE Exists(s.held) /\ db' = [db EXCEPT ![s.held] = Marked(db[s.held])]
  <2>1. db[s.held] \in Row
    BY <1>2, <1>4 DEF Exists, TypeOK, Table
  <2>2. PICK row : row = Marked(db[s.held])
    OBVIOUS
  <2>3. /\ row \in Row /\ row.key = db[s.held].key /\ row.repo = db[s.held].repo
        /\ row.hits = db[s.held].hits /\ row.lastUsed = db[s.held].lastUsed
    BY <2>1, <2>2 DEF Marked, Row, Status
  <2>4. db'[s.held] = row /\ \A q \in Rids \ {s.held} : db'[q] = db[q]
    BY <1>2, <1>4, <2>2 DEF TypeOK, Table
  <2>5. UNCHANGED <<Catalog, Hits, IdleKeys>>
    BY <1>4, <2>3, <2>4, SentinelAssumption, ViewSame DEF Exists
  <2>6. QED
    BY <1>2, <2>5, ResidentSame DEF Service!vars
<1>5. QED
  BY <1>1, <1>3, <1>4 DEF SweepMark

(* Time passes for an adapter that was used.                               *)
LEMMA MapsAge ==
  ASSUME TypeOK, OneRow, OneRow', UsesCounted, NEW r \in Rids, Age(r)
  PROVE  Service!Next
<1>1. /\ Exists(r) /\ db[r] \in Row /\ db[r].lastUsed = "recent" /\ db'[r] \in Row
      /\ db'[r].key = db[r].key /\ db'[r].repo = db[r].repo
      /\ db'[r].hits = db[r].hits /\ db'[r].lastUsed = "old"
      /\ \A q \in Rids \ {r} : db'[q] = db[q]
  BY AgeRows
<1>2. PICK k \in Keys : k = db[r].key
  BY <1>1 DEF Row
<1>3. PICK row : row = db'[r]
  OBVIOUS
<1>4. db' = [db EXCEPT ![r] = row] /\ loaded' = loaded
  BY <1>3, AgeRows DEF Age, TypeOK, Table
<1>5. row \in Row /\ row.key = db[r].key
  BY <1>1, <1>3
<1>6. /\ \A l \in Keys : IsRegistered(l)' <=> IsRegistered(l)
      /\ \A l \in Keys \ {k} : IsRegistered(l) => RowOf(l)' = RowOf(l)
      /\ IsRegistered(k) /\ RowOf(k) = db[r] /\ RowOf(k)' = row
  BY <1>1, <1>2, <1>4, <1>5, ViewRewrite
<1>7. Catalog' = Catalog
  BY <1>1, <1>3, <1>6 DEF Catalog
<1>8. Hits' = Hits /\ Hits[k] > 0
  BY <1>1, <1>3, <1>6 DEF Hits, UsesCounted
<1>9. IdleKeys' = [IdleKeys EXCEPT ![k] = TRUE]
  <2>1. (IsRegistered(k)' /\ RowOf(k)'.lastUsed = "old") <=> TRUE
    BY <1>1, <1>3, <1>6
  <2>2. \A l \in Keys \ {k} : /\ IsRegistered(l)' <=> IsRegistered(l)
                              /\ IsRegistered(l) => RowOf(l)' = RowOf(l)
    BY <1>6
  <2>3. TRUE \in BOOLEAN
    OBVIOUS
  <2>4. QED
    BY ONLY <2>1, <2>2, <2>3, IdleKeysExcept
<1>10. Service!Age(k)
  BY <1>4, <1>7, <1>8, <1>9, ResidentSame DEF Service!Age
<1>11. QED
  BY <1>10 DEF Service!Next

(* Every step of a sole process is a step of the service, or none.         *)
LEMMA MapsStep ==
  ASSUME SoleProcess, Procs # {}, ServiceInv, ServiceInv', [Next]_vars
  PROVE  [Service!Next]_(Service!vars)
<1>1. /\ Sole \in Procs /\ \A q \in Procs : q = Sole
      /\ TypeInv /\ TypeOK /\ SoleInv /\ OneRow /\ AllInHand /\ UsesCounted
  BY DEF Sole, SoleProcess, ServiceInv, TypeInv
<1>2. OneRow'
  BY DEF ServiceInv
<1> HIDE DEF Sole
<1>3. ASSUME UNCHANGED <<db, loaded>>
      PROVE  UNCHANGED Service!vars
  BY <1>3, TableSame, ResidentSame DEF Service!vars
<1>4. ASSUME Resolve(Sole)
      PROVE  [Service!Next]_(Service!vars)
  <2>1. CASE Fill(Sole)
    <3>1. section[Sole].key \in Keys
      BY <1>1, <2>1, SectionFields DEF Fill, TakeId, At, TypeOK
    <3>2. QED
      BY <1>1, <2>1, <3>1, MapsFill DEF Service!Next
  <2>2. CASE TouchWrite(Sole)
    BY <1>1, <1>2, <2>2, MapsTouch DEF Service!Next
  <2>3. QED
    BY <1>3, <1>4, <2>1, <2>2 DEF Resolve, ResolveStatic, ResolveCached, ResolveMiss,
                                  DownloadFails, TouchRead
<1>5. ASSUME Admin(Sole)
      PROVE  [Service!Next]_(Service!vars)
  BY <1>1, <1>2, <1>3, <1>5, MapsInsert, MapsUpdate, MapsDelete
     DEF Admin, Register, Delete
<1>6. ASSUME Sweep(Sole)
      PROVE  [Service!Next]_(Service!vars)
  BY <1>1, <1>2, <1>3, <1>6, MapsEvict, MapsMark
     DEF Sweep, SweepSelect, SweepRead, SweepLog
<1>7. CASE RequestFails(Sole) \/ SweepFails(Sole)
  BY <1>3, <1>7 DEF RequestFails, SweepFails
<1>8. CASE Restart(Sole)
  <2>1. \A k \in Keys : loaded'[Sole][k] = NoAdapter
    BY <1>1, <1>8 DEF Restart, TypeOK
  <2>2. Resident' = [k \in Keys |-> NoRow]
    BY <2>1 DEF Resident, Cached
  <2>3. UNCHANGED <<Catalog, Hits, IdleKeys>>
    BY <1>8, TableSame DEF Restart
  <2>4. QED
    BY <2>2, <2>3 DEF Service!Next, Service!Restart
<1>9. ASSUME NEW r \in Rids, Age(r)
      PROVE  Service!Next
  BY <1>1, <1>2, <1>9, MapsAge
<1>10. CASE UNCHANGED vars
  BY <1>3, <1>10 DEF vars
<1>11. QED
  BY <1>1, <1>4, <1>5, <1>6, <1>7, <1>8, <1>9, <1>10 DEF Next

(* The gateway's adapters are the atomic service: with one process no      *)
(* failed statement, sweep turn, eviction, registration or restart can be  *)
(* told from an atomic step, for every number of adapters and rows.        *)
THEOREM ServiceImplemented ==
  ASSUME SoleProcess, Procs # {}
  PROVE  Spec => ImplementsAdapterService
<1>1. Init => Service!Init
  <2> SUFFICES ASSUME Init PROVE Service!Init
    OBVIOUS
  <2>1. Sole \in Procs
    BY DEF Sole
  <2>2. \A k \in Keys : ~IsRegistered(k) /\ ~Cached(Sole, k)
    BY <2>1 DEF Init, IsRegistered, get_adapter, Cached
  <2>3. QED
    BY <2>2 DEF Service!Init, Catalog, Resident, Hits, IdleKeys
<1>2. ServiceInv /\ ServiceInv' /\ [Next]_vars => [Service!Next]_(Service!vars)
  BY MapsStep
<1>3. QED
  BY <1>1, <1>2, ServiceInvariant, PTL DEF Spec, ImplementsAdapterService, Service!Spec
=============================================================================
