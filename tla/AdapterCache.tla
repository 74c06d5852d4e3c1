---------------------------- MODULE AdapterCache ----------------------------
(***************************************************************************)
(* The dynamic LoRA adapters of the gateway: the adapter_registry table    *)
(* (backend/database/adapter_catalog.py), the in-memory cache of every     *)
(* gateway process (DynamicAdapterCache), the admin handlers that register *)
(* and delete adapters, the resolution of a request's adapter, and the     *)
(* background task that sweeps idle adapters.                              *)
(*                                                                         *)
(* A gateway process is one asyncio event loop and every call below is     *)
(* synchronous, so inside one process a handler or a turn of the sweep     *)
(* runs from its first database statement to its last without another one  *)
(* starting: section[p] is the one that is running.  Each action is one    *)
(* database statement with the local work that follows it; statements of   *)
(* different processes sharing the database interleave.  The documented    *)
(* deployment has one process; the chart and the batch scripts can run     *)
(* several over one DATABASE_URL.                                          *)
(***************************************************************************)
EXTENDS Naturals, FiniteSets, Sequences

CONSTANTS
  Procs,          \* gateway processes that share the database
  Keys,           \* (base_model, name) pairs
  Bases,          \* served models
  BaseOf,         \* [Keys -> Bases]
  StaticList,     \* models.yaml: for each served model, its list of adapters
  Repos,          \* hf_repo values, hence local snapshot paths
  Rids,           \* primary keys of adapter_registry
  DynIdStart,     \* _DYNAMIC_ID_START
  NoRow,          \* "no row" and "no cached request"
  NoAdapter,
  AdminKeys,      \* bound: the pairs that are registered at run time
  DbFaults,       \* whether a database statement may raise
  MaxHits,        \* bound: a request comes only below this many hits
  MaxLoads,       \* bound: LoRARequests built by one incarnation of a process
  MaxRestarts     \* bound: restarts of a process

ASSUME ConfigAssumption ==
  /\ BaseOf \in [Keys -> Bases]
  /\ StaticList \in [Bases -> Seq([key : Keys, repo : Repos])]
  /\ \A b \in Bases : \A i \in DOMAIN StaticList[b] :
       BaseOf[StaticList[b][i].key] = b
  /\ AdminKeys \subseteq Keys
  /\ DbFaults \in BOOLEAN

(* "This range starts well clear of any realistic static adapter count."   *)
ASSUME IdRangeAssumption ==
  /\ DynIdStart \in Nat
  /\ \A b \in Bases : Len(StaticList[b]) < DynIdStart

ASSUME BoundAssumption == MaxHits \in Nat /\ MaxLoads \in Nat /\ MaxRestarts \in Nat

Status == {"registered", "loaded", "idle"}
Row == [key      : Keys,
        repo     : Repos,
        status   : Status,
        hits     : Nat,
        lastUsed : {"never", "recent", "old"}]   \* "old": before the cutoff

(* A LoRARequest: its name, its lora_int_id and the snapshot it points to. *)
LoRARequest == [key : Keys, id : Nat, repo : Repos]

ASSUME SentinelAssumption ==
  NoRow \notin Row \cup Keys \cup Repos \cup Rids /\ NoAdapter \notin LoRARequest

VARIABLES
  db,        \* adapter_registry: primary key -> row
  loaded,    \* DynamicAdapterCache._loaded of each process
  nextId,    \* DynamicAdapterCache._next_id
  section,   \* the handler or sweep turn running on each event loop
  sweeping,  \* whether the run_idle_sweep task of a process is still alive
  restarts,  \* restarts of each process (for the bound)
  issued,    \* history: LoRARequests this incarnation handed to its engines
  uses       \* history: uses of the adapter a row stands for

vars == <<db, loaded, nextId, section, sweeping, restarts, issued, uses>>

Table == [Rids -> Row \cup {NoRow}]

(* Where a running section stands, and the values it holds: rid is the     *)
(* primary key of the ORM object in hand, and of its attributes the ones   *)
(* still to be used are kept.  rows (the keys of the rows still to visit)  *)
(* and fresh (no commit has expired them yet) are the sweep's session.     *)
Visits == [Rids -> Keys \cup {NoRow}]
Free == [at |-> "free"]
Section ==
  [at : {"free"}]
  \cup [at : {"fill", "insert"}, key : Keys, repo : Repos]
  \cup [at : {"touch"}, key : Keys]
  \cup [at : {"bump"}, key : Keys, rid : Rids, hits : Nat, status : Status]
  \cup [at : {"update"}, rid : Rids, repo : Repos, oldRepo : Repos, status : Status]
  \cup [at : {"delete"}, key : Keys, rid : Rids]
  \cup [at : {"sweep"}, rows : Visits, fresh : BOOLEAN]
  \cup [at : {"mark"}, key : Keys, rid : Rids, status : Status,
        rows : Visits, fresh : BOOLEAN]
  \cup [at : {"idle"}, rid : Rids, held : Rids, status : Status,
        rows : Visits, fresh : BOOLEAN]
  \cup [at : {"log"}, rid : Rids, rows : Visits, fresh : BOOLEAN]
SweepPoints == {"sweep", "mark", "idle", "log"}

TypeOK ==
  /\ db \in Table
  /\ loaded \in [Procs -> [Keys -> LoRARequest \cup {NoAdapter}]]
  /\ nextId \in [Procs -> Nat]
  /\ section \in [Procs -> Section]
  /\ sweeping \in [Procs -> BOOLEAN]
  /\ restarts \in [Procs -> Nat]
  /\ issued \in [Procs -> SUBSET LoRARequest]
  /\ uses \in [Rids -> Nat]

-----------------------------------------------------------------------------
(* The queries and the static adapters.                                    *)

get_adapter(k) == {r \in Rids : db[r] # NoRow /\ db[r].key = k}

(* Mutants: the query without its cutoff, and over the wrong status.       *)
IsIdleNoCutoff(row) == row # NoRow /\ row.status = "loaded"
IsIdleWrongStatus(row) == row # NoRow /\ row.status = "idle" /\ row.lastUsed = "old"
IsIdle(row) == row # NoRow /\ row.status = "loaded" /\ row.lastUsed = "old"
find_idle_since == [r \in Rids |-> IF IsIdle(db[r]) THEN db[r].key ELSE NoRow]

Exists(r) == db[r] # NoRow

(* resolve_adapter_requests: position i of the list (from 1) gets id i; a  *)
(* name listed twice keeps its last entry.                                 *)
StaticAt(k, i) ==
  LET list == StaticList[BaseOf[k]]
  IN  /\ i \in DOMAIN list
      /\ list[i].key = k
      /\ \A j \in DOMAIN list : j > i => list[j].key # k
StaticKeys == {k \in Keys : \E i \in DOMAIN StaticList[BaseOf[k]] : StaticAt(k, i)}
StaticAdapter(k) ==
  LET i == CHOOSE i \in DOMAIN StaticList[BaseOf[k]] : StaticAt(k, i)
  IN  [key |-> k, id |-> i, repo |-> StaticList[BaseOf[k]][i].repo]

Cached(p, k) == loaded[p][k] # NoAdapter
loaded_ids(p) == {k \in Keys : Cached(p, k)}

-----------------------------------------------------------------------------
Init ==
  /\ db = [r \in Rids |-> NoRow]
  /\ loaded = [p \in Procs |-> [k \in Keys |-> NoAdapter]]
  /\ nextId = [p \in Procs |-> DynIdStart]
  /\ section = [p \in Procs |-> Free]
  /\ sweeping = [p \in Procs |-> TRUE]
  /\ restarts = [p \in Procs |-> 0]
  /\ issued = [p \in Procs |-> {}]
  /\ uses = [r \in Rids |-> 0]

(* The section of p goes on at s; it is the only thing p does meanwhile.   *)
Goto(p, s) == section' = [section EXCEPT ![p] = s]
At(p, point) == section[p].at = point

-----------------------------------------------------------------------------
(* Resolving "<base>:<name>" (ModelRegistry.resolve and get_or_load).      *)

ResolveStatic(p, k) ==
  /\ At(p, "free")
  /\ k \in StaticKeys
  /\ issued' = [issued EXCEPT ![p] = @ \cup {StaticAdapter(k)}]
  /\ UNCHANGED <<db, loaded, nextId, section, sweeping, restarts, uses>>

(* The bound on hits, over the counts stored and the counts in hand.       *)
MayUse(k) ==
  /\ \A r \in get_adapter(k) : db[r].hits < MaxHits
  /\ \A p \in Procs : At(p, "bump") => section[p].hits < MaxHits

ResolveCached(p, k) ==
  /\ At(p, "free")
  /\ k \notin StaticKeys
  /\ Cached(p, k)
  /\ MayUse(k)
  /\ Goto(p, [at |-> "touch", key |-> k])
  /\ UNCHANGED <<db, loaded, nextId, sweeping, restarts, issued, uses>>

(* With no row the answer is None, a 404, and nothing changes.             *)
ResolveMiss(p, k) ==
  /\ At(p, "free")
  /\ k \notin StaticKeys
  /\ ~Cached(p, k)
  /\ MayUse(k)
  /\ nextId[p] < DynIdStart + MaxLoads
  /\ \E r \in get_adapter(k) :
       Goto(p, [at |-> "fill", key |-> k, repo |-> db[r].repo])
  /\ UNCHANGED <<db, loaded, nextId, sweeping, restarts, issued, uses>>

(* The next id is taken (the mutant does not advance the counter).         *)
KeepId(p) == UNCHANGED nextId
TakeId(p) == nextId' = [nextId EXCEPT ![p] = @ + 1]

(* The snapshot is there: build the request under the next id, cache it.   *)
Fill(p) ==
  LET s == section[p] IN
  /\ At(p, "fill")
  /\ loaded' = [loaded EXCEPT ![p][s.key] =
                  [key |-> s.key, id |-> nextId[p], repo |-> s.repo]]
  /\ TakeId(p)
  /\ Goto(p, [at |-> "touch", key |-> s.key])
  /\ UNCHANGED <<db, sweeping, restarts, issued, uses>>

(* snapshot_download raises: the request fails, nothing was cached.        *)
DownloadFails(p) ==
  /\ At(p, "fill")
  /\ Goto(p, Free)
  /\ UNCHANGED <<db, loaded, nextId, sweeping, restarts, issued, uses>>

HandOut(p, k) == issued' = [issued EXCEPT ![p] = @ \cup {loaded[p][k]}]

(* touch_adapter reads the row; without one it returns and the cached      *)
(* request is used all the same.                                           *)
TouchRead(p) ==
  LET k == section[p].key IN
  /\ At(p, "touch")
  /\ \/ /\ get_adapter(k) = {}
        /\ HandOut(p, k)
        /\ Goto(p, Free)
     \/ /\ \E r \in get_adapter(k) :
             Goto(p, [at |-> "bump", key |-> k, rid |-> r,
                      hits |-> db[r].hits, status |-> db[r].status])
        /\ UNCHANGED issued
  /\ UNCHANGED <<db, loaded, nextId, sweeping, restarts, uses>>

(* touch_adapter's UPDATE by primary key: the count read plus one, now,    *)
(* and the status when it changes.  No such row is a StaleDataError.  The  *)
(* mutant sets the time of the first use only.                             *)
TouchedKeepsTime(row, s) ==
  [row EXCEPT !.hits = s.hits + 1, !.status = "loaded",
              !.lastUsed = IF @ = "never" THEN "recent" ELSE @]
Touched(row, s) ==
  [row EXCEPT !.hits = s.hits + 1,
              !.lastUsed = "recent",
              !.status = IF s.status = "loaded" THEN @ ELSE "loaded"]

TouchWrite(p) ==
  LET s == section[p] IN
  /\ At(p, "bump")
  /\ \/ /\ Exists(s.rid)
        /\ db' = [db EXCEPT ![s.rid] = Touched(@, s)]
        /\ uses' = [uses EXCEPT ![s.rid] = @ + 1]
        /\ HandOut(p, s.key)
     \/ /\ ~Exists(s.rid)
        /\ UNCHANGED <<db, uses, issued>>
  /\ Goto(p, Free)
  /\ UNCHANGED <<loaded, nextId, sweeping, restarts>>

-----------------------------------------------------------------------------
(* The admin handlers.                                                     *)

Register(p, k, repo) ==
  /\ At(p, "free")
  /\ \/ /\ get_adapter(k) = {}
        /\ Goto(p, [at |-> "insert", key |-> k, repo |-> repo])
     \/ \E r \in get_adapter(k) :
          Goto(p, [at |-> "update", rid |-> r, repo |-> repo,
                   oldRepo |-> db[r].repo, status |-> db[r].status])
  /\ UNCHANGED <<db, loaded, nextId, sweeping, restarts, issued, uses>>

(* uq_adapter_base_name (the mutant has no such constraint).               *)
Unconstrained(k) == TRUE
Unique(k) == get_adapter(k) = {}

(* A new row takes a primary key no row holds; SQLite gives out the keys   *)
(* of deleted rows again, PostgreSQL does not.  A second row for the pair  *)
(* violates uq_adapter_base_name and the handler fails.                    *)
InsertRow(p) ==
  LET s == section[p] IN
  /\ At(p, "insert")
  /\ \/ /\ Unique(s.key)
        /\ \E r \in Rids :
             /\ ~Exists(r)
             /\ db' = [db EXCEPT ![r] = [key |-> s.key, repo |-> s.repo,
                                         status |-> "registered", hits |-> 0,
                                         lastUsed |-> "never"]]
             /\ uses' = [uses EXCEPT ![r] = 0]
     \/ /\ ~Unique(s.key)
        /\ UNCHANGED <<db, uses>>
  /\ Goto(p, Free)
  /\ UNCHANGED <<loaded, nextId, sweeping, restarts, issued>>

(* Only the attributes that change are written; hits and last_used_at stay *)
(* (the mutant starts the count again).                                    *)
UpdatedResetsHits(row, s) ==
  [row EXCEPT !.repo = s.repo, !.status = "registered", !.hits = 0]
Updated(row, s) ==
  [row EXCEPT !.repo = IF s.oldRepo = s.repo THEN @ ELSE s.repo,
              !.status = IF s.status = "registered" THEN @ ELSE "registered"]

UpdateRow(p) ==
  LET s == section[p] IN
  /\ At(p, "update")
  /\ \/ /\ Exists(s.rid)
        /\ db' = [db EXCEPT ![s.rid] = Updated(@, s)]
     \/ /\ ~Exists(s.rid)
        /\ UNCHANGED db
  /\ Goto(p, Free)
  /\ UNCHANGED <<loaded, nextId, sweeping, restarts, issued, uses>>

(* Without a row the handler answers 404 and evicts nothing.               *)
Delete(p, k) ==
  /\ At(p, "free")
  /\ \E r \in get_adapter(k) :
       Goto(p, [at |-> "delete", key |-> k, rid |-> r])
  /\ UNCHANGED <<db, loaded, nextId, sweeping, restarts, issued, uses>>

(* Mutant: the cache is left alone.                                        *)
EvictNothing(p, k) == UNCHANGED loaded
Evict(p, k) == loaded' = [loaded EXCEPT ![p][k] = NoAdapter]

(* DELETE by primary key (a row already gone is only a warning), then the  *)
(* handler evicts from the cache of its own process.                       *)
DeleteRow(p) ==
  LET s == section[p] IN
  /\ At(p, "delete")
  /\ db' = [db EXCEPT ![s.rid] = NoRow]
  /\ uses' = [uses EXCEPT ![s.rid] = 0]
  /\ Evict(p, s.key)
  /\ Goto(p, Free)
  /\ UNCHANGED <<nextId, sweeping, restarts, issued>>

-----------------------------------------------------------------------------
(* One turn of run_idle_sweep.                                             *)

Remaining(rows) == {r \in Rids : rows[r] # NoRow}
NextRow(rows, fresh) ==
  IF Remaining(rows) = {} THEN Free
  ELSE [at |-> "sweep", rows |-> rows, fresh |-> fresh]

SweepSelect(p) ==
  /\ At(p, "free")
  /\ sweeping[p]
  /\ Remaining(find_idle_since) # {}
  /\ Goto(p, NextRow(find_idle_since, TRUE))
  /\ UNCHANGED <<db, loaded, nextId, sweeping, restarts, issued, uses>>

(* run_idle_sweep has no except clause: whatever is raised ends the task.  *)
SweepDies(p) ==
  /\ sweeping' = [sweeping EXCEPT ![p] = FALSE]
  /\ Goto(p, Free)

(* The rows visited are read from the SELECT (all "loaded" then), unless a *)
(* commit has expired them: reading their key reloads them by primary key, *)
(* and raises when no row has it any more.                                 *)
VisitedRow(s, r) ==
  IF s.fresh THEN [key |-> s.rows[r], status |-> "loaded"]
  ELSE [key |-> db[r].key, status |-> db[r].status]

(* The next row: drop its adapter from the cache of this process.          *)
SweepEvict(p) ==
  LET s == section[p] IN
  /\ At(p, "sweep")
  /\ \E r \in Remaining(s.rows) :
       \/ /\ s.fresh \/ Exists(r)
          /\ Evict(p, VisitedRow(s, r).key)
          /\ Goto(p, [at |-> "mark", key |-> VisitedRow(s, r).key, rid |-> r,
                      status |-> VisitedRow(s, r).status,
                      rows |-> [s.rows EXCEPT ![r] = NoRow], fresh |-> s.fresh])
          /\ UNCHANGED sweeping
       \/ /\ ~s.fresh /\ ~Exists(r)
          /\ SweepDies(p)
          /\ UNCHANGED loaded
  /\ UNCHANGED <<db, nextId, restarts, issued, uses>>

(* mark_idle's query.  The session already holds the object of rid, whose  *)
(* attributes are not read again; a row with another key is a new object.  *)
SweepRead(p) ==
  LET s == section[p] IN
  /\ At(p, "mark")
  /\ \/ /\ get_adapter(s.key) = {}
        /\ Goto(p, NextRow(s.rows, s.fresh))
     \/ \E h \in get_adapter(s.key) :
          Goto(p, [at |-> "idle", rid |-> s.rid, held |-> h,
                   status |-> IF h = s.rid THEN s.status ELSE db[h].status,
                   rows |-> s.rows, fresh |-> s.fresh])
  /\ UNCHANGED <<db, loaded, nextId, sweeping, restarts, issued, uses>>

(* mark_idle's UPDATE and commit.  Mutants of what it writes: a status the *)
(* catalog does not know, no change, and no row at all.                    *)
MarkedUnloaded(row) == [row EXCEPT !.status = "unloaded"]
MarkedNot(row) == row
MarkedGone(row) == NoRow
Marked(row) == [row EXCEPT !.status = "idle"]

SweepMark(p) ==
  LET s == section[p] IN
  /\ At(p, "idle")
  /\ \/ /\ s.status = "idle" \/ Exists(s.held)
        /\ db' = IF s.status = "idle" THEN db
                 ELSE [db EXCEPT ![s.held] = Marked(@)]
        /\ Goto(p, [at |-> "log", rid |-> s.rid, rows |-> s.rows, fresh |-> FALSE])
        /\ UNCHANGED sweeping
     \/ /\ s.status # "idle" /\ ~Exists(s.held)
        /\ SweepDies(p)
        /\ UNCHANGED db
  /\ UNCHANGED <<loaded, nextId, restarts, issued, uses>>

(* The log line reads the expired row once more.                           *)
SweepLog(p) ==
  LET s == section[p] IN
  /\ At(p, "log")
  /\ \/ /\ Exists(s.rid)
        /\ Goto(p, NextRow(s.rows, s.fresh))
        /\ UNCHANGED sweeping
     \/ /\ ~Exists(s.rid)
        /\ SweepDies(p)
  /\ UNCHANGED <<db, loaded, nextId, restarts, issued, uses>>

-----------------------------------------------------------------------------
(* Faults, time and restarts.                                              *)

(* A statement raises (a locked or unreachable database): it is rolled     *)
(* back and the handler fails, or the sweep task ends.                     *)
RequestFails(p) ==
  /\ DbFaults
  /\ section[p].at \notin SweepPoints \cup {"free", "fill"}
  /\ Goto(p, Free)
  /\ UNCHANGED <<db, loaded, nextId, sweeping, restarts, issued, uses>>

SweepFails(p) ==
  /\ DbFaults
  /\ sweeping[p]
  /\ section[p].at \in SweepPoints \cup {"free"}
  /\ SweepDies(p)
  /\ UNCHANGED <<db, loaded, nextId, restarts, issued, uses>>

(* adapter_idle_ttl_seconds pass without a use of the adapter.             *)
Age(r) ==
  /\ Exists(r)
  /\ db[r].lastUsed = "recent"
  /\ db' = [db EXCEPT ![r].lastUsed = "old"]
  /\ UNCHANGED <<loaded, nextId, section, sweeping, restarts, issued, uses>>

(* The process is stopped or killed, at any point, and started again: the  *)
(* lifespan builds a new registry, hence a new cache, new engines and a    *)
(* new sweep task.                                                         *)
Restart(p) ==
  /\ restarts[p] < MaxRestarts
  /\ restarts' = [restarts EXCEPT ![p] = @ + 1]
  /\ loaded' = [loaded EXCEPT ![p] = [k \in Keys |-> NoAdapter]]
  /\ nextId' = [nextId EXCEPT ![p] = DynIdStart]
  /\ section' = [section EXCEPT ![p] = Free]
  /\ sweeping' = [sweeping EXCEPT ![p] = TRUE]
  /\ issued' = [issued EXCEPT ![p] = {}]
  /\ UNCHANGED <<db, uses>>

Resolve(p) ==
  \/ \E k \in Keys : ResolveStatic(p, k) \/ ResolveCached(p, k) \/ ResolveMiss(p, k)
  \/ Fill(p)
  \/ DownloadFails(p)
  \/ TouchRead(p)
  \/ TouchWrite(p)

Admin(p) ==
  \/ \E k \in AdminKeys, repo \in Repos : Register(p, k, repo)
  \/ InsertRow(p)
  \/ UpdateRow(p)
  \/ \E k \in Keys : Delete(p, k)
  \/ DeleteRow(p)

Sweep(p) ==
  SweepSelect(p) \/ SweepEvict(p) \/ SweepRead(p) \/ SweepMark(p) \/ SweepLog(p)

Next ==
  \/ \E p \in Procs : Resolve(p) \/ Admin(p) \/ Sweep(p)
  \/ \E p \in Procs : RequestFails(p) \/ SweepFails(p) \/ Restart(p)
  \/ \E r \in Rids : Age(r)

Spec == Init /\ [][Next]_vars

(* A section that has begun runs to its end.  The sweep's timer puts it in *)
(* the loop's FIFO ready queue, so it gets a turn however many handlers    *)
(* take one in between; time passes.  Nothing is fair about requests,      *)
(* failures or restarts.                                                   *)
Continue(p) ==
  \/ Fill(p) \/ TouchRead(p) \/ TouchWrite(p)
  \/ InsertRow(p) \/ UpdateRow(p) \/ DeleteRow(p)
  \/ SweepEvict(p) \/ SweepRead(p) \/ SweepMark(p) \/ SweepLog(p)

Fairness ==
  /\ \A p \in Procs : WF_vars(Continue(p)) /\ SF_vars(SweepSelect(p))
  /\ \A r \in Rids : WF_vars(Age(r))

FairSpec == Spec /\ Fairness

-----------------------------------------------------------------------------
(* Properties.                                                             *)

KnownRequests(p) == issued[p] \cup {loaded[p][k] : k \in loaded_ids(p)}

(* A lora_int_id names one adapter: vLLM keys its own adapter cache by it, *)
(* so two requests that reach the same engine with the same id are the     *)
(* same adapter with the same weights, whatever was deleted, swept,        *)
(* registered again or resolved in between, static adapters included.      *)
LoraIdNamesOneAdapter ==
  \A p \in Procs : \A x, y \in KnownRequests(p) :
    x.id = y.id /\ BaseOf[x.key] = BaseOf[y.key] => x = y

(* One row per (base_model, name), which scalar_one_or_none relies on: the *)
(* registrations of two processes race between their SELECT and INSERT.    *)
OneRowPerAdapter ==
  \A k \in Keys : Cardinality(get_adapter(k)) <= 1

(* DELETE takes effect at once: with one gateway process, an adapter is    *)
(* never in the cache once its row is gone, so the next request for it     *)
(* answers 404 (no other handler or fill can slip in between).             *)
CachedHasRow ==
  \A p \in Procs, k \in Keys : Cached(p, k) => get_adapter(k) # {}

(* The catalog is accurate: with one process and no database fault, an     *)
(* adapter that the table marks idle is no longer advertised by            *)
(* /v1/models, once the handler or sweep turn at work has ended.           *)
IdleIsNotAdvertised ==
  \A p \in Procs : At(p, "free") =>
    \A k \in loaded_ids(p) : \A r \in get_adapter(k) : db[r].status # "idle"

(* Hits are exact: with one process, the hits of a row are the uses of its *)
(* adapter since it was registered, across registrations that update it,   *)
(* evictions and restarts.                                                 *)
HitsAreExact == \A r \in Rids : Exists(r) => db[r].hits = uses[r]

(* The sweep task survives: with one process and no database fault, none   *)
(* of its statements meets a row that vanished under it.                   *)
SweepSurvives == \A p \in Procs : sweeping[p]

(* The sweep only drops an adapter that has been idle past the limit: a    *)
(* sweep turn never evicts one that was used since.                        *)
SweepSparesRecentlyUsed ==
  [][\A p \in Procs, k \in Keys :
       (Cached(p, k) /\ Sweep(p) /\ loaded'[p][k] = NoAdapter) =>
         \A r \in get_adapter(k) : db[r].lastUsed = "old"]_vars

UsedUp(k, r) == r \in get_adapter(k) /\ db[r].lastUsed = "old"

(* A loaded adapter that nobody uses is eventually dropped from the cache, *)
(* unless it is used, deleted or registered again.                         *)
IdleAdapterIsDropped ==
  \A p \in Procs, k \in Keys, r \in Rids :
    (Cached(p, k) /\ UsedUp(k, r) /\ db[r].status = "loaded")
      ~> (~Cached(p, k) \/ ~UsedUp(k, r) \/ db[r].status = "registered")

(* After a restart the table still says "loaded" of adapters no process    *)
(* holds: they are eventually marked idle, or loaded anew.                 *)
CatalogCatchesUp ==
  \A k \in Keys, r \in Rids :
    (r \in get_adapter(k) /\ db[r].status = "loaded" /\ \A p \in Procs : ~Cached(p, k))
      ~> (r \notin get_adapter(k) \/ db[r].status # "loaded" \/ \E p \in Procs : Cached(p, k))

-----------------------------------------------------------------------------
(* With one gateway process the rows, the cache and the statements of the  *)
(* sections implement AdapterService: no failed statement, sweep turn,     *)
(* eviction, re-registration or restart can be told from an atomic step,   *)
(* or from none.                                                           *)
Sole == CHOOSE p \in Procs : TRUE
IsRegistered(k) == get_adapter(k) # {}
RowOf(k) == db[CHOOSE r \in get_adapter(k) : TRUE]

Catalog == [k \in Keys |-> IF IsRegistered(k) THEN RowOf(k).repo ELSE NoRow]
Resident == [k \in Keys |-> IF Cached(Sole, k) THEN loaded[Sole][k].repo ELSE NoRow]
Hits == [k \in Keys |-> IF IsRegistered(k) THEN RowOf(k).hits ELSE 0]
IdleKeys == [k \in Keys |-> IsRegistered(k) /\ RowOf(k).lastUsed = "old"]

Service == INSTANCE AdapterService WITH
  None <- NoRow, catalog <- Catalog, resident <- Resident, hits <- Hits, idle <- IdleKeys

ImplementsAdapterService == Service!Spec

-----------------------------------------------------------------------------
(* What the documentation says, and the code does not do.                  *)

(* register_adapter: "No restart needed - the next request for             *)
(* <base_model>:<name> resolves and loads it lazily".  The request about   *)
(* to be handed out points to the repository the adapter's row names.      *)
NextRequestServesRegistered ==
  \A p \in Procs : At(p, "bump") =>
    loaded[p][section[p].key].repo = db[section[p].rid].repo
=============================================================================
