---------------------------- MODULE AdapterService ----------------------------
(***************************************************************************)
(* What the gateway promises about LoRA adapters, without a table, a       *)
(* cache, a session or a sweep task: registering, deleting, loading, using *)
(* and dropping an adapter each happen at once.  An adapter is resident    *)
(* only while it is registered, with the weights it was registered with    *)
(* when it was loaded; each use counts once, and needs a resident adapter; *)
(* only an adapter that has not been used lately is dropped.  AdapterCache *)
(* implements this specification when there is one gateway process.        *)
(***************************************************************************)
EXTENDS Naturals

CONSTANTS Keys, Repos, None

VARIABLES
  catalog,    \* the repository each adapter is registered with, or None
  resident,   \* the weights a use of it runs on, or None
  hits,       \* uses since it was registered
  idle        \* whether it was used, but not lately

vars == <<catalog, resident, hits, idle>>

Init ==
  /\ catalog = [k \in Keys |-> None]
  /\ resident = [k \in Keys |-> None]
  /\ hits = [k \in Keys |-> 0]
  /\ idle = [k \in Keys |-> FALSE]

Register(k, repo) ==
  /\ catalog' = [catalog EXCEPT ![k] = repo]
  /\ UNCHANGED <<resident, hits, idle>>

Delete(k) ==
  /\ catalog[k] # None
  /\ catalog' = [catalog EXCEPT ![k] = None]
  /\ resident' = [resident EXCEPT ![k] = None]
  /\ hits' = [hits EXCEPT ![k] = 0]
  /\ idle' = [idle EXCEPT ![k] = FALSE]

Load(k) ==
  /\ catalog[k] # None /\ resident[k] = None
  /\ resident' = [resident EXCEPT ![k] = catalog[k]]
  /\ UNCHANGED <<catalog, hits, idle>>

Use(k) ==
  /\ resident[k] # None
  /\ hits' = [hits EXCEPT ![k] = @ + 1]
  /\ idle' = [idle EXCEPT ![k] = FALSE]
  /\ UNCHANGED <<catalog, resident>>

Age(k) ==
  /\ hits[k] > 0
  /\ idle' = [idle EXCEPT ![k] = TRUE]
  /\ UNCHANGED <<catalog, resident, hits>>

Drop(k) ==
  /\ idle[k]
  /\ resident' = [resident EXCEPT ![k] = None]
  /\ UNCHANGED <<catalog, hits, idle>>

Restart ==
  /\ resident' = [k \in Keys |-> None]
  /\ UNCHANGED <<catalog, hits, idle>>

Next ==
  \/ \E k \in Keys : \/ \E repo \in Repos : Register(k, repo)
                     \/ Delete(k) \/ Load(k) \/ Use(k) \/ Age(k) \/ Drop(k)
  \/ Restart

Spec == Init /\ [][Next]_vars
=============================================================================
