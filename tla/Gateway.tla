------------------------------- MODULE Gateway -------------------------------
(***************************************************************************)
(* One gateway process as its clients see it: a call for "<base>:<name>"   *)
(* passes the limiter, has its adapter resolved and generates, while       *)
(* adapters are registered, deleted and swept, statements fail and the     *)
(* process restarts.                                                       *)
(*                                                                         *)
(* AdapterCache is the adapters' part.  The limiter is taken by what it    *)
(* implements, SlidingWindow, whose history of admissions is what a        *)
(* restart forgets.  Between the dependencies of the route and the first   *)
(* output of the engine a call awaits nothing, so from its admission to    *)
(* its adapter it is a section of the event loop.                          *)
(***************************************************************************)
EXTENDS AdapterCache

CONSTANTS
  Calls,        \* HTTP requests; the client of a refused one may send it again
  Clients,      \* limiter identities
  ClientOf,     \* [Calls -> Clients]
  Limit,        \* rate_limit_requests
  Window,       \* rate_limit_window_seconds, in ticks
  MaxNow        \* bound: the clock stops here

ASSUME GatewayAssumption ==
  /\ Procs = {Sole}
  /\ ClientOf \in [Calls -> Clients]
  /\ Limit \in Nat \ {0} /\ Window \in Nat /\ MaxNow \in Nat

VARIABLES
  now, accepted, answer,   \* the limiter
  call                     \* where each call stands

limiter == <<now, accepted, answer>>
gateway_vars == <<vars, limiter, call>>

RL == INSTANCE SlidingWindow WITH Span <- Window

(* stage: "idle", "resolving", "generating", "done", or the status of the  *)
(* error the call was answered with, or "lost" with the process.  key: the *)
(* adapter asked for, and adapter: the LoRARequest the engine was given.   *)
(* row: the row that counted the use, as long as it is there.              *)
Idle == [stage |-> "idle", key |-> NoRow, adapter |-> NoAdapter, row |-> NoRow]
InFlight(c) == call[c].stage \in {"resolving", "generating"}
Set(c, record) == call' = [call EXCEPT ![c] = record]

GatewayInit ==
  /\ Init
  /\ RL!Init
  /\ call = [c \in Calls |-> Idle]

-----------------------------------------------------------------------------
(* A call arrives.                                                         *)

Sends(c) == call[c].stage \in {"idle", "429"} /\ At(Sole, "free")
Asked(k, stage) == [Idle EXCEPT !.stage = stage, !.key = k]

(* No valid credential, and the limiter is not asked.                      *)
Unauthorized(c, k) ==
  /\ Sends(c)
  /\ Set(c, Asked(k, "401"))
  /\ UNCHANGED <<vars, limiter>>

TooMany(c, k) ==
  /\ Sends(c)
  /\ RL!Reject(ClientOf[c])
  /\ Set(c, Asked(k, "429"))
  /\ UNCHANGED vars

(* render_chat_prompt comes after the resolution and may raise.            *)
Handed(k, lora, row) ==
  {[stage |-> stage, key |-> k, adapter |-> lora, row |-> row] :
     stage \in {"generating", "500"}}

ArriveStatic(c, k) ==
  /\ Sends(c)
  /\ RL!Admit(ClientOf[c])
  /\ ResolveStatic(Sole, k)
  /\ \E record \in Handed(k, StaticAdapter(k), NoRow) : Set(c, record)

ArriveDynamic(c, k) ==
  /\ Sends(c)
  /\ RL!Admit(ClientOf[c])
  /\ ResolveCached(Sole, k) \/ ResolveMiss(Sole, k)
  /\ Set(c, Asked(k, "resolving"))

(* No such adapter; or the catalog cannot be read.                         *)
ArriveUnknown(c, k) ==
  /\ Sends(c)
  /\ RL!Admit(ClientOf[c])
  /\ k \notin StaticKeys /\ ~Cached(Sole, k)
  /\ \/ get_adapter(k) = {} /\ Set(c, Asked(k, "404"))
     \/ DbFaults /\ Set(c, Asked(k, "500"))
  /\ UNCHANGED vars

-----------------------------------------------------------------------------
(* Its adapter is resolved.                                                *)

(* Once the use is committed (or the row is gone) the engine gets the      *)
(* cached request; an UPDATE that finds no row raises.                     *)
Outcomes(s) ==
  IF s.at = "bump" /\ ~Exists(s.rid) THEN {Asked(s.key, "500")}
  ELSE Handed(s.key, loaded[Sole][s.key], IF s.at = "bump" THEN s.rid ELSE NoRow)

Proceed(c) ==
  /\ call[c].stage = "resolving"
  /\ Fill(Sole) \/ TouchRead(Sole) \/ TouchWrite(Sole)
  /\ IF section'[Sole] = Free
     THEN \E record \in Outcomes(section[Sole]) : Set(c, record)
     ELSE UNCHANGED call
  /\ UNCHANGED limiter

(* Mutant: the adapter is used although its use could not be recorded.     *)
UseUnrecorded(c) ==
  LET s == section[Sole] IN
  /\ call[c].stage = "resolving" /\ s.at = "bump"
  /\ RequestFails(Sole)
  /\ \E record \in Handed(s.key, loaded[Sole][s.key], s.rid) : Set(c, record)
  /\ UNCHANGED limiter

(* Mutant: what is raised is swallowed, and nobody answers.                *)
FailsSilently(c) ==
  /\ call[c].stage = "resolving"
  /\ DownloadFails(Sole) \/ RequestFails(Sole)
  /\ UNCHANGED <<limiter, call>>

(* The download, or a statement, raises: a 500.                            *)
ResolutionFails(c) ==
  /\ call[c].stage = "resolving"
  /\ DownloadFails(Sole) \/ RequestFails(Sole)
  /\ Set(c, Asked(call[c].key, "500"))
  /\ UNCHANGED limiter

-----------------------------------------------------------------------------
(* The engine finishes or raises, and the call is answered.                *)
Finish(c) ==
  /\ call[c].stage = "generating"
  /\ At(Sole, "free")
  /\ \E status \in {"done", "500"} : call' = [call EXCEPT ![c].stage = status]
  /\ UNCHANGED <<vars, limiter>>

(* Admin handlers and the sweep.  What was counted by a row that is        *)
(* deleted is counted nowhere any more.                                    *)
Forget ==
  call' = [c \in Calls |->
             IF call[c].row # NoRow /\ db'[call[c].row] = NoRow
             THEN [call[c] EXCEPT !.row = NoRow] ELSE call[c]]

Background ==
  /\ \/ Admin(Sole) \/ Sweep(Sole) \/ SweepFails(Sole)
     \/ (RequestFails(Sole) /\ section[Sole].at \notin {"touch", "bump"})
     \/ \E r \in Rids : Age(r)
  /\ Forget
  /\ UNCHANGED limiter

(* The process goes: with it the calls in flight and the limiter's memory. *)
GatewayRestart ==
  /\ Restart(Sole)
  /\ call' = [c \in Calls |-> IF InFlight(c) THEN [call[c] EXCEPT !.stage = "lost"]
                              ELSE call[c]]
  /\ accepted' = [client \in Clients |-> << >>]
  /\ UNCHANGED <<now, answer>>

Clock == now < MaxNow /\ RL!Tick /\ UNCHANGED <<vars, call>>

Arrive(c) ==
  \E k \in Keys : \/ Unauthorized(c, k) \/ TooMany(c, k)
                  \/ ArriveStatic(c, k) \/ ArriveDynamic(c, k) \/ ArriveUnknown(c, k)

GatewayNext ==
  \/ \E c \in Calls : Arrive(c) \/ Proceed(c) \/ ResolutionFails(c) \/ Finish(c)
  \/ Background \/ GatewayRestart \/ Clock

GatewaySpec == GatewayInit /\ [][GatewayNext]_gateway_vars

(* The loop finishes the section it is in, and resumes the handler of an   *)
(* engine that has finished; vLLM finishes.  The loop's queue is first in, *)
(* first out, so sections of others do not hold a handler up for ever.     *)
GatewayFairness ==
  /\ \A c \in Calls : WF_gateway_vars(Proceed(c))
  /\ WF_gateway_vars(Background /\ Continue(Sole))
  /\ \A c \in Calls : SF_gateway_vars(Finish(c))

FairGatewaySpec == GatewaySpec /\ GatewayFairness

-----------------------------------------------------------------------------
(* Properties.                                                             *)

Stages == {"idle", "resolving", "generating", "done",
           "401", "404", "429", "500", "lost"}
GatewayTypeOK ==
  /\ TypeOK
  /\ now \in Nat
  /\ accepted \in [Clients -> Seq(Nat)]
  /\ answer \in [Clients -> {"none", "admitted", "rejected"}]
  /\ call \in [Calls -> [stage : Stages, key : Keys \cup {NoRow},
                         adapter : LoRARequest \cup {NoAdapter},
                         row : Rids \cup {NoRow}]]

(* The hits of an adapter are the calls that were given it since it was    *)
(* registered, each of them once: none that was refused, unauthorized,     *)
(* unroutable or that failed on the way, sent again or not, and whatever   *)
(* became of it afterwards (a failure of the prompt or of the engine, a    *)
(* restart).                                                               *)
HitsAreCalls ==
  \A r \in Rids : Exists(r) =>
    db[r].hits = Cardinality({c \in Calls : call[c].row = r})

(* Every call is answered, unless the process goes: neither the sections   *)
(* of others nor a failure of any kind leaves it hanging.                  *)
EveryCallIsAnswered == \A c \in Calls : InFlight(c) ~> ~InFlight(c)
=============================================================================
