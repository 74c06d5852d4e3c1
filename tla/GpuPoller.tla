------------------------------ MODULE GpuPoller ------------------------------
(***************************************************************************)
(* backend/metrics/gpu.py and its place in the lifespan of main.py: a      *)
(* background task that reads every visible GPU through NVML into gauges   *)
(* and into the snapshot that GET /v1/admin/gpu returns.                   *)
(*                                                                         *)
(* A reading is told by its age in turns of the poll loop.  poll_once      *)
(* awaits nothing, so a turn is one action.  It sets a device's gauges and *)
(* its entry of the snapshot together, after both queries of the device:   *)
(* last stands for them all.                                               *)
(***************************************************************************)
EXTENDS Integers

CONSTANTS
  Gpus,     \* how many devices CUDA_VISIBLE_DEVICES names, in its order
  MaxAge,   \* bound: what is older is told as this old
  None

ASSUME ConstantsAssumption ==
  Gpus \in Nat /\ MaxAge \in Nat \ {0} /\ None \notin Nat

VARIABLES
  answers,  \* the NVML queries that succeed: <<device, query>>
  nvml,     \* "off", "on" (between nvmlInit and nvmlShutdown)
  task,     \* the poll loop: "none", "polling", "cancelled"
  last      \* age of each device's entry in _last and gauges, None if it has none

vars == <<answers, nvml, task, last>>

Devices == 1..Gpus
Queries == Devices \X {"utilization", "memory"}
Unread == [i \in Devices |-> None]

Reads(i) == {<<i, "utilization">>, <<i, "memory">>} \subseteq answers

Init ==
  /\ answers \in SUBSET Queries
  /\ nvml = "off" /\ task = "none"
  /\ last = Unread

(* The lifespan: initialize NVML, resolve the handles, start the loop.     *)
(* Where one of these raises, the process ends before it serves anything.  *)
start ==
  /\ nvml = "off" /\ task = "none"
  /\ nvml' = "on" /\ task' = "polling"
  /\ UNCHANGED <<answers, last>>

-----------------------------------------------------------------------------
(* The devices a turn gets through: the loop ends at the first query that  *)
(* raises.  Mutant: a failing device is skipped.                           *)
PolledAlone == {i \in Devices : Reads(i)}
Polled == {i \in Devices : \A j \in 1..i : Reads(j)}

Older(age) == IF age \in {None, MaxAge} THEN age ELSE age + 1
Turn(ages, read) ==
  [i \in Devices |-> IF i \in read THEN 0 ELSE Older(ages[i])]

(* NVMLError is logged and the loop goes on.  Mutant: it ends the task.    *)
DiesOnError == IF \A i \in Devices : Reads(i) THEN "polling" ELSE "cancelled"
AfterPoll == "polling"

poll_once ==
  /\ task = "polling"
  /\ last' = Turn(last, Polled)
  /\ task' = AfterPoll
  /\ UNCHANGED <<answers, nvml>>

(* Which queries succeed changes at any time: a device falls off the bus   *)
(* and is reset, or does not report its utilization.                       *)
DeviceChanges ==
  /\ \E q \in Queries :
       answers' = IF q \in answers THEN answers \ {q} ELSE answers \cup {q}
  /\ UNCHANGED <<nvml, task, last>>

(* The end of the lifespan: the task is cancelled and NVML shut down in    *)
(* one section, the task cannot run in between.  Mutant: it is not         *)
(* cancelled.                                                              *)
NotCancelled == "polling"
Cancelled == "cancelled"
shutdown ==
  /\ nvml = "on"
  /\ task' = Cancelled
  /\ nvml' = "off"
  /\ UNCHANGED <<answers, last>>

(* The process is gone, and with it the gauges and the snapshot.           *)
Exit ==
  /\ nvml = "off" /\ task # "none"
  /\ task' = "none"
  /\ last' = Unread
  /\ UNCHANGED <<answers, nvml>>

Next == start \/ poll_once \/ DeviceChanges \/ shutdown \/ Exit

Spec == Init /\ [][Next]_vars

(* asyncio.sleep ends, and nothing on the event loop runs for ever.        *)
FairSpec == Spec /\ WF_vars(poll_once)

-----------------------------------------------------------------------------
(* GET /v1/admin/gpu: the devices that were ever read, each under its      *)
(* index, in their order.                                                  *)
Shown == {i \in Devices : last[i] # None}
snapshot == [i \in Shown |-> last[i]]

Ages == 0..MaxAge \cup {None}

(* The types; and the loop only ever runs on an initialized NVML.          *)
TypeOK ==
  /\ answers \in SUBSET Queries
  /\ nvml \in {"off", "on"}
  /\ task \in {"none", "polling", "cancelled"}
  /\ last \in [Devices -> Ages]
  /\ task = "polling" => nvml = "on"

(* The turn stops at the first device that fails: the devices shown are    *)
(* the first ones, and none is staler than one behind it.                  *)
EarlierIsFresher ==
  \A j \in DOMAIN snapshot : \A i \in 1..j :
    i \in DOMAIN snapshot /\ snapshot[i] <= snapshot[j]

(* A device is shown up to date again and again once it and those before   *)
(* it have recovered for good, whatever failed before, and those behind it *)
(* still do.                                                               *)
WorkingGpuIsRefreshed ==
  \A i \in Devices :
    <>[](nvml = "on" /\ \A j \in 1..i : Reads(j)) => []<>(last[i] = 0)
=============================================================================
