--------------------------- MODULE GpuPollerProofs ---------------------------
(***************************************************************************)
(* Theorems about GpuPoller: what the readings say of the devices one      *)
(* behind the other, for any number of devices and whatever queries fail.  *)
(***************************************************************************)
EXTENDS GpuPoller, TLAPS

(* An age is a number or None, and stays one when a turn passes.           *)
LEMMA OlderAge ==
  ASSUME NEW age \in Ages
  PROVE  /\ Older(age) \in Ages
         /\ Older(age) # None <=> age # None
BY ConstantsAssumption DEF Older, Ages

(* A turn passes for every device alike, and nothing is younger than 0.    *)
LEMMA OlderMonotone ==
  ASSUME NEW a \in Ages \ {None}, NEW b \in Ages \ {None}, a <= b
  PROVE  Older(a) <= Older(b) /\ 0 <= Older(b)
BY ConstantsAssumption DEF Older, Ages

(* What a turn makes of the ages of the devices.                           *)
LEMMA TurnAges ==
  ASSUME NEW ages \in [Devices -> Ages], NEW read
  PROVE  /\ Turn(ages, read) \in [Devices -> Ages]
         /\ \A i \in Devices : Turn(ages, read)[i] =
                                 IF i \in read THEN 0 ELSE Older(ages[i])
<1>1. 0 \in Ages
  BY ConstantsAssumption DEF Ages
<1>2. QED
  BY <1>1, OlderAge DEF Turn

(* The types are inductive: the loop never runs on a closed NVML.          *)
LEMMA PollerInit == Init => TypeOK
BY DEF Init, TypeOK, Unread, Ages

LEMMA PollerStep == TypeOK /\ [Next]_vars => TypeOK'
<1> SUFFICES ASSUME TypeOK, [Next]_vars PROVE TypeOK'
  OBVIOUS
<1>1. CASE start
  BY <1>1 DEF start, TypeOK
<1>2. CASE poll_once
  <2>1. last' \in [Devices -> Ages]
    BY <1>2, TurnAges DEF poll_once, TypeOK
  <2>2. QED
    BY <1>2, <2>1 DEF poll_once, AfterPoll, TypeOK
<1>3. CASE DeviceChanges
  BY <1>3 DEF DeviceChanges, TypeOK
<1>4. CASE shutdown
  BY <1>4 DEF shutdown, Cancelled, TypeOK
<1>5. CASE Exit
  BY <1>5 DEF Exit, Unread, Ages, TypeOK
<1>6. CASE UNCHANGED vars
  BY <1>6 DEF vars, TypeOK
<1>7. QED
  BY <1>1, <1>2, <1>3, <1>4, <1>5, <1>6 DEF Next

(* The readings are well typed, and NVML is initialized as long as the     *)
(* poll loop runs.                                                         *)
THEOREM PollerTypeCorrect == Spec => []TypeOK
BY PollerInit, PollerStep, PTL DEF Spec

-----------------------------------------------------------------------------
(* EarlierIsFresher without the snapshot: a device was read only if those  *)
(* before it were, and then their readings are no older.                   *)
Fresher ==
  \A j \in Devices : last[j] # None =>
    \A i \in 1..j : last[i] # None /\ last[i] <= last[j]

(* A turn gets through a prefix of the devices.                            *)
LEMMA PolledIsPrefix ==
  ASSUME NEW j \in Polled, NEW i \in 1..j
  PROVE  i \in Polled
BY ConstantsAssumption DEF Polled, Devices

LEMMA FresherTurn ==
  ASSUME TypeOK, Fresher, poll_once
  PROVE  Fresher'
<1>1. \A i \in Devices :
        /\ last[i] \in Ages
        /\ last'[i] = IF i \in Polled THEN 0 ELSE Older(last[i])
  BY TurnAges DEF TypeOK, poll_once
<1> SUFFICES ASSUME NEW j \in Devices, last'[j] # None, NEW i \in 1..j
             PROVE  last'[i] # None /\ last'[i] <= last'[j]
  BY DEF Fresher
<1>2. i \in Devices
  BY ConstantsAssumption DEF Devices
<1>3. CASE j \in Polled
  <2>1. last'[i] = 0 /\ last'[j] = 0
    BY <1>1, <1>2, <1>3, PolledIsPrefix
  <2>2. QED
    BY <2>1, ConstantsAssumption
<1>4. CASE j \notin Polled
  <2>1. /\ last'[j] = Older(last[j]) /\ last[j] \in Ages \ {None}
        /\ last[i] \in Ages \ {None} /\ last[i] <= last[j]
    BY <1>1, <1>2, <1>4, OlderAge DEF Fresher
  <2>2. Older(last[i]) <= Older(last[j]) /\ 0 <= Older(last[j])
    BY <2>1, OlderMonotone
  <2>3. last'[i] = 0 \/ last'[i] = Older(last[i])
    BY <1>1, <1>2
  <2>4. 0 # None /\ Older(last[i]) # None
    BY <2>1, OlderAge, ConstantsAssumption
  <2>5. QED
    BY <2>1, <2>2, <2>3, <2>4
<1>5. QED
  BY <1>3, <1>4

(* The devices shown are the first ones, and none of them is staler than   *)
(* one behind it, for any number of devices and any failures.              *)
THEOREM FirstDevicesAreFreshest == Spec => []EarlierIsFresher
<1>1. Init => Fresher
  BY DEF Init, Fresher, Unread
<1>2. TypeOK /\ Fresher /\ [Next]_vars => Fresher'
  <2> SUFFICES ASSUME TypeOK, Fresher, [Next]_vars PROVE Fresher'
    OBVIOUS
  <2>1. CASE Exit
    BY <2>1 DEF Exit, Unread, Fresher
  <2>2. CASE last' = last
    BY <2>2 DEF Fresher
  <2>3. QED
    BY <2>1, <2>2, FresherTurn
       DEF Next, start, DeviceChanges, shutdown, vars
<1>3. Fresher => EarlierIsFresher
  BY ConstantsAssumption DEF Fresher, EarlierIsFresher, snapshot, Shown, Devices
<1>4. QED
  BY <1>1, <1>2, <1>3, PollerTypeCorrect, PTL DEF Spec
=============================================================================
