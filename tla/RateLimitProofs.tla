-------------------------- MODULE RateLimitProofs --------------------------
(***************************************************************************)
(* Theorems about RateLimit, for every limit, window, clock and set of     *)
(* clients.                                                                *)
(***************************************************************************)
EXTENDS RateLimit, FiniteSets, FiniteSetTheorems, TLAPS

(* The bucket holds exactly the admissions that were not dropped, and only *)
(* expired ones were dropped; admission times do not decrease.             *)
BucketIsSuffix(c) ==
  /\ expired[c] <= Len(accepted[c])
  /\ Len(buckets[c]) = Len(accepted[c]) - expired[c]
  /\ \A i \in 1..Len(buckets[c]) : buckets[c][i] = accepted[c][expired[c] + i]
  /\ \A i \in 1..expired[c] : now - accepted[c][i] > Span

Sorted(c) ==
  /\ \A i \in 1..Len(accepted[c]) : accepted[c][i] <= now
  /\ \A i, j \in 1..Len(accepted[c]) : i <= j => accepted[c][i] <= accepted[c][j]

IInv ==
  /\ TypeOK
  /\ \A c \in Clients : BucketIsSuffix(c) /\ Sorted(c)
  /\ Limit > 0 => WindowBudget

(* The window has a length in ticks.                                       *)
LEMMA SpanType == Span \in Nat
BY ConstantsAssumption DEF Span

(* What SubSeq leaves when n entries are dropped from the front.           *)
LEMMA RestOf ==
  ASSUME NEW bucket \in Seq(Nat), NEW n \in 0..Len(bucket)
  PROVE  /\ Rest(bucket, n) \in Seq(Nat)
         /\ Len(Rest(bucket, n)) = Len(bucket) - n
         /\ \A i \in 1..(Len(bucket) - n) : Rest(bucket, n)[i] = bucket[n + i]
BY DEF Rest

(* Retry-After is never negative.                                          *)
LEMMA RetryAfterType ==
  ASSUME TypeOK, NEW bucket \in Seq(Nat), bucket # << >>
  PROVE  RetryAfter(bucket) * TicksPerSecond \in Nat
<1>1. Head(bucket) \in Nat /\ now \in Nat /\ Span \in Nat
  BY SpanType DEF TypeOK
<1>2. TicksPerSecond \in Nat /\ TicksPerSecond > 0
  BY ConstantsAssumption
<1>3. ASSUME NEW left \in Int, ~(left < 0)
      PROVE  left \div TicksPerSecond \in Nat
  BY <1>2, <1>3
<1> DEFINE left == Span - (now - Head(bucket))
<1>4. left \in Int
  BY <1>1
<1>5. RetryAfter(bucket) = (IF left < 0 THEN 0 ELSE left \div TicksPerSecond) + 1
  BY DEF RetryAfter
<1> HIDE DEF left
<1>6. RetryAfter(bucket) \in Nat
  <2>1. CASE left < 0
    BY <1>5, <2>1
  <2>2. CASE ~(left < 0)
    <3> DEFINE seconds == left \div TicksPerSecond
    <3>1. seconds \in Nat
      BY <1>3, <1>4, <2>2
    <3>2. RetryAfter(bucket) = seconds + 1
      BY <1>5, <2>2
    <3> HIDE DEF seconds
    <3>3. QED
      BY <3>1, <3>2
  <2>3. QED
    BY <2>1, <2>2
<1>7. QED
  BY <1>2, <1>6

(* The invariant holds initially.                                          *)
LEMMA InitInv == Init => IInv
<1> SUFFICES ASSUME Init PROVE IInv
  OBVIOUS
<1>1. TypeOK
  BY DEF Init, TypeOK
<1>2. ASSUME NEW c \in Clients
      PROVE  /\ BucketIsSuffix(c) /\ Sorted(c)
             /\ Len(accepted[c]) = 0
  BY DEF Init, BucketIsSuffix, Sorted
<1>3. Limit > 0 => WindowBudget
  BY <1>2, ConstantsAssumption DEF WindowBudget
<1>4. QED
  BY <1>1, <1>2, <1>3 DEF IInv

(* Dropping n entries from the front of the bucket of c keeps it a suffix. *)
LEMMA DropKeepsSuffix ==
  ASSUME IInv, NEW c \in Clients, NEW n \in 0..Len(buckets[c]),
         DropsExpired(buckets[c], n)
  PROVE  LET rest == Rest(buckets[c], n)
         IN  /\ rest \in Seq(Nat)
             /\ expired[c] + n <= Len(accepted[c])
             /\ Len(rest) = Len(accepted[c]) - (expired[c] + n)
             /\ \A i \in 1..Len(rest) : rest[i] = accepted[c][expired[c] + n + i]
             /\ \A i \in 1..(expired[c] + n) : now - accepted[c][i] > Span
<1> DEFINE bucket == buckets[c]
           acc == accepted[c]
           d == expired[c]
           rest == Rest(bucket, n)
<1>1. /\ bucket \in Seq(Nat) /\ acc \in Seq(Nat) /\ d \in Nat
      /\ now \in Nat /\ Span \in Nat
  BY SpanType DEF IInv, TypeOK
<1>2. /\ d <= Len(acc)
      /\ Len(bucket) = Len(acc) - d
      /\ \A i \in 1..Len(bucket) : bucket[i] = acc[d + i]
      /\ \A i \in 1..d : now - acc[i] > Span
  BY DEF IInv, BucketIsSuffix
<1>3. /\ rest \in Seq(Nat)
      /\ Len(rest) = Len(bucket) - n
      /\ \A i \in 1..(Len(bucket) - n) : rest[i] = bucket[n + i]
  BY <1>1, RestOf
<1>4. \A i \in 1..n : now - bucket[i] > Span
  BY DEF DropsExpired, IsExpired
<1> HIDE DEF bucket, acc, d, rest
<1>5. Len(acc) \in Nat /\ Len(bucket) \in Nat /\ n \in Nat /\ n <= Len(bucket)
  BY <1>1 DEF bucket
<1>6. Len(rest) = Len(acc) - (d + n) /\ d + n <= Len(acc)
  BY <1>1, <1>2, <1>3, <1>5
<1>7. \A i \in 1..Len(rest) : rest[i] = acc[d + n + i]
  <2> TAKE i \in 1..Len(rest)
  <2>1. n + i \in 1..Len(bucket) /\ rest[i] = bucket[n + i]
    BY <1>3, <1>5
  <2>2. bucket[n + i] = acc[d + (n + i)]
    BY <1>2, <2>1
  <2>3. d + (n + i) = d + n + i
    BY <1>1, <1>5
  <2>4. QED
    BY <2>1, <2>2, <2>3
<1>8. \A i \in 1..(d + n) : now - acc[i] > Span
  <2> TAKE i \in 1..(d + n)
  <2>1. CASE i \in 1..d
    BY <1>2, <2>1
  <2>2. CASE i > d
    <3>1. i - d \in 1..n /\ i - d \in 1..Len(bucket)
      BY <1>1, <1>5, <2>2
    <3>2. bucket[i - d] = acc[d + (i - d)] /\ d + (i - d) = i
      BY <1>1, <1>2, <3>1
    <3>3. QED
      BY <1>4, <3>1, <3>2
  <2>3. QED
    BY <1>1, <1>5, <2>1, <2>2
<1>9. QED
  BY <1>3, <1>6, <1>7, <1>8 DEF bucket, acc, d, rest

(* An admission: the entry appended comes more than a window after the one *)
(* Limit places before it, which was dropped.                              *)
LEMMA AdmitInv ==
  ASSUME IInv, Limit # 0, NEW c \in Clients, Admit(c)
  PROVE  IInv'
<1> DEFINE acc == accepted[c]
           m == Len(acc)
<1>1. PICK n \in 0..Len(buckets[c]) :
        /\ DropsExpired(buckets[c], n)
        /\ HasRoom(Rest(buckets[c], n))
        /\ buckets' = [buckets EXCEPT ![c] = Append(Rest(buckets[c], n), now)]
        /\ expired' = [expired EXCEPT ![c] = expired[c] + n]
  BY DEF Admit
<1> DEFINE rest == Rest(buckets[c], n)
           d == expired[c] + n
<1>2. /\ rest \in Seq(Nat)
      /\ d <= m
      /\ Len(rest) = m - d
      /\ \A i \in 1..Len(rest) : rest[i] = acc[d + i]
      /\ \A i \in 1..d : now - acc[i] > Span
  BY <1>1, DropKeepsSuffix
<1>3. Len(rest) < Limit /\ Limit \in Nat /\ Limit > 0
  BY <1>1, ConstantsAssumption DEF HasRoom, Admit
<1>4. /\ accepted' = [accepted EXCEPT ![c] = Append(acc, now)]
      /\ answer' = [answer EXCEPT ![c] = "admitted"]
      /\ until' = [until EXCEPT ![c] = 0]
      /\ now' = now
  BY DEF Admit
<1>5. /\ acc \in Seq(Nat) /\ m \in Nat /\ now \in Nat /\ d \in Nat /\ Span \in Nat
      /\ buckets[c] \in Seq(Nat)
  BY SpanType DEF IInv, TypeOK
<1>6. /\ \A i \in 1..m : acc[i] <= now
      /\ \A i, j \in 1..m : i <= j => acc[i] <= acc[j]
  BY DEF IInv, Sorted
<1>7. \A i \in 1..(m - Limit) : acc[i + Limit] - acc[i] > Span
  BY <1>3 DEF IInv, WindowBudget
<1> DEFINE acc1 == Append(acc, now)
           rest1 == Append(rest, now)
<1>8. /\ accepted'[c] = acc1 /\ buckets'[c] = rest1 /\ expired'[c] = d
      /\ \A b \in Clients \ {c} : /\ accepted'[b] = accepted[b]
                                  /\ buckets'[b] = buckets[b]
                                  /\ expired'[b] = expired[b]
  BY <1>1, <1>4 DEF IInv, TypeOK
<1> HIDE DEF acc, m, rest, d
<1>9. /\ acc1 \in Seq(Nat) /\ Len(acc1) = m + 1 /\ acc1[m + 1] = now
      /\ \A i \in 1..m : acc1[i] = acc[i]
  BY <1>5 DEF m
<1>10. /\ rest1 \in Seq(Nat) /\ Len(rest1) = Len(rest) + 1
       /\ rest1[Len(rest) + 1] = now
       /\ \A i \in 1..Len(rest) : rest1[i] = rest[i]
       /\ Len(rest) \in Nat
  BY <1>2, <1>5
<1> HIDE DEF acc1, rest1
<1>11. TypeOK'
  BY <1>1, <1>4, <1>5, <1>9, <1>10 DEF IInv, TypeOK, acc1, rest1, acc, rest, d
<1>12. BucketIsSuffix(c)'
  <2>1. Len(rest1) = Len(acc1) - d /\ d <= Len(acc1)
    BY <1>2, <1>5, <1>9, <1>10
  <2>2. \A i \in 1..Len(rest1) : rest1[i] = acc1[d + i]
    <3> TAKE i \in 1..Len(rest1)
    <3>1. CASE i = Len(rest) + 1
      BY <1>2, <1>5, <1>9, <1>10, <3>1
    <3>2. CASE i \in 1..Len(rest)
      <4>1. d + i \in 1..m
        BY <1>2, <1>5, <1>10, <3>2
      <4>2. QED
        BY <1>2, <1>9, <1>10, <3>2, <4>1
    <3>3. QED
      BY <1>10, <3>1, <3>2
  <2>3. \A i \in 1..d : now - acc1[i] > Span
    <3> TAKE i \in 1..d
    <3>1. i \in 1..m
      BY <1>2, <1>5
    <3>2. QED
      BY <1>2, <1>9, <3>1
  <2>4. QED
    BY <1>4, <1>8, <2>1, <2>2, <2>3 DEF BucketIsSuffix, Span
<1>13. Sorted(c)'
  <2>1. \A i \in 1..Len(acc1) : acc1[i] <= now
    <3> TAKE i \in 1..Len(acc1)
    <3>1. CASE i = m + 1
      BY <1>5, <1>9, <3>1
    <3>2. CASE i \in 1..m
      BY <1>6, <1>9, <3>2
    <3>3. QED
      BY <1>5, <1>9, <3>1, <3>2
  <2>2. \A i, j \in 1..Len(acc1) : i <= j => acc1[i] <= acc1[j]
    <3> TAKE i, j \in 1..Len(acc1)
    <3>1. CASE j = m + 1
      BY <1>9, <2>1, <3>1
    <3>2. CASE j \in 1..m
      BY <1>5, <1>6, <1>9, <3>2
    <3>3. QED
      BY <1>5, <1>9, <3>1, <3>2
  <2>3. QED
    BY <1>4, <1>8, <2>1, <2>2 DEF Sorted
<1>14. ASSUME NEW b \in Clients \ {c}
       PROVE  BucketIsSuffix(b)' /\ Sorted(b)'
  <2>1. BucketIsSuffix(b) /\ Sorted(b)
    BY DEF IInv
  <2>2. QED
    BY <1>4, <1>8, <2>1 DEF BucketIsSuffix, Sorted, Span
<1>15. \A i \in 1..(Len(acc1) - Limit) : acc1[i + Limit] - acc1[i] > Span
  <2> TAKE i \in 1..(Len(acc1) - Limit)
  <2>1. CASE i + Limit = m + 1
    <3>1. i \in 1..d /\ i \in 1..m
      BY <1>2, <1>3, <1>5, <1>9, <2>1
    <3>2. QED
      BY <1>2, <1>9, <2>1, <3>1
  <2>2. CASE i + Limit # m + 1
    <3>1. i \in 1..(m - Limit) /\ i \in 1..m /\ i + Limit \in 1..m
      BY <1>3, <1>5, <1>9, <2>2
    <3>2. QED
      BY <1>7, <1>9, <3>1
  <2>3. QED
    BY <2>1, <2>2
<1>16. WindowBudget'
  <2> SUFFICES ASSUME NEW b \in Clients, NEW i \in 1..(Len(accepted'[b]) - Limit)
               PROVE  accepted'[b][i + Limit] - accepted'[b][i] > Span
    BY DEF WindowBudget, Span
  <2>1. CASE b = c
    BY <1>8, <1>15, <2>1
  <2>2. CASE b # c
    BY <1>3, <1>8, <2>2 DEF IInv, WindowBudget
  <2>3. QED
    BY <2>1, <2>2
<1>17. QED
  BY <1>11, <1>12, <1>13, <1>14, <1>16 DEF IInv

(* A rejected request keeps the invariant.                                 *)
LEMMA RejectInv ==
  ASSUME IInv, Limit # 0, NEW c \in Clients, Reject(c)
  PROVE  IInv'
<1>1. PICK n \in 0..Len(buckets[c]) :
        /\ DropsExpired(buckets[c], n)
        /\ ~HasRoom(Rest(buckets[c], n))
        /\ buckets' = [buckets EXCEPT ![c] = Rest(buckets[c], n)]
        /\ expired' = [expired EXCEPT ![c] = expired[c] + n]
        /\ until' = [until EXCEPT
                       ![c] = now + RetryAfter(Rest(buckets[c], n)) * TicksPerSecond]
  BY DEF Reject
<1> DEFINE rest == Rest(buckets[c], n)
           d == expired[c] + n
           wait == RetryAfter(rest) * TicksPerSecond
<1>2. /\ rest \in Seq(Nat)
      /\ d <= Len(accepted[c])
      /\ Len(rest) = Len(accepted[c]) - d
      /\ \A i \in 1..Len(rest) : rest[i] = accepted[c][d + i]
      /\ \A i \in 1..d : now - accepted[c][i] > Span
  BY <1>1, DropKeepsSuffix
<1>3. rest # << >>
  BY <1>1, ConstantsAssumption DEF HasRoom, Reject
<1>4. wait \in Nat
  BY <1>2, <1>3, RetryAfterType DEF IInv
<1>5. /\ now' = now /\ accepted' = accepted
      /\ answer' = [answer EXCEPT ![c] = "rejected"]
  BY DEF Reject
<1>6. /\ buckets'[c] = rest /\ expired'[c] = d
      /\ \A b \in Clients \ {c} : /\ buckets'[b] = buckets[b]
                                  /\ expired'[b] = expired[b]
  BY <1>1 DEF IInv, TypeOK
<1>7. d \in Nat /\ now + wait \in Nat
  BY <1>4 DEF IInv, TypeOK
<1> HIDE DEF rest, d, wait
<1>8. until' = [until EXCEPT ![c] = now + wait]
  BY <1>1 DEF wait, rest
<1>9. TypeOK'
  BY <1>1, <1>2, <1>5, <1>7, <1>8 DEF IInv, TypeOK, rest, d
<1>10. BucketIsSuffix(c)'
  BY <1>2, <1>5, <1>6 DEF BucketIsSuffix, Span
<1>11. ASSUME NEW b \in Clients \ {c}
       PROVE  BucketIsSuffix(b)'
  <2>1. BucketIsSuffix(b)
    BY DEF IInv
  <2>2. QED
    BY <1>5, <1>6, <2>1 DEF BucketIsSuffix, Span
<1>12. \A b \in Clients : Sorted(b)'
  BY <1>5 DEF IInv, Sorted
<1>13. (Limit > 0 => WindowBudget)'
  BY <1>5 DEF IInv, WindowBudget, Span
<1>14. QED
  BY <1>9, <1>10, <1>11, <1>12, <1>13 DEF IInv

(* So does time: what had expired stays expired.                           *)
LEMMA TickInv ==
  ASSUME IInv, Tick
  PROVE  IInv'
<1>1. /\ now' = now + 1 /\ now \in Nat /\ Span \in Nat
      /\ UNCHANGED <<buckets, answer, until, accepted, expired>>
  BY SpanType DEF Tick, IInv, TypeOK
<1>2. TypeOK'
  BY <1>1 DEF IInv, TypeOK
<1>3. ASSUME NEW c \in Clients
      PROVE  BucketIsSuffix(c)' /\ Sorted(c)'
  <2>1. /\ BucketIsSuffix(c) /\ Sorted(c)
        /\ accepted[c] \in Seq(Nat) /\ expired[c] \in Nat
    BY DEF IInv, TypeOK
  <2>2. \A i \in 1..Len(accepted[c]) : accepted[c][i] \in Nat
    BY <2>1
  <2>3. \A i \in 1..expired[c] : i \in 1..Len(accepted[c])
    BY <2>1 DEF BucketIsSuffix
  <2>4. \A i \in 1..expired[c] : now + 1 - accepted[c][i] > Span
    <3> TAKE i \in 1..expired[c]
    <3>1. now - accepted[c][i] > Span /\ accepted[c][i] \in Nat
      BY <2>1, <2>2, <2>3 DEF BucketIsSuffix
    <3>2. QED
      BY <1>1, <3>1
  <2>5. \A i \in 1..Len(accepted[c]) : accepted[c][i] <= now + 1
    BY <1>1, <2>1, <2>2 DEF Sorted
  <2>6. BucketIsSuffix(c)'
    BY <1>1, <2>1, <2>4 DEF BucketIsSuffix, Span
  <2>7. Sorted(c)'
    BY <1>1, <2>1, <2>5 DEF Sorted
  <2>8. QED
    BY <2>6, <2>7
<1>4. (Limit > 0 => WindowBudget)'
  BY <1>1 DEF IInv, WindowBudget, Span
<1>5. QED
  BY <1>2, <1>3, <1>4 DEF IInv

(* A step that changes neither history nor buckets keeps the invariant.    *)
LEMMA SameInv ==
  ASSUME IInv, UNCHANGED <<now, buckets, until, accepted, expired>>,
         answer' \in [Clients -> {"none", "admitted", "rejected"}]
  PROVE  IInv'
BY DEF IInv, TypeOK, BucketIsSuffix, Sorted, WindowBudget, Span

(* Every request belongs to a client.                                      *)
LEMMA IdentityIsClient ==
  ASSUME NEW header \in Headers \cup {None}, NEW host \in Hosts \cup {None}
  PROVE  _client_identity(header, host) \in Clients
BY DEF Clients

(* Every step keeps the invariant.                                         *)
LEMMA StepInv == IInv /\ [Next]_vars => IInv'
<1> SUFFICES ASSUME IInv, [Next]_vars PROVE IInv'
  OBVIOUS
<1>1. ASSUME NEW c \in Clients, Unlimited(c)
      PROVE  IInv'
  BY <1>1, SameInv DEF Unlimited, IInv, TypeOK
<1>2. ASSUME NEW header \in Headers \cup {None}, NEW host \in Hosts \cup {None},
             enforce_rate_limit(header, host)
      PROVE  IInv'
  BY <1>1, <1>2, IdentityIsClient, AdmitInv, RejectInv DEF enforce_rate_limit
<1>3. CASE UNCHANGED vars
  BY <1>3, SameInv DEF vars, IInv, TypeOK
<1>4. QED
  BY <1>2, <1>3, TickInv DEF Next

(* The inductive invariant.                                                *)
LEMMA InvariantHolds == Spec => []IInv
BY InitInv, StepInv, PTL DEF Spec

(* Every variable keeps its type, whatever the requests and the clock do.  *)
THEOREM RateLimitTypeCorrect == Spec => []TypeOK
BY InvariantHolds, PTL DEF IInv

(* No client is admitted more than Limit times within any Window seconds,  *)
(* for every limit, window and clock.                                      *)
THEOREM BudgetHolds ==
  ASSUME Limit > 0
  PROVE  Spec => []WindowBudget
<1>1. IInv => WindowBudget
  BY DEF IInv
<1>2. QED
  BY <1>1, InvariantHolds, PTL

-----------------------------------------------------------------------------
(* The bucket, once its expired front is dropped, is as long as the number *)
(* of admissions in the last window: this is where sortedness is needed.   *)
LEMMA RestCountsRecent ==
  ASSUME IInv, NEW c \in Clients, NEW n \in 0..Len(buckets[c]),
         DropsExpired(buckets[c], n)
  PROVE  Cardinality(SW!Recent(c)) = Len(Rest(buckets[c], n))
<1> DEFINE acc == accepted[c]
           m == Len(acc)
           rest == Rest(buckets[c], n)
           d == expired[c] + n
<1>1. /\ rest \in Seq(Nat)
      /\ d <= m
      /\ Len(rest) = m - d
      /\ \A i \in 1..Len(rest) : rest[i] = acc[d + i]
      /\ \A i \in 1..d : now - acc[i] > Span
  BY DropKeepsSuffix
<1>2. /\ acc \in Seq(Nat) /\ m \in Nat /\ d \in Nat /\ now \in Nat /\ Span \in Nat
      /\ DOMAIN acc = 1..m /\ expired[c] \in Nat
  BY SpanType DEF IInv, TypeOK
<1>3. \A i \in 1..m : acc[i] \in Nat
  BY <1>2
<1>4. d < m => now - acc[d + 1] <= Span
  <2>1. /\ Len(buckets[c]) = m - expired[c]
        /\ \A i \in 1..Len(buckets[c]) : buckets[c][i] = acc[expired[c] + i]
    BY DEF IInv, BucketIsSuffix
  <2>2. n < Len(buckets[c]) => ~(now - buckets[c][n + 1] > Span)
    BY DEF DropsExpired, IsExpired
  <2> SUFFICES ASSUME d < m PROVE now - acc[d + 1] <= Span
    OBVIOUS
  <2>3. n + 1 \in 1..Len(buckets[c]) /\ expired[c] + (n + 1) = d + 1 /\ d + 1 \in 1..m
    BY <1>2, <2>1
  <2>4. buckets[c][n + 1] = acc[d + 1] /\ acc[d + 1] \in Nat
    BY <1>3, <2>1, <2>3
  <2> HIDE DEF acc, d, m
  <2>5. QED
    BY <1>2, <2>2, <2>3, <2>4
<1>5. \A i, j \in 1..m : i <= j => acc[i] <= acc[j]
  BY DEF IInv, Sorted
<1>6. SW!Recent(c) = {i \in 1..m : now - acc[i] <= Span}
  BY <1>2 DEF SW!Recent
<1> HIDE DEF acc, m, d, rest
<1>7. {i \in 1..m : now - acc[i] <= Span} = (d + 1)..m
  <2>1. ASSUME NEW i \in 1..m, now - acc[i] <= Span
        PROVE  i \in (d + 1)..m
    <3>1. ~(i \in 1..d)
      BY <1>1, <1>2, <1>3, <2>1
    <3>2. QED
      BY <1>2, <3>1
  <2>2. ASSUME NEW i \in (d + 1)..m
        PROVE  i \in 1..m /\ now - acc[i] <= Span
    <3>1. i \in 1..m /\ d + 1 \in 1..m /\ d < m /\ d + 1 <= i
      BY <1>2
    <3>2. acc[d + 1] <= acc[i] /\ acc[i] \in Nat /\ acc[d + 1] \in Nat
      BY <1>3, <1>5, <3>1
    <3>3. QED
      BY <1>2, <1>4, <3>1, <3>2
  <2>3. QED
    BY <2>1, <2>2
<1>8. Cardinality((d + 1)..m) = m - d
  <2>1. d + 1 \in Int /\ m \in Int
    BY <1>2
  <2> DEFINE size == Cardinality((d + 1)..m)
  <2>2. size = IF d + 1 > m THEN 0 ELSE m - (d + 1) + 1
    BY <2>1, FS_Interval
  <2> HIDE DEF size
  <2>3. size = m - d
    BY <1>1, <1>2, <2>2
  <2>4. QED
    BY <2>3 DEF size
<1>9. QED
  BY <1>1, <1>6, <1>7, <1>8 DEF rest

(* The instance counts with the same operator.                             *)
LEMMA SameCardinality ==
  ASSUME NEW S
  PROVE  SW!Cardinality(S) = Cardinality(S)
BY Zenon DEF SW!Cardinality, Cardinality

(* Every step of the limiter is a step of the sliding window, or none.     *)
LEMMA StepImplements == IInv /\ [Next]_vars => [SW!Next]_SW!vars
<1> SUFFICES ASSUME IInv, [Next]_vars PROVE [SW!Next]_SW!vars
  OBVIOUS
<1>1. CASE Tick
  BY <1>1 DEF Tick, SW!Tick, SW!Next
<1>2. ASSUME NEW c \in Clients, Limit = 0, Unlimited(c)
      PROVE  SW!Admit(c)
  BY <1>2 DEF Unlimited, SW!Admit
<1>3. ASSUME NEW c \in Clients, Limit # 0, Admit(c)
      PROVE  SW!Admit(c)
  <2>1. PICK n \in 0..Len(buckets[c]) :
          DropsExpired(buckets[c], n) /\ HasRoom(Rest(buckets[c], n))
    BY <1>3 DEF Admit
  <2>2. Cardinality(SW!Recent(c)) < Limit
    BY <2>1, RestCountsRecent DEF HasRoom
  <2>3. /\ Limit # 0
        /\ accepted' = [accepted EXCEPT ![c] = Append(@, now)]
        /\ answer' = [answer EXCEPT ![c] = "admitted"]
        /\ now' = now
    BY <1>3, ConstantsAssumption DEF Admit
  <2>4. Limit = 0 \/ SW!Cardinality(SW!Recent(c)) < Limit
    BY <2>2, SameCardinality
  <2>5. accepted' = IF Limit = 0 THEN accepted
                    ELSE [accepted EXCEPT ![c] = Append(@, now)]
    BY <2>3, Zenon
  <2>6. QED
    BY <2>3, <2>4, <2>5, Zenon DEF SW!Admit
<1>4. ASSUME NEW c \in Clients, Limit # 0, Reject(c)
      PROVE  SW!Reject(c)
  <2>1. PICK n \in 0..Len(buckets[c]) :
          DropsExpired(buckets[c], n) /\ ~HasRoom(Rest(buckets[c], n))
    BY <1>4 DEF Reject
  <2>2. /\ Cardinality(SW!Recent(c)) = Len(Rest(buckets[c], n))
        /\ Len(Rest(buckets[c], n)) \in Nat
    BY <2>1, RestCountsRecent, RestOf DEF IInv, TypeOK
  <2>3. SW!Cardinality(SW!Recent(c)) >= Limit
    BY <2>1, <2>2, SameCardinality, ConstantsAssumption DEF HasRoom
  <2>4. /\ Limit # 0
        /\ accepted' = accepted
        /\ answer' = [answer EXCEPT ![c] = "rejected"]
        /\ now' = now
    BY <1>4, ConstantsAssumption DEF Reject
  <2>5. QED
    BY <2>3, <2>4, Zenon DEF SW!Reject
<1>5. ASSUME NEW header \in Headers \cup {None}, NEW host \in Hosts \cup {None},
             enforce_rate_limit(header, host)
      PROVE  SW!Next
  BY <1>2, <1>3, <1>4, <1>5, IdentityIsClient DEF enforce_rate_limit, SW!Next
<1>6. CASE UNCHANGED vars
  BY <1>6 DEF vars, SW!vars
<1>7. QED
  BY <1>1, <1>5, <1>6 DEF Next, SW!Next

(* The limiter implements the sliding window, for every value of the       *)
(* constants: each request is answered as the whole history of the client  *)
(* says it should be.                                                      *)
THEOREM Implements == Spec => ImplementsSlidingWindow
<1>1. Init => SW!Init
  BY DEF Init, SW!Init
<1>2. QED
  BY <1>1, InvariantHolds, StepImplements, PTL
     DEF Spec, ImplementsSlidingWindow, SW!Spec

-----------------------------------------------------------------------------
(* What a client was told, from its admissions: its Limit-th last one      *)
(* leaves the window within the last second before the end of Retry-After. *)
Advised(c) ==
  /\ Limit = 0 => until[c] = 0
  /\ Limit # 0 => Len(buckets[c]) <= Limit
  /\ until[c] # 0 =>
       LET first == Len(accepted[c]) - Limit + 1
       IN  /\ Limit <= Len(accepted[c])
           /\ accepted[c][first] + Span < until[c]
           /\ until[c] <= accepted[c][first] + Span + TicksPerSecond

AllAdvised == \A c \in Clients : Advised(c)

(* Division rounds down.                                                   *)
LEMMA Division ==
  ASSUME NEW left \in Nat, NEW unit \in Nat \ {0}
  PROVE  /\ left \div unit \in Nat
         /\ (left \div unit) * unit <= left
         /\ left < (left \div unit) * unit + unit
OBVIOUS

(* The advice, counted in ticks from the oldest entry of the bucket.       *)
LEMMA AdviceIsTight ==
  ASSUME TypeOK, NEW bucket \in Seq(Nat), bucket # << >>, ~IsExpired(Head(bucket))
  PROVE  LET end == now + RetryAfter(bucket) * TicksPerSecond
         IN  /\ end \in Nat \ {0}
             /\ Head(bucket) + Span < end
             /\ end <= Head(bucket) + Span + TicksPerSecond
<1>1. PICK h \in Nat, T \in Nat \ {0} : h = Head(bucket) /\ T = TicksPerSecond
  BY ConstantsAssumption
<1>2. now \in Nat /\ Span \in Nat
  BY SpanType DEF TypeOK
<1>3. PICK left \in Nat : left = Span - (now - h)
  BY <1>1, <1>2 DEF IsExpired
<1>4. PICK q \in Nat : q = left \div T
  BY <1>1, Division
<1>5. PICK p \in Nat : p = q * T
  OBVIOUS
<1>6. p <= left /\ left < p + T
  BY <1>1, <1>4, <1>5, Division
<1>7. RetryAfter(bucket) = q + 1
  <2>1. RetryAfter(bucket) = (IF left < 0 THEN 0 ELSE left \div T) + 1
    BY <1>1, <1>3 DEF RetryAfter
  <2>2. QED
    BY <1>4, <2>1
<1>8. RetryAfter(bucket) * TicksPerSecond = p + T
  <2>1. (q + 1) * T = q * T + T
    BY <1>1
  <2>2. QED
    BY <1>1, <1>5, <1>7, <2>1
<1>9. PICK end : end = now + (p + T)
  OBVIOUS
<1>10. end \in Nat \ {0} /\ h + Span < end /\ end <= h + Span + T
  BY <1>2, <1>3, <1>6, <1>9
<1>11. QED
  BY <1>1, <1>8, <1>9, <1>10

(* The invariant holds initially.                                          *)
LEMMA InitAdvised == Init => AllAdvised
BY ConstantsAssumption DEF Init, AllAdvised, Advised

(* What is left of the bucket when n expired entries are dropped, with its *)
(* place d in the history of admissions.                                   *)
Left(c, n, d, k, l, m, rest) ==
  /\ rest = Rest(buckets[c], n) /\ k = Len(rest) /\ d = expired[c] + n
  /\ l = Len(buckets[c]) /\ m = Len(accepted[c])
  /\ n \in Nat /\ n <= l /\ k = l - n /\ d <= m /\ k = m - d
  /\ \A i \in 1..d : now - accepted[c][i] > Span
  /\ k > 0 => /\ rest[1] = accepted[c][d + 1]
              /\ ~IsExpired(rest[1])

LEMMA WhatIsLeft ==
  ASSUME IInv, NEW c \in Clients, NEW n \in 0..Len(buckets[c]),
         DropsExpired(buckets[c], n)
  PROVE  \E d \in Nat, k \in Nat, l \in Nat, m \in Nat, rest \in Seq(Nat) :
           Left(c, n, d, k, l, m, rest)
<1>1. /\ buckets[c] \in Seq(Nat) /\ accepted[c] \in Seq(Nat) /\ expired[c] \in Nat
  BY DEF IInv, TypeOK
<1>2. PICK l \in Nat, m \in Nat : l = Len(buckets[c]) /\ m = Len(accepted[c])
  BY <1>1
<1>3. n \in Nat /\ n <= l
  BY <1>2
<1>4. PICK rest \in Seq(Nat) : /\ rest = Rest(buckets[c], n)
                              /\ Len(rest) = Len(buckets[c]) - n
                              /\ \A i \in 1..(Len(buckets[c]) - n) : rest[i] = buckets[c][n + i]
  BY <1>1, RestOf
<1>5. PICK d \in Nat, k \in Nat : d = expired[c] + n /\ k = Len(rest)
  BY <1>1, <1>3
<1>6. /\ d <= m /\ k = m - d
      /\ \A i \in 1..k : rest[i] = accepted[c][d + i]
      /\ \A i \in 1..d : now - accepted[c][i] > Span
  BY <1>2, <1>4, <1>5, DropKeepsSuffix
<1>7. k = l - n
  BY <1>2, <1>4, <1>5
<1>8. k > 0 => 1 \in 1..k /\ 1 \in 1..(l - n) /\ n < l
  BY <1>3, <1>7
<1>9. k > 0 => rest[1] = accepted[c][d + 1] /\ rest[1] = buckets[c][n + 1]
  BY <1>2, <1>4, <1>6, <1>8
<1>10. k > 0 => ~IsExpired(rest[1])
  BY <1>2, <1>8, <1>9 DEF DropsExpired
<1>11. Left(c, n, d, k, l, m, rest)
  BY <1>2, <1>3, <1>4, <1>5, <1>6, <1>7, <1>9, <1>10 DEF Left
<1>12. QED
  BY <1>11

(* A rejection tells the client when its Limit-th last admission leaves.   *)
LEMMA RejectAdvised ==
  ASSUME IInv, AllAdvised, Limit # 0, NEW c \in Clients, Reject(c)
  PROVE  Advised(c)'
<1>1. PICK n \in 0..Len(buckets[c]) :
        /\ DropsExpired(buckets[c], n)
        /\ ~HasRoom(Rest(buckets[c], n))
        /\ buckets' = [buckets EXCEPT ![c] = Rest(buckets[c], n)]
        /\ until' = [until EXCEPT
                       ![c] = now + RetryAfter(Rest(buckets[c], n)) * TicksPerSecond]
        /\ accepted' = accepted
  BY DEF Reject
<1>2. PICK d \in Nat, k \in Nat, l \in Nat, m \in Nat, rest \in Seq(Nat) :
        Left(c, n, d, k, l, m, rest)
  BY <1>1, WhatIsLeft
<1>3. /\ rest = Rest(buckets[c], n) /\ k = Len(rest) /\ m = Len(accepted[c])
      /\ k = m - d /\ k = l - n /\ n \in Nat /\ l = Len(buckets[c])
      /\ k > 0 => rest[1] = accepted[c][d + 1] /\ ~IsExpired(rest[1])
  BY <1>2 DEF Left
<1>4. Limit \in Nat \ {0} /\ l <= Limit /\ ~(k < Limit)
  BY <1>1, <1>3, ConstantsAssumption DEF HasRoom, AllAdvised, Advised
<1>a. PICK L \in Nat \ {0} : L = Limit
  BY <1>4
<1>b. k = m - d /\ k = l - n /\ n \in Nat /\ l <= L /\ ~(k < L)
  BY <1>3, <1>4, <1>a
<1>c. k = L /\ d + 1 = m - L + 1 /\ L <= m /\ k > 0
  BY <1>b
<1>5. k = Limit /\ d + 1 = m - Limit + 1 /\ Limit <= m /\ k > 0
  BY <1>a, <1>c
<1>6. rest # << >> /\ Head(rest) = rest[1] /\ rest[1] = accepted[c][m - Limit + 1]
  <2>1. Len(rest) # 0
    BY <1>3, <1>5
  <2>2. rest # << >>
    BY <2>1
  <2>3. Head(rest) = rest[1]
    BY <2>2
  <2>4. rest[1] = accepted[c][d + 1]
    BY <1>3, <1>5
  <2>5. QED
    BY <1>5, <2>2, <2>3, <2>4
<1>7. ~IsExpired(Head(rest))
  BY <1>3, <1>5, <1>6
<1>8. PICK end \in Nat \ {0} :
        /\ end = now + RetryAfter(rest) * TicksPerSecond
        /\ Head(rest) + Span < end
        /\ end <= Head(rest) + Span + TicksPerSecond
  BY <1>6, <1>7, AdviceIsTight DEF IInv
<1>9. until'[c] = end /\ buckets'[c] = rest /\ accepted'[c] = accepted[c]
  BY <1>1, <1>3, <1>8 DEF IInv, TypeOK
<1>10. Len(rest) <= Limit
  BY <1>3, <1>4, <1>5
<1>11. QED
  BY <1>3, <1>4, <1>5, <1>6, <1>8, <1>9, <1>10 DEF Advised, Span

(* Every step keeps the invariant: an admission ends the advice.           *)
LEMMA StepAdvised == IInv /\ AllAdvised /\ [Next]_vars => AllAdvised'
<1> SUFFICES ASSUME IInv, AllAdvised, [Next]_vars PROVE AllAdvised'
  OBVIOUS
<1>1. ASSUME UNCHANGED <<buckets, until, accepted>>
      PROVE  AllAdvised'
  BY <1>1 DEF AllAdvised, Advised, Span
<1>2. ASSUME NEW c \in Clients, NEW b \in Clients \ {c},
             buckets'[b] = buckets[b], until'[b] = until[b], accepted'[b] = accepted[b]
      PROVE  Advised(b)'
  BY <1>2 DEF AllAdvised, Advised, Span
<1>3. ASSUME NEW c \in Clients, Limit # 0, Admit(c)
      PROVE  AllAdvised'
  <2>1. PICK n \in 0..Len(buckets[c]) :
          /\ HasRoom(Rest(buckets[c], n))
          /\ buckets' = [buckets EXCEPT ![c] = Append(Rest(buckets[c], n), now)]
          /\ accepted' = [accepted EXCEPT ![c] = Append(accepted[c], now)]
          /\ until' = [until EXCEPT ![c] = 0]
    BY <1>3 DEF Admit
  <2>2. Advised(c)'
    <3>1. /\ Rest(buckets[c], n) \in Seq(Nat) /\ now \in Nat
          /\ buckets'[c] = Append(Rest(buckets[c], n), now) /\ until'[c] = 0
      BY <2>1, RestOf DEF IInv, TypeOK
    <3>2. Len(buckets'[c]) = Len(Rest(buckets[c], n)) + 1
          /\ Len(Rest(buckets[c], n)) \in Nat
      BY <3>1
    <3>3. Len(buckets'[c]) <= Limit
      BY <2>1, <3>2, ConstantsAssumption DEF HasRoom
    <3>4. QED
      BY <1>3, <3>1, <3>3 DEF Advised
  <2>3. \A b \in Clients \ {c} : /\ buckets'[b] = buckets[b] /\ until'[b] = until[b]
                                 /\ accepted'[b] = accepted[b]
    BY <2>1 DEF IInv, TypeOK
  <2>4. QED
    BY <1>2, <2>2, <2>3 DEF AllAdvised
<1>4. ASSUME NEW c \in Clients, Limit # 0, Reject(c)
      PROVE  AllAdvised'
  <2>1. \A b \in Clients \ {c} : /\ buckets'[b] = buckets[b] /\ until'[b] = until[b]
                                 /\ accepted'[b] = accepted[b]
    BY <1>4 DEF Reject, IInv, TypeOK
  <2>2. QED
    BY <1>2, <1>4, <2>1, RejectAdvised DEF AllAdvised
<1>5. ASSUME NEW header \in Headers \cup {None}, NEW host \in Hosts \cup {None},
             enforce_rate_limit(header, host)
      PROVE  AllAdvised'
  BY <1>1, <1>3, <1>4, <1>5, IdentityIsClient DEF enforce_rate_limit, Unlimited
<1>6. CASE Tick
  BY <1>1, <1>6 DEF Tick
<1>7. CASE UNCHANGED vars
  BY <1>1, <1>7 DEF vars
<1>8. QED
  BY <1>5, <1>6, <1>7 DEF Next

(* In every reachable state.                                               *)
LEMMA AdviceInvariant == Spec => [](IInv /\ AllAdvised)
BY InitInv, InitAdvised, StepInv, StepAdvised, PTL DEF Spec

(* What both theorems compare: the first kept entry of the bucket, at d + 1*)
(* of the history, with the Limit-th last admission.                       *)
LEMMA FirstAdmission ==
  ASSUME IInv, AllAdvised, NEW c \in Clients, until[c] # 0
  PROVE  /\ Limit \in Nat \ {0} /\ now \in Nat /\ Span \in Nat
         /\ until[c] \in Nat /\ TicksPerSecond \in Nat
         /\ Len(accepted[c]) \in Nat /\ Limit <= Len(accepted[c])
         /\ \A i \in 1..Len(accepted[c]) : accepted[c][i] \in Nat
         /\ \A i, j \in 1..Len(accepted[c]) : i <= j => accepted[c][i] <= accepted[c][j]
BY SpanType, ConstantsAssumption DEF IInv, TypeOK, Sorted, AllAdvised, Advised

(* Who has waited past the end of the window is past it with all that was  *)
(* earlier.                                                                *)
LEMMA NotLonger ==
  ASSUME NEW first \in Nat, NEW limitth \in Nat, NEW window \in Nat,
         NEW end \in Nat, NEW clock \in Nat,
         first <= limitth, limitth + window < end, end <= clock
  PROVE  clock - first > window
OBVIOUS

(* A client that waited as it was told is admitted, for every limit,       *)
(* window and resolution of the clock.                                     *)
THEOREM WaitingSuffices == Spec => RetryAfterSuffices
<1>1. IInv /\ AllAdvised =>
        \A c \in Clients : (until[c] # 0 /\ now >= until[c]) => ~Reject(c)
  <2> SUFFICES ASSUME IInv, AllAdvised, NEW c \in Clients,
                      until[c] # 0, now >= until[c], Reject(c)
               PROVE  FALSE
    OBVIOUS
  <2>1. PICK n \in 0..Len(buckets[c]) :
          DropsExpired(buckets[c], n) /\ ~HasRoom(Rest(buckets[c], n))
    BY DEF Reject
  <2>2. PICK d \in Nat, k \in Nat, l \in Nat, m \in Nat, rest \in Seq(Nat) :
          Left(c, n, d, k, l, m, rest)
    BY <2>1, WhatIsLeft
  <2> PICK L \in Nat \ {0}, w \in Nat, tick \in Nat :
        L = Limit /\ w = Span /\ tick = now
    BY FirstAdmission
  <2>3. k = m - d /\ k >= L /\ L <= m /\ m = Len(accepted[c])
    <3>1. ~(k < L)
      BY <2>1, <2>2 DEF HasRoom, Left
    <3>2. k >= L
      BY <3>1
    <3>3. QED
      BY <2>2, <3>2, FirstAdmission DEF Left
  <2>4. d + 1 \in 1..m /\ m - L + 1 \in 1..m /\ d + 1 <= m - L + 1
    BY <2>3
  <2>5. PICK x \in Nat, y \in Nat :
          x = accepted[c][d + 1] /\ y = accepted[c][m - L + 1] /\ x <= y
    BY <2>3, <2>4, FirstAdmission
  <2>6. ~(tick - x > w)
    <3>1. k > 0
      BY <2>3
    <3>2. QED
      BY <2>2, <2>5, <3>1 DEF Left, IsExpired
  <2>7. PICK u \in Nat : u = until[c] /\ y + w < u /\ u <= tick
    BY <2>3, <2>5, FirstAdmission DEF AllAdvised, Advised
  <2>8. QED
    BY <2>5, <2>6, <2>7, NotLonger
<1>2. QED
  BY <1>1, AdviceInvariant, PTL DEF RetryAfterSuffices

(* What is out of the window is not within a second of leaving it.         *)
LEMMA NotYet ==
  ASSUME NEW first \in Nat, NEW window \in Nat, NEW second \in Nat,
         NEW end \in Nat, NEW clock \in Nat,
         end <= first + window + second, clock + second <= end
  PROVE  ~(clock - first > window)
OBVIOUS

(* A second earlier it is rejected: the advice is exact to the second.     *)
THEOREM WaitingIsNeeded == Spec => RetryAfterIsNeeded
<1>1. IInv /\ AllAdvised =>
        \A c \in Clients :
          (until[c] # 0 /\ now + TicksPerSecond <= until[c]) => ~Admit(c)
  <2> SUFFICES ASSUME IInv, AllAdvised, NEW c \in Clients,
                      until[c] # 0, now + TicksPerSecond <= until[c], Admit(c)
               PROVE  FALSE
    OBVIOUS
  <2>1. PICK n \in 0..Len(buckets[c]) :
          DropsExpired(buckets[c], n) /\ HasRoom(Rest(buckets[c], n))
    BY DEF Admit
  <2>2. PICK d \in Nat, k \in Nat, l \in Nat, m \in Nat, rest \in Seq(Nat) :
          Left(c, n, d, k, l, m, rest)
    BY <2>1, WhatIsLeft
  <2> PICK L \in Nat \ {0}, w \in Nat, tick \in Nat :
        L = Limit /\ w = Span /\ tick = now
    BY FirstAdmission
  <2>3. k = m - d /\ k < L /\ L <= m /\ m = Len(accepted[c])
    BY <2>1, <2>2, FirstAdmission DEF HasRoom, Left
  <2>4. m - L + 1 \in 1..m /\ m - L + 1 \in 1..d
    BY <2>3
  <2>5. PICK y \in Nat : y = accepted[c][m - L + 1] /\ tick - y > w
    <3> PICK y \in Nat : y = accepted[c][m - L + 1]
      BY <2>3, <2>4, FirstAdmission
    <3>1. tick - y > w
      BY <2>2, <2>4 DEF Left
    <3>2. QED
      BY <3>1
  <2>6. PICK T \in Nat, u \in Nat : /\ T = TicksPerSecond /\ u = until[c]
                                  /\ u <= y + w + T /\ tick + T <= u
    BY <2>3, <2>5, FirstAdmission, ConstantsAssumption DEF AllAdvised, Advised
  <2>7. QED
    BY <2>5, <2>6, NotYet
<1>2. QED
  BY <1>1, AdviceInvariant, PTL DEF RetryAfterIsNeeded
==============================================================================
