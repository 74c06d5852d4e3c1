------------------------------ MODULE RateLimit ------------------------------
(***************************************************************************)
(* backend/gateway/rate_limit.py: the per-client sliding-window limiter    *)
(* that runs before every inference handler.  Its one process has one      *)
(* event loop and the function awaits nothing, so a call is one action.    *)
(* time.monotonic() is a clock of TicksPerSecond ticks: several calls fall *)
(* on one tick, and the limits of the window fall between whole seconds.   *)
(***************************************************************************)
EXTENDS Integers, Sequences

CONSTANTS
  Headers,         \* Authorization values
  Hosts,           \* connecting addresses
  None,            \* no header, or no address
  Unknown,         \* the identity of a client with neither
  Limit,           \* rate_limit_requests
  Window,          \* rate_limit_window_seconds
  TicksPerSecond,
  MaxNow           \* bound: the clock stops here

ASSUME ConstantsAssumption ==
  /\ Limit \in Nat
  /\ Window \in Nat
  /\ TicksPerSecond \in Nat \ {0}
  /\ MaxNow \in Nat

Span == Window * TicksPerSecond

(* Whatever is in the header if there is one, else the address.            *)
_client_identity(header, host) ==
  IF header # None THEN header
  ELSE IF host # None THEN host
  ELSE Unknown

Clients == {_client_identity(header, host) : header \in Headers \cup {None},
                                             host \in Hosts \cup {None}}

VARIABLES
  now,
  buckets,    \* _buckets: the times kept of each client
  answer,     \* the last answer to each client
  until,      \* when the last Retry-After of a client ends; 0 if none since
              \* its last admission
  accepted,   \* history: admission times of each client
  expired     \* history: how many of them the bucket has dropped

vars == <<now, buckets, answer, until, accepted, expired>>

Init ==
  /\ now = 0
  /\ buckets = [c \in Clients |-> << >>]
  /\ answer = [c \in Clients |-> "none"]
  /\ until = [c \in Clients |-> 0]
  /\ accepted = [c \in Clients |-> << >>]
  /\ expired = [c \in Clients |-> 0]

(* Mutants of the window's end, of the bound and of the advice.            *)
IsExpiredInclusive(t) == now - t >= Span
HasRoomOffByOne(bucket) == Len(bucket) <= Limit
RetryAfterRounded(bucket) == (Span - (now - Head(bucket))) \div TicksPerSecond
RetryAfterFullWindow(bucket) == Window + 1
RetryAfterSwapped(bucket) == ((now - Head(bucket)) - Span) \div TicksPerSecond + 1

IsExpired(t) == now - t > Span

(* n entries are dropped from the front: while the first one is expired.   *)
DropsExpired(bucket, n) ==
  /\ \A i \in 1..n : IsExpired(bucket[i])
  /\ n < Len(bucket) => ~IsExpired(bucket[n + 1])
Rest(bucket, n) == SubSeq(bucket, n + 1, Len(bucket))

HasRoom(bucket) == Len(bucket) < Limit

(* int(max(0, window - (now - bucket[0]))) + 1, in seconds.                *)
RetryAfter(bucket) ==
  LET left == Span - (now - Head(bucket))
  IN  (IF left < 0 THEN 0 ELSE left \div TicksPerSecond) + 1

(* rate_limit_requests <= 0: disabled, no bucket is touched.               *)
Unlimited(c) ==
  /\ answer' = [answer EXCEPT ![c] = "admitted"]
  /\ UNCHANGED <<now, buckets, until, accepted, expired>>

Admit(c) ==
  /\ \E n \in 0..Len(buckets[c]) :
       /\ DropsExpired(buckets[c], n)
       /\ HasRoom(Rest(buckets[c], n))
       /\ buckets' = [buckets EXCEPT ![c] = Append(Rest(@, n), now)]
       /\ expired' = [expired EXCEPT ![c] = @ + n]
  /\ accepted' = [accepted EXCEPT ![c] = Append(@, now)]
  /\ until' = [until EXCEPT ![c] = 0]
  /\ answer' = [answer EXCEPT ![c] = "admitted"]
  /\ UNCHANGED now

(* 429: what had expired is dropped all the same.                          *)
Reject(c) ==
  /\ \E n \in 0..Len(buckets[c]) :
       /\ DropsExpired(buckets[c], n)
       /\ ~HasRoom(Rest(buckets[c], n))
       /\ buckets' = [buckets EXCEPT ![c] = Rest(@, n)]
       /\ expired' = [expired EXCEPT ![c] = @ + n]
       /\ until' = [until EXCEPT
                      ![c] = now + RetryAfter(Rest(buckets[c], n)) * TicksPerSecond]
  /\ answer' = [answer EXCEPT ![c] = "rejected"]
  /\ UNCHANGED <<now, accepted>>

enforce_rate_limit(header, host) ==
  LET c == _client_identity(header, host)
  IN  IF Limit = 0 THEN Unlimited(c) ELSE Admit(c) \/ Reject(c)

Tick ==
  /\ now < MaxNow
  /\ now' = now + 1
  /\ UNCHANGED <<buckets, answer, until, accepted, expired>>

Next ==
  \/ Tick
  \/ \E header \in Headers \cup {None}, host \in Hosts \cup {None} :
       enforce_rate_limit(header, host)

Spec == Init /\ [][Next]_vars

-----------------------------------------------------------------------------
TypeOK ==
  /\ now \in Nat
  /\ buckets \in [Clients -> Seq(Nat)]
  /\ answer \in [Clients -> {"none", "admitted", "rejected"}]
  /\ until \in [Clients -> Nat]
  /\ accepted \in [Clients -> Seq(Nat)]
  /\ expired \in [Clients -> Nat]

(* No window of Window seconds, wherever it starts, sees more than Limit   *)
(* admissions of one client: the (i + Limit)-th comes more than Window     *)
(* seconds after the i-th.                                                 *)
WindowBudget ==
  \A c \in Clients : \A i \in 1..(Len(accepted[c]) - Limit) :
    accepted[c][i + Limit] - accepted[c][i] > Span

(* Retry-After is enough: a client that was told to wait and asks again    *)
(* when the time has passed is admitted.                                   *)
RetryAfterSuffices ==
  [][\A c \in Clients : (until[c] # 0 /\ now >= until[c]) => ~Reject(c)]_vars

(* Retry-After is not a second too long: asking a second before the time   *)
(* it names is rejected again.                                             *)
RetryAfterIsNeeded ==
  [][\A c \in Clients :
       (until[c] # 0 /\ now + TicksPerSecond <= until[c]) => ~Admit(c)]_vars

(* The limiter is the sliding window: it rejects a request only for the    *)
(* reason the window gives, never because of what it forgot to drop or of  *)
(* what another client did.                                                *)
SW == INSTANCE SlidingWindow
ImplementsSlidingWindow == SW!Spec
=============================================================================
