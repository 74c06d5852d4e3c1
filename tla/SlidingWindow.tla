--------------------------- MODULE SlidingWindow ---------------------------
(***************************************************************************)
(* What rate limiting promises a client, without buckets: a request is     *)
(* admitted exactly when fewer than Limit requests of the same client were *)
(* admitted in the last Span ticks, both ends included.  Limit = 0 means   *)
(* that there is no limit.  RateLimit implements this specification.       *)
(***************************************************************************)
EXTENDS Naturals, Sequences, FiniteSets

CONSTANTS Clients, Limit, Span

VARIABLES
  now,        \* the clock, in ticks
  accepted,   \* admission times of each client, oldest first
  answer      \* the last answer to each client

vars == <<now, accepted, answer>>

Init ==
  /\ now = 0
  /\ accepted = [c \in Clients |-> << >>]
  /\ answer = [c \in Clients |-> "none"]

Recent(c) == {i \in DOMAIN accepted[c] : now - accepted[c][i] <= Span}

Admit(c) ==
  /\ Limit = 0 \/ Cardinality(Recent(c)) < Limit
  /\ accepted' = IF Limit = 0 THEN accepted
                 ELSE [accepted EXCEPT ![c] = Append(@, now)]
  /\ answer' = [answer EXCEPT ![c] = "admitted"]
  /\ UNCHANGED now

Reject(c) ==
  /\ Limit # 0 /\ Cardinality(Recent(c)) >= Limit
  /\ answer' = [answer EXCEPT ![c] = "rejected"]
  /\ UNCHANGED <<now, accepted>>

Tick == now' = now + 1 /\ UNCHANGED <<accepted, answer>>

Next == Tick \/ \E c \in Clients : Admit(c) \/ Reject(c)

Spec == Init /\ [][Next]_vars
=============================================================================
