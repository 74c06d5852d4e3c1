--------------------------- MODULE CompletionsProofs ---------------------------
(***************************************************************************)
(* Theorems about Completions: what a call gets and what it leaves in the  *)
(* series and in the request history, for any set of calls and ids,        *)
(* whatever the engine, the database and the clients do.                   *)
(***************************************************************************)
EXTENDS Completions, FiniteSetTheorems, SequenceTheorems, TLAPS

(* The steps of one call.                                                  *)
Step(r) ==
  \/ \E k \in Kinds : Refuse(r, k) \/ PromptFails(r, k) \/ Start(r, k)
  \/ OpenStream(r) \/ StartStream(r) \/ Send(r)
  \/ Output(r) \/ FinishCall(r) \/ FailCall(r)
  \/ StreamOutput(r) \/ EndStream(r) \/ FailStream(r)
  \/ Disconnect(r)

(* A step of one call leaves what belongs to another one alone.            *)
Same(q) ==
  /\ kind'[q] = kind[q] /\ pc'[q] = pc[q] /\ request_id'[q] = request_id[q]
  /\ out'[q] = out[q] /\ prev_text'[q] = prev_text[q]
  /\ pending'[q] = pending[q] /\ engine'[q] = engine[q] /\ sent'[q] = sent[q]
  /\ reply'[q] = reply[q] /\ response'[q] = response[q]
  /\ attempts'[q] = attempts[q]

LEMMA Frame ==
  ASSUME TypeOK, NEW r \in Requests, Step(r), NEW q \in Requests \ {r}
  PROVE  Same(q)
<1> USE DEF TypeOK, Same, clients, series, history
<1>1. ASSUME NEW k, NEW s, EndEarly(r, k, s)
      PROVE  Same(q)
  BY <1>1 DEF EndEarly, Respond
<1>2. ASSUME NEW k, Start(r, k)
      PROVE  Same(q)
  BY <1>2 DEF Start
<1>3. ASSUME OpenStream(r) \/ StartStream(r) \/ Send(r)
      PROVE  Same(q)
  BY <1>3 DEF OpenStream, StartStream, Send, Respond
<1>4. ASSUME NEW status, _log_request(r, status)
      PROVE  attempts'[q] = attempts[q]
  BY <1>4 DEF _log_request, Attempt
<1>5. ASSUME Output(r) \/ FinishCall(r) \/ FailCall(r)
      PROVE  Same(q)
  BY <1>4, <1>5 DEF Output, FinishCall, FailCall, Respond, Answer
<1>6. ASSUME StreamOutput(r) \/ EndStream(r) \/ FailStream(r) \/ Disconnect(r)
      PROVE  Same(q)
  BY <1>4, <1>6 DEF StreamOutput, Remember, EndStream, FailStream, Disconnect
<1>7. QED
  BY <1>1, <1>2, <1>3, <1>5, <1>6 DEF Step, Refuse, PromptFails

(* The endpoint of a call tells streams from the other calls.              *)
LEMMA EndpointOf ==
  ASSUME NEW k \in Kinds
  PROVE  /\ Endpoint(k) \in Endpoints
         /\ k = "chat" => Endpoint(k) = "chat.completions"
         /\ k = "stream" => Endpoint(k) = "chat.completions.stream"
         /\ k = "completions" => Endpoint(k) = "completions"
BY DEF Kinds, Endpoint, Endpoints

(* What a count is when at most x joins or leaves what is counted.         *)
LEMMA CountChange ==
  ASSUME NEW S, IsFiniteSet(S), NEW T, NEW x, \A y : y # x => (y \in T <=> y \in S)
  PROVE  /\ IsFiniteSet(T)
         /\ Cardinality(S) \in Nat
         /\ (x \in T <=> x \in S) => Cardinality(T) = Cardinality(S)
         /\ x \in T /\ x \notin S => Cardinality(T) = Cardinality(S) + 1
         /\ x \notin T /\ x \in S => Cardinality(T) = Cardinality(S) - 1
<1>1. CASE x \in T <=> x \in S
  <2>1. T = S
    BY <1>1
  <2>2. QED
    BY <1>1, <2>1, FS_CardinalityType
<1>2. CASE x \in T /\ x \notin S
  <2>1. T = S \cup {x}
    BY <1>2
  <2>2. QED
    BY <1>2, <2>1, FS_AddElement, FS_CardinalityType
<1>3. CASE x \notin T /\ x \in S
  <2>1. T = S \ {x}
    BY <1>3
  <2>2. QED
    BY <1>3, <2>1, FS_RemoveElement, FS_CardinalityType
<1>4. QED
  BY <1>1, <1>2, <1>3

-----------------------------------------------------------------------------
(* Where a call is: what the handler, the engine and the log know of it.   *)
Control(r) ==
  /\ kind[r] = None <=> pc[r] = "idle"
  /\ pc[r] \in {"opened", "sending"} => kind[r] = "stream"
  /\ pc[r] \in {"idle", "opened"} =>
       engine[r] = "off" /\ sent[r] = << >> /\ out[r] = NoOutput /\ prev_text[r] = 0
  /\ pc[r] \in {"opened", "sending", "generating"} \/ engine[r] # "off" =>
       request_id[r] \in RequestIds
  /\ pending[r] # << >> <=> pc[r] = "sending"
  /\ engine[r] \in {"off", "running"} => attempts[r] = << >>
  /\ kind[r] # "stream" /\ pc[r] # "ended" => response[r] = None /\ reply[r] = None
  /\ kind[r] # "stream" => (pc[r] = "generating" <=> engine[r] = "running")

AllControl == \A r \in Requests : Control(r)

(* The gauge, with what it takes for the set it counts to have a size.     *)
Gauge == IsFiniteSet(Waiting) /\ inflight = Cardinality(Waiting)

(* The other sets that have a size.                                        *)
Sizes == IsFiniteSet(UnderWay) /\ IsFiniteSet(Completed)

(* An output of the engine, and the row that is made of it, are typed.     *)
LEMMA OutputType ==
  ASSUME TypeOK, NEW r \in Requests, NEW o \in NextOutputs(r)
  PROVE  /\ o \in Outputs
         /\ o.completion = out[r].completion + 1
         /\ o.text \in {out[r].text, out[r].text + 1}
<1>1. out[r].text \in Nat /\ out[r].completion \in Nat
  BY DEF TypeOK, Outputs
<1>2. QED
  BY <1>1, ConstantsAssumption DEF NextOutputs, Outputs

LEMMA LogType ==
  ASSUME TypeOK, NEW r \in Requests, kind[r] \in Kinds, request_id[r] \in RequestIds,
         NEW status \in Statuses, _log_request(r, status)
  PROVE  /\ rows' \in [RequestIds -> LogRows \cup {None}]
         /\ attempts' \in [Requests -> Seq([status : Statuses, kept : BOOLEAN])]
<1>1. Row(r, status) \in LogRows
  <2>1. out[r].prompt \in Nat /\ out[r].completion \in Nat
    BY DEF TypeOK, Outputs
  <2>2. QED
    BY <2>1, EndpointOf DEF Row, LogRows
<1>2. ASSUME NEW kept \in BOOLEAN, Attempt(r, status, kept)
      PROVE  attempts' \in [Requests -> Seq([status : Statuses, kept : BOOLEAN])]
  <2>1. PICK Entry : Entry = [status : Statuses, kept : BOOLEAN]
    OBVIOUS
  <2>2. /\ attempts \in [Requests -> Seq(Entry)]
        /\ [status |-> status, kept |-> kept] \in Entry
    BY <2>1 DEF TypeOK
  <2>3. attempts' \in [Requests -> Seq(Entry)]
    BY <1>2, <2>2 DEF Attempt
  <2>4. QED
    BY <2>1, <2>3
<1>3. rows' \in [RequestIds -> LogRows \cup {None}]
  BY <1>1 DEF _log_request, Keep, TypeOK
<1>4. QED
  BY <1>2, <1>3 DEF _log_request

LEMMA CountedType ==
  ASSUME TypeOK, NEW r \in Requests, kind[r] \in Kinds, NEW status \in Statuses
  PROVE  /\ Counted(r, status) \in [Endpoints -> [Statuses -> Nat]]
         /\ \A e \in Endpoints, s \in Statuses :
              Counted(r, status)[e][s] =
                IF e = Endpoint(kind[r]) /\ s = status
                THEN inference[e][s] + 1 ELSE inference[e][s]
<1>1. Endpoint(kind[r]) \in Endpoints
  BY EndpointOf
<1>2. inference \in [Endpoints -> [Statuses -> Nat]]
  BY DEF TypeOK
<1>3. QED
  BY <1>1, <1>2 DEF Counted

(* Respond sets the status of one call, and counts it unless it is a 500.  *)
LEMMA RespondType ==
  ASSUME TypeOK, NEW r \in Requests, NEW s \in Responses, Respond(r, s)
  PROVE  /\ response' \in [Requests -> Responses \cup {None}]
         /\ response'[r] = s
         /\ http' \in [Responses -> Nat]
         /\ \A t \in Responses : http'[t] = IF t = s /\ s # "500" THEN http[t] + 1 ELSE http[t]
BY DEF Respond, CountHttp, TypeOK, Responses

(* The rest of a queue is empty when there was one element.                *)
LEMMA TailEmpty ==
  ASSUME NEW S, NEW q \in Seq(S), q # << >>
  PROVE  Tail(q) # << >> <=> Len(q) > 1
<1>1. Tail(q) \in Seq(S) /\ Len(Tail(q)) = Len(q) - 1
  BY HeadTailProperties
<1>2. Len(q) \in Nat
  OBVIOUS
<1>3. Tail(q) # << >> => Len(Tail(q)) \in Nat \ {0}
  BY <1>1, EmptySeq
<1>4. Tail(q) = << >> => Len(Tail(q)) = 0
  BY EmptySeq
<1>5. QED
  BY <1>1, <1>2, <1>3, <1>4

(* The kind of a call that has arrived.                                    *)
LEMMA KindOf ==
  ASSUME TypeOK, NEW r \in Requests, Control(r), pc[r] # "idle"
  PROVE  kind[r] \in Kinds
BY DEF TypeOK, Control

-----------------------------------------------------------------------------
(* Every step keeps the types; that the gauge is a number is what Gauge    *)
(* says.                                                                   *)
LEMMA TypeStep ==
  ASSUME TypeOK, AllControl, NEW r \in Requests, Step(r), inflight' \in Nat
  PROVE  TypeOK'
<1> USE DEF clients, series, history
<1>1. Control(r)
  BY DEF AllControl
<1>2. /\ {Role, Finish, Done} \subseteq Chunks
      /\ \A from, to \in Nat : Content(from, to) \in Chunks
  BY DEF Role, Finish, Done, Content, Chunks
<1>3. ASSUME NEW k \in Kinds, NEW s \in Responses, EndEarly(r, k, s)
      PROVE  TypeOK'
  BY <1>3, RespondType DEF EndEarly, TypeOK
<1>4. ASSUME NEW k \in Kinds, Start(r, k)
      PROVE  TypeOK'
  BY <1>4 DEF Start, TypeOK
<1>5. CASE OpenStream(r)
  BY <1>5, RespondType DEF OpenStream, TypeOK, Kinds, Responses
<1>6. CASE StartStream(r)
  <2>1. <<Role>> \in Seq(Chunks)
    BY <1>2
  <2>2. QED
    BY <1>6, <2>1 DEF StartStream, TypeOK
<1>7. CASE Send(r)
  <2>1. /\ pending[r] # << >> /\ pending[r] \in Seq(Chunks) /\ sent[r] \in Seq(Chunks)
    BY <1>1, <1>7 DEF Send, Control, TypeOK
  <2>2. /\ Head(pending[r]) \in Chunks /\ Tail(pending[r]) \in Seq(Chunks)
        /\ Append(sent[r], Head(pending[r])) \in Seq(Chunks)
    BY <2>1
  <2>3. QED
    BY <1>7, <2>2 DEF Send, TypeOK
<1>8. CASE Output(r)
  <2>1. PICK o \in NextOutputs(r) : out' = [out EXCEPT ![r] = o]
    BY <1>8 DEF Output
  <2>2. o \in Outputs
    BY OutputType
  <2>3. QED
    BY <1>8, <2>1, <2>2 DEF Output, TypeOK
<1>9. CASE FinishCall(r)
  <2>1. kind[r] \in Kinds /\ request_id[r] \in RequestIds
    BY <1>1, <1>9, KindOf DEF FinishCall, Generating, Control
  <2>2. out[r] \in Outputs /\ out[r].prompt \in Nat /\ out[r].completion \in Nat
    BY DEF TypeOK, Outputs
  <2>3. /\ rows' \in [RequestIds -> LogRows \cup {None}]
        /\ attempts' \in [Requests -> Seq([status : Statuses, kept : BOOLEAN])]
        /\ inference' \in [Endpoints -> [Statuses -> Nat]]
    BY <1>9, <2>1, LogType, CountedType DEF FinishCall, Statuses
  <2>4. /\ response' \in [Requests -> Responses \cup {None}]
        /\ http' \in [Responses -> Nat]
    BY <1>9, RespondType DEF FinishCall, Responses
  <2>5. /\ prompt_tokens' \in Nat /\ completion_tokens' \in Nat /\ speed' \in Nat
        /\ reply' \in [Requests -> Outputs \cup {None}]
    <3>1. prompt_tokens \in Nat /\ completion_tokens \in Nat /\ speed \in Nat
      BY DEF TypeOK
    <3>2. CountTokens(r) /\ speed' = Observed(r) /\ Answer(r)
      BY <1>9 DEF FinishCall
    <3>3. prompt_tokens' \in Nat /\ completion_tokens' \in Nat
      BY <2>2, <3>1, <3>2 DEF CountTokens
    <3>4. speed' \in Nat
      BY <3>1, <3>2 DEF Observed
    <3>5. reply' \in [Requests -> Outputs \cup {None}]
      BY <2>2, <3>2 DEF Answer, TypeOK
    <3>6. QED
      BY <3>3, <3>4, <3>5
  <2>6. QED
    BY <1>9, <2>3, <2>4, <2>5 DEF FinishCall, TypeOK
<1>10. CASE FailCall(r)
  <2>1. kind[r] \in Kinds /\ request_id[r] \in RequestIds
    BY <1>1, <1>10, KindOf DEF FailCall, Generating, Control
  <2>2. /\ rows' \in [RequestIds -> LogRows \cup {None}]
        /\ attempts' \in [Requests -> Seq([status : Statuses, kept : BOOLEAN])]
        /\ inference' \in [Endpoints -> [Statuses -> Nat]]
    BY <1>10, <2>1, LogType, CountedType DEF FailCall, Statuses
  <2>3. /\ response' \in [Requests -> Responses \cup {None}]
        /\ http' \in [Responses -> Nat]
    BY <1>10, RespondType DEF FailCall, Responses
  <2>4. QED
    BY <1>10, <2>2, <2>3 DEF FailCall, TypeOK
<1>11. CASE StreamOutput(r)
  <2>1. PICK o \in NextOutputs(r) :
          /\ out' = [out EXCEPT ![r] = o]
          /\ prev_text' = [prev_text EXCEPT ![r] = o.text]
          /\ pending' = [pending EXCEPT ![r] = NewChunks(r, o)]
          /\ ttft' = IF out[r].completion = 0 THEN ttft + 1 ELSE ttft
          /\ pc' = [pc EXCEPT ![r] = IF NewChunks(r, o) = << >> THEN "generating"
                                      ELSE "sending"]
    BY <1>11 DEF StreamOutput, Remember
  <2>2. o \in Outputs /\ o.text \in Nat /\ prev_text[r] \in Nat
    BY OutputType DEF TypeOK, Outputs
  <2>3. Delta(r, o) \in Seq(Chunks) /\ End(o) \in Seq(Chunks)
    BY <1>2, <2>2 DEF Delta, End
  <2>5. NewChunks(r, o) \in Seq(Chunks)
    BY <2>3, ConcatProperties DEF NewChunks
  <2>6. /\ kind' = kind /\ request_id' = request_id /\ engine' = engine
        /\ UNCHANGED <<clients, http, inflight, prompt_tokens,
                       completion_tokens, inference, speed, history>>
    BY <1>11 DEF StreamOutput
  <2>7. pc' \in [Requests -> {"idle", "opened", "sending", "generating", "ended"}]
    BY <2>1 DEF TypeOK
  <2>8. ttft' \in Nat
    BY <2>1 DEF TypeOK
  <2>9. QED
    BY <2>1, <2>2, <2>5, <2>6, <2>7, <2>8 DEF TypeOK
<1>12. CASE EndStream(r)
  <2>1. kind[r] \in Kinds /\ request_id[r] \in RequestIds
    BY <1>1, <1>12, KindOf DEF EndStream, Generating, Control
  <2>2. /\ rows' \in [RequestIds -> LogRows \cup {None}]
        /\ attempts' \in [Requests -> Seq([status : Statuses, kept : BOOLEAN])]
        /\ inference' \in [Endpoints -> [Statuses -> Nat]]
    BY <1>12, <2>1, LogType, CountedType DEF EndStream, Statuses
  <2>3. speed' \in Nat /\ <<Done>> \in Seq(Chunks)
    BY <1>2, <1>12 DEF EndStream, Observed, TypeOK
  <2>4. QED
    BY <1>12, <2>2, <2>3 DEF EndStream, TypeOK
<1>13. CASE FailStream(r)
  BY <1>13 DEF FailStream, TypeOK
<1>14. CASE Disconnect(r)
  <2>1. engine' \in [Requests -> {"off", "running", "stopped", "raised"}]
    BY <1>14 DEF Disconnect, TypeOK
  <2>2. << >> \in Seq(Chunks)
    OBVIOUS
  <2>3. QED
    BY <1>14, <2>1, <2>2 DEF Disconnect, TypeOK
<1>15. "refused" \in Responses /\ "500" \in Responses
  BY DEF Responses
<1>16. QED
  BY <1>3, <1>4, <1>5, <1>6, <1>7, <1>8, <1>9, <1>10, <1>11, <1>12, <1>13,
     <1>14, <1>15 DEF Step, Refuse, PromptFails

LEMMA ControlInit == Init => AllControl
BY NoneAssumption DEF Init, AllControl, Control, Kinds

LEMMA ControlStep ==
  ASSUME TypeOK, AllControl, NEW r \in Requests, Step(r)
  PROVE  AllControl'
<1> USE DEF clients, series, history
<1>1. Control(r)
  BY DEF AllControl
<1>0. None \notin Kinds /\ None # "stream"
  BY NoneAssumption DEF Kinds
<1>2. ASSUME NEW q \in Requests \ {r}
      PROVE  Control(q)'
  BY <1>2, Frame DEF AllControl, Control, Same
<1> SUFFICES Control(r)'
  BY <1>2 DEF AllControl
<1>3. ASSUME NEW k \in Kinds, NEW s, EndEarly(r, k, s)
      PROVE  Control(r)'
  BY <1>1, <1>3, NoneAssumption DEF EndEarly, Respond, Control, TypeOK, Kinds
<1>4. ASSUME NEW k \in Kinds, Start(r, k)
      PROVE  Control(r)'
  <2>1. /\ kind'[r] = k /\ pc'[r] = "generating" /\ engine'[r] = "running"
        /\ request_id'[r] \in RequestIds
        /\ pending' = pending /\ attempts' = attempts /\ UNCHANGED <<response, reply>>
        /\ pc[r] = "idle"
    BY <1>4 DEF Start, TypeOK
  <2>2. kind[r] = None /\ kind[r] # "stream" /\ k # None
    BY <1>1, <2>1, NoneAssumption DEF Control, Kinds
  <2>3. QED
    BY <1>1, <1>4, <2>1, <2>2 DEF Control, Start
<1>5. CASE OpenStream(r)
  <2>1. /\ pc[r] = "idle" /\ kind'[r] = "stream" /\ pc'[r] = "opened"
        /\ request_id'[r] \in RequestIds
        /\ UNCHANGED <<out, prev_text, pending, engine, sent, attempts>>
    BY <1>5 DEF OpenStream, TypeOK
  <2>2. QED
    BY <1>0, <1>1, <2>1 DEF Control
<1>6. CASE StartStream(r)
  <2>1. /\ pc[r] = "opened" /\ pc'[r] = "sending" /\ pending'[r] = <<Role>>
        /\ UNCHANGED <<kind, request_id, out, prev_text, engine, sent, attempts>>
    BY <1>6 DEF StartStream, TypeOK
  <2>2. <<Role>> # << >>
    OBVIOUS
  <2>3. QED
    BY <1>0, <1>1, <2>1, <2>2 DEF Control
<1>7. CASE Send(r)
  <2>1. pending[r] # << >> /\ pending[r] \in Seq(Chunks) /\ kind[r] = "stream"
    BY <1>1, <1>7 DEF Send, Control, TypeOK
  <2>2. Tail(pending[r]) # << >> <=> Len(pending[r]) > 1
    BY <2>1, TailEmpty
  <2>3. /\ pending'[r] = Tail(pending[r]) /\ kind' = kind /\ attempts' = attempts
        /\ pc'[r] \in {"sending", "generating", "ended"}
        /\ pc'[r] = "sending" <=> Len(pending[r]) > 1
        /\ engine'[r] \in {"off", "running"} => engine[r] \in {"off", "running"}
        /\ request_id' = request_id
    BY <1>7 DEF Send, TypeOK
  <2>4. pc[r] = "sending"
    BY <1>7 DEF Send
  <2>5. QED
    BY <1>0, <1>1, <2>1, <2>2, <2>3, <2>4 DEF Control
<1>8. CASE Output(r)
  <2>1. /\ pc[r] = "generating"
        /\ UNCHANGED <<kind, pc, request_id, pending, engine, response, reply, attempts>>
    BY <1>8 DEF Output, Generating
  <2>2. QED
    BY <1>1, <2>1 DEF Control
<1>9. ASSUME FinishCall(r) \/ FailCall(r)
      PROVE  Control(r)'
  BY <1>1, <1>9 DEF FinishCall, FailCall, Generating, Control, TypeOK
<1>10. CASE StreamOutput(r)
  <2>1. PICK o \in NextOutputs(r) :
          /\ pending' = [pending EXCEPT ![r] = NewChunks(r, o)]
          /\ pc' = [pc EXCEPT ![r] = IF NewChunks(r, o) = << >> THEN "generating"
                                      ELSE "sending"]
    BY <1>10 DEF StreamOutput
  <2>2. /\ pending'[r] = NewChunks(r, o)
        /\ pc'[r] = IF NewChunks(r, o) = << >> THEN "generating" ELSE "sending"
        /\ UNCHANGED <<kind, request_id, engine, attempts>>
        /\ kind[r] = "stream" /\ pc[r] = "generating"
    BY <1>10, <2>1 DEF TypeOK, StreamOutput, Generating
  <2>3. CASE NewChunks(r, o) = << >>
    BY <1>0, <1>1, <2>2, <2>3 DEF Control
  <2>4. CASE NewChunks(r, o) # << >>
    BY <1>0, <1>1, <2>2, <2>4 DEF Control
  <2>5. QED
    BY <2>3, <2>4
<1>11. CASE EndStream(r)
  <2>1. /\ kind[r] = "stream" /\ pc[r] = "generating" /\ pc'[r] = "sending"
        /\ engine'[r] = "stopped" /\ pending'[r] = <<Done>>
        /\ UNCHANGED <<kind, request_id>>
    BY <1>11 DEF EndStream, Generating, TypeOK
  <2>2. <<Done>> # << >>
    OBVIOUS
  <2>3. QED
    BY <1>0, <1>1, <2>1, <2>2 DEF Control
<1>12. ASSUME FailStream(r) \/ Disconnect(r)
       PROVE  Control(r)'
  BY <1>1, <1>12, NoneAssumption
     DEF FailStream, Disconnect, Generating, Control, TypeOK, Kinds
<1>13. QED
  BY <1>3, <1>4, <1>5, <1>6, <1>7, <1>8, <1>9, <1>10, <1>11, <1>12
     DEF Step, Refuse, PromptFails

(* A call is counted by the gauge from its start to its end.               *)
LEMMA GaugeStep ==
  ASSUME TypeOK, AllControl, Gauge, NEW r \in Requests, Step(r)
  PROVE  Gauge' /\ inflight' \in Nat
<1> USE DEF clients, series, history
<1>1. Control(r) /\ Control(r)'
  BY ControlStep DEF AllControl
<1>2. \A q : q # r => (q \in Waiting' <=> q \in Waiting)
  BY Frame DEF Waiting, Calls, Same
<1>3. /\ IsFiniteSet(Waiting') /\ Cardinality(Waiting) \in Nat
      /\ (r \in Waiting' <=> r \in Waiting) => Cardinality(Waiting') = Cardinality(Waiting)
      /\ r \in Waiting' /\ r \notin Waiting =>
           Cardinality(Waiting') = Cardinality(Waiting) + 1
      /\ r \notin Waiting' /\ r \in Waiting =>
           Cardinality(Waiting') = Cardinality(Waiting) - 1
  BY <1>2, CountChange DEF Gauge
<1> SUFFICES inflight' = Cardinality(Waiting')
  BY <1>3, FS_CardinalityType DEF Gauge
<1>4. ASSUME inflight' = inflight, r \in Waiting' <=> r \in Waiting
      PROVE  inflight' = Cardinality(Waiting')
  BY <1>3, <1>4 DEF Gauge
<1>5. ASSUME NEW k \in Kinds, Start(r, k)
      PROVE  inflight' = Cardinality(Waiting')
  <2>1. r \notin Waiting /\ r \in Waiting'
    BY <1>5 DEF Start, Waiting, Calls, TypeOK, Kinds
  <2>2. QED
    BY <1>3, <1>5, <2>1 DEF Start, Enter, Gauge
<1>6. ASSUME FinishCall(r) \/ FailCall(r)
      PROVE  inflight' = Cardinality(Waiting')
  <2>1. kind[r] \in Kinds
    BY <1>1, <1>6, KindOf DEF FinishCall, FailCall, Generating
  <2>2. r \in Waiting /\ r \notin Waiting'
    BY <1>6, <2>1 DEF FinishCall, FailCall, Generating, Waiting, Calls, TypeOK, Kinds
  <2>3. QED
    BY <1>3, <1>6, <2>2 DEF FinishCall, FailCall, Leave, Gauge
<1>7. ASSUME NEW k \in Kinds, NEW s, EndEarly(r, k, s)
      PROVE  inflight' = Cardinality(Waiting')
  BY <1>4, <1>7 DEF EndEarly, Waiting, TypeOK
<1>8. ASSUME OpenStream(r) \/ StartStream(r) \/ Send(r)
      PROVE  inflight' = Cardinality(Waiting')
  <2>1. kind'[r] = "stream" /\ (kind[r] = "stream" \/ pc[r] = "idle")
    BY <1>1, <1>8 DEF OpenStream, StartStream, Send, Control, TypeOK
  <2>2. r \notin Waiting /\ r \notin Waiting'
    BY <2>1 DEF Waiting, Calls
  <2>3. QED
    BY <1>4, <1>8, <2>2 DEF OpenStream, StartStream, Send
<1>9. CASE Output(r)
  <2>1. kind' = kind /\ pc' = pc /\ inflight' = inflight
    BY <1>9 DEF Output
  <2>2. Waiting' = Waiting
    BY <2>1 DEF Waiting, Calls
  <2>3. QED
    BY <1>4, <2>1, <2>2
<1>10. ASSUME StreamOutput(r) \/ EndStream(r) \/ FailStream(r) \/ Disconnect(r)
       PROVE  inflight' = Cardinality(Waiting')
  <2>1. kind'[r] = "stream" /\ kind[r] = "stream"
    BY <1>10 DEF StreamOutput, EndStream, FailStream, Disconnect
  <2>2. r \notin Waiting /\ r \notin Waiting'
    BY <2>1 DEF Waiting, Calls
  <2>3. QED
    BY <1>4, <1>10, <2>2 DEF StreamOutput, EndStream, FailStream, Disconnect
<1>11. QED
  BY <1>5, <1>6, <1>7, <1>8, <1>9, <1>10 DEF Step, Refuse, PromptFails

(* The sets change by the call that takes the step at most.                *)
LEMMA SizesStep ==
  ASSUME TypeOK, Sizes, NEW r \in Requests, Step(r)
  PROVE  Sizes'
<1>1. \A q : q # r => (q \in UnderWay' <=> q \in UnderWay)
  BY Frame DEF UnderWay, Same
<1>2. \A q : q # r => (q \in Completed' <=> q \in Completed)
  BY Frame DEF Completed, Same
<1>3. QED
  BY <1>1, <1>2, CountChange DEF Sizes

-----------------------------------------------------------------------------
(* The request history against the inference counters.                     *)
HistoryCount(e, s) ==
  /\ IsFiniteSet(Kept(e, s)) /\ IsFiniteSet(Lost(e, s))
  /\ inference[e][s] = Cardinality(Kept(e, s)) + Cardinality(Lost(e, s))

HistoryCounted == \A e \in Endpoints, s \in Statuses : HistoryCount(e, s)

(* What the attempts of a call say of it, and of one that made none.       *)
HasLost(log, s) ==
  [status |-> s, kept |-> FALSE] \in {log[i] : i \in DOMAIN log}

LEMMA NothingLost == \A s : ~HasLost(<< >>, s)
<1>1. DOMAIN << >> = {}
  OBVIOUS
<1>2. QED
  BY <1>1 DEF HasLost

LEMMA OneLost ==
  ASSUME NEW status, NEW kept \in BOOLEAN, NEW s
  PROVE  HasLost(<<[status |-> status, kept |-> kept]>>, s) <=> ~kept /\ s = status
<1>1. PICK log : log = <<[status |-> status, kept |-> kept]>>
  OBVIOUS
<1>2. DOMAIN log = {1} /\ log[1] = [status |-> status, kept |-> kept]
  BY <1>1
<1>3. HasLost(log, s) <=> [status |-> s, kept |-> FALSE] = [status |-> status, kept |-> kept]
  BY <1>2 DEF HasLost
<1>4. QED
  BY <1>1, <1>3

LEMMA LostBy ==
  /\ \A q, e, s : q \in Lost(e, s) <=>
       q \in Requests /\ HasLost(attempts[q], s) /\ Endpoint(kind[q]) = e
  /\ \A q, e, s : q \in Lost(e, s)' <=>
       q \in Requests /\ HasLost(attempts'[q], s) /\ Endpoint(kind'[q]) = e
BY Zenon DEF Lost, HasLost, Endpoint

(* A call that is counted is logged, in a row of its own or as lost.       *)
LEMMA LoggedIsCounted ==
  ASSUME TypeOK, HistoryCounted, NEW r \in Requests, kind[r] \in Kinds,
         request_id[r] \in RequestIds, attempts[r] = << >>, kind' = kind,
         NEW status \in Statuses, _log_request(r, status),
         inference' = Counted(r, status)
  PROVE  HistoryCounted'
<1> SUFFICES ASSUME NEW e \in Endpoints, NEW s \in Statuses
             PROVE  HistoryCount(e, s)'
  BY DEF HistoryCounted
<1>1. HistoryCount(e, s) /\ inference[e][s] \in Nat
  BY DEF HistoryCounted, TypeOK
<1>2. PICK i \in RequestIds : i = request_id[r]
  OBVIOUS
<1>3. inference'[e][s] = IF e = Endpoint(kind[r]) /\ s = status
                         THEN inference[e][s] + 1 ELSE inference[e][s]
  BY CountedType
<1>4. PICK kept \in BOOLEAN :
        /\ Attempt(r, status, kept)
        /\ kept => rows[i] = None /\ Keep(r, status)
        /\ ~kept => rows' = rows
  BY <1>2 DEF _log_request
<1>5. /\ \A q \in Requests \ {r} : attempts'[q] = attempts[q]
      /\ attempts'[r] = <<[status |-> status, kept |-> kept]>>
  BY <1>4 DEF Attempt, TypeOK
<1>6. \A q : q # r => (q \in Lost(e, s)' <=> q \in Lost(e, s))
  BY <1>5, LostBy
<1>7. r \notin Lost(e, s)
  BY LostBy, NothingLost
<1>8. r \in Lost(e, s)' <=> ~kept /\ s = status /\ e = Endpoint(kind[r])
  <2>1. HasLost(attempts'[r], s) <=> ~kept /\ s = status
    BY <1>5, OneLost
  <2>2. Endpoint(kind'[r]) = Endpoint(kind[r])
    OBVIOUS
  <2>3. QED
    BY <2>1, <2>2, LostBy
<1>9. /\ \A j \in RequestIds \ {i} : rows'[j] = rows[j]
      /\ rows'[i] = IF kept THEN Row(r, status) ELSE rows[i]
  BY <1>2, <1>4 DEF Keep, TypeOK
<1>10. Row(r, status) # None /\ Row(r, status).endpoint = Endpoint(kind[r])
       /\ Row(r, status).status = status
  <2>1. Row(r, status) \in LogRows
    <3>1. out[r].prompt \in Nat /\ out[r].completion \in Nat
      BY DEF TypeOK, Outputs
    <3>2. QED
      BY <3>1, EndpointOf DEF Row, LogRows
  <2>2. QED
    BY <2>1, NoneAssumption DEF Row
<1>11. \A j : j # i => (j \in Kept(e, s)' <=> j \in Kept(e, s))
  BY <1>9 DEF Kept
<1>12. CASE kept
  <2>1. i \notin Kept(e, s)
    BY <1>4, <1>12 DEF Kept
  <2>2. i \in Kept(e, s)' <=> e = Endpoint(kind[r]) /\ s = status
    BY <1>9, <1>10, <1>12 DEF Kept
  <2>3. /\ IsFiniteSet(Kept(e, s)') /\ Cardinality(Kept(e, s)) \in Nat
        /\ Cardinality(Kept(e, s)') = IF e = Endpoint(kind[r]) /\ s = status
                                      THEN Cardinality(Kept(e, s)) + 1
                                      ELSE Cardinality(Kept(e, s))
    BY <1>1, <1>11, <2>1, <2>2, CountChange DEF HistoryCount
  <2>4. /\ IsFiniteSet(Lost(e, s)') /\ Cardinality(Lost(e, s)) \in Nat
        /\ Cardinality(Lost(e, s)') = Cardinality(Lost(e, s))
    BY <1>1, <1>6, <1>7, <1>8, <1>12, CountChange DEF HistoryCount
  <2>5. QED
    BY <1>1, <1>3, <2>3, <2>4 DEF HistoryCount
<1>13. CASE ~kept
  <2>1. i \in Kept(e, s)' <=> i \in Kept(e, s)
    BY <1>9, <1>13 DEF Kept
  <2>2. /\ IsFiniteSet(Kept(e, s)') /\ Cardinality(Kept(e, s)) \in Nat
        /\ Cardinality(Kept(e, s)') = Cardinality(Kept(e, s))
    BY <1>1, <1>11, <2>1, CountChange DEF HistoryCount
  <2>3. /\ IsFiniteSet(Lost(e, s)') /\ Cardinality(Lost(e, s)) \in Nat
        /\ Cardinality(Lost(e, s)') = IF e = Endpoint(kind[r]) /\ s = status
                                      THEN Cardinality(Lost(e, s)) + 1
                                      ELSE Cardinality(Lost(e, s))
    BY <1>1, <1>6, <1>7, <1>8, <1>13, CountChange DEF HistoryCount
  <2>4. QED
    BY <1>1, <1>3, <2>2, <2>3 DEF HistoryCount
<1>14. QED
  BY <1>12, <1>13

(* Only a call that was not yet logged changes its kind.                   *)
LEMMA HistorySame ==
  ASSUME TypeOK, HistoryCounted, UNCHANGED <<rows, attempts, inference>>,
         \A q \in Requests : attempts[q] # << >> => kind'[q] = kind[q]
  PROVE  HistoryCounted'
<1> SUFFICES ASSUME NEW e \in Endpoints, NEW s \in Statuses
             PROVE  HistoryCount(e, s)'
  BY DEF HistoryCounted
<1>1. Kept(e, s)' = Kept(e, s)
  BY DEF Kept
<1>2. Lost(e, s)' = Lost(e, s)
  <2>1. ASSUME NEW q
        PROVE  q \in Lost(e, s)' <=> q \in Lost(e, s)
    <3>1. CASE attempts[q] = << >>
      BY <3>1, LostBy, NothingLost
    <3>2. CASE q \in Requests /\ attempts[q] # << >>
      BY <3>2, LostBy
    <3>3. CASE q \notin Requests
      BY <3>3, LostBy
    <3>4. QED
      BY <3>1, <3>2, <3>3
  <2>2. QED
    BY <2>1
<1>3. QED
  BY <1>1, <1>2 DEF HistoryCount, HistoryCounted

LEMMA HistoryStep ==
  ASSUME TypeOK, AllControl, HistoryCounted, NEW r \in Requests, Step(r)
  PROVE  HistoryCounted'
<1> USE DEF clients, series, history
<1>1. Control(r)
  BY DEF AllControl
<1>2. ASSUME pc[r] = "idle" \/ kind'[r] = kind[r]
      PROVE  \A q \in Requests : attempts[q] # << >> => kind'[q] = kind[q]
  BY <1>1, <1>2, Frame DEF Same, Control
<1>3. ASSUME NEW k \in Kinds, NEW s, EndEarly(r, k, s)
      PROVE  HistoryCounted'
  BY <1>2, <1>3, HistorySame DEF EndEarly
<1>4. ASSUME NEW k \in Kinds, Start(r, k)
      PROVE  HistoryCounted'
  BY <1>2, <1>4, HistorySame DEF Start
<1>5. ASSUME OpenStream(r) \/ StartStream(r) \/ Send(r) \/ Output(r)
      PROVE  HistoryCounted'
  BY <1>2, <1>5, HistorySame DEF OpenStream, StartStream, Send, Output
<1>6. ASSUME StreamOutput(r) \/ FailStream(r) \/ Disconnect(r)
      PROVE  HistoryCounted'
  BY <1>2, <1>6, HistorySame DEF StreamOutput, FailStream, Disconnect
<1>7. ASSUME FinishCall(r) \/ EndStream(r) \/ FailCall(r)
      PROVE  HistoryCounted'
  <2>1. /\ kind[r] \in Kinds /\ request_id[r] \in RequestIds /\ attempts[r] = << >>
        /\ kind' = kind
    BY <1>1, <1>7, KindOf DEF FinishCall, EndStream, FailCall, Generating, Control
  <2>2. PICK status \in Statuses :
          _log_request(r, status) /\ inference' = Counted(r, status)
    BY <1>7 DEF FinishCall, EndStream, FailCall, Statuses
  <2>3. QED
    BY <2>1, <2>2, LoggedIsCounted
<1>8. QED
  BY <1>3, <1>4, <1>5, <1>6, <1>7 DEF Step, Refuse, PromptFails

-----------------------------------------------------------------------------
(* The HTTP series against the inference counters.                         *)
Opened == {r \in Streams : response[r] = "200"}
Failed == {r \in Calls : response[r] = "500" /\ engine[r] # "off"}

HttpCounted ==
  /\ IsFiniteSet(Opened) /\ IsFiniteSet(Failed)
  /\ http["200"] = inference["chat.completions"]["ok"]
                   + inference["completions"]["ok"] + Cardinality(Opened)
  /\ inference["chat.completions"]["error"] + inference["completions"]["error"]
       = Cardinality(Failed)
  /\ http["500"] = 0

(* A step that counts nothing, and after which r is where it was.          *)
LEMMA HttpSame ==
  ASSUME TypeOK, HttpCounted, NEW r \in Requests, Step(r),
         http'["200"] = http["200"], http'["500"] = http["500"],
         \A e \in {"chat.completions", "completions"} : inference'[e] = inference[e],
         r \in Opened' <=> r \in Opened, r \in Failed' <=> r \in Failed
  PROVE  HttpCounted'
<1>1. Opened' = Opened
  BY Frame DEF Opened, Streams, Same
<1>2. Failed' = Failed
  BY Frame DEF Failed, Calls, Same
<1>3. QED
  BY <1>1, <1>2 DEF HttpCounted

LEMMA HttpStep ==
  ASSUME TypeOK, AllControl, HttpCounted, NEW r \in Requests, Step(r)
  PROVE  HttpCounted'
<1> USE DEF clients, series, history
<1>1. Control(r) /\ Control(r)'
  BY ControlStep DEF AllControl
<1>2. None \notin Kinds \cup Responses
  BY NoneAssumption
<1>3. \A q : q # r => (q \in Opened' <=> q \in Opened) /\ (q \in Failed' <=> q \in Failed)
  BY Frame DEF Opened, Failed, Streams, Calls, Same
<1>4. /\ IsFiniteSet(Opened') /\ Cardinality(Opened) \in Nat
      /\ (r \in Opened' <=> r \in Opened) => Cardinality(Opened') = Cardinality(Opened)
      /\ r \in Opened' /\ r \notin Opened => Cardinality(Opened') = Cardinality(Opened) + 1
  BY <1>3, CountChange DEF HttpCounted
<1>5. /\ IsFiniteSet(Failed') /\ Cardinality(Failed) \in Nat
      /\ (r \in Failed' <=> r \in Failed) => Cardinality(Failed') = Cardinality(Failed)
      /\ r \in Failed' /\ r \notin Failed => Cardinality(Failed') = Cardinality(Failed) + 1
  BY <1>3, CountChange DEF HttpCounted
<1>6. pc[r] = "idle" => r \notin Opened /\ r \notin Failed
  BY <1>1, <1>2 DEF Control, Opened, Failed, Streams, Calls, Kinds
<1>7. /\ {"chat.completions", "completions"} \subseteq Endpoints
      /\ "ok" \in Statuses /\ "error" \in Statuses
      /\ "200" \in Responses /\ "500" \in Responses /\ "refused" \in Responses
      /\ \A e \in Endpoints, s \in Statuses : inference[e][s] \in Nat
      /\ http["200"] \in Nat
  BY DEF Endpoints, Kinds, Endpoint, Statuses, Responses, TypeOK
<1>8. ASSUME NEW k \in Kinds, NEW s \in {"refused", "500"}, EndEarly(r, k, s)
      PROVE  HttpCounted'
  <2>1. /\ response'[r] = s /\ http'["200"] = http["200"] /\ http'["500"] = http["500"]
        /\ pc[r] = "idle" /\ engine' = engine /\ inference' = inference
    BY <1>7, <1>8, RespondType DEF EndEarly
  <2>2. engine'[r] = "off"
    BY <1>1, <2>1 DEF Control
  <2>3. r \notin Opened' /\ r \notin Failed'
    BY <2>1, <2>2 DEF Opened, Failed
  <2>4. QED
    BY <1>6, <2>1, <2>3, HttpSame
<1>9. ASSUME NEW k \in Kinds, Start(r, k)
      PROVE  HttpCounted'
  <2>1. /\ pc[r] = "idle" /\ k # "stream" /\ kind'[r] = k /\ pc'[r] = "generating"
        /\ UNCHANGED <<response, http, inference>>
    BY <1>9 DEF Start, TypeOK
  <2>2. response'[r] = None
    BY <1>1, <2>1 DEF Control
  <2>3. r \notin Opened' /\ r \notin Failed'
    BY <1>2, <2>2 DEF Opened, Failed, Responses
  <2>4. QED
    BY <1>6, <2>1, <2>3, HttpSame
<1>10. CASE OpenStream(r)
  <2>1. /\ pc[r] = "idle" /\ kind'[r] = "stream" /\ response'[r] = "200"
        /\ http'["200"] = http["200"] + 1 /\ http'["500"] = http["500"]
        /\ inference' = inference
    BY <1>7, <1>10, RespondType DEF OpenStream, TypeOK
  <2>2. r \in Opened' /\ r \notin Failed'
    BY <2>1 DEF Opened, Failed, Streams, Calls
  <2>3. /\ Cardinality(Opened') = Cardinality(Opened) + 1
        /\ Cardinality(Failed') = Cardinality(Failed)
    BY <1>4, <1>5, <1>6, <2>1, <2>2
  <2>4. QED
    BY <1>4, <1>5, <1>7, <2>1, <2>3 DEF HttpCounted
<1>11. ASSUME StartStream(r) \/ Send(r) \/ StreamOutput(r) \/ FailStream(r) \/ Disconnect(r)
       PROVE  HttpCounted'
  <2>1. /\ kind[r] = "stream" /\ UNCHANGED <<kind, response, http, inference>>
    BY <1>1, <1>11
       DEF StartStream, Send, StreamOutput, FailStream, Disconnect, Control
  <2>2. r \in Opened' <=> r \in Opened
    BY <2>1 DEF Opened, Streams
  <2>3. r \notin Failed' /\ r \notin Failed
    BY <2>1 DEF Failed, Calls
  <2>4. QED
    BY <2>1, <2>2, <2>3, HttpSame
<1>12. CASE Output(r)
  <2>1. UNCHANGED <<kind, response, engine, http, inference>>
    BY <1>12 DEF Output
  <2>2. r \in Opened' <=> r \in Opened
    BY <2>1 DEF Opened, Streams
  <2>3. r \in Failed' <=> r \in Failed
    BY <2>1 DEF Failed, Calls
  <2>4. QED
    BY <2>1, <2>2, <2>3, HttpSame
<1>13. ASSUME FinishCall(r) \/ FailCall(r)
       PROVE  /\ kind' = kind /\ kind[r] \in {"chat", "completions"}
              /\ Endpoint(kind[r]) \in {"chat.completions", "completions"}
              /\ r \notin Opened' /\ r \notin Opened /\ r \notin Failed
  <2>1. /\ pc[r] = "generating" /\ kind[r] # "stream" /\ kind' = kind
    BY <1>13 DEF FinishCall, FailCall, Generating
  <2>2. kind[r] \in {"chat", "completions"} /\ response[r] = None
    BY <1>1, <2>1, KindOf DEF Kinds, Control
  <2>3. QED
    BY <1>2, <2>1, <2>2, EndpointOf DEF Opened, Failed, Streams, Kinds, Responses
<1>14. CASE FinishCall(r)
  <2>1. /\ response'[r] = "200" /\ http'["200"] = http["200"] + 1
        /\ http'["500"] = http["500"] /\ inference' = Counted(r, "ok")
    BY <1>7, <1>14, RespondType DEF FinishCall
  <2>2. r \notin Failed'
    BY <2>1 DEF Failed
  <2>3. /\ \A e \in Endpoints : inference'[e]["error"] = inference[e]["error"]
        /\ \A e \in Endpoints : inference'[e]["ok"] =
             IF e = Endpoint(kind[r]) THEN inference[e]["ok"] + 1 ELSE inference[e]["ok"]
    BY <1>7, <1>13, <1>14, <2>1, CountedType DEF Kinds
  <2>4. inference'["chat.completions"]["ok"] + inference'["completions"]["ok"]
          = inference["chat.completions"]["ok"] + inference["completions"]["ok"] + 1
    BY <1>7, <1>13, <1>14, <2>3
  <2>5. /\ Cardinality(Opened') = Cardinality(Opened)
        /\ Cardinality(Failed') = Cardinality(Failed)
    BY <1>4, <1>5, <1>13, <1>14, <2>2
  <2>6. QED
    BY <1>4, <1>5, <1>7, <2>1, <2>3, <2>4, <2>5 DEF HttpCounted
<1>15. CASE FailCall(r)
  <2>1. /\ response'[r] = "500" /\ http'["200"] = http["200"]
        /\ http'["500"] = http["500"] /\ inference' = Counted(r, "error")
        /\ engine'[r] = "raised"
    BY <1>7, <1>15, RespondType DEF FailCall, TypeOK
  <2>2. r \in Failed'
    BY <1>13, <1>15, <2>1 DEF Failed, Calls
  <2>3. /\ \A e \in Endpoints : inference'[e]["ok"] = inference[e]["ok"]
        /\ \A e \in Endpoints : inference'[e]["error"] =
             IF e = Endpoint(kind[r]) THEN inference[e]["error"] + 1
             ELSE inference[e]["error"]
    BY <1>7, <1>13, <1>15, <2>1, CountedType DEF Kinds
  <2>4. inference'["chat.completions"]["error"] + inference'["completions"]["error"]
          = inference["chat.completions"]["error"] + inference["completions"]["error"] + 1
    BY <1>7, <1>13, <1>15, <2>3
  <2>5. /\ Cardinality(Opened') = Cardinality(Opened)
        /\ Cardinality(Failed') = Cardinality(Failed) + 1
    BY <1>4, <1>5, <1>13, <1>15, <2>2
  <2>6. QED
    BY <1>4, <1>5, <1>7, <2>1, <2>3, <2>4, <2>5 DEF HttpCounted
<1>16. CASE EndStream(r)
  <2>1. /\ kind[r] = "stream" /\ inference' = Counted(r, "ok")
        /\ UNCHANGED <<kind, response, http>>
    BY <1>16 DEF EndStream
  <2>2. \A e \in {"chat.completions", "completions"} : inference'[e] = inference[e]
    <3>1. Endpoint(kind[r]) = "chat.completions.stream"
      BY <2>1 DEF Endpoint
    <3>2. QED
      BY <1>7, <2>1, <3>1 DEF Counted, TypeOK
  <2>3. r \in Opened' <=> r \in Opened
    BY <2>1 DEF Opened, Streams
  <2>4. r \notin Failed' /\ r \notin Failed
    BY <2>1 DEF Failed, Calls
  <2>5. QED
    BY <2>1, <2>2, <2>3, <2>4, HttpSame
<1>17. QED
  BY <1>8, <1>9, <1>10, <1>11, <1>12, <1>14, <1>15, <1>16
     DEF Step, Refuse, PromptFails

-----------------------------------------------------------------------------
(* The row of a call, as AnswersAreLogged has it.                          *)
RowOf(r, status) ==
  [endpoint |-> Endpoint(kind[r]), status |-> status,
   prompt |-> out[r].prompt, completion |-> out[r].completion]

(* How a call was logged: once, with its status; and its row, if kept, is  *)
(* still there.                                                            *)
IsLogged(r, status) ==
  /\ Len(attempts[r]) = 1 /\ attempts[r][1].status = status
  /\ attempts[r][1].kept => rows[request_id[r]] = RowOf(r, status)

LEMMA RowOfType ==
  ASSUME TypeOK, NEW r \in Requests, kind[r] \in Kinds, NEW status \in Statuses
  PROVE  RowOf(r, status) # None
<1>1. out[r].prompt \in Nat /\ out[r].completion \in Nat
  BY DEF TypeOK, Outputs
<1>2. RowOf(r, status) \in LogRows
  BY <1>1, EndpointOf DEF RowOf, LogRows
<1>3. QED
  BY <1>2, NoneAssumption

(* No row is ever changed: an id that is there again is refused.           *)
LEMMA RowsStay ==
  ASSUME TypeOK, NEW r \in Requests, Step(r), NEW i \in RequestIds,
         rows[i] # None
  PROVE  rows'[i] = rows[i]
<1> USE DEF clients, series, history
<1>1. ASSUME NEW status, _log_request(r, status)
      PROVE  rows'[i] = rows[i]
  BY <1>1 DEF _log_request, Keep, TypeOK
<1>2. ASSUME rows' = rows
      PROVE  rows'[i] = rows[i]
  BY <1>2
<1>3. QED
  BY <1>1, <1>2, Zenon
     DEF Step, Refuse, PromptFails, EndEarly, Start, OpenStream, StartStream, Send,
         Output, FinishCall, FailCall, StreamOutput, EndStream, FailStream, Disconnect

(* The log of a call stays as it is, whatever another call does, or this   *)
(* one with what its log does not depend on.                               *)
LEMMA LoggedStays ==
  ASSUME TypeOK, NEW r \in Requests, Step(r), NEW q \in Requests \ {r},
         NEW status \in Statuses, kind[q] \in Kinds,
         request_id[q] \in RequestIds, IsLogged(q, status)
  PROVE  IsLogged(q, status)'
<1>1. Same(q)
  BY Frame
<1>2. RowOf(q, status)' = RowOf(q, status)
  BY <1>1 DEF Same, RowOf, Endpoint
<1>3. rows[request_id[q]] = RowOf(q, status) =>
        rows'[request_id[q]] = RowOf(q, status)
  BY RowOfType, RowsStay
<1>4. QED
  BY <1>1, <1>2, <1>3 DEF Same, IsLogged

LEMMA LoggedSame ==
  ASSUME UNCHANGED <<kind, out, request_id, rows, attempts>>,
         NEW r, NEW status, IsLogged(r, status)
  PROVE  IsLogged(r, status)'
BY DEF IsLogged, RowOf, Endpoint

(* What a handler logs of its call.                                        *)
LEMMA LogsOnce ==
  ASSUME TypeOK, NEW r \in Requests, request_id[r] \in RequestIds,
         attempts[r] = << >>, NEW status \in Statuses, _log_request(r, status),
         UNCHANGED <<kind, out, request_id>>
  PROVE  IsLogged(r, status)'
<1>1. PICK kept \in BOOLEAN :
        /\ Attempt(r, status, kept)
        /\ kept => Keep(r, status)
  BY DEF _log_request
<1>2. attempts'[r] = <<[status |-> status, kept |-> kept]>>
  BY <1>1 DEF Attempt, TypeOK
<1>3. /\ Len(attempts'[r]) = 1
      /\ attempts'[r][1].status = status /\ attempts'[r][1].kept = kept
  BY <1>2
<1>4. RowOf(r, status)' = Row(r, status)
  BY DEF RowOf, Row
<1>5. kept => rows'[request_id'[r]] = Row(r, status)
  BY <1>1 DEF Keep, TypeOK
<1>6. QED
  BY <1>3, <1>4, <1>5 DEF IsLogged

(* AnswersAreLogged, call by call.                                         *)
Answered(r) ==
  r \in Calls /\ Ended(r) /\ engine[r] # "off" =>
    \/ /\ engine[r] = "stopped" /\ response[r] = "200" /\ reply[r] = out[r]
       /\ IsLogged(r, "ok")
    \/ /\ engine[r] # "stopped" /\ response[r] = "500" /\ reply[r] = None
       /\ IsLogged(r, "error")

AllAnswered == \A r \in Requests : Answered(r)

LEMMA LoggedStep ==
  ASSUME TypeOK, AllControl, AllAnswered, NEW r \in Requests, Step(r)
  PROVE  AllAnswered'
<1> USE DEF clients, series, history
<1>1. Control(r) /\ Answered(r)
  BY DEF AllControl, AllAnswered
<1>2. ASSUME NEW q \in Requests \ {r}
      PROVE  Answered(q)'
  <2>1. Same(q) /\ Answered(q)
    BY Frame DEF AllAnswered
  <2>2. ASSUME NEW status \in Statuses, kind[q] \in Kinds,
               request_id[q] \in RequestIds, IsLogged(q, status)
        PROVE  IsLogged(q, status)'
    BY <2>2, LoggedStays
  <2>3. "ok" \in Statuses /\ "error" \in Statuses /\ (q \in Calls => kind[q] \in Kinds)
    BY DEF Statuses, Calls, Kinds
  <2>4. (q \in Calls /\ Ended(q))' <=> q \in Calls /\ Ended(q)
    BY <2>1 DEF Same, Calls, Ended
  <2>5. engine[q] # "off" => request_id[q] \in RequestIds
    BY DEF AllControl, Control
  <2>6. QED
    BY <2>1, <2>2, <2>3, <2>4, <2>5 DEF Same, Answered
<1> SUFFICES Answered(r)'
  BY <1>2 DEF AllAnswered
<1>3. ASSUME NEW k, NEW s, EndEarly(r, k, s)
      PROVE  Answered(r)'
  <2>1. engine'[r] = "off"
    BY <1>1, <1>3 DEF EndEarly, Control
  <2>2. QED
    BY <2>1 DEF Answered
<1>4. ASSUME NEW k, Start(r, k) \/ Output(r)
      PROVE  Answered(r)'
  <2>1. pc'[r] = "generating"
    BY <1>4 DEF Start, Output, Generating, TypeOK
  <2>2. QED
    BY <2>1 DEF Answered, Ended
<1>5. ASSUME OpenStream(r) \/ StartStream(r) \/ Send(r) \/ StreamOutput(r)
             \/ EndStream(r) \/ FailStream(r) \/ Disconnect(r)
      PROVE  Answered(r)'
  <2>1. kind'[r] = "stream"
    BY <1>1, <1>5 DEF OpenStream, StartStream, Send, StreamOutput, EndStream,
                      FailStream, Disconnect, Control, TypeOK
  <2>2. QED
    BY <2>1 DEF Answered, Calls
<1>6. ASSUME FinishCall(r) \/ FailCall(r)
      PROVE  /\ request_id[r] \in RequestIds /\ attempts[r] = << >> /\ reply[r] = None
             /\ UNCHANGED <<kind, out, request_id>>
  BY <1>1, <1>6 DEF FinishCall, FailCall, Generating, Control
<1>7. "ok" \in Statuses /\ "error" \in Statuses
  BY DEF Statuses
<1>8. CASE FinishCall(r)
  <2>1. IsLogged(r, "ok")'
    BY <1>6, <1>7, <1>8, LogsOnce DEF FinishCall
  <2>2. engine'[r] = "stopped" /\ response'[r] = "200" /\ reply'[r] = out'[r]
    BY <1>8 DEF FinishCall, Respond, Answer, TypeOK
  <2>3. QED
    BY <2>1, <2>2 DEF Answered
<1>9. CASE FailCall(r)
  <2>1. IsLogged(r, "error")'
    BY <1>6, <1>7, <1>9, LogsOnce DEF FailCall
  <2>2. engine'[r] = "raised" /\ response'[r] = "500" /\ reply'[r] = None
    BY <1>6, <1>9 DEF FailCall, Respond, TypeOK
  <2>3. QED
    BY <2>1, <2>2 DEF Answered
<1>10. QED
  BY <1>3, <1>4, <1>5, <1>8, <1>9 DEF Step, Refuse, PromptFails

-----------------------------------------------------------------------------
(* The text of a stream.  t spells text in its first n chunks: the role,   *)
(* then deltas that join.                                                  *)
Spells(t, n, text) ==
  /\ t[1] = Role
  /\ \A i \in 2..n : /\ t[i].type = "content"
                     /\ t[i].from < t[i].to /\ t[i].to <= text
                     /\ t[i].from = IF i = 2 THEN 0 ELSE t[i - 1].to
EndsAt(t, n) == IF n = 1 THEN 0 ELSE t[n].to

(* What follows the text: the finish reason, and [DONE].                   *)
Closes(t, n) ==
  /\ Len(t) <= n + 2
  /\ Len(t) > n => t[n + 1] = Finish
  /\ Len(t) = n + 2 => t[n + 2] = Done

(* The first delta starts where the text sent so far ends.                 *)
StreamText(r, n) ==
  LET t == Transcript(r)
  IN  /\ Spells(t, n, out[r].text) /\ Closes(t, n)
      /\ Len(t) > n => out[r].finish_reason # None
      /\ Len(t) = n + 2 => /\ engine[r] = "stopped" /\ IsLogged(r, "ok")
                           /\ out[r].text = EndsAt(t, n)
      /\ ~Ended(r) => /\ prev_text[r] = out[r].text
                      /\ out[r].text = EndsAt(t, n)
                      /\ Len(t) > n <=> out[r].finish_reason # None

StreamInv(r) ==
  kind[r] = "stream" =>
    /\ pc[r] \in {"sending", "generating"} => Transcript(r) # << >>
    /\ Transcript(r) # << >> => \E n \in 1..Len(Transcript(r)) : StreamText(r, n)

AllStreams == \A r \in Requests : StreamInv(r)

(* The server takes the first chunk: nothing changes on the whole.         *)
LEMMA MoveHead ==
  ASSUME NEW S, NEW s \in Seq(S), NEW p \in Seq(S), p # << >>
  PROVE  Append(s, Head(p)) \o Tail(p) = s \o p
<1>1. PICK h, q : h = Head(p) /\ q = Tail(p)
  OBVIOUS
<1>2. h \in S /\ q \in Seq(S) /\ Len(q) = Len(p) - 1 /\ \A i \in 1..Len(q) : q[i] = p[i + 1]
  BY <1>1, HeadTailProperties
<1>3. Len(p) \in Nat /\ Len(p) > 0 /\ h = p[1]
  BY <1>1
<1>4. <<h>> \in Seq(S) /\ Len(<<h>>) = 1 /\ <<h>>[1] = h
  BY <1>2
<1>5. <<h>> \o q = p
  <2>1. /\ <<h>> \o q \in Seq(S) /\ Len(<<h>> \o q) = 1 + Len(q)
        /\ \A i \in 1..(1 + Len(q)) : (<<h>> \o q)[i] = IF i <= 1 THEN <<h>>[i] ELSE q[i - 1]
    BY <1>2, <1>4, ConcatProperties
  <2>2. Len(<<h>> \o q) = Len(p)
    BY <1>2, <1>3, <2>1
  <2>3. \A i \in 1..Len(p) : (<<h>> \o q)[i] = p[i]
    <3> TAKE i \in 1..Len(p)
    <3>1. CASE i = 1
      BY <1>2, <1>3, <1>4, <2>1, <3>1
    <3>2. CASE i # 1
      <4>1. i - 1 \in 1..Len(q) /\ i \in 1..(1 + Len(q)) /\ ~(i <= 1)
        BY <1>2, <1>3, <3>2
      <4>2. q[i - 1] = p[(i - 1) + 1] /\ (i - 1) + 1 = i
        BY <1>2, <4>1
      <4>3. QED
        BY <2>1, <4>1, <4>2
    <3>3. QED
      BY <3>1, <3>2
  <2>4. QED
    BY <2>1, <2>2, <2>3, SeqEqual
<1>6. Append(s, h) = s \o <<h>>
  BY <1>2, AppendIsConcat
<1>7. (s \o <<h>>) \o q = s \o (<<h>> \o q)
  BY <1>2, <1>4, ConcatAssociative
<1>8. QED
  BY <1>1, <1>5, <1>6, <1>7

(* A part of what spells a text spells it as far as it goes; and what      *)
(* spells a text spells the beginning of a longer one.                     *)
LEMMA SpellsPart ==
  ASSUME NEW t, NEW u, NEW n \in Nat \ {0}, NEW m \in 1..n, NEW text,
         \A i \in 1..m : u[i] = t[i],
         Spells(t, n, text)
  PROVE  /\ Spells(u, m, text)
         /\ EndsAt(u, m) = EndsAt(t, m)
<1>1. u[1] = Role
  BY DEF Spells
<1>2. \A i \in 2..m : /\ i \in 2..n /\ i \in 1..m /\ i - 1 \in 1..m
                      /\ u[i] = t[i] /\ u[i - 1] = t[i - 1]
  OBVIOUS
<1>3. Spells(u, m, text)
  BY <1>1, <1>2 DEF Spells
<1>4. QED
  BY <1>3 DEF EndsAt

LEMMA SpellsLonger ==
  ASSUME NEW t, NEW n \in Nat \ {0}, NEW text \in Nat, NEW new \in Nat, text <= new,
         \A i \in 1..n : t[i] \in Chunks,
         Spells(t, n, text)
  PROVE  Spells(t, n, new)
<1>1. \A i \in 2..n : t[i].to \in Nat
  BY DEF Chunks
<1>2. \A i \in 2..n : t[i].to <= new
  BY <1>1 DEF Spells
<1>3. QED
  BY <1>2 DEF Spells

(* One more delta.                                                         *)
LEMMA SpellsMore ==
  ASSUME NEW t \in Seq(Chunks), NEW n \in Nat \ {0}, n = Len(t),
         NEW text \in Nat, NEW new \in Nat, text < new,
         Spells(t, n, text), EndsAt(t, n) = text
  PROVE  /\ t \o <<Content(text, new)>> \in Seq(Chunks)
         /\ Len(t \o <<Content(text, new)>>) = n + 1
         /\ Spells(t \o <<Content(text, new)>>, n + 1, new)
         /\ EndsAt(t \o <<Content(text, new)>>, n + 1) = new
<1>1. PICK c, u : c = Content(text, new) /\ u = t \o <<c>>
  OBVIOUS
<1>2. c \in Chunks /\ c.type = "content" /\ c.from = text /\ c.to = new
  BY <1>1 DEF Content, Chunks
<1>3. /\ u \in Seq(Chunks) /\ Len(u) = n + 1
      /\ \A i \in 1..n : u[i] = t[i]
      /\ u[n + 1] = c
  <2>1. <<c>> \in Seq(Chunks) /\ Len(<<c>>) = 1 /\ <<c>>[1] = c
    BY <1>2
  <2>2. /\ u \in Seq(Chunks) /\ Len(u) = n + 1
        /\ \A i \in 1..(n + 1) : u[i] = IF i <= n THEN t[i] ELSE <<c>>[i - n]
    BY <1>1, <2>1, ConcatProperties
  <2>3. QED
    BY <2>1, <2>2
<1>4. Spells(u, n, new) /\ EndsAt(u, n) = text
  <2>1. Spells(u, n, text) /\ EndsAt(u, n) = text
    <3>1. n \in 1..n
      OBVIOUS
    <3>2. QED
      BY <1>3, <3>1, SpellsPart
  <2>2. \A i \in 1..n : u[i] \in Chunks
    BY <1>3
  <2>3. QED
    BY <2>1, <2>2, SpellsLonger
<1>5. Spells(u, n + 1, new)
  <2> SUFFICES ASSUME NEW i \in 2..(n + 1), i \notin 2..n
               PROVE  /\ u[i].type = "content" /\ u[i].from < u[i].to /\ u[i].to <= new
                      /\ u[i].from = IF i = 2 THEN 0 ELSE u[i - 1].to
    BY <1>4 DEF Spells
  <2>1. i = n + 1 /\ i - 1 = n
    OBVIOUS
  <2>2. text = IF i = 2 THEN 0 ELSE u[i - 1].to
    BY <1>4, <2>1 DEF EndsAt
  <2>3. QED
    BY <1>2, <1>3, <2>1, <2>2
<1>6. EndsAt(u, n + 1) = new
  BY <1>2, <1>3 DEF EndsAt
<1>7. QED
  BY <1>1, <1>3, <1>5, <1>6

(* The transcript of a call, and its two parts.                            *)
LEMMA TranscriptType ==
  ASSUME TypeOK, NEW r \in Requests
  PROVE  /\ sent[r] \in Seq(Chunks) /\ pending[r] \in Seq(Chunks)
         /\ Transcript(r) \in Seq(Chunks)
         /\ Len(Transcript(r)) = Len(sent[r]) + Len(pending[r])
         /\ \A i \in 1..Len(sent[r]) : Transcript(r)[i] = sent[r][i]
         /\ pending[r] = << >> => Transcript(r) = sent[r]
<1>1. sent[r] \in Seq(Chunks) /\ pending[r] \in Seq(Chunks)
  BY DEF TypeOK
<1>2. /\ Transcript(r) \in Seq(Chunks)
      /\ Len(Transcript(r)) = Len(sent[r]) + Len(pending[r])
      /\ \A i \in 1..(Len(sent[r]) + Len(pending[r])) :
           Transcript(r)[i] = IF i <= Len(sent[r]) THEN sent[r][i]
                              ELSE pending[r][i - Len(sent[r])]
  BY <1>1, ConcatProperties DEF Transcript
<1>3. Len(sent[r]) \in Nat /\ Len(pending[r]) \in Nat
  BY <1>1
<1>4. \A i \in 1..Len(sent[r]) : Transcript(r)[i] = sent[r][i]
  <2>1. PICK a \in Nat, b \in Nat : a = Len(sent[r]) /\ b = Len(pending[r])
    BY <1>3
  <2>2. \A i \in 1..(a + b) : Transcript(r)[i] = IF i <= a THEN sent[r][i]
                                                ELSE pending[r][i - a]
    BY <1>2, <2>1
  <2>3. \A i \in 1..a : i \in 1..(a + b) /\ i <= a
    OBVIOUS
  <2>4. \A i \in 1..a : Transcript(r)[i] = sent[r][i]
    BY <2>2, <2>3
  <2>5. QED
    BY <2>1, <2>4
<1>5. pending[r] = << >> => Transcript(r) = sent[r]
  BY <1>1, ConcatEmptySeq DEF Transcript
<1>6. QED
  BY <1>1, <1>2, <1>4, <1>5

(* StartStream: the role.                                                  *)
LEMMA RoleStep ==
  ASSUME TypeOK, NEW r \in Requests, Control(r), StartStream(r)
  PROVE  StreamInv(r)'
<1>1. /\ pc[r] = "opened" /\ pending'[r] = <<Role>> /\ pc'[r] = "sending"
      /\ UNCHANGED <<kind, out, prev_text, engine, sent, attempts>>
  BY DEF StartStream, clients, history, TypeOK
<1>2. sent[r] = << >> /\ out[r] = NoOutput /\ prev_text[r] = 0
  BY <1>1 DEF Control
<1>3. Transcript(r)' = <<Role>>
  <2>1. <<Role>> \in Seq(Chunks)
    BY DEF Role, Chunks
  <2>2. QED
    BY <1>1, <1>2, <2>1, ConcatEmptySeq DEF Transcript
<1>4. PICK t : t = <<Role>>
  OBVIOUS
<1>5. t # << >> /\ Len(t) = 1 /\ t[1] = Role
  BY <1>4
<1>6. Spells(t, 1, 0) /\ Closes(t, 1) /\ EndsAt(t, 1) = 0
  BY <1>5 DEF Spells, Closes, EndsAt
<1>7. out'[r].text = 0 /\ out'[r].finish_reason = None /\ prev_text'[r] = 0
  BY <1>1, <1>2 DEF NoOutput
<1>8. StreamText(r, 1)'
  BY <1>3, <1>4, <1>5, <1>6, <1>7 DEF StreamText
<1>9. QED
  BY <1>3, <1>4, <1>5, <1>8 DEF StreamInv

(* Send: the transcript is the same.                                       *)
LEMMA SendStep ==
  ASSUME TypeOK, NEW r \in Requests, Control(r), StreamInv(r), Send(r)
  PROVE  StreamInv(r)'
<1>1. /\ pc[r] = "sending" /\ pending[r] # << >> /\ kind[r] = "stream"
      /\ pending'[r] = Tail(pending[r])
      /\ sent'[r] = Append(sent[r], Head(pending[r]))
      /\ UNCHANGED <<kind, request_id, out, prev_text, rows, attempts>>
      /\ engine[r] = "stopped" => engine'[r] = "stopped"
  BY DEF Send, Control, history, TypeOK
<1>2. Transcript(r)' = Transcript(r)
  BY <1>1, TranscriptType, MoveHead DEF Transcript
<1>3. Transcript(r) # << >>
  BY <1>1 DEF StreamInv
<1>4. PICK n \in 1..Len(Transcript(r)) : StreamText(r, n)
  BY <1>1, <1>3 DEF StreamInv
<1>5. ~Ended(r)
  BY <1>1 DEF Ended
<1>6. IsLogged(r, "ok") => IsLogged(r, "ok")'
  BY <1>1, LoggedSame
<1>7. StreamText(r, n)'
  BY <1>1, <1>2, <1>4, <1>5, <1>6 DEF StreamText
<1>8. QED
  BY <1>2, <1>3, <1>4, <1>7 DEF StreamInv

(* The state of a stream that waits for the engine: all its text is sent.  *)
LEMMA WaitingStream ==
  ASSUME TypeOK, NEW r \in Requests, Control(r), StreamInv(r),
         kind[r] = "stream", Generating(r)
  PROVE  /\ pending[r] = << >> /\ Transcript(r) = sent[r]
         /\ sent[r] \in Seq(Chunks) /\ ~Ended(r)
         /\ \E n \in 1..Len(sent[r]) :
              /\ StreamText(r, n)
              /\ Len(sent[r]) = IF out[r].finish_reason = None THEN n ELSE n + 1
<1>1. pc[r] = "generating" /\ engine[r] = "running" /\ pending[r] = << >> /\ ~Ended(r)
  BY DEF Generating, Control, Ended
<1>2. Transcript(r) = sent[r] /\ sent[r] \in Seq(Chunks)
  BY <1>1, TranscriptType
<1>3. PICK n \in 1..Len(sent[r]) : StreamText(r, n)
  BY <1>1, <1>2 DEF StreamInv
<1>4. Len(sent[r]) \in Nat /\ Len(sent[r]) <= n + 2 /\ Len(sent[r]) # n + 2
      /\ (Len(sent[r]) > n <=> out[r].finish_reason # None)
  BY <1>1, <1>2, <1>3 DEF StreamText, Closes
<1>5. Len(sent[r]) = IF out[r].finish_reason = None THEN n ELSE n + 1
  BY <1>3, <1>4
<1>6. QED
  BY <1>1, <1>2, <1>3, <1>5

(* EndStream: [DONE].                                                      *)
LEMMA DoneStep ==
  ASSUME TypeOK, NEW r \in Requests, Control(r), StreamInv(r), EndStream(r)
  PROVE  StreamInv(r)'
<1>1. /\ kind[r] = "stream" /\ Generating(r) /\ out[r].finish_reason # None
      /\ pending'[r] = <<Done>> /\ engine'[r] = "stopped" /\ pc'[r] = "sending"
      /\ UNCHANGED <<kind, request_id, out, prev_text, sent>>
  BY DEF EndStream, clients, TypeOK
<1>2. PICK n \in 1..Len(sent[r]) : StreamText(r, n) /\ Len(sent[r]) = n + 1
  BY <1>1, WaitingStream
<1>3. PICK t \in Seq(Chunks) : t = sent[r] /\ Transcript(r) = t /\ Len(t) = n + 1
  BY <1>1, <1>2, WaitingStream
<1>4. n \in Nat \ {0}
  BY <1>2, <1>3
<1>5. PICK u : u = t \o <<Done>>
  OBVIOUS
<1>6. /\ u \in Seq(Chunks) /\ Len(u) = n + 2
      /\ \A i \in 1..(n + 1) : u[i] = t[i]
      /\ u[n + 2] = Done
  <2>1. <<Done>> \in Seq(Chunks) /\ Len(<<Done>>) = 1 /\ <<Done>>[1] = Done
    BY DEF Done, Chunks
  <2>2. /\ u \in Seq(Chunks) /\ Len(u) = n + 2
        /\ \A i \in 1..(n + 2) : u[i] = IF i <= n + 1 THEN t[i] ELSE <<Done>>[i - (n + 1)]
    BY <1>3, <1>4, <1>5, <2>1, ConcatProperties
  <2>3. QED
    BY <1>4, <2>1, <2>2
<1>7. Transcript(r)' = u
  BY <1>1, <1>3, <1>5 DEF Transcript
<1>8. /\ Spells(t, n, out[r].text) /\ t[n + 1] = Finish
      /\ prev_text[r] = out[r].text /\ out[r].text = EndsAt(t, n)
  BY <1>1, <1>2, <1>3, <1>4, WaitingStream DEF StreamText, Closes
<1>9. Spells(u, n, out[r].text) /\ EndsAt(u, n) = EndsAt(t, n)
  <2>1. n \in 1..n /\ \A i \in 1..n : u[i] = t[i]
    BY <1>4, <1>6
  <2>2. PICK text : text = out[r].text
    OBVIOUS
  <2>3. Spells(t, n, text)
    BY <1>8, <2>2
  <2>4. Spells(u, n, text) /\ EndsAt(u, n) = EndsAt(t, n)
    BY <1>4, <2>1, <2>3, SpellsPart
  <2>5. QED
    BY <2>2, <2>4
<1>10. Closes(u, n)
  BY <1>4, <1>6, <1>8 DEF Closes
<1>11. IsLogged(r, "ok")'
  <2>1. request_id[r] \in RequestIds /\ attempts[r] = << >>
    BY <1>1 DEF Control, Generating
  <2>2. _log_request(r, "ok") /\ "ok" \in Statuses
    BY DEF EndStream, Statuses
  <2>3. QED
    BY <1>1, <2>1, <2>2, LogsOnce
<1>12. StreamText(r, n)'
  <2>1. Len(u) > n
    BY <1>4, <1>6
  <2>2. QED
    BY <1>1, <1>6, <1>7, <1>8, <1>9, <1>10, <1>11, <2>1 DEF StreamText
<1>13. n \in 1..Len(u) /\ u # << >>
  BY <1>4, <1>6
<1>14. QED
  BY <1>7, <1>12, <1>13 DEF StreamInv

(* StreamOutput: a delta if there is new text, a finish reason if it is    *)
(* the last output.                                                        *)
LEMMA DeltaStep ==
  ASSUME TypeOK, NEW r \in Requests, Control(r), StreamInv(r), StreamOutput(r)
  PROVE  StreamInv(r)'
<1>1. /\ kind[r] = "stream" /\ Generating(r) /\ out[r].finish_reason = None
      /\ UNCHANGED <<kind, engine, sent>>
  BY DEF StreamOutput, clients
<1>2. PICK o \in NextOutputs(r) :
        /\ out'[r] = o /\ prev_text'[r] = o.text
        /\ pending'[r] = NewChunks(r, o)
        /\ pc'[r] \in {"generating", "sending"}
  BY DEF StreamOutput, Remember, TypeOK
<1>3. PICK n \in 1..Len(sent[r]) : StreamText(r, n) /\ Len(sent[r]) = n
  BY <1>1, WaitingStream
<1>4. PICK t \in Seq(Chunks) : t = sent[r] /\ Transcript(r) = t /\ Len(t) = n
  BY <1>1, <1>3, WaitingStream
<1>5. PICK text \in Nat, new \in Nat : text = out[r].text /\ new = o.text /\ text <= new
  <2>1. out[r].text \in Nat /\ o.text \in {out[r].text, out[r].text + 1}
    BY OutputType DEF TypeOK, Outputs
  <2>2. QED
    BY <2>1
<1>6. Spells(t, n, text) /\ EndsAt(t, n) = text /\ prev_text[r] = text
  BY <1>1, <1>3, <1>4, <1>5, WaitingStream DEF StreamText
<1>7. PICK u, d : /\ u = t \o d /\ d = Delta(r, o)
                  /\ d = IF new > text THEN <<Content(text, new)>> ELSE << >>
  BY <1>5, <1>6 DEF Delta
<1>8. PICK m \in Nat \ {0} :
        m = Len(u) /\ u \in Seq(Chunks) /\ Spells(u, m, new) /\ EndsAt(u, m) = new
  <2>1. n \in Nat \ {0} /\ n = Len(t)
    BY <1>3, <1>4
  <2>2. CASE text < new
    <3>1. u = t \o <<Content(text, new)>>
      BY <1>7, <2>2
    <3>2. QED
      BY <1>6, <2>1, <2>2, <3>1, SpellsMore
  <2>3. CASE ~(text < new)
    <3>1. new = text /\ u = t
      BY <1>5, <1>7, <2>3, ConcatEmptySeq
    <3>2. QED
      BY <1>6, <2>1, <3>1
  <2>4. QED
    BY <2>2, <2>3
<1>9. u \in Seq(Chunks) /\ Spells(u, m, new) /\ EndsAt(u, m) = new
  BY <1>8
<1>10. PICK v : v = u \o End(o)
  OBVIOUS
<1>11. Transcript(r)' = v
  <2>1. Delta(r, o) \in Seq(Chunks) /\ End(o) \in Seq(Chunks)
    <3>1. Content(text, new) \in Chunks /\ Finish \in Chunks
      BY DEF Content, Finish, Chunks
    <3>2. d \in Seq(Chunks)
      BY <1>7, <3>1
    <3>3. QED
      BY <1>7, <3>1, <3>2 DEF End
  <2>2. t \o (Delta(r, o) \o End(o)) = (t \o Delta(r, o)) \o End(o)
    BY <2>1, ConcatAssociative
  <2>3. Transcript(r)' = t \o NewChunks(r, o)
    BY <1>1, <1>2, <1>4 DEF Transcript
  <2>4. QED
    BY <1>7, <1>10, <2>2, <2>3 DEF NewChunks
<1>12. ~Ended(r)' /\ out'[r].text = new /\ prev_text'[r] = new
  BY <1>2, <1>5 DEF Ended
<1>13. CASE o.finish_reason = None
  <2>1. v = u
    BY <1>9, <1>10, <1>13, ConcatEmptySeq DEF End
  <2>2. Closes(u, m)
    BY <1>8 DEF Closes
  <2>3. StreamText(r, m)'
    BY <1>2, <1>8, <1>9, <1>11, <1>12, <1>13, <2>1, <2>2 DEF StreamText
  <2>4. m \in 1..Len(u) /\ u # << >>
    BY <1>8
  <2>5. QED
    BY <1>11, <2>1, <2>3, <2>4 DEF StreamInv
<1>14. CASE o.finish_reason # None
  <2>1. /\ Len(v) = m + 1
        /\ \A i \in 1..m : v[i] = u[i]
        /\ v[m + 1] = Finish
    <3>1. <<Finish>> \in Seq(Chunks) /\ Len(<<Finish>>) = 1 /\ <<Finish>>[1] = Finish
      BY DEF Finish, Chunks
    <3>2. v = u \o <<Finish>>
      BY <1>10, <1>14 DEF End
    <3>3. /\ Len(v) = m + 1
          /\ \A i \in 1..(m + 1) : v[i] = IF i <= m THEN u[i] ELSE <<Finish>>[i - m]
      BY <1>8, <1>9, <3>1, <3>2, ConcatProperties
    <3>4. QED
      BY <1>8, <3>1, <3>3
  <2>2. Spells(v, m, new) /\ EndsAt(v, m) = new
    <3>1. m \in 1..m
      BY <1>8
    <3>2. QED
      BY <1>9, <2>1, <3>1, SpellsPart
  <2>3. Closes(v, m)
    BY <1>8, <2>1 DEF Closes
  <2>4. Len(v) > m /\ Len(v) # m + 2
    BY <1>8, <2>1
  <2>5. StreamText(r, m)'
    BY <1>2, <1>11, <1>12, <1>14, <2>2, <2>3, <2>4 DEF StreamText
  <2>6. m \in 1..Len(v) /\ v # << >>
    BY <1>8, <2>1
  <2>7. QED
    BY <1>11, <2>5, <2>6 DEF StreamInv
<1>15. QED
  BY <1>13, <1>14

(* A stream that ends early: what was sent is a part of what was yielded.  *)
LEMMA CutStep ==
  ASSUME TypeOK, NEW r \in Requests, Control(r), StreamInv(r),
         FailStream(r) \/ Disconnect(r)
  PROVE  StreamInv(r)'
<1>1. /\ kind[r] = "stream" /\ Ended(r)' /\ pending'[r] = << >>
      /\ UNCHANGED <<kind, request_id, out, sent, rows, attempts>>
      /\ engine[r] = "stopped" => engine'[r] = "stopped"
  BY DEF FailStream, Disconnect, Generating, Control, Ended, clients, history, TypeOK
<1>2. PICK u \in Seq(Chunks) : u = sent[r]
  BY TranscriptType
<1>3. Transcript(r)' = u
  BY <1>1, <1>2, ConcatEmptySeq DEF Transcript
<1>4. pc'[r] = "ended"
  BY <1>1 DEF Ended
<1> SUFFICES ASSUME u # << >>
             PROVE  \E m \in 1..Len(u) : StreamText(r, m)'
  BY <1>3, <1>4 DEF StreamInv
<1>5. PICK t \in Seq(Chunks) : t = Transcript(r)
  BY TranscriptType
<1>6. Len(u) \in Nat /\ Len(t) \in Nat /\ Len(u) # 0 /\ Len(u) <= Len(t)
      /\ \A i \in 1..Len(u) : u[i] = t[i]
  <2>1. /\ Len(pending[r]) \in Nat /\ Len(u) \in Nat
        /\ Len(t) = Len(u) + Len(pending[r])
    <3>1. pending[r] \in Seq(Chunks) /\ Len(t) = Len(u) + Len(pending[r])
      BY <1>2, <1>5, TranscriptType
    <3>2. QED
      BY <3>1
  <2>2. \A i \in 1..Len(u) : u[i] = t[i]
    BY <1>2, <1>5, TranscriptType
  <2>3. Len(u) # 0
    BY EmptySeq
  <2>4. QED
    BY <2>1, <2>2, <2>3
<1>7. t # << >>
  BY <1>6
<1>8. PICK n \in 1..Len(t) : StreamText(r, n)
  BY <1>1, <1>5, <1>7 DEF StreamInv
<1>9. /\ Spells(t, n, out[r].text) /\ Closes(t, n)
      /\ Len(t) > n => out[r].finish_reason # None
      /\ Len(t) = n + 2 => /\ engine[r] = "stopped" /\ IsLogged(r, "ok")
                           /\ out[r].text = EndsAt(t, n)
  BY <1>5, <1>8 DEF StreamText
<1>10. PICK m \in Nat \ {0} : m = IF n <= Len(u) THEN n ELSE Len(u)
  BY <1>6
<1>11. m \in 1..n /\ m \in 1..Len(u) /\ n \in Nat \ {0}
  BY <1>6, <1>10
<1>12. Spells(u, m, out[r].text) /\ EndsAt(u, m) = EndsAt(t, m)
  <2>1. \A i \in 1..m : u[i] = t[i]
    BY <1>6, <1>11
  <2>2. QED
    BY <1>9, <1>11, <2>1, SpellsPart
<1>13. Len(u) > m => m = n /\ Len(t) > n
  BY <1>6, <1>10, <1>11
<1>14. Len(u) = m + 2 => m = n /\ Len(t) = n + 2
  BY <1>6, <1>9, <1>10, <1>11 DEF Closes
<1>15. Closes(u, m)
  <2>1. Len(u) <= m + 2
    BY <1>6, <1>9, <1>10, <1>11 DEF Closes
  <2>2. Len(u) > m => u[m + 1] = Finish
    BY <1>6, <1>9, <1>11, <1>13 DEF Closes
  <2>3. Len(u) = m + 2 => u[m + 2] = Done
    BY <1>6, <1>9, <1>11, <1>14 DEF Closes
  <2>4. QED
    BY <2>1, <2>2, <2>3 DEF Closes
<1>16. IsLogged(r, "ok") => IsLogged(r, "ok")'
  BY <1>1, LoggedSame
<1>17. StreamText(r, m)'
  BY <1>1, <1>3, <1>9, <1>12, <1>13, <1>14, <1>15, <1>16 DEF StreamText
<1>18. QED
  BY <1>11, <1>17

LEMMA StreamStep ==
  ASSUME TypeOK, AllControl, AllStreams, NEW r \in Requests, Step(r)
  PROVE  AllStreams'
<1>1. Control(r) /\ StreamInv(r)
  BY DEF AllControl, AllStreams
<1>2. ASSUME NEW q \in Requests \ {r}
      PROVE  StreamInv(q)'
  <2>1. Same(q) /\ StreamInv(q) /\ Control(q)
    BY Frame DEF AllStreams, AllControl
  <2>2. Transcript(q)' = Transcript(q)
    BY <2>1 DEF Same, Transcript
  <2>3. kind[q] = "stream" /\ engine[q] = "stopped" /\ IsLogged(q, "ok") =>
          IsLogged(q, "ok")'
    BY <2>1, LoggedStays DEF Control, Kinds, Statuses
  <2>4. kind[q] = "stream" => \A n : StreamText(q, n) => StreamText(q, n)'
    BY <2>1, <2>2, <2>3 DEF Same, StreamText, Ended
  <2>5. QED
    BY <2>1, <2>2, <2>4 DEF Same, StreamInv
<1> SUFFICES StreamInv(r)'
  BY <1>2 DEF AllStreams
<1>3. ASSUME pc[r] = "idle", UNCHANGED <<sent, pending>>,
             pc'[r] \in {"opened", "ended"}
      PROVE  StreamInv(r)'
  <2>1. sent'[r] = << >> /\ pending'[r] = << >>
    BY <1>1, <1>3 DEF Control
  <2>2. Transcript(r)' = << >>
    BY <2>1, ConcatEmptySeq DEF Transcript
  <2>3. QED
    BY <1>3, <2>2 DEF StreamInv
<1>4. ASSUME NEW k \in Kinds, NEW s, EndEarly(r, k, s)
      PROVE  StreamInv(r)'
  BY <1>3, <1>4 DEF EndEarly, TypeOK
<1>5. ASSUME NEW k \in Kinds, Start(r, k)
      PROVE  StreamInv(r)'
  BY <1>5 DEF Start, StreamInv, TypeOK
<1>6. CASE OpenStream(r)
  BY <1>3, <1>6 DEF OpenStream, TypeOK
<1>7. ASSUME Output(r) \/ FinishCall(r) \/ FailCall(r)
      PROVE  StreamInv(r)'
  BY <1>7 DEF Output, FinishCall, FailCall, StreamInv
<1>8. QED
  BY <1>1, <1>4, <1>5, <1>6, <1>7, RoleStep, SendStep, DeltaStep, DoneStep, CutStep
     DEF Step, Refuse, PromptFails

-----------------------------------------------------------------------------
(* What MapThenSumSet computes: the number of the units of its summands.   *)
(* That number satisfies the recursion by which the sum is defined, and,   *)
(* subsets being well-founded, nothing else does.                          *)
Some(s) == CHOOSE x \in s : TRUE
UnitsOf(w, x) == {x} \X (1..w[x])
Units(w, s) == UNION {UnitsOf(w, x) : x \in s}
Sums(g, w, S) ==
  g = [s \in SUBSET S |-> IF s = {} THEN 0 ELSE w[Some(s)] + g[s \ {Some(s)}]]

LEMMA OneSummand ==
  ASSUME NEW w, NEW x, w[x] \in Nat
  PROVE  IsFiniteSet(UnitsOf(w, x)) /\ Cardinality(UnitsOf(w, x)) = w[x]
<1>1. PICK n \in Nat : n = w[x]
  OBVIOUS
<1>2. IsFiniteSet(1..n) /\ Cardinality(1..n) = n
  <2>1. PICK size : size = Cardinality(1..n)
    OBVIOUS
  <2>2. size = (IF 1 > n THEN 0 ELSE n - 1 + 1) /\ IsFiniteSet(1..n)
    BY <2>1, FS_Interval
  <2>3. size = n
    BY <2>2
  <2>4. QED
    BY <2>1, <2>2, <2>3
<1>3. IsFiniteSet({x}) /\ Cardinality({x}) = 1
  BY FS_Singleton
<1>4. IsFiniteSet({x} \X (1..n)) /\ Cardinality({x} \X (1..n)) = Cardinality({x}) * Cardinality(1..n)
  BY <1>2, <1>3, FS_Product
<1>5. Cardinality({x} \X (1..n)) = 1 * n
  BY <1>2, <1>3, <1>4
<1>6. 1 * n = n
  OBVIOUS
<1>7. QED
  BY <1>1, <1>4, <1>5, <1>6 DEF UnitsOf

LEMMA FiniteUnits ==
  ASSUME NEW w, NEW s, IsFiniteSet(s), \A x \in s : w[x] \in Nat
  PROVE  IsFiniteSet(Units(w, s))
<1> DEFINE T == {UnitsOf(w, x) : x \in s}
           f == [x \in s |-> UnitsOf(w, x)]
<1>1. f \in Surjection(s, T)
  BY DEF Surjection
<1>2. IsFiniteSet(T)
  BY <1>1, FS_Surjection
<1>3. \A t \in T : IsFiniteSet(t)
  BY OneSummand
<1> HIDE DEF T
<1>4. IsFiniteSet(UNION T)
  BY <1>2, <1>3, FS_UNION
<1>5. QED
  BY <1>4 DEF T, Units

(* Another summand adds its units.                                         *)
LEMMA AddSummand ==
  ASSUME NEW w, NEW s, IsFiniteSet(s), NEW x, x \notin s,
         \A y \in s \cup {x} : w[y] \in Nat
  PROVE  Cardinality(Units(w, s \cup {x})) = w[x] + Cardinality(Units(w, s))
<1>1. PICK A, B : A = Units(w, s) /\ B = UnitsOf(w, x)
  OBVIOUS
<1>2. /\ IsFiniteSet(A) /\ IsFiniteSet(B) /\ Cardinality(B) = w[x]
      /\ Cardinality(A) \in Nat /\ w[x] \in Nat
  BY <1>1, FiniteUnits, OneSummand, FS_CardinalityType
<1>3. Units(w, s \cup {x}) = A \cup B
  BY <1>1 DEF Units
<1>4. A \cap B = {}
  <2>1. ASSUME NEW p \in A, p \in B
        PROVE  FALSE
    <3>1. PICK y \in s : p \in UnitsOf(w, y)
      BY <1>1 DEF Units
    <3>2. p[1] = y /\ p[1] = x
      BY <1>1, <2>1, <3>1 DEF UnitsOf
    <3>3. QED
      BY <3>2
  <2>2. QED
    BY <2>1
<1>5. Cardinality(A \cup B) = Cardinality(A) + Cardinality(B) - Cardinality(A \cap B)
  BY <1>2, FS_Union
<1>6. Cardinality(A \cap B) = 0
  BY <1>4, FS_EmptySet
<1>7. PICK a \in Nat, b \in Nat : a = Cardinality(A) /\ b = w[x]
  BY <1>2
<1>8. Cardinality(A \cup B) = a + b - 0
  BY <1>2, <1>5, <1>6, <1>7
<1>9. a + b - 0 = b + a
  OBVIOUS
<1>10. QED
  BY <1>1, <1>3, <1>7, <1>8, <1>9

LEMMA NoSummand ==
  ASSUME NEW w PROVE Cardinality(Units(w, {})) = 0
<1>1. Units(w, {}) = {}
  BY DEF Units
<1>2. QED
  BY <1>1, FS_EmptySet

(* The number of units satisfies the recursion.                            *)
UnitCount(w, S) == [s \in SUBSET S |-> Cardinality(Units(w, s))]

LEMMA UnitCountSums ==
  ASSUME NEW S, IsFiniteSet(S), NEW w, \A x \in S : w[x] \in Nat
  PROVE  Sums(UnitCount(w, S), w, S)
<1>1. PICK g : g = UnitCount(w, S)
  OBVIOUS
<1>2. ASSUME NEW s \in SUBSET S
      PROVE  g[s] = IF s = {} THEN 0 ELSE w[Some(s)] + g[s \ {Some(s)}]
  <2>1. CASE s = {}
    BY <1>1, <2>1, NoSummand DEF UnitCount
  <2>2. CASE s # {}
    <3>1. PICK x : x = Some(s)
      OBVIOUS
    <3>2. x \in s
      BY <2>2, <3>1 DEF Some
    <3>3. PICK q \in SUBSET S : q = s \ {x}
      OBVIOUS
    <3>4. s = q \cup {x} /\ x \notin q /\ IsFiniteSet(q)
      BY <3>2, <3>3, FS_Subset
    <3>5. Cardinality(Units(w, s)) = w[x] + Cardinality(Units(w, q))
      BY <3>2, <3>4, AddSummand
    <3>6. QED
      BY <1>1, <2>2, <3>1, <3>3, <3>5 DEF UnitCount
  <2>3. QED
    BY <2>1, <2>2
<1>3. g = [s \in SUBSET S |-> g[s]]
  BY <1>1 DEF UnitCount
<1>4. QED
  BY <1>1, <1>2, <1>3, Zenon DEF Sums

(* Nothing else does: a smallest set on which two solutions differ has a   *)
(* smaller one.                                                            *)
LEMMA SumsUnique ==
  ASSUME NEW S, IsFiniteSet(S), NEW w, NEW g, NEW h, Sums(g, w, S), Sums(h, w, S)
  PROVE  g = h
<1>1. PICK Bad : Bad = {s \in SUBSET S : g[s] # h[s]}
  OBVIOUS
<1>2. CASE Bad = {}
  <2>1. \A s \in SUBSET S : g[s] = h[s]
    BY <1>1, <1>2
  <2>2. g = [s \in SUBSET S |-> g[s]] /\ h = [s \in SUBSET S |-> h[s]]
    BY Zenon DEF Sums
  <2>3. QED
    BY <2>1, <2>2, Zenon
<1>3. CASE Bad # {}
  <2>1. IsWellFoundedOn(StrictSubsetOrdering(S), SUBSET S)
    BY FS_StrictSubsetOrderingWellFounded, FS_FiniteSubsetsOfFinite
  <2>2. PICK s \in Bad : \A q \in Bad : <<q, s>> \notin StrictSubsetOrdering(S)
    BY <1>1, <1>3, <2>1, WFMin
  <2>3. s \in SUBSET S /\ g[s] # h[s]
    BY <1>1
  <2>4. PICK x : x = Some(s)
    OBVIOUS
  <2>5. /\ g[s] = IF s = {} THEN 0 ELSE w[x] + g[s \ {x}]
        /\ h[s] = IF s = {} THEN 0 ELSE w[x] + h[s \ {x}]
    BY <2>3, <2>4, Zenon DEF Sums
  <2>6. s # {}
    BY <2>3, <2>5
  <2>7. x \in s
    BY <2>4, <2>6 DEF Some
  <2>8. s \ {x} \in Bad
    BY <1>1, <2>3, <2>5, <2>6
  <2>9. <<s \ {x}, s>> \in StrictSubsetOrdering(S)
    BY <2>3, <2>7 DEF StrictSubsetOrdering
  <2>10. QED
    BY <2>2, <2>8, <2>9
<1>4. QED
  BY <1>2, <1>3

(* The sums of the usage of the answered calls.                            *)
LEMMA PromptSum ==
  ASSUME NEW S, IsFiniteSet(S), NEW answers, NEW w,
         \A x \in S : w[x] \in Nat /\ w[x] = answers[x].prompt
  PROVE  MapThenSumSet(LAMBDA r : answers[r].prompt, S) = Cardinality(Units(w, S))
<1> DEFINE Step1(g) ==
      [s \in SUBSET S |-> IF s = {} THEN 0
                          ELSE answers[Some(s)].prompt + g[s \ {Some(s)}]]
<1>1. \A g : (g = Step1(g)) <=> Sums(g, w, S)
  <2> SUFFICES ASSUME NEW g
               PROVE  Step1(g) = [s \in SUBSET S |->
                        IF s = {} THEN 0 ELSE w[Some(s)] + g[s \ {Some(s)}]]
    BY Zenon DEF Sums
  <2>1. \A s \in SUBSET S : s # {} => w[Some(s)] = answers[Some(s)].prompt
    BY DEF Some
  <2>2. QED
    BY <2>1
<1>2. PICK u : u = UnitCount(w, S)
  OBVIOUS
<1>3. u = Step1(u) /\ \A g : g = Step1(g) => g = u
  BY <1>1, <1>2, UnitCountSums, SumsUnique
<1>4. MapThenSumSet(LAMBDA r : answers[r].prompt, S) = u[S]
  BY <1>3, Zenon DEF Some, MapThenSumSet, MapThenFoldSet
<1>5. QED
  BY <1>2, <1>4 DEF UnitCount

LEMMA CompletionSum ==
  ASSUME NEW S, IsFiniteSet(S), NEW answers, NEW w,
         \A x \in S : w[x] \in Nat /\ w[x] = answers[x].completion
  PROVE  MapThenSumSet(LAMBDA r : answers[r].completion, S) = Cardinality(Units(w, S))
<1> DEFINE Step1(g) ==
      [s \in SUBSET S |-> IF s = {} THEN 0
                          ELSE answers[Some(s)].completion + g[s \ {Some(s)}]]
<1>1. \A g : (g = Step1(g)) <=> Sums(g, w, S)
  <2> SUFFICES ASSUME NEW g
               PROVE  Step1(g) = [s \in SUBSET S |->
                        IF s = {} THEN 0 ELSE w[Some(s)] + g[s \ {Some(s)}]]
    BY Zenon DEF Sums
  <2>1. \A s \in SUBSET S : s # {} => w[Some(s)] = answers[Some(s)].completion
    BY DEF Some
  <2>2. QED
    BY <2>1
<1>2. PICK u : u = UnitCount(w, S)
  OBVIOUS
<1>3. u = Step1(u) /\ \A g : g = Step1(g) => g = u
  BY <1>1, <1>2, UnitCountSums, SumsUnique
<1>4. MapThenSumSet(LAMBDA r : answers[r].completion, S) = u[S]
  BY <1>3, Zenon DEF Some, MapThenSumSet, MapThenFoldSet
<1>5. QED
  BY <1>2, <1>4 DEF UnitCount

(* The token counters against the usage that was answered.                 *)
PromptUse == [r \in Requests |-> reply[r].prompt]
CompletionUse == [r \in Requests |-> reply[r].completion]

TokensCounted ==
  /\ IsFiniteSet(Replied)
  /\ prompt_tokens = Cardinality(Units(PromptUse, Replied))
  /\ completion_tokens = Cardinality(Units(CompletionUse, Replied))

LEMMA UseType ==
  ASSUME TypeOK
  PROVE  \A r \in Replied : PromptUse[r] \in Nat /\ CompletionUse[r] \in Nat
BY DEF TypeOK, Replied, PromptUse, CompletionUse, Outputs

(* Units depend on the weights of the summands only.                       *)
LEMMA SameUnits ==
  ASSUME NEW S, NEW v, NEW w, \A x \in S : v[x] = w[x]
  PROVE  Units(v, S) = Units(w, S)
BY DEF Units, UnitsOf

LEMMA TokensStep ==
  ASSUME TypeOK, AllControl, TokensCounted, NEW r \in Requests, Step(r)
  PROVE  TokensCounted'
<1> USE DEF clients, series, history
<1>1. ASSUME UNCHANGED <<reply, prompt_tokens, completion_tokens>>
      PROVE  TokensCounted'
  BY <1>1 DEF TokensCounted, Replied, PromptUse, CompletionUse
<1>2. CASE FinishCall(r)
  <2>1. /\ reply' = [reply EXCEPT ![r] = out[r]]
        /\ prompt_tokens' = prompt_tokens + out[r].prompt
        /\ completion_tokens' = completion_tokens + out[r].completion
    BY <1>2 DEF FinishCall, CountTokens, Answer
  <2>2. reply[r] = None /\ out[r] # None /\ out[r].prompt \in Nat /\ out[r].completion \in Nat
    <3>1. out[r] \in Outputs
      BY DEF TypeOK
    <3>2. reply[r] = None
      BY <1>2 DEF FinishCall, Generating, AllControl, Control
    <3>3. QED
      BY <3>1, <3>2, NoneAssumption DEF Outputs
  <2>3. PICK S, T : S = Replied /\ T = Replied'
    OBVIOUS
  <2>4. T = S \cup {r} /\ r \notin S /\ IsFiniteSet(S) /\ IsFiniteSet(T)
    <3>1. reply'[r] = out[r] /\ \A q \in Requests \ {r} : reply'[q] = reply[q]
      BY <2>1 DEF TypeOK
    <3>2. T = S \cup {r} /\ r \notin S
      BY <2>2, <2>3, <3>1 DEF Replied
    <3>3. QED
      BY <2>3, <3>2, FS_AddElement DEF TokensCounted
  <2>5. PICK p, c, v, w : /\ p = PromptUse /\ c = CompletionUse
                         /\ v = PromptUse' /\ w = CompletionUse'
    OBVIOUS
  <2>6. /\ v[r] = out[r].prompt /\ w[r] = out[r].completion
        /\ \A q \in S : v[q] = p[q] /\ w[q] = c[q]
        /\ \A q \in S \cup {r} : v[q] \in Nat /\ w[q] \in Nat
    <3>1. /\ v[r] = out[r].prompt /\ w[r] = out[r].completion
          /\ \A q \in S : v[q] = p[q] /\ w[q] = c[q]
      BY <2>1, <2>3, <2>4, <2>5 DEF TypeOK, Replied, PromptUse, CompletionUse
    <3>2. \A q \in S : p[q] \in Nat /\ c[q] \in Nat
      BY <2>3, <2>5, UseType
    <3>3. QED
      BY <2>2, <3>1, <3>2
  <2>7. /\ Cardinality(Units(v, T)) = out[r].prompt + Cardinality(Units(p, S))
        /\ Cardinality(Units(w, T)) = out[r].completion + Cardinality(Units(c, S))
    <3>1. Units(v, S) = Units(p, S) /\ Units(w, S) = Units(c, S)
      BY <2>6, SameUnits
    <3>2. Cardinality(Units(v, S \cup {r})) = v[r] + Cardinality(Units(v, S))
      BY <2>4, <2>6, AddSummand
    <3>3. Cardinality(Units(w, S \cup {r})) = w[r] + Cardinality(Units(w, S))
      BY <2>4, <2>6, AddSummand
    <3>4. QED
      BY <2>4, <2>6, <3>1, <3>2, <3>3
  <2>8. /\ prompt_tokens = Cardinality(Units(p, S)) /\ prompt_tokens \in Nat
        /\ completion_tokens = Cardinality(Units(c, S)) /\ completion_tokens \in Nat
    BY <2>3, <2>5 DEF TokensCounted, TypeOK
  <2>9. PICK a \in Nat, b \in Nat, m \in Nat, n \in Nat :
          /\ a = prompt_tokens /\ b = completion_tokens
          /\ m = out[r].prompt /\ n = out[r].completion
    BY <2>2, <2>8
  <2>10. prompt_tokens' = m + a /\ completion_tokens' = n + b
    BY <2>1, <2>9
  <2>11. /\ prompt_tokens' = Cardinality(Units(v, T))
         /\ completion_tokens' = Cardinality(Units(w, T))
    BY <2>7, <2>8, <2>9, <2>10
  <2>12. QED
    BY <2>3, <2>4, <2>5, <2>11 DEF TokensCounted
<1>3. ASSUME NEW k \in Kinds, Refuse(r, k) \/ PromptFails(r, k) \/ Start(r, k)
      PROVE  TokensCounted'
  <2>1. CASE Refuse(r, k)
    BY <1>1, <2>1 DEF Refuse, EndEarly
  <2>2. CASE PromptFails(r, k)
    BY <1>1, <2>2 DEF PromptFails, EndEarly
  <2>3. CASE Start(r, k)
    BY <1>1, <2>3 DEF Start
  <2>4. QED
    BY <1>3, <2>1, <2>2, <2>3
<1>4. CASE OpenStream(r) \/ StartStream(r) \/ Send(r) \/ Output(r)
  BY <1>1, <1>4 DEF OpenStream, StartStream, Send, Output
<1>5. CASE FailCall(r)
  BY <1>1, <1>5 DEF FailCall
<1>6. CASE StreamOutput(r) \/ EndStream(r) \/ FailStream(r) \/ Disconnect(r)
  BY <1>1, <1>6 DEF StreamOutput, EndStream, FailStream, Disconnect
<1>7. QED
  BY <1>2, <1>3, <1>4, <1>5, <1>6 DEF Step

(* Only calls that are not streams, and were finished by the engine, are   *)
(* answered with a completion.                                             *)
AnswersEnd ==
  \A r \in Replied : r \in Calls /\ Ended(r) /\ engine[r] = "stopped"

LEMMA AnswersStep ==
  ASSUME TypeOK, AllControl, AnswersEnd, NEW r \in Requests, Step(r)
  PROVE  AnswersEnd'
<1> USE DEF clients, series, history
<1>1. ASSUME NEW q \in Requests \ {r}, q \in Replied'
      PROVE  (q \in Calls /\ Ended(q) /\ engine[q] = "stopped")'
  <2>1. Same(q)
    BY Frame
  <2>2. q \in Replied
    BY <1>1, <2>1 DEF Same, Replied
  <2>3. QED
    BY <2>1, <2>2 DEF AnswersEnd, Same, Calls, Ended
<1>2. pc[r] # "ended"
  BY Zenon DEF Step, Refuse, PromptFails, EndEarly, Start, OpenStream, StartStream, Send,
         Output, FinishCall, FailCall, StreamOutput, EndStream, FailStream, Disconnect,
         Generating
<1>3. r \notin Replied
  BY <1>2 DEF AnswersEnd, Ended
<1>4. CASE FinishCall(r)
  <2>1. Control(r) /\ pc[r] = "generating" /\ kind[r] # "stream"
    BY <1>4 DEF AllControl, FinishCall, Generating
  <2>2. kind[r] \in Kinds
    BY <2>1, KindOf
  <2>3. kind' = kind /\ pc'[r] = "ended" /\ engine'[r] = "stopped"
    BY <1>4 DEF FinishCall, TypeOK
  <2>4. (r \in Calls /\ Ended(r) /\ engine[r] = "stopped")'
    BY <2>1, <2>2, <2>3 DEF Calls, Ended, Kinds
  <2>5. QED
    BY <1>1, <2>4 DEF AnswersEnd, Replied
<1>5. ASSUME ~FinishCall(r)
      PROVE  reply' = reply
  BY <1>5, Zenon DEF Step, Refuse, PromptFails, EndEarly, Start, OpenStream, StartStream,
         Send, Output, FailCall, StreamOutput, EndStream, FailStream, Disconnect
<1>6. CASE ~FinishCall(r)
  <2>1. r \notin Replied'
    BY <1>3, <1>5, <1>6 DEF Replied
  <2>2. QED
    BY <1>1, <2>1 DEF AnswersEnd, Replied
<1>7. QED
  BY <1>4, <1>6

(* The usage of the last outputs.                                          *)
PromptOut == [r \in Requests |-> out[r].prompt]
CompletionOut == [r \in Requests |-> out[r].completion]

(* What was answered is the last output, of a call that completed.         *)
LEMMA RepliedCompleted ==
  ASSUME TypeOK, AllAnswered, AnswersEnd, NEW r \in Replied
  PROVE  r \in Completed /\ reply[r] = out[r]
<1>1. r \in Requests /\ r \in Calls /\ Ended(r) /\ engine[r] = "stopped"
  BY DEF AnswersEnd, Replied
<1>2. reply[r] = out[r] /\ IsLogged(r, "ok")
  BY <1>1 DEF AllAnswered, Answered
<1>3. attempts[r] \in Seq([status : Statuses, kept : BOOLEAN])
  BY <1>1 DEF TypeOK
<1>4. 1 \in DOMAIN attempts[r] /\ attempts[r][1].status = "ok"
  BY <1>2, <1>3 DEF IsLogged
<1>5. QED
  BY <1>1, <1>2, <1>4 DEF Completed

(* More summands, no smaller a sum.                                        *)
LEMMA MoreSummands ==
  ASSUME NEW S, IsFiniteSet(S), NEW T \in SUBSET S, NEW w, \A x \in S : w[x] \in Nat
  PROVE  Cardinality(Units(w, T)) <= Cardinality(Units(w, S))
<1>1. Units(w, T) \in SUBSET Units(w, S)
  BY DEF Units
<1>2. QED
  BY <1>1, FiniteUnits, FS_Subset

(* The counters are the sums over what was answered, and so no more than   *)
(* those over what completed.                                              *)
LEMMA CountersAreSums ==
  ASSUME TypeOK, AllAnswered, AnswersEnd, TokensCounted, Sizes
  PROVE  TokensMatchUsage
<1>1. IsFiniteSet(Replied) /\ IsFiniteSet(Completed) /\ Replied \in SUBSET Completed
  BY RepliedCompleted DEF TokensCounted, Sizes
<1>2. \A x \in Completed : /\ PromptOut[x] \in Nat /\ PromptOut[x] = out[x].prompt
                           /\ CompletionOut[x] \in Nat
                           /\ CompletionOut[x] = out[x].completion
  BY DEF TypeOK, Completed, PromptOut, CompletionOut, Outputs
<1>3. \A x \in Replied : /\ PromptOut[x] \in Nat /\ PromptOut[x] = out[x].prompt
                         /\ CompletionOut[x] \in Nat
                         /\ CompletionOut[x] = out[x].completion
  BY <1>1, <1>2
<1>4. /\ PromptsOf(Replied) = Cardinality(Units(PromptOut, Replied))
      /\ PromptsOf(Completed) = Cardinality(Units(PromptOut, Completed))
  BY <1>1, <1>2, <1>3, PromptSum DEF PromptsOf
<1>5. /\ CompletionsOf(Replied) = Cardinality(Units(CompletionOut, Replied))
      /\ CompletionsOf(Completed) = Cardinality(Units(CompletionOut, Completed))
  BY <1>1, <1>2, <1>3, CompletionSum DEF CompletionsOf
<1>6. \A x \in Replied : PromptUse[x] = PromptOut[x] /\ CompletionUse[x] = CompletionOut[x]
  BY RepliedCompleted DEF Replied, PromptUse, PromptOut, CompletionUse, CompletionOut
<1>7. /\ prompt_tokens = Cardinality(Units(PromptOut, Replied))
      /\ completion_tokens = Cardinality(Units(CompletionOut, Replied))
  BY <1>6, SameUnits DEF TokensCounted
<1>8. /\ Cardinality(Units(PromptOut, Replied)) <= Cardinality(Units(PromptOut, Completed))
      /\ Cardinality(Units(CompletionOut, Replied))
           <= Cardinality(Units(CompletionOut, Completed))
  BY <1>1, <1>2, MoreSummands
<1>9. prompt_tokens \in Nat /\ completion_tokens \in Nat
  BY DEF TypeOK
<1>10. QED
  BY <1>4, <1>5, <1>7, <1>8, <1>9 DEF TokensMatchUsage

-----------------------------------------------------------------------------
(* The inductive invariant.                                                *)
CompletionsInv ==
  TypeOK /\ AllControl /\ Gauge /\ Sizes /\ HistoryCounted /\ HttpCounted
  /\ AllAnswered /\ AnswersEnd /\ AllStreams /\ TokensCounted

LEMMA CompletionsInit == Init => CompletionsInv
<1> SUFFICES ASSUME Init PROVE CompletionsInv
  OBVIOUS
<1>1. None \notin Kinds
  BY NoneAssumption
<1>2. TypeOK
  BY DEF Init, TypeOK, NoOutput, Outputs
<1>3. \A r \in Requests : kind[r] = None /\ pc[r] = "idle"
  BY DEF Init
<1>4. Waiting = {} /\ Opened = {} /\ Failed = {}
  BY <1>1, <1>3 DEF Waiting, Opened, Failed, Streams, Calls, Kinds
<1>5. Gauge
  BY <1>4, FS_EmptySet DEF Init, Gauge
<1>6. HttpCounted
  BY <1>4, FS_EmptySet DEF Init, HttpCounted, Responses, Endpoints, Kinds, Endpoint,
                           Statuses
<1>7. HistoryCounted
  <2> SUFFICES ASSUME NEW e \in Endpoints, NEW s \in Statuses
               PROVE  HistoryCount(e, s)
    BY DEF HistoryCounted
  <2>1. Kept(e, s) = {}
    BY DEF Init, Kept
  <2>2. \A q \in Requests : attempts[q] = << >>
    BY DEF Init
  <2>3. Lost(e, s) = {}
    BY <2>2, LostBy, NothingLost
  <2>4. inference[e][s] = 0
    BY DEF Init
  <2>5. QED
    BY <2>1, <2>3, <2>4, FS_EmptySet DEF HistoryCount
<1>8. AllAnswered
  BY <1>1, <1>3 DEF AllAnswered, Answered, Ended
<1>9. AllStreams
  BY <1>1, <1>3 DEF AllStreams, StreamInv, Kinds
<1>10. TokensCounted
  <2>1. Replied = {}
    BY DEF Init, Replied
  <2>2. QED
    BY <2>1, NoSummand, FS_EmptySet DEF Init, TokensCounted
<1>11. Sizes
  <2>1. UnderWay = {}
    BY <1>3 DEF UnderWay
  <2>2. \A q \in Requests : attempts[q] = << >>
    BY DEF Init
  <2>3. Completed = {}
    BY <2>2 DEF Completed
  <2>4. QED
    BY <2>1, <2>3, FS_EmptySet DEF Sizes
<1>12. AnswersEnd
  BY DEF Init, AnswersEnd, Replied
<1>13. QED
  BY <1>2, <1>5, <1>6, <1>7, <1>8, <1>9, <1>10, <1>11, <1>12, ControlInit DEF CompletionsInv

LEMMA CompletionsStep == CompletionsInv /\ [Next]_vars => CompletionsInv'
<1> SUFFICES ASSUME CompletionsInv, [Next]_vars PROVE CompletionsInv'
  OBVIOUS
<1> USE DEF CompletionsInv
<1>1. ASSUME NEW r \in Requests, Step(r)
      PROVE  CompletionsInv'
  <2>1. AllControl' /\ Gauge' /\ inflight' \in Nat
    BY <1>1, ControlStep, GaugeStep
  <2>2. TypeOK'
    BY <1>1, <2>1, TypeStep
  <2>3. /\ Sizes' /\ HistoryCounted' /\ HttpCounted' /\ AllAnswered' /\ AllStreams'
        /\ AnswersEnd' /\ TokensCounted'
    BY <1>1, SizesStep, HistoryStep, HttpStep, LoggedStep, AnswersStep, StreamStep,
       TokensStep
  <2>4. QED
    BY <2>1, <2>2, <2>3
<1>2. CASE UNCHANGED vars
  <2> USE <1>2 DEF vars, handlers, clients, series, history
  <2>1. TypeOK'
    BY DEF TypeOK
  <2>2. AllControl'
    BY DEF AllControl, Control
  <2>3. Waiting' = Waiting /\ Opened' = Opened /\ Failed' = Failed
    BY DEF Waiting, Opened, Failed, Streams, Calls
  <2>4. Gauge' /\ HttpCounted'
    BY <2>3 DEF Gauge, HttpCounted
  <2>5. HistoryCounted'
    BY HistorySame
  <2>6. \A r \in Requests : \A s : IsLogged(r, s)' <=> IsLogged(r, s)
    BY DEF IsLogged, RowOf, Endpoint
  <2>7. AllAnswered'
    BY <2>6 DEF AllAnswered, Answered, Calls, Ended
  <2>8. AllStreams'
    <3>1. \A r \in Requests : Transcript(r)' = Transcript(r)
      BY DEF Transcript
    <3>2. \A r \in Requests : \A n : StreamText(r, n) => StreamText(r, n)'
      BY <2>6, <3>1 DEF StreamText, Ended
    <3>3. QED
      BY <3>1, <3>2 DEF AllStreams, StreamInv
  <2>9. TokensCounted'
    BY DEF TokensCounted, Replied, PromptUse, CompletionUse
  <2>10. Sizes' /\ AnswersEnd'
    BY DEF Sizes, UnderWay, Completed, AnswersEnd, Replied, Calls, Ended
  <2>11. QED
    BY <2>1, <2>2, <2>4, <2>5, <2>7, <2>8, <2>9, <2>10
<1>3. Next => \E r \in Requests : Step(r)
  BY DEF Next, Step
<1>4. QED
  BY <1>1, <1>2, <1>3

LEMMA CompletionsInvariant == Spec => []CompletionsInv
BY CompletionsInit, CompletionsStep, PTL DEF Spec

(* The state of every call, the series and the history are well typed:     *)
(* the gauge is never negative.                                            *)
THEOREM CompletionsTypeCorrect == Spec => []TypeOK
BY CompletionsInvariant, PTL DEF CompletionsInv

(* The gauge has every call that waits for the engine and none that has    *)
(* ended, for any number of calls and however they end.                    *)
THEOREM GaugeIsBounded == Spec => []GaugeFollowsRequests
<1>1. CompletionsInv => GaugeFollowsRequests
  <2> SUFFICES ASSUME CompletionsInv PROVE GaugeFollowsRequests
    OBVIOUS
  <2>1. inflight = Cardinality(Waiting) /\ IsFiniteSet(UnderWay) /\ inflight \in Nat
    BY DEF CompletionsInv, Gauge, Sizes, TypeOK
  <2>2. Waiting \in SUBSET UnderWay
    BY DEF Waiting, UnderWay, Calls
  <2>3. QED
    BY <2>1, <2>2, FS_Subset DEF GaugeFollowsRequests
<1>2. QED
  BY <1>1, CompletionsInvariant, PTL

(* For each endpoint and status, what was counted is what is in the        *)
(* history and what was lost, also when ids collide and commits fail.      *)
THEOREM HistoryIsComplete == Spec => []CountersMatchHistory
<1>1. CompletionsInv => CountersMatchHistory
  BY DEF CompletionsInv, HistoryCounted, HistoryCount, CountersMatchHistory
<1>2. QED
  BY <1>1, CompletionsInvariant, PTL

(* Every 200 is an opened stream or a call counted as "ok", every call     *)
(* counted as "error" got a 500, and no 500 is counted as a response.      *)
THEOREM HttpSeriesAgree == Spec => []HttpMatchesInference
<1>1. CompletionsInv => HttpMatchesInference
  BY DEF CompletionsInv, HttpCounted, Opened, Failed, HttpMatchesInference
<1>2. QED
  BY <1>1, CompletionsInvariant, PTL

(* A call the engine finished or failed is answered as it was logged, once,*)
(* and no other request ever touches its row.                              *)
THEOREM CallsAreLogged == Spec => []AnswersAreLogged
<1>1. CompletionsInv => AnswersAreLogged
  BY DEF CompletionsInv, AllAnswered, Answered, IsLogged, RowOf, AnswersAreLogged, Calls
<1>2. QED
  BY <1>1, CompletionsInvariant, PTL

(* The token counters have the usage of every answered call and no more    *)
(* than that of the requests that completed, for any number of calls and   *)
(* tokens.                                                                 *)
THEOREM TokensAreUsage == Spec => []TokensMatchUsage
<1>1. CompletionsInv => TokensMatchUsage
  BY CountersAreSums DEF CompletionsInv
<1>2. QED
  BY <1>1, CompletionsInvariant, PTL

-----------------------------------------------------------------------------
(* What a transcript is, from what it spells.                              *)
LEMMA TranscriptParts ==
  ASSUME NEW t \in Seq(Chunks), NEW n \in 1..Len(t), NEW text,
         Spells(t, n, text), Closes(t, n)
  PROVE  /\ n \in Nat \ {0} /\ Len(t) \in Nat /\ DOMAIN t = 1..Len(t)
         /\ \A i \in 1..Len(t) : /\ i = 1 => t[i] = Role
                                 /\ i \in 2..n => t[i].type = "content"
                                 /\ i = n + 1 => t[i] = Finish
                                 /\ i = n + 2 => t[i] = Done
                                 /\ i = 1 \/ i \in 2..n \/ i = n + 1 \/ i = n + 2
<1>1. n \in Nat \ {0} /\ Len(t) \in Nat /\ DOMAIN t = 1..Len(t) /\ Len(t) <= n + 2
  BY DEF Closes
<1>2. ASSUME NEW i \in 1..Len(t)
      PROVE  /\ i = 1 => t[i] = Role
             /\ i \in 2..n => t[i].type = "content"
             /\ i = n + 1 => t[i] = Finish
             /\ i = n + 2 => t[i] = Done
             /\ i = 1 \/ i \in 2..n \/ i = n + 1 \/ i = n + 2
  <2> PICK len \in Nat : len = Len(t)
    BY <1>1
  <2>i. i \in 1..len /\ len <= n + 2 /\ n \in Nat \ {0}
    BY <1>1
  <2>1. i = n + 1 => len > n
    BY <2>i
  <2>2. i = n + 2 => len = n + 2
    BY <2>i
  <2>3. i = 1 \/ i \in 2..n \/ i = n + 1 \/ i = n + 2
    BY <2>i
  <2>4. QED
    BY <2>1, <2>2, <2>3 DEF Spells, Closes
<1>3. QED
  BY <1>1, <1>2

(* The types of the chunks tell them apart.                                *)
LEMMA ChunkTypes ==
  /\ Role.type = "role" /\ Finish.type = "finish" /\ Done.type = "done"
  /\ Role # Finish /\ Role # Done /\ Finish # Done
BY DEF Role, Finish, Done

(* The deltas of every stream join and spell what was sent, between the    *)
(* role and the finish reason, whichever output brings which text.         *)
THEOREM StreamsSpellText == Spec => []DeltasSpellText
<1>1. CompletionsInv => DeltasSpellText
  <2> SUFFICES ASSUME CompletionsInv, NEW r \in Streams
               PROVE
        LET t == Transcript(r)
            Texts == {i \in DOMAIN t : t[i].type = "content"}
        IN  /\ \A i \in DOMAIN t : (i = 1) <=> (t[i] = Role)
            /\ \A i \in Texts : t[i].from < t[i].to /\ t[i].from =
                 IF i - 1 \in Texts THEN t[i - 1].to ELSE 0
            /\ \A i \in DOMAIN t : t[i] = Finish =>
                 \A j \in Texts : j < i /\ t[j].to <= out[r].text
            /\ Ended(r) \/ out[r].text = 0 \/ \E i \in Texts : t[i].to = out[r].text
            /\ \A i \in DOMAIN t : t[i] = Done =>
                 i = Len(t) /\ t[i - 1] = Finish
    BY DEF DeltasSpellText
  <2>1. /\ r \in Requests /\ kind[r] = "stream" /\ StreamInv(r) /\ Control(r) /\ TypeOK
    BY DEF Streams, CompletionsInv, AllStreams, AllControl
  <2>2. PICK t \in Seq(Chunks) : t = Transcript(r)
    BY <2>1, TranscriptType
  <2>3. PICK T : T = {i \in DOMAIN t : t[i].type = "content"}
    OBVIOUS
  <2>4. CASE t = << >>
    <3>1. DOMAIN t = {} /\ T = {}
      BY <2>3, <2>4
    <3>2. Ended(r) \/ out[r].text = 0
      <4>1. pc[r] \notin {"sending", "generating"} /\ pc[r] # "idle"
        BY <2>1, <2>2, <2>4, NoneAssumption DEF StreamInv, Control, Kinds
      <4>2. pc[r] = "opened" \/ pc[r] = "ended"
        BY <2>1, <4>1 DEF TypeOK
      <4>3. QED
        BY <2>1, <4>2 DEF Control, NoOutput, Ended
    <3>3. QED
      BY <2>2, <2>3, <3>1, <3>2
  <2>5. CASE t # << >>
    <3>1. PICK n \in 1..Len(t) : StreamText(r, n)
      BY <2>1, <2>2, <2>5 DEF StreamInv
    <3>2. /\ Spells(t, n, out[r].text) /\ Closes(t, n)
          /\ ~Ended(r) => out[r].text = EndsAt(t, n)
      BY <2>2, <3>1 DEF StreamText
    <3>3. /\ n \in Nat \ {0} /\ Len(t) \in Nat /\ DOMAIN t = 1..Len(t) /\ n <= Len(t)
          /\ \A i \in 1..Len(t) : /\ i = 1 => t[i] = Role
                                  /\ i \in 2..n => t[i].type = "content"
                                  /\ i = n + 1 => t[i] = Finish
                                  /\ i = n + 2 => t[i] = Done
                                  /\ i = 1 \/ i \in 2..n \/ i = n + 1 \/ i = n + 2
      BY <3>2, TranscriptParts
    <3>4. T = 2..n
      <4>1. ASSUME NEW i \in 1..Len(t)
            PROVE  t[i].type = "content" <=> i \in 2..n
        BY <3>3, <4>1, ChunkTypes
      <4>2. \A i \in 2..n : i \in 1..Len(t)
        BY <3>3
      <4>3. QED
        BY <2>3, <3>3, <4>1, <4>2
    <3>5. \A i \in DOMAIN t : (i = 1) <=> (t[i] = Role)
      BY <3>3, ChunkTypes
    <3>6. \A i \in T : /\ t[i].from < t[i].to
                       /\ t[i].from = IF i - 1 \in T THEN t[i - 1].to ELSE 0
      <4> SUFFICES ASSUME NEW i \in 2..n
                   PROVE  /\ t[i].from < t[i].to
                          /\ t[i].from = IF i - 1 \in 2..n THEN t[i - 1].to ELSE 0
        BY <3>4
      <4>1. i - 1 \in 2..n <=> i # 2
        BY <3>3
      <4>2. QED
        BY <3>2, <4>1 DEF Spells
    <3>7. \A i \in DOMAIN t : t[i] = Finish => \A j \in T : j < i /\ t[j].to <= out[r].text
      <4> SUFFICES ASSUME NEW i \in 1..Len(t), t[i] = Finish, NEW j \in 2..n
                   PROVE  j < i /\ t[j].to <= out[r].text
        BY <3>3, <3>4
      <4>1. i = n + 1
        BY <3>3, ChunkTypes
      <4>2. QED
        BY <3>2, <3>3, <4>1 DEF Spells
    <3>8. Ended(r) \/ out[r].text = 0 \/ \E i \in T : t[i].to = out[r].text
      <4>1. n # 1 => n \in T
        BY <3>3, <3>4
      <4>2. QED
        BY <3>2, <4>1 DEF EndsAt
    <3>9. \A i \in DOMAIN t : t[i] = Done => i = Len(t) /\ t[i - 1] = Finish
      <4> SUFFICES ASSUME NEW i \in 1..Len(t), t[i] = Done
                   PROVE  i = Len(t) /\ t[i - 1] = Finish
        BY <3>3
      <4>1. i = n + 2
        BY <3>3, ChunkTypes
      <4> PICK len \in Nat : len = Len(t)
        BY <3>3
      <4>i. i \in 1..len /\ len <= n + 2
        BY <3>2 DEF Closes
      <4>2. i = len /\ i - 1 = n + 1 /\ len > n
        BY <3>3, <4>1, <4>i
      <4>3. QED
        BY <3>2, <4>2 DEF Closes
    <3>10. QED
      BY <2>2, <2>3, <3>5, <3>6, <3>7, <3>8, <3>9
  <2>6. QED
    BY <2>4, <2>5
<1>2. QED
  BY <1>1, CompletionsInvariant, PTL

(* A set of numbers has a smallest one.                                    *)
LEMMA Smallest ==
  ASSUME NEW n \in Nat, NEW P \in SUBSET (1..n), P # {}
  PROVE  \E i \in P : \A j \in P : i <= j
<1>1. PICK S, X : S = 1..n /\ X = {1..i : i \in P}
  OBVIOUS
<1>2. IsFiniteSet(S)
  BY <1>1, FS_Interval
<1>3. X \subseteq SUBSET S /\ X # {}
  <2>1. \A i \in P : 1..i \subseteq S
    BY <1>1
  <2>2. QED
    BY <1>1, <2>1
<1>4. PICK s \in X : \A q \in X : <<q, s>> \notin StrictSubsetOrdering(S)
  BY <1>2, <1>3, FS_StrictSubsetOrderingWellFounded, FS_FiniteSubsetsOfFinite, WFMin
<1>5. PICK i \in P : s = 1..i
  BY <1>1
<1>6. ASSUME NEW j \in P, j < i
      PROVE  FALSE
  <2>1. PICK q : q = 1..j
    OBVIOUS
  <2>2. q \subseteq s /\ i \in s /\ i \notin q
    BY <1>5, <1>6, <2>1
  <2>3. q \in X /\ q \in SUBSET S /\ s \in SUBSET S /\ q # s
    BY <1>1, <1>3, <2>1, <2>2
  <2>4. <<q, s>> \in StrictSubsetOrdering(S)
    BY <2>2, <2>3 DEF StrictSubsetOrdering
  <2>5. QED
    BY <1>4, <2>3, <2>4
<1>7. QED
  BY <1>6

(* The deltas that join and end where the text ends leave nothing out.     *)
LEMMA DeltasCover ==
  ASSUME NEW t \in Seq(Chunks), NEW n \in 1..Len(t), NEW text \in Nat,
         Spells(t, n, text), text = EndsAt(t, n), NEW x \in 1..text
  PROVE  \E i \in 2..n : t[i].type = "content" /\ t[i].from < x /\ x <= t[i].to
<1>1. n \in Nat /\ n # 1 /\ n \in 2..n /\ t[n].to = text
  BY DEF EndsAt
<1>2. \A i \in 2..n : t[i].to \in Nat /\ t[i].from \in Nat
  <2>1. \A i \in 2..n : t[i] \in Chunks
    BY <1>1
  <2>2. QED
    BY <2>1 DEF Chunks
<1>3. PICK P : P = {i \in 2..n : x <= t[i].to}
  OBVIOUS
<1>4. n \in P /\ P \in SUBSET (1..n)
  BY <1>1, <1>3
<1>5. PICK i \in P : \A j \in P : i <= j
  BY <1>1, <1>4, Smallest
<1>6. i \in 2..n /\ x <= t[i].to
  BY <1>3
<1>7. /\ t[i].type = "content"
      /\ t[i].from = IF i = 2 THEN 0 ELSE t[i - 1].to
  BY <1>6 DEF Spells
<1>8. t[i].from < x
  <2>1. CASE i = 2
    BY <1>7, <2>1
  <2>2. CASE i # 2
    <3>1. i - 1 \in 2..n /\ ~(i <= i - 1)
      BY <1>1, <1>6, <2>2
    <3>2. i - 1 \notin P
      BY <1>5, <3>1
    <3>3. ~(x <= t[i - 1].to) /\ t[i - 1].to \in Nat
      BY <1>2, <1>3, <3>1, <3>2
    <3>4. QED
      BY <1>7, <2>2, <3>3
  <2>3. QED
    BY <2>1, <2>2
<1>9. QED
  BY <1>6, <1>7, <1>8

(* A client that has seen [DONE] has every character of the text and one   *)
(* finish reason, and its request is in the history as "ok" with the       *)
(* engine's usage, unless its own row was lost.                            *)
THEOREM DoneIsTheEnd == Spec => []DoneMeansComplete
<1>1. CompletionsInv => DoneMeansComplete
  <2> SUFFICES ASSUME CompletionsInv, NEW r \in Streams,
                      NEW d \in DOMAIN sent[r], sent[r][d] = Done
               PROVE  /\ out[r].finish_reason # None
                      /\ Cardinality({i \in DOMAIN sent[r] : sent[r][i] = Finish}) = 1
                      /\ \A x \in 1..out[r].text : \E i \in DOMAIN sent[r] :
                           /\ sent[r][i].type = "content"
                           /\ sent[r][i].from < x /\ x <= sent[r][i].to
                      /\ IsLogged(r, "ok")
    BY DEF DoneMeansComplete, IsLogged, RowOf
  <2>1. /\ r \in Requests /\ kind[r] = "stream" /\ StreamInv(r) /\ TypeOK
    BY DEF Streams, CompletionsInv, AllStreams
  <2>2. PICK t \in Seq(Chunks), s \in Seq(Chunks), p \in Seq(Chunks) :
          /\ t = Transcript(r) /\ s = sent[r] /\ p = pending[r]
          /\ Len(t) = Len(s) + Len(p)
          /\ \A i \in 1..Len(s) : t[i] = s[i]
    BY <2>1, TranscriptType
  <2>a. PICK a \in Nat, b \in Nat : a = Len(s) /\ b = Len(t)
    OBVIOUS
  <2>b. Len(p) \in Nat /\ DOMAIN s = 1..a /\ d \in DOMAIN s
    BY <2>2, <2>a
  <2>3. d \in 1..a /\ s[d] = Done /\ a <= b
    <3> PICK c \in Nat : c = Len(p)
      BY <2>b
    <3>1. b = a + c
      BY <2>2, <2>a
    <3>2. QED
      BY <2>2, <2>b, <3>1
  <2>4. t # << >>
    <3>1. b # 0
      BY <2>3
    <3>2. QED
      BY <2>a, <3>1
  <2>5. PICK n \in 1..Len(t) : StreamText(r, n)
    BY <2>1, <2>2, <2>4 DEF StreamInv
  <2>6. /\ Spells(t, n, out[r].text) /\ Closes(t, n)
        /\ Len(t) > n => out[r].finish_reason # None
        /\ Len(t) = n + 2 => IsLogged(r, "ok") /\ out[r].text = EndsAt(t, n)
    BY <2>2, <2>5 DEF StreamText
  <2>7. /\ n \in Nat \ {0} /\ b <= n + 2
        /\ \A i \in 1..b : /\ i = 1 => t[i] = Role
                           /\ i \in 2..n => t[i].type = "content"
                           /\ i = n + 1 => t[i] = Finish
                           /\ i = n + 2 => t[i] = Done
                           /\ i = 1 \/ i \in 2..n \/ i = n + 1 \/ i = n + 2
    BY <2>6, <2>a, TranscriptParts DEF Closes
  <2>8. d \in 1..b /\ t[d] = Done
    <3>1. d \in 1..b
      BY <2>3
    <3>2. QED
      BY <2>2, <2>3, <2>a, <3>1
  <2>9. d = n + 2
    BY <2>7, <2>8, ChunkTypes
  <2>10. b = n + 2 /\ a = n + 2
    BY <2>3, <2>7, <2>9
  <2>11. {i \in DOMAIN sent[r] : sent[r][i] = Finish} = {n + 1}
    <3>1. \A i \in 1..a : s[i] = Finish <=> i = n + 1
      <4> TAKE i \in 1..a
      <4>0. a \in Nat /\ b \in Nat /\ a <= b
        BY <2>3
      <4>1. i \in 1..b
        BY <4>0
      <4>2. s[i] = t[i]
        BY <2>2, <2>a
      <4>3. QED
        BY <2>7, <4>1, <4>2, ChunkTypes
    <3>2. n + 1 \in 1..a
      BY <2>7, <2>10
    <3>3. QED
      BY <2>2, <2>b, <3>1, <3>2
  <2>12. b > n
    BY <2>7, <2>10
  <2>13. \A x \in 1..out[r].text : \E i \in DOMAIN s :
           s[i].type = "content" /\ s[i].from < x /\ x <= s[i].to
    <3> TAKE x \in 1..out[r].text
    <3>1. out[r].text \in Nat /\ out[r].text = EndsAt(t, n)
      BY <2>1, <2>6, <2>a, <2>10 DEF TypeOK, Outputs
    <3>2. PICK i \in 2..n : t[i].type = "content" /\ t[i].from < x /\ x <= t[i].to
      BY <2>6, <3>1, DeltasCover
    <3>3. i \in 1..a
      BY <2>7, <2>10
    <3>4. s[i] = t[i] /\ i \in DOMAIN s
      BY <2>2, <2>a, <2>b, <3>3
    <3>5. QED
      BY <3>2, <3>4
  <2>14. QED
    BY <2>2, <2>6, <2>a, <2>10, <2>11, <2>12, <2>13, FS_Singleton
<1>2. QED
  BY <1>1, CompletionsInvariant, PTL
==============================================================================
