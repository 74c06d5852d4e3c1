----------------------------- MODULE Completions -----------------------------
(***************************************************************************)
(* backend/gateway/main.py: a completion call from its arrival to its last *)
(* byte, with the Prometheus series and the request history it leaves.     *)
(*                                                                         *)
(* One event loop runs every call: what happens between two awaits (or two *)
(* yields of a stream) is one action.  A text is its length, because vLLM  *)
(* yields longer and longer prefixes of one text; a delta is an interval.  *)
(* One model label: the series of different models are copies.             *)
(***************************************************************************)
EXTENDS Integers, Sequences, FiniteSets, FiniteSetsExt

CONSTANTS
  Requests,       \* calls; each arrives at most once
  RequestIds,     \* what new_request_id can return: the clock in microseconds
  None,
  PromptTokens,   \* tokens of a prompt
  MaxTokens,      \* bound: the engine stops after this many tokens
  DbFaults        \* whether a commit of the request log may raise

ASSUME ConstantsAssumption ==
  /\ PromptTokens \in Nat
  /\ MaxTokens \in Nat \ {0}
  /\ DbFaults \in BOOLEAN
  /\ None \notin RequestIds

Kinds == {"chat", "stream", "completions"}
Endpoint(kind) == CASE kind = "chat" -> "chat.completions"
                    [] kind = "stream" -> "chat.completions.stream"
                    [] OTHER -> "completions"
Endpoints == {Endpoint(kind) : kind \in Kinds}
Statuses == {"ok", "error"}
\* HTTP: success, any 4xx or 503 a handler raises on purpose, an exception
Responses == {"200", "refused", "500"}

VARIABLES
  \* the handlers
  kind,        \* of each call, None before it arrives
  pc,          \* "idle", "opened", "sending", "generating" or "ended"
  request_id,
  out,         \* the last output the handler took from the engine
  prev_text,   \* streams: length of the text sent so far
  pending,     \* streams: chunks yielded and not yet taken by the server
  engine,      \* vLLM's side of a call: "off", "running", "stopped", "raised"
  \* the clients
  sent,        \* streams: the chunks on the wire
  reply,       \* other calls: the completion, None if there is none (yet)
  response,    \* the HTTP status, once the response has started
  \* the Prometheus series
  http, inflight, prompt_tokens, completion_tokens, inference, ttft, speed,
  \* the request history
  rows,        \* by request id, which is unique
  attempts     \* history: every _log_request of a call and how it ended

handlers == <<kind, pc, request_id, out, prev_text, pending, engine>>
clients == <<sent, reply, response>>
series == <<http, inflight, prompt_tokens, completion_tokens, inference, ttft,
            speed>>
history == <<rows, attempts>>
vars == <<handlers, clients, series, history>>

NoOutput == [text |-> 0, finish_reason |-> None, prompt |-> 0, completion |-> 0]

Role == [type |-> "role", from |-> 0, to |-> 0]
Content(from, to) == [type |-> "content", from |-> from, to |-> to]
Finish == [type |-> "finish", from |-> 0, to |-> 0]
Done == [type |-> "done", from |-> 0, to |-> 0]

Init ==
  /\ kind = [r \in Requests |-> None]
  /\ pc = [r \in Requests |-> "idle"]
  /\ request_id = [r \in Requests |-> None]
  /\ out = [r \in Requests |-> NoOutput]
  /\ prev_text = [r \in Requests |-> 0]
  /\ pending = [r \in Requests |-> << >>]
  /\ engine = [r \in Requests |-> "off"]
  /\ sent = [r \in Requests |-> << >>]
  /\ reply = [r \in Requests |-> None]
  /\ response = [r \in Requests |-> None]
  /\ http = [s \in Responses |-> 0]
  /\ inflight = 0 /\ prompt_tokens = 0 /\ completion_tokens = 0
  /\ inference = [e \in Endpoints |-> [s \in Statuses |-> 0]]
  /\ ttft = 0 /\ speed = 0
  /\ rows = [i \in RequestIds |-> None]
  /\ attempts = [r \in Requests |-> << >>]

-----------------------------------------------------------------------------
(* RequestLog: the call's last output, under what the handler calls it.    *)
Row(r, status) ==
  [endpoint |-> Endpoint(kind[r]), status |-> status,
   prompt |-> out[r].prompt, completion |-> out[r].completion]
Keep(r, status) == rows' = [rows EXCEPT ![request_id[r]] = Row(r, status)]
Attempt(r, status, kept) ==
  attempts' = [attempts EXCEPT ![r] =
                 Append(@, [status |-> status, kept |-> kept])]

(* Mutants: the log waits until the row can be written; it replaces the    *)
(* row of the same id.                                                     *)
LogWaits(r, status) ==
  rows[request_id[r]] = None /\ Keep(r, status) /\ Attempt(r, status, TRUE)
LogReplaces(r, status) == Keep(r, status) /\ Attempt(r, status, TRUE)

(* A duplicate request id violates the unique column, and any commit may   *)
(* raise: the failure is swallowed and the row is lost.                    *)
_log_request(r, status) ==
  \/ rows[request_id[r]] = None /\ Keep(r, status) /\ Attempt(r, status, TRUE)
  \/ /\ DbFaults \/ rows[request_id[r]] # None
     /\ Attempt(r, status, FALSE)
     /\ UNCHANGED rows

(* The series.  Mutants: every request counts as "ok"; the token counters  *)
(* are swapped; the gauge is not incremented, or only decremented on       *)
(* success.                                                                *)
Observed(r) == IF out[r].completion > 0 THEN speed + 1 ELSE speed
CountedOk(r, status) == [inference EXCEPT ![Endpoint(kind[r])].ok = @ + 1]
Counted(r, status) ==
  [inference EXCEPT ![Endpoint(kind[r])][status] = @ + 1]
CountTokensSwapped(r) ==
  /\ prompt_tokens' = prompt_tokens + out[r].completion
  /\ completion_tokens' = completion_tokens + out[r].prompt
CountTokens(r) ==
  /\ prompt_tokens' = prompt_tokens + out[r].prompt
  /\ completion_tokens' = completion_tokens + out[r].completion
EnterUncounted == UNCHANGED inflight
Enter == inflight' = inflight + 1
LeaveOnSuccess(r) ==
  inflight' = IF engine'[r] = "stopped" THEN inflight - 1 ELSE inflight
Leave(r) == inflight' = inflight - 1

(* The answer.                                                             *)
Answer(r) == reply' = [reply EXCEPT ![r] = out[r]]

(* PrometheusMiddleware counts a response when it starts.  An exception    *)
(* goes through it and becomes a 500 further out, which nothing counts.    *)
(* Mutant: the count is in a finally clause, with 200 as its default.      *)
CountHttpFinally(s) ==
  http' = [http EXCEPT ![IF s = "500" THEN "200" ELSE s] = @ + 1]
CountHttp(s) ==
  http' = IF s = "500" THEN http ELSE [http EXCEPT ![s] = @ + 1]
Respond(r, s) == response' = [response EXCEPT ![r] = s] /\ CountHttp(s)

(* What ends a call before the inference series see it.  A refusal: no     *)
(* key, over the limit, unknown model, model not ready.                    *)
EndEarly(r, k, s) ==
  /\ pc[r] = "idle"
  /\ kind' = [kind EXCEPT ![r] = k]
  /\ pc' = [pc EXCEPT ![r] = "ended"]
  /\ Respond(r, s)
  /\ UNCHANGED <<request_id, out, prev_text, pending, engine, sent, reply,
                 inflight, prompt_tokens, completion_tokens, inference, ttft,
                 speed, history>>
Refuse(r, k) == EndEarly(r, k, "refused")

(* The tokenizer cannot be loaded, or its template rejects the messages;   *)
(* for completions, the list of prompts is empty.                          *)
PromptFails(r, k) == EndEarly(r, k, "500")

(* chat_completions without stream, and completions, up to the engine.     *)
Start(r, k) ==
  /\ pc[r] = "idle" /\ k # "stream"
  /\ kind' = [kind EXCEPT ![r] = k]
  /\ pc' = [pc EXCEPT ![r] = "generating"]
  /\ \E i \in RequestIds : request_id' = [request_id EXCEPT ![r] = i]
  /\ engine' = [engine EXCEPT ![r] = "running"]
  /\ Enter
  /\ UNCHANGED <<out, prev_text, pending, clients, http, prompt_tokens,
                 completion_tokens, inference, ttft, speed, history>>

(* chat_completions with stream: the gauge goes up and, because return     *)
(* runs the finally clause, down again; the response starts.               *)
OpenStream(r) ==
  /\ pc[r] = "idle"
  /\ kind' = [kind EXCEPT ![r] = "stream"]
  /\ pc' = [pc EXCEPT ![r] = "opened"]
  /\ \E i \in RequestIds : request_id' = [request_id EXCEPT ![r] = i]
  /\ Respond(r, "200")
  /\ UNCHANGED <<out, prev_text, pending, engine, sent, reply, inflight,
                 prompt_tokens, completion_tokens, inference, ttft, speed,
                 history>>

-----------------------------------------------------------------------------
(* The next output of the engine: one more token, which may add no text    *)
(* yet; the last one has a finish reason.                                  *)
NextOutputs(r) ==
  {o \in [text : {out[r].text, out[r].text + 1}, finish_reason : {None, "stop"},
          prompt : {PromptTokens}, completion : {out[r].completion + 1}] :
     o.completion = MaxTokens => o.finish_reason # None}

Generating(r) == pc[r] = "generating" /\ engine[r] = "running"

Output(r) ==
  /\ Generating(r) /\ kind[r] # "stream"
  /\ out[r].finish_reason = None
  /\ \E o \in NextOutputs(r) : out' = [out EXCEPT ![r] = o]
  /\ UNCHANGED <<kind, pc, request_id, prev_text, pending, engine, clients,
                 series, history>>

(* The engine's iterator ends: series, row, response, and the gauge.       *)
FinishCall(r) ==
  /\ Generating(r) /\ kind[r] # "stream"
  /\ out[r].finish_reason # None
  /\ engine' = [engine EXCEPT ![r] = "stopped"]
  /\ CountTokens(r)
  /\ inference' = Counted(r, "ok")
  /\ speed' = Observed(r)
  /\ _log_request(r, "ok")
  /\ Answer(r)
  /\ Respond(r, "200")
  /\ Leave(r)
  /\ pc' = [pc EXCEPT ![r] = "ended"]
  /\ UNCHANGED <<kind, request_id, out, prev_text, pending, sent, ttft>>

(* The engine raises (a duplicate id, a stopped or dead engine, invalid    *)
(* sampling parameters): series, row, gauge, and a 500.                    *)
FailCall(r) ==
  /\ Generating(r) /\ kind[r] # "stream"
  /\ engine' = [engine EXCEPT ![r] = "raised"]
  /\ inference' = Counted(r, "error")
  /\ _log_request(r, "error")
  /\ Respond(r, "500")
  /\ Leave(r)
  /\ pc' = [pc EXCEPT ![r] = "ended"]
  /\ UNCHANGED <<kind, request_id, out, prev_text, pending, sent, reply,
                 prompt_tokens, completion_tokens, ttft, speed>>

-----------------------------------------------------------------------------
(* _stream_chat runs from one yield to the next; the server takes a chunk  *)
(* when the connection has room for it.                                    *)
StartStream(r) ==
  /\ pc[r] = "opened"
  /\ pending' = [pending EXCEPT ![r] = <<Role>>]
  /\ pc' = [pc EXCEPT ![r] = "sending"]
  /\ UNCHANGED <<kind, request_id, out, prev_text, engine, clients, series,
                 history>>

(* After the last chunk of an output the generator asks for the next one;  *)
(* the first time, this is when the engine gets the request.               *)
Send(r) ==
  /\ pc[r] = "sending"
  /\ sent' = [sent EXCEPT ![r] = Append(@, Head(pending[r]))]
  /\ pending' = [pending EXCEPT ![r] = Tail(@)]
  /\ pc' = [pc EXCEPT ![r] = IF Len(pending[r]) > 1 THEN "sending"
                             ELSE IF Head(pending[r]) = Done THEN "ended"
                             ELSE "generating"]
  /\ engine' = [engine EXCEPT ![r] = IF @ = "off" THEN "running" ELSE @]
  /\ UNCHANGED <<kind, request_id, out, prev_text, reply, response, series,
                 history>>

(* Mutant: prev_text is not remembered.                                    *)
Forget(r, o) == UNCHANGED prev_text
Remember(r, o) == prev_text' = [prev_text EXCEPT ![r] = o.text]

(* What an output yields: its new text, if any, and its finish reason.     *)
(* Mutant: the one or the other.                                           *)
Delta(r, o) ==
  IF o.text > prev_text[r] THEN <<Content(prev_text[r], o.text)>> ELSE << >>
End(o) == IF o.finish_reason # None THEN <<Finish>> ELSE << >>
NewChunksEither(r, o) == IF End(o) # << >> THEN End(o) ELSE Delta(r, o)
NewChunks(r, o) == Delta(r, o) \o End(o)

StreamOutput(r) ==
  /\ Generating(r) /\ kind[r] = "stream"
  /\ out[r].finish_reason = None
  /\ \E o \in NextOutputs(r) :
       /\ out' = [out EXCEPT ![r] = o]
       /\ ttft' = IF out[r].completion = 0 THEN ttft + 1 ELSE ttft
       /\ Remember(r, o)
       /\ pending' = [pending EXCEPT ![r] = NewChunks(r, o)]
       /\ pc' = [pc EXCEPT ![r] = IF NewChunks(r, o) = << >> THEN "generating"
                                  ELSE "sending"]
  /\ UNCHANGED <<kind, request_id, engine, clients, http, inflight,
                 prompt_tokens, completion_tokens, inference, speed, history>>

EndStream(r) ==
  /\ Generating(r) /\ kind[r] = "stream"
  /\ out[r].finish_reason # None
  /\ engine' = [engine EXCEPT ![r] = "stopped"]
  /\ inference' = Counted(r, "ok")
  /\ speed' = Observed(r)
  /\ _log_request(r, "ok")
  /\ pending' = [pending EXCEPT ![r] = <<Done>>]
  /\ pc' = [pc EXCEPT ![r] = "sending"]
  /\ UNCHANGED <<kind, request_id, out, prev_text, clients, http, inflight,
                 prompt_tokens, completion_tokens, ttft>>

(* No handler catches what the engine raises into a stream.                *)
FailStream(r) ==
  /\ Generating(r) /\ kind[r] = "stream"
  /\ engine' = [engine EXCEPT ![r] = "raised"]
  /\ pc' = [pc EXCEPT ![r] = "ended"]
  /\ UNCHANGED <<kind, request_id, out, prev_text, pending, clients, series,
                 history>>

(* The client goes: the server cancels the generator wherever it is, and   *)
(* vLLM aborts the request with it.                                        *)
Disconnect(r) ==
  /\ kind[r] = "stream" /\ pc[r] \in {"opened", "sending", "generating"}
  /\ pc' = [pc EXCEPT ![r] = "ended"]
  /\ engine' = [engine EXCEPT ![r] = IF @ = "running" THEN "stopped" ELSE @]
  /\ pending' = [pending EXCEPT ![r] = << >>]
  /\ UNCHANGED <<kind, request_id, out, prev_text, clients, series, history>>

Next ==
  \E r \in Requests :
    \/ \E k \in Kinds : Refuse(r, k) \/ PromptFails(r, k) \/ Start(r, k)
    \/ OpenStream(r) \/ StartStream(r) \/ Send(r)
    \/ Output(r) \/ FinishCall(r) \/ FailCall(r)
    \/ StreamOutput(r) \/ EndStream(r) \/ FailStream(r)
    \/ Disconnect(r)

Spec == Init /\ [][Next]_vars

(* vLLM keeps producing, and the event loop runs a handler that can go on. *)
(* Nothing is assumed of clients: they may neither read nor disconnect.    *)
Fairness ==
  \A r \in Requests :
    /\ WF_vars(Output(r)) /\ WF_vars(FinishCall(r))
    /\ WF_vars(StartStream(r) \/ StreamOutput(r) \/ EndStream(r))

FairSpec == Spec /\ Fairness

-----------------------------------------------------------------------------
Outputs == [text : Nat, finish_reason : {None, "stop"}, prompt : Nat,
            completion : Nat]
Chunks == [type : {"role", "content", "finish", "done"}, from : Nat, to : Nat]
LogRows == [endpoint : Endpoints, status : Statuses, prompt : Nat,
            completion : Nat]

(* None is no kind, no status and no value of what may be missing.         *)
ASSUME NoneAssumption ==
  None \notin Kinds \cup Responses \cup Outputs \cup LogRows \cup {"stop"}

TypeOK ==
  /\ kind \in [Requests -> Kinds \cup {None}]
  /\ pc \in [Requests -> {"idle", "opened", "sending", "generating", "ended"}]
  /\ request_id \in [Requests -> RequestIds \cup {None}]
  /\ out \in [Requests -> Outputs]
  /\ prev_text \in [Requests -> Nat]
  /\ pending \in [Requests -> Seq(Chunks)]
  /\ engine \in [Requests -> {"off", "running", "stopped", "raised"}]
  /\ sent \in [Requests -> Seq(Chunks)]
  /\ reply \in [Requests -> Outputs \cup {None}]
  /\ response \in [Requests -> Responses \cup {None}]
  /\ http \in [Responses -> Nat]
  /\ inflight \in Nat
  /\ prompt_tokens \in Nat /\ completion_tokens \in Nat
  /\ inference \in [Endpoints -> [Statuses -> Nat]]
  /\ ttft \in Nat /\ speed \in Nat
  /\ rows \in [RequestIds -> LogRows \cup {None}]
  /\ attempts \in [Requests -> Seq([status : Statuses, kept : BOOLEAN])]

Ended(r) == pc[r] = "ended"
Streams == {r \in Requests : kind[r] = "stream"}
Calls == {r \in Requests : kind[r] \in {"chat", "completions"}}

(* The gauge never loses a call that waits for the engine and keeps none   *)
(* that has ended, however it ended: whether it counts a stream, and from  *)
(* when to when, is left open here (GaugeIsGenerating).                    *)
Waiting == {r \in Calls : pc[r] = "generating"}
UnderWay == {r \in Requests : pc[r] \notin {"idle", "ended"}}
GaugeFollowsRequests ==
  Cardinality(Waiting) <= inflight /\ inflight <= Cardinality(UnderWay)

(* The inference counters and the request history tell the same story: for *)
(* each endpoint and status, as many requests were counted as there are    *)
(* rows, plus those whose row was lost.                                    *)
Kept(e, s) == {i \in RequestIds : rows[i] # None /\ rows[i].endpoint = e
                                                /\ rows[i].status = s}
Lost(e, s) == {r \in Requests : [status |-> s, kept |-> FALSE] \in
                                  {attempts[r][i] : i \in DOMAIN attempts[r]}
                                /\ Endpoint(kind[r]) = e}
CountersMatchHistory ==
  \A e \in Endpoints, s \in Statuses :
    inference[e][s] = Cardinality(Kept(e, s)) + Cardinality(Lost(e, s))

(* A call the engine finished is answered with its last output, even when  *)
(* the log fails, and is in the history as "ok", with the usage its client *)
(* was told, unless its own row was lost; one the engine failed gets no    *)
(* completion and is there as "error".  Nothing is logged twice, and no    *)
(* other request, not even one with the same id, touches the row.          *)
AnswersAreLogged ==
  \A r \in Calls : Ended(r) /\ engine[r] # "off" =>
    LET ok == engine[r] = "stopped"
        status == IF ok THEN "ok" ELSE "error"
    IN  /\ response[r] = IF ok THEN "200" ELSE "500"
        /\ reply[r] = IF ok THEN out[r] ELSE None
        /\ Len(attempts[r]) = 1 /\ attempts[r][1].status = status
        /\ attempts[r][1].kept =>
             rows[request_id[r]] = [endpoint |-> Endpoint(kind[r]),
                                    status |-> status,
                                    prompt |-> out[r].prompt,
                                    completion |-> out[r].completion]

(* The HTTP series and the inference series tell the same story: every 200 *)
(* is a stream that was opened or a call counted as "ok", and every call   *)
(* counted as "error" got a 500, which the HTTP series do not show.        *)
HttpMatchesInference ==
  LET opened == {r \in Streams : response[r] = "200"}
      failed == {r \in Calls : response[r] = "500" /\ engine[r] # "off"}
  IN  /\ http["200"] = inference["chat.completions"].ok
                       + inference["completions"].ok + Cardinality(opened)
      /\ inference["chat.completions"].error + inference["completions"].error
           = Cardinality(failed)
      /\ http["500"] = 0

(* The token counters have the usage of every call that was answered with  *)
(* a completion, and no more than that of the requests that completed:     *)
(* none is counted twice, and failed ones add nothing.  Whether a stream   *)
(* is counted is left open here (CountersHaveAllTokens).                   *)
Replied == {r \in Requests : reply[r] # None}
Completed == {r \in Requests :
                "ok" \in {attempts[r][i].status : i \in DOMAIN attempts[r]}}
PromptsOf(S) == MapThenSumSet(LAMBDA r : out[r].prompt, S)
CompletionsOf(S) == MapThenSumSet(LAMBDA r : out[r].completion, S)
TokensMatchUsage ==
  /\ PromptsOf(Replied) <= prompt_tokens
  /\ prompt_tokens <= PromptsOf(Completed)
  /\ CompletionsOf(Replied) <= completion_tokens
  /\ completion_tokens <= CompletionsOf(Completed)

(* The deltas of a stream, those on the wire and those still held back,    *)
(* join without gap or overlap and spell what was sent so far; the role    *)
(* comes first, the finish reason after all the text, [DONE] last.         *)
Transcript(r) == sent[r] \o pending[r]
DeltasSpellText ==
  \A r \in Streams :
    LET t == Transcript(r)
        Texts == {i \in DOMAIN t : t[i].type = "content"}
    IN  /\ \A i \in DOMAIN t : (i = 1) <=> (t[i] = Role)
        /\ \A i \in Texts : t[i].from < t[i].to /\ t[i].from =
             IF i - 1 \in Texts THEN t[i - 1].to ELSE 0
        /\ \A i \in DOMAIN t : t[i] = Finish =>
             \A j \in Texts : j < i /\ t[j].to <= out[r].text
        /\ Ended(r) \/ out[r].text = 0 \/ \E i \in Texts : t[i].to = out[r].text
        /\ \A i \in DOMAIN t : t[i] = Done =>
             i = Len(t) /\ t[i - 1] = Finish

(* A client that has seen [DONE] got every character of the text the       *)
(* engine finished and one finish reason, and its request is in the        *)
(* history as "ok" with the engine's usage, unless its own row was lost.   *)
DoneMeansComplete ==
  \A r \in Streams : Done \in {sent[r][i] : i \in DOMAIN sent[r]} =>
    /\ out[r].finish_reason # None
    /\ Cardinality({i \in DOMAIN sent[r] : sent[r][i] = Finish}) = 1
    /\ \A x \in 1..out[r].text : \E i \in DOMAIN sent[r] :
         /\ sent[r][i].type = "content"
         /\ sent[r][i].from < x /\ x <= sent[r][i].to
    /\ Len(attempts[r]) = 1 /\ attempts[r][1].status = "ok"
    /\ attempts[r][1].kept =>
         rows[request_id[r]] = [endpoint |-> Endpoint(kind[r]), status |-> "ok",
                                prompt |-> out[r].prompt,
                                completion |-> out[r].completion]

(* Every call that is not a stream is answered, also when the client of a  *)
(* stream neither reads nor goes, and when its row cannot be written.      *)
CallsAreAnswered ==
  \A r \in Requests : (r \in Calls /\ ~Ended(r)) ~> response[r] # None

(* A stream whose client keeps taking its chunks comes to an end, whatever  *)
(* the other calls and the database do.                                    *)
StreamsEnd ==
  \A r \in Requests :
    []<>(pc[r] # "sending") => (pc[r] = "opened" ~> Ended(r))

(* What is said of all requests, and does not hold of streams.  The gauge  *)
(* is "Requests currently being generated" (middleware.py:20-22).          *)
GaugeIsGenerating ==
  inflight = Cardinality({r \in Requests : engine[r] = "running"})

(* The token counters are "Prompt tokens processed" and "Completion tokens *)
(* generated" (middleware.py:28-31): at the very least, those of all the   *)
(* requests that completed.                                                *)
CountersHaveAllTokens ==
  /\ prompt_tokens >= PromptsOf(Completed)
  /\ completion_tokens >= CompletionsOf(Completed)

(* docs/ROADMAP.md:402-405 says that every call, streaming or not, success *)
(* or error, writes a row, and that failures to do so are caught.          *)
EveryCallIsLogged ==
  \A r \in Requests : Ended(r) /\ engine[r] # "off" => attempts[r] # << >>

(* One of the three is true of every state: a state that violates this     *)
(* refutes them all at once.                                               *)
SomeClaimHolds ==
  GaugeIsGenerating \/ CountersHaveAllTokens \/ EveryCallIsLogged
=============================================================================
