----------------------------- MODULE LLMGateway -----------------------------
(***************************************************************************)
(* Formalizing with a language model: the threads of runs and the chat     *)
(* handler as clients (llm/http_gateway.py, formalize/), the gateway       *)
(* process that serves one request after the other (llm_gateway/app.py),   *)
(* and the provider behind it, which may never answer (gemini.py).         *)
(***************************************************************************)
EXTENDS Integers, FiniteSets, Sequences, SequencesExt

CONSTANTS
    Runs,           \* runs at their formalize step
    Blank,          \* runs whose request the gateway refuses: no segment, or one of no text
    Bare,           \* those of a journal whose own draft would cite what is not there
    ChatCalls,      \* requests of the chat handler
    Free,           \* no request: the gateway is idle
    MaxStops        \* bound: ends of the web process, and of the gateway

VARIABLES
    allowed,        \* a profile and a flag that let runs use a model
    pc,             \* where each client is
    reply,          \* what the client's call came to
    files,          \* a run's artifacts/
    output,         \* its minutes.json or journal.json, and of whom it is
    queue,          \* requests the gateway has not begun
    serving,        \* the one it is at
    provider,       \* the provider was made, and is kept
    keyed,          \* it can be made: there is an API key
    stops

gatewayVars == <<allowed, pc, reply, files, output, queue, serving, provider, keyed, stops>>

Clients == Runs \cup ChatCalls
GatewayAssumption ==
    /\ Bare \subseteq Blank /\ Blank \subseteq Runs /\ Runs \cap ChatCalls = {} /\ Free \notin Clients
    /\ MaxStops \in Nat

\* Answers with a draft: sound, with an evidence map of its own, with a map of the wrong
\* form, with a text that is nothing but JSON, with citations of no segment.
WithDraft == {"sound", "mapped", "badmap", "badtext", "phantom"}
\* Answers that are none: an error status, no connection, no JSON, no request id.
Errors == {"422", "502", "lost", "timeout", "odd", "anonymous"}

GatewayInit ==
    /\ allowed \in BOOLEAN
    /\ pc = [c \in Clients |-> "start"]
    /\ reply = [c \in Clients |-> "none"]
    /\ files = [r \in Runs |-> {}]
    /\ output = [r \in Runs |-> "none"]
    /\ queue = <<>> /\ serving = Free
    /\ provider = FALSE /\ keyed \in BOOLEAN
    /\ stops = 0

Goto(c, l) == pc' = [pc EXCEPT ![c] = l]
Waits(c) == pc[c] = "wait"
ClientOnly == UNCHANGED <<allowed, queue, serving, provider, keyed, stops>>

(***************************************************************************)
(* The clients.                                                            *)
(***************************************************************************)
Post(c) ==
    /\ Goto(c, "wait")
    /\ queue' = Append(queue, c)
    /\ UNCHANGED <<allowed, reply, files, output, serving, provider, keyed, stops>>

\* The deterministic draft.  A journal in which nothing was said cites segment 0; where
\* there is none the guard raises, and nothing is written.
DraftAlone(r) ==
    /\ \/ r \in Bare /\ Goto(r, "failed") /\ UNCHANGED output
       \/ /\ r \notin Bare
          /\ output' = [output EXCEPT ![r] = "deterministic"]
          /\ Goto(r, "done")
    /\ UNCHANGED <<reply, files>> /\ ClientOnly

\* LOCAL_ONLY, or the flag is not set: no model is asked, and there is no receipt.
Start(r) ==
    /\ pc[r] = "start"
    /\ \/ allowed /\ Post(r)
       \/ ~allowed /\ DraftAlone(r)

\* The chat handler holds the event loop until it has its answer: one at a time.
Ask(c) ==
    /\ pc[c] = "start"
    /\ \A d \in ChatCalls : ~Waits(d)
    /\ Post(c)

Receives(c, what) ==
    /\ reply' = [reply EXCEPT ![c] = what]
    /\ Goto(c, IF c \in ChatCalls THEN "done"
               ELSE IF what \in WithDraft THEN "raw" ELSE "fall")

\* The client gives up after 30 seconds, whatever the gateway is doing; the request
\* stays where it is.
TimeoutServed(c) ==                         \* mutant: only a request being served times out
    /\ Waits(c) /\ serving = c
    /\ Receives(c, "timeout")
    /\ UNCHANGED <<files, output>> /\ ClientOnly
Timeout(c) ==
    /\ Waits(c)
    /\ Receives(c, "timeout")
    /\ UNCHANGED <<files, output>> /\ ClientOnly

\* Something else answers at the gateway's address.
Misanswered(c) ==
    /\ Waits(c)
    /\ \E what \in {"odd", "anonymous"} : Receives(c, what)
    /\ UNCHANGED <<files, output>> /\ ClientOnly

Write(r, from, f, to) ==
    /\ pc[r] = from
    /\ files' = [files EXCEPT ![r] = @ \cup {f}]
    /\ Goto(r, to)
    /\ UNCHANGED <<reply, output>> /\ ClientOnly

\* _write_gateway_failure: not for an answer without a request id.
Explained(r) == reply[r] # "anonymous"
GatewayReceipt(r) == Explained(r) /\ Write(r, "fall", "llm_gateway_failure", "fall2")
NoReceipt(r) ==
    /\ pc[r] = "fall" /\ ~Explained(r)
    /\ Goto(r, "fall2")
    /\ UNCHANGED <<reply, files, output>> /\ ClientOnly
ModeReceipt(r) == Write(r, "fall2", "llm_failure", "fall3")
FallBack(r) == pc[r] = "fall3" /\ DraftAlone(r)

\* An answer is kept as it came, then looked at, part by part.
KeepRaw(r) ==
    Write(r, "raw", "llm_raw_txt",
          CASE reply[r] = "badtext" -> "refuse"
            [] reply[r] = "badmap"  -> "refuse"
            [] reply[r] = "mapped"  -> "map"
            [] reply[r] = "phantom" -> "phantom"
            [] OTHER                -> "output")
KeepMap(r) == Write(r, "map", "evidence_map_llm", "output")
KeepPhantom(r) == Write(r, "phantom", "llm_raw_json", "refuse")
RefuseSilently(r) ==                        \* mutant: it fails without a receipt
    /\ pc[r] = "refuse"
    /\ Goto(r, "failed")
    /\ UNCHANGED <<reply, files, output>> /\ ClientOnly
Refuse(r) == Write(r, "refuse", "llm_failure", "failed")
Accept(r) ==
    /\ pc[r] = "output"
    /\ output' = [output EXCEPT ![r] = "model"]
    /\ Goto(r, "usage")
    /\ UNCHANGED <<reply, files>> /\ ClientOnly
KeepUsage(r) == Write(r, "usage", "llm_usage", "done")

RunStep(r) ==
    \/ Start(r) \/ GatewayReceipt(r) \/ NoReceipt(r) \/ ModeReceipt(r) \/ FallBack(r)
    \/ KeepRaw(r) \/ KeepMap(r) \/ KeepPhantom(r) \/ Refuse(r) \/ Accept(r) \/ KeepUsage(r)

(***************************************************************************)
(* The gateway: its handlers call the provider without an await, so that   *)
(* it serves one request at a time, in their order.  What it says to a     *)
(* client that has given up is lost.                                       *)
(***************************************************************************)
Says(c, what) == IF Waits(c) THEN Receives(c, what) ELSE UNCHANGED <<pc, reply>>

\* A request it refuses, or for which it has no provider, is answered at once.
Turn(what) ==
    /\ queue' = Tail(queue)
    /\ Says(Head(queue), what)
    /\ UNCHANGED <<allowed, files, output, serving, provider, keyed, stops>>
Reject == /\ serving = Free /\ queue # <<>>
          /\ Head(queue) \in Blank
          /\ Turn("422")
NoProvider == /\ serving = Free /\ queue # <<>>
              /\ Head(queue) \notin Blank /\ ~provider /\ ~keyed
              /\ Turn("502")
Call ==
    /\ serving = Free /\ queue # <<>>
    /\ Head(queue) \notin Blank /\ (provider \/ keyed)
    /\ serving' = Head(queue)
    /\ queue' = Tail(queue)
    /\ provider' = TRUE
    /\ UNCHANGED <<allowed, pc, reply, files, output, keyed, stops>>

\* The provider answers, with what passes for a draft or not, or its call fails.
Answer ==
    /\ serving # Free
    /\ \E what \in WithDraft \cup {"422", "502"} : Says(serving, what)
    /\ serving' = Free
    /\ UNCHANGED <<allowed, files, output, queue, provider, keyed, stops>>

\* The gateway's process ends: every request it had loses its connection.
GatewayStops ==
    /\ stops < MaxStops
    /\ stops' = stops + 1
    /\ reply' = [c \in Clients |-> IF Waits(c) THEN "lost" ELSE reply[c]]
    /\ pc' = [c \in Clients |->
                IF ~Waits(c) THEN pc[c] ELSE IF c \in ChatCalls THEN "done" ELSE "fall"]
    /\ queue' = <<>> /\ serving' = Free /\ provider' = FALSE
    /\ keyed' \in BOOLEAN
    /\ UNCHANGED <<allowed, files, output>>

\* The web process ends, with the threads of its runs; the gateway is not told.
WebStops ==
    /\ stops < MaxStops
    /\ stops' = stops + 1
    /\ pc' = [c \in Clients |->
                IF pc[c] \in {"start", "done", "failed"} THEN pc[c] ELSE "dead"]
    /\ UNCHANGED <<allowed, reply, files, output, queue, serving, provider, keyed>>

GatewayStep == Reject \/ NoProvider \/ Call \/ Answer
GatewayNext ==
    \/ \E r \in Runs : RunStep(r)
    \/ \E c \in ChatCalls : Ask(c)
    \/ \E c \in Clients : Timeout(c) \/ Misanswered(c)
    \/ GatewayStep \/ GatewayStops \/ WebStops

\* A thread goes on, and its clock runs; nothing is asked of gateway or provider.
GatewayFairness == \A r \in Runs : WF_gatewayVars(RunStep(r)) /\ WF_gatewayVars(Timeout(r))
GatewaySpec == GatewayInit /\ [][GatewayNext]_gatewayVars /\ GatewayFairness

-----------------------------------------------------------------------------
Files == {"llm_gateway_failure", "llm_failure", "llm_raw_txt", "llm_raw_json",
          "evidence_map_llm", "llm_usage"}
GatewayTypeOK ==
    /\ files \in [Runs -> SUBSET Files]
    /\ output \in [Runs -> {"none", "deterministic", "model"}]
    /\ reply \in [Clients -> {"none"} \cup WithDraft \cup Errors]
    /\ serving \in Clients \cup {Free}
    /\ serving # Free => provider

\* What the files of a run say of its draft is true at every moment, also when the
\* process ends between two of them: a draft that is deterministic although a model was
\* asked has its receipt, one of the model has the answer it came from and no failure,
\* and a run that failed here has no draft and says why; but where no model is allowed, a
\* journal in which nothing was said fails without a word (minutes_json.py:447-590,
\* journal_json.py:353, 414, 473).
FallbacksExplained ==
    \A r \in Runs :
        /\ output[r] = "deterministic" => (allowed <=> "llm_failure" \in files[r])
        /\ output[r] = "model" =>
              /\ "llm_raw_txt" \in files[r]
              /\ files[r] \cap {"llm_failure", "llm_gateway_failure"} = {}
              /\ reply[r] = "mapped" => "evidence_map_llm" \in files[r]
        /\ pc[r] = "failed" =>
              /\ output[r] = "none"
              /\ "llm_failure" \in files[r] \/ (~allowed /\ r \in Bare)

\* A formalization ends, although the provider may never answer and the gateway serve
\* others for ever: the client's clock does not depend on them (http_gateway.py:53).
FormalizeEnds ==
    \A r \in Runs : pc[r] = "wait" ~> pc[r] \in {"done", "failed", "dead"}
=============================================================================
