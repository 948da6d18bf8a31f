-------------------------- MODULE ProviderRequests --------------------------
(***************************************************************************)
(* Requests to a language-model provider: a call waits for a slot of the    *)
(* pool that independent processes share, makes attempts until one          *)
(* succeeds, assembles a streamed answer from its fragments, and accounts   *)
(* for the usage of every attempt.  Streams stop anywhere, attempts share   *)
(* one allowance of retry time, calls are cancelled or run into their       *)
(* round's deadline, and a process may die while it holds a slot.           *)
(*                                                                          *)
(* Source: adapters/llm/client.py, request_admission.py, retry.py,          *)
(* _chat_stream.py, openai_provider.py, responses_provider.py,              *)
(* anthropic_provider.py, _attempt_usage.py.                                *)
(***************************************************************************)
EXTENDS Naturals, FiniteSets

CONSTANTS
    Request,        \* the calls
    Protocol,       \* of each call: "whole", "chat" or "responses"
    Capacity,       \* request_capacity
    Item,           \* what an answer consists of: texts, fragments of tool calls
    MaxRetries,     \* max_retries
    RetryTime       \* provider_error_time_budget

VARIABLES
    phase,      \* of a call: "idle", "admit", "open", "stream", "close", "parse", "backoff",
                \*   "record", "answered", "failed", "dead"
    slots,      \* calls that hold a slot
    attempt,    \* requests a call has made
    got,        \* the stream state: items of this attempt, each with its attempt
    ended,      \* "no", "finish" (finish_reason or terminal event), "failed"
    counted,    \* this attempt has reported its usage
    billed,     \* usage the provider has reported to a call
    tally,      \* failed_usages, as a total
    usage,      \* what the call returns or raises with
    answer,     \* the items a call returns
    allowance   \* remaining_seconds

llmVars == <<phase, slots, attempt, got, ended, counted, billed, tally, usage, answer,
             allowance>>

RequestsInit ==
    /\ phase = [r \in Request |-> "idle"] /\ slots = {} /\ attempt = [r \in Request |-> 0]
    /\ got = [r \in Request |-> {}] /\ ended = [r \in Request |-> "no"]
    /\ counted = [r \in Request |-> FALSE] /\ billed = [r \in Request |-> 0]
    /\ tally = [r \in Request |-> 0] /\ usage = [r \in Request |-> 0]
    /\ answer = [r \in Request |-> {}] /\ allowance = RetryTime

To(r, p) == phase' = [phase EXCEPT ![r] = p]

-----------------------------------------------------------------------------
(* Admission *)

Call(r) ==
    /\ phase[r] = "idle" /\ To(r, "admit")
    /\ UNCHANGED <<slots, attempt, got, ended, counted, billed, tally, usage, answer, allowance>>

(* request_slot: the first lock that is free *)
Admit(r) ==
    /\ phase[r] = "admit" /\ Cardinality(slots) < Capacity
    /\ slots' = slots \cup {r} /\ To(r, "open")
    /\ UNCHANGED <<attempt, got, ended, counted, billed, tally, usage, answer, allowance>>

-----------------------------------------------------------------------------
(* An attempt *)

(* begin_attempt; a stream starts with an empty state *)
Open(r) ==
    /\ phase[r] = "open"
    /\ attempt' = [attempt EXCEPT ![r] = @ + 1]
    /\ got' = [got EXCEPT ![r] = {}] /\ ended' = [ended EXCEPT ![r] = "no"]
    /\ counted' = [counted EXCEPT ![r] = FALSE]
    /\ To(r, "stream")
    /\ UNCHANGED <<slots, billed, tally, usage, answer, allowance>>

ReportsUsage(r) ==
    /\ counted' = [counted EXCEPT ![r] = TRUE]
    /\ billed' = [billed EXCEPT ![r] = @ + 1]

(* an answer that comes in one piece *)
WholeAnswer(r) ==
    /\ Protocol[r] = "whole"
    /\ got' = [got EXCEPT ![r] = Item \X {attempt[r]}]
    /\ ended' = [ended EXCEPT ![r] = "finish"]
    /\ ReportsUsage(r) /\ To(r, "parse")

Collected(r) == Item \X {attempt[r]} \subseteq got[r]

(* an item under its own index *)
Collects(r) ==
    /\ ended[r] = "no"
    /\ \E i \in Item : /\ <<i, attempt[r]>> \notin got[r]
                       /\ got' = [got EXCEPT ![r] = @ \cup {<<i, attempt[r]>>}]
    /\ UNCHANGED <<phase, ended, counted, billed>>

(* a chat reports its usage after its finish *)
ChatChunk(r) ==
    /\ Protocol[r] = "chat"
    /\ \/ Collects(r)
       \/ /\ ended[r] = "no" /\ Collected(r)
          /\ ended' = [ended EXCEPT ![r] = "finish"]
          /\ UNCHANGED <<phase, got, counted, billed>>
       \/ /\ ended[r] = "finish" /\ ~counted[r]
          /\ ReportsUsage(r) /\ UNCHANGED <<phase, got, ended>>

(* the stream ends, with its usage or earlier *)
ChatEnds(r) ==
    /\ Protocol[r] = "chat"
    /\ To(r, "close") /\ UNCHANGED <<got, ended, counted, billed>>

(* a response reports its usage with its end, one that failed too *)
ResponseEvent(r) ==
    /\ Protocol[r] = "responses" /\ ended[r] = "no"
    /\ \/ Collects(r)
       \/ /\ \/ Collected(r) /\ ended' = [ended EXCEPT ![r] = "finish"]
             \/ ended' = [ended EXCEPT ![r] = "failed"]
          /\ ReportsUsage(r) /\ To(r, "close") /\ UNCHANGED got

Event(r) ==
    /\ phase[r] = "stream"
    /\ WholeAnswer(r) \/ ChatChunk(r) \/ ChatEnds(r) \/ ResponseEvent(r)
    /\ UNCHANGED <<slots, attempt, tally, usage, answer, allowance>>

(* the socket is released; an error of that is not the answer's *)
Close(r) ==
    /\ phase[r] = "close" /\ To(r, "parse")
    /\ UNCHANGED <<slots, attempt, got, ended, counted, billed, tally, usage, answer, allowance>>

(* what an attempt that failed adds to failed_usages; an answer that came   *)
(* whole and cannot be parsed adds nothing                                  *)
Adds(r) == IF counted[r] /\ Protocol[r] # "whole" THEN 1 ELSE 0

Ends(r, p, u) == To(r, p) /\ usage' = [usage EXCEPT ![r] = u]

(* the answer has its end and its usage *)
Complete(r) == ended[r] = "finish" /\ counted[r]

(* an answer is what one attempt sent, complete; the usage of the attempts  *)
(* before it is added to its own                                            *)
Accept(r) ==
    /\ phase[r] = "parse" /\ Complete(r)
    /\ answer' = [answer EXCEPT ![r] = got[r]]
    /\ slots' = slots \ {r}
    /\ Ends(r, "record", tally[r] + 1)
    /\ UNCHANGED <<attempt, got, ended, counted, billed, tally, allowance>>

-----------------------------------------------------------------------------
(* Failure *)

Interrupted(r) == phase[r] = "stream" \/ (phase[r] = "parse" /\ ~Complete(r))

(* an error that no retry mends: a protocol violation, a refused request,   *)
(* a payload that does not parse, a stream without usage                    *)
Reject(r) ==
    /\ phase[r] \in {"stream", "parse"}
    /\ slots' = slots \ {r}
    /\ tally' = [tally EXCEPT ![r] = @ + Adds(r)]
    /\ Ends(r, "failed", tally[r] + Adds(r))
    /\ UNCHANGED <<attempt, got, ended, counted, billed, answer, allowance>>

(* RetryTimeBudget.consume *)
Consumed(budget, t) == IF t > budget THEN 0 ELSE budget - t

(* mutant: what a broken attempt has reported is not kept *)
RetryForgets(r) ==
    /\ Interrupted(r) /\ attempt[r] <= MaxRetries
    /\ To(r, "backoff")
    /\ UNCHANGED <<slots, attempt, got, ended, counted, billed, tally, usage, answer, allowance>>

(* with_retry, after a transient error: the time the attempt took and the   *)
(* wait before the next are taken from the allowance that calls share       *)
Retry(r) ==
    /\ Interrupted(r)
    /\ tally' = [tally EXCEPT ![r] = @ + Adds(r)]
    /\ \E took \in 0..1, wait \in 1..2 :
        LET left == Consumed(allowance, took)
            some == took <= allowance
        IN  IF attempt[r] > MaxRetries \/ ~some \/ wait > left
            THEN /\ Ends(r, "failed", tally'[r]) /\ slots' = slots \ {r}
                 /\ allowance' = IF attempt[r] > MaxRetries \/ ~some THEN left ELSE 0
            ELSE /\ allowance' = left - wait
                 /\ To(r, "backoff") /\ UNCHANGED <<usage, slots>>
    /\ UNCHANGED <<attempt, got, ended, counted, billed, answer>>

Backoff(r) ==
    /\ phase[r] = "backoff" /\ To(r, "open")
    /\ UNCHANGED <<slots, attempt, got, ended, counted, billed, tally, usage, answer, allowance>>

(* a cancellation, or the round's deadline, at any await: the error carries *)
(* what attempts have reported; while an answer is recorded, its usage      *)
CancelRequest(r) ==
    /\ phase[r] \in {"admit", "open", "stream", "close", "backoff", "record"}
    /\ slots' = slots \ {r}
    /\ LET more == IF phase[r] \in {"stream", "close"} THEN Adds(r) ELSE 0
       IN  /\ tally' = [tally EXCEPT ![r] = @ + more]
           /\ Ends(r, "failed", IF phase[r] = "record" THEN usage[r] ELSE tally[r] + more)
    /\ UNCHANGED <<attempt, got, ended, counted, billed, answer, allowance>>

(* the usage ledger; its failures are not the call's *)
RecordUsage(r) ==
    /\ phase[r] = "record" /\ To(r, "answered")
    /\ UNCHANGED <<slots, attempt, got, ended, counted, billed, tally, usage, answer, allowance>>

(* the process dies; the file locks it held are free *)
Die(r) ==
    /\ phase[r] \in {"admit", "open", "stream", "backoff"}
    /\ To(r, "dead") /\ slots' = slots \ {r}
    /\ UNCHANGED <<attempt, got, ended, counted, billed, tally, usage, answer, allowance>>

RequestsStep ==
    \E r \in Request :
        Admit(r) \/ Open(r) \/ Event(r) \/ Close(r) \/ Accept(r) \/ Reject(r) \/ Retry(r)
        \/ Backoff(r) \/ RecordUsage(r)

RequestsNext == RequestsStep \/ \E r \in Request : Call(r) \/ CancelRequest(r) \/ Die(r)

(* every attempt ends, by its timeouts if need be, and a waiting call polls *)
RequestsSpec == RequestsInit /\ [][RequestsNext]_llmVars /\ WF_llmVars(RequestsStep)

-----------------------------------------------------------------------------
(* Properties *)

(* A call that returns or raises, by a retry's last failure, a deadline or  *)
(* a cancellation, accounts for exactly the usage its attempts reported,    *)
(* once each.  (An answer that came whole and cannot be parsed is the one   *)
(* exception.)                                                              *)
UsageIsCounted ==
    \A r \in Request :
        phase[r] \in {"answered", "failed"} /\ (Protocol[r] # "whole" \/ phase[r] = "answered") =>
            usage[r] = billed[r]

(* An answer consists of everything one attempt sent and of nothing else,   *)
(* however its fragments interleave and whatever earlier attempts of the    *)
(* same call left behind.                                                   *)
AnswerIsOneAttempt ==
    \A r \in Request :
        phase[r] = "answered" => answer[r] = Item \X {attempt[r]}

(* Attempts of a request are kept apart in the answer and added up in the    *)
(* usage (with_retry, _consume_stream, record_api_usage).                    *)
AttemptsAreApart == UsageIsCounted /\ AnswerIsOneAttempt

-----------------------------------------------------------------------------
(* Inductive strengthening of AttemptsAreApart *)

RequestTypes ==
    /\ phase \in [Request -> {"idle", "admit", "open", "stream", "close", "parse", "backoff",
                               "record", "answered", "failed", "dead"}]
    /\ attempt \in [Request -> Nat]
    /\ got \in [Request -> SUBSET (Item \X Nat)] /\ answer \in [Request -> SUBSET (Item \X Nat)]
    /\ ended \in [Request -> {"no", "finish", "failed"}]
    /\ counted \in [Request -> BOOLEAN]
    /\ billed \in [Request -> Nat] /\ tally \in [Request -> Nat] /\ usage \in [Request -> Nat]

(* between attempts everything reported is in the tally; within one, what   *)
(* this attempt has reported, which is nothing before its end, is still to  *)
(* come                                                                     *)
LedgerAddsUp ==
    \A r \in Request :
        /\ phase[r] \in {"idle", "admit", "open", "backoff"} => billed[r] = tally[r]
        /\ phase[r] \in {"stream", "close", "parse"} =>
              billed[r] = tally[r] + (IF counted[r] THEN 1 ELSE 0)
        /\ phase[r] = "stream" /\ ended[r] = "no" => ~counted[r]
        /\ phase[r] \in {"record", "answered"} => usage[r] = billed[r]
        /\ phase[r] = "failed" /\ Protocol[r] # "whole" => usage[r] = billed[r]

(* an answer that comes whole is complete as soon as it is there *)
WholeIsComplete ==
    \A r \in Request : Protocol[r] = "whole" =>
        /\ phase[r] = "stream" => ~counted[r]
        /\ phase[r] # "close"
        /\ phase[r] = "parse" => Complete(r)

(* what is collected is of this attempt, and all of it once it has its end *)
CollectedApart ==
    \A r \in Request :
        /\ phase[r] \in {"stream", "close", "parse"} =>
              /\ got[r] \subseteq Item \X {attempt[r]}
              /\ ended[r] = "finish" => Collected(r)
        /\ phase[r] \in {"record", "answered"} => answer[r] = Item \X {attempt[r]}

RequestsInv == RequestTypes /\ LedgerAddsUp /\ WholeIsComplete /\ CollectedApart
=============================================================================
