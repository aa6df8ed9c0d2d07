---------------------------- MODULE ModelProvider ----------------------------
(***************************************************************************)
(* What the language-model provider may answer, and what the adapter makes *)
(* of it.  Every request is answered by one of Replies; the adapter either *)
(* returns a result, raises an OpenRouterAdapterError of some category, or *)
(* lets the exception of the HTTP library through.                         *)
(***************************************************************************)
EXTENDS Naturals, Sequences

\* Statuses stand for their class; those of 400 by what its body mentions.
HttpErrors == {"401", "402", "403", "404", "408", "409", "429", "5xx",
               "400 balance", "400 privacy", "400 model", "400 parameter",
               "400 other"}

NetworkFailures == {"timeout", "network_error"}

\* The connection is closed in the middle of the protocol: the library's
\* exception is neither a TimeoutException nor a NetworkError.
UncaughtFailures == {"protocol_error"}

Unreadable == {"not json", "no choices", "too long"}

\* Answers with a JSON object: one that says what it cost, one that leaves
\* only an identifier to ask with, and one that has neither.
Readable == {"with usage", "with id", "bare"}

Replies == HttpErrors \union NetworkFailures \union UncaughtFailures
           \union Unreadable \union Readable

\* _classify_http_error and _classify_bad_request.
HttpCategory(reply) ==
    CASE reply = "401" -> "authentication_failed"
      [] reply \in {"402", "400 balance"} -> "insufficient_balance"
      [] reply \in {"403", "400 privacy"} -> "privacy_routing_rejected"
      [] reply \in {"404", "400 model"} -> "model_unavailable"
      [] reply = "429" -> "rate_limited"
      [] reply \in {"408", "409", "5xx"} -> "upstream_unavailable"
      [] reply = "400 parameter" -> "unsupported_parameters"
      [] reply = "400 other" -> "invalid_request"

\* The category of the error that is raised for a reply.
Category(reply) ==
    IF reply \in HttpErrors THEN HttpCategory(reply)
    ELSE IF reply \in NetworkFailures THEN reply
    ELSE "invalid_structured_output"

Retryable(category) ==
    category \in {"timeout", "network_error", "rate_limited",
                  "upstream_unavailable", "invalid_structured_output"}

\* The request may have been carried out all the same.
FateUnknown(category) == category \in {"timeout", "network_error"}

ErrorOutcome(category) ==
    IF FateUnknown(category) THEN "outcome_unknown" ELSE "failed"

-----------------------------------------------------------------------------
(* The append-only outcomes of one call                                    *)

CallOutcomes == {"succeeded", "failed", "outcome_unknown", "late_response"}

\* One call's outcome events, in the order of their sequence numbers.
OutcomeEvents == {<<>>} \union {<<o>> : o \in CallOutcomes \ {"late_response"}}
                 \union {<<"outcome_unknown", "late_response">>}

\* persist_call_response, under the advisory lock of the call.
Persisted(events, requested) ==
    IF events = <<>> THEN <<requested>>
    ELSE IF events = <<"outcome_unknown">> THEN Append(events, "late_response")
    ELSE events

IsLate(events) == Len(events) = 2

-----------------------------------------------------------------------------
(* The metadata events of one call                                         *)

\* _append_initial_metadata: what the first event may say of a reply.  Answers
\* that could not be used, and errors, may carry a JSON object all the same.
InitialMetadata(reply) ==
    CASE reply = "with usage" -> {"available"}
      [] reply = "with id" -> {"retry_scheduled"}
      [] reply \in {"bare", "not json"} \union NetworkFailures -> {"unavailable"}
      [] OTHER -> {"available", "retry_scheduled", "unavailable"}
=============================================================================
