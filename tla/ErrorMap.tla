------------------------------ MODULE ErrorMap ------------------------------
(***************************************************************************)
(* How a failed upstream call becomes the status the client gets: the      *)
(* adapters' classification into sentinel errors                           *)
(* (internal/provider/openai/errors.go and anthropic/errors.go), the       *)
(* handler's mapping of sentinels (internal/server/errmap.go) and the      *)
(* status label of the metrics (internal/observability/gateway_metrics.go).*)
(*                                                                         *)
(* A reply is [vendor, status, type]: an HTTP response with its status and *)
(* the error code or type of its body ("" when there is none), or, for     *)
(* vendor "transport", no response and why.                                *)
(***************************************************************************)
EXTENDS Integers

\* openai: mapStatusToSentinel.
OpenAISentinel(status, code) ==
  CASE status \in {401, 403} -> "ErrAuth"
    [] status = 429 -> "ErrRateLimited"
    [] status = 400 /\ code = "context_length_exceeded" -> "ErrContextLength"
    [] status = 400 /\ code # "context_length_exceeded" -> "ErrInvalidRequest"
    [] status \in {404, 422} -> "ErrInvalidRequest"
    [] status = 408 -> "ErrTimeout"
    [] status = 503 -> "ErrUnavailable"
    [] OTHER -> "ErrUpstream"

\* anthropic: mapToSentinel; the type of the body comes before the status.
AnthropicSentinel(status, type) ==
  CASE type \in {"authentication_error", "permission_error"} -> "ErrAuth"
    [] type = "rate_limit_error" -> "ErrRateLimited"
    [] type = "overloaded_error" -> "ErrUnavailable"
    [] type \in {"invalid_request_error", "not_found_error"} -> "ErrInvalidRequest"
    [] type = "request_too_large" -> "ErrContextLength"
    [] type = "api_error" -> "ErrUpstream"
    [] OTHER ->
         CASE status \in {401, 403} -> "ErrAuth"
           [] status = 429 -> "ErrRateLimited"
           [] status \in {400, 404, 422} -> "ErrInvalidRequest"
           [] status = 408 -> "ErrTimeout"
           [] status \in {503, 529} -> "ErrUnavailable"
           [] OTHER -> "ErrUpstream"

\* mapRequestError of both adapters: context.Canceled stays as it is.
TransportSentinel(cause) ==
  CASE cause = "canceled" -> "Canceled"
    [] cause = "deadline" -> "ErrTimeout"
    [] OTHER -> "ErrUnavailable"

Sentinel(reply) ==
  CASE reply.vendor = "openai" -> OpenAISentinel(reply.status, reply.type)
    [] reply.vendor = "anthropic" -> AnthropicSentinel(reply.status, reply.type)
    [] reply.vendor = "transport" -> TransportSentinel(reply.type)

\* mapProviderError.
ClientStatus(sentinel) ==
  CASE sentinel \in {"ErrAuth", "ErrUpstream"} -> 502
    [] sentinel = "ErrRateLimited" -> 429
    [] sentinel \in {"ErrContextLength", "ErrInvalidRequest"} -> 400
    [] sentinel = "ErrTimeout" -> 504
    [] sentinel = "ErrUnavailable" -> 503
    [] OTHER -> 500

\* statusLabel: the statuses that have a label of their own, and the classes.
StatusLabel(status) ==
  IF status \in {401, 403, 404, 413, 429, 502, 503, 504} THEN status
  ELSE IF status \in 200 .. 599 THEN status \div 100 ELSE 0
=============================================================================
