------------------------------- MODULE Errors -------------------------------
(***************************************************************************)
(* shared/errors.go, shared/response.go and api-gateway/error_handler.go:   *)
(* the tables that turn an error into a wire code and an HTTP status.       *)
(* Messages and field details are left out.                                 *)
(***************************************************************************)
EXTENDS Integers

(* The sentinels; "unknown" is an error that wraps none of them. *)
Sentinels == {"ErrValidation", "ErrUnauthorized", "ErrForbidden", "ErrNotFound",
              "ErrVideoStatusConflict", "ErrVideoNotReady", "ErrUploadMissing",
              "ErrUploadSizeInvalid", "ErrSelfFollow", "ErrWebhookSignature",
              "ErrWebhookEvent", "ErrRateLimited", "ErrInternal", "unknown"}

httpStatusFor(err) ==
    CASE err \in {"ErrValidation", "ErrUploadSizeInvalid", "ErrSelfFollow", "ErrWebhookEvent"} -> 400
      [] err \in {"ErrUnauthorized", "ErrWebhookSignature"} -> 401
      [] err = "ErrForbidden" -> 403
      [] err = "ErrNotFound" -> 404
      [] err \in {"ErrVideoStatusConflict", "ErrVideoNotReady", "ErrUploadMissing"} -> 409
      [] err = "ErrRateLimited" -> 429
      [] OTHER -> 500

codeFor(err) ==
    CASE err = "ErrValidation" -> "VALIDATION_ERROR"
      [] err = "ErrUnauthorized" -> "UNAUTHORIZED"
      [] err = "ErrForbidden" -> "FORBIDDEN"
      [] err = "ErrNotFound" -> "NOT_FOUND"
      [] err = "ErrVideoStatusConflict" -> "VIDEO_STATUS_CONFLICT"
      [] err = "ErrVideoNotReady" -> "VIDEO_NOT_READY"
      [] err = "ErrUploadMissing" -> "UPLOAD_MISSING"
      [] err = "ErrUploadSizeInvalid" -> "UPLOAD_SIZE_INVALID"
      [] err = "ErrSelfFollow" -> "SELF_FOLLOW_NOT_ALLOWED"
      [] err = "ErrWebhookSignature" -> "WEBHOOK_INVALID_SIGNATURE"
      [] err = "ErrWebhookEvent" -> "WEBHOOK_EVENT_UNSUPPORTED"
      [] err = "ErrRateLimited" -> "RATE_LIMITED"
      [] OTHER -> "INTERNAL_ERROR"

httpStatusForCode(code) ==
    CASE code \in {"VALIDATION_ERROR", "UPLOAD_SIZE_INVALID", "SELF_FOLLOW_NOT_ALLOWED",
                   "WEBHOOK_EVENT_UNSUPPORTED"} -> 400
      [] code \in {"UNAUTHORIZED", "WEBHOOK_INVALID_SIGNATURE"} -> 401
      [] code = "FORBIDDEN" -> 403
      [] code = "NOT_FOUND" -> 404
      [] code \in {"VIDEO_STATUS_CONFLICT", "VIDEO_NOT_READY", "UPLOAD_MISSING"} -> 409
      [] code = "RATE_LIMITED" -> 429
      [] OTHER -> 500

(* An error the handlers build: a wrapped sentinel (api = FALSE), or an
   *APIError with its own code and status, "" and 0 when not given, around a
   cause. *)
ClassifyError(err) ==
    LET code == IF err.api /\ err.code # "" THEN err.code ELSE codeFor(err.cause)
    IN  [code |-> code,
         status |-> IF ~err.api THEN httpStatusFor(err.cause)
                    ELSE IF err.status # 0 THEN err.status
                    ELSE httpStatusForCode(code)]

(* shared.Wrap, as nearly all refusals use it. *)
Wrapped(sentinel) == [api |-> FALSE, code |-> "", status |-> 0, cause |-> sentinel]

(* RespondError: the status it writes. *)
StatusOf(sentinel) == ClassifyError(Wrapped(sentinel)).status

(* HTTPErrorHandler on an error of the framework (no route, wrong method, a
   body that cannot be bound): the status stays. *)
mapEchoHTTPError(status) ==
    [status |-> status,
     code |-> CASE status = 404 -> "NOT_FOUND"
                [] status \in {400, 405} -> "VALIDATION_ERROR"
                [] OTHER -> "INTERNAL_ERROR"]
=============================================================================
