------------------------------- MODULE Errors -------------------------------
(***************************************************************************)
(* How an error travels: ant-core to the daemon (antd/src/error.rs), the   *)
(* daemon over REST or gRPC, and into the Rust SDK (antd-rust/src/         *)
(* errors.rs) and the embedded client (ffi/rust/ant-ffi/src/lib.rs).       *)
(*                                                                         *)
(* An error is its kind and what it says about retention of a paid attempt *)
(* ("kept", "dropped" or "silent").  Counts and texts are left out, except *)
(* for the text a gRPC message ends with, which carries the retention.     *)
(***************************************************************************)
EXTENDS Naturals

Retentions == {"kept", "dropped", "silent"}

E(kind) == [kind |-> kind, retention |-> "silent"]
Says(kind, retention) == [kind |-> kind, retention |-> retention]

\* AntdError.
ErrorKinds ==
    {"NotFound", "AlreadyExists", "BadRequest", "Payment", "Network", "TooLarge",
     "PayloadTooLarge", "Timeout", "ServiceUnavailable", "NotImplemented", "Internal",
     "CloseGroupShortfall", "PointerFinal", "PointerForked", "Conflict",
     "RangeNotSatisfiable", "PartialUpload"}

\* The errors the daemon builds: only a partial upload always states retention,
\* and a shortfall states it when a pointer finalize kept the paid state.
DaemonErrors ==
    {E(k) : k \in ErrorKinds \ {"PartialUpload"}}
        \cup {Says("CloseGroupShortfall", "kept"),
              Says("PartialUpload", "kept"), Says("PartialUpload", "dropped")}

\* AntdError::from_core; what is not listed is internal.
CoreKinds ==
    {"AlreadyStored", "NotFound", "InvalidData", "Payment", "Network", "Timeout",
     "InsufficientPeers", "Protocol", "Encryption", "Serialization", "CloseGroupShortfall",
     "PointerFinal", "PointerForked", "PartialUpload", "InsufficientDiskSpace", "IoStorageFull", "Io"}

FromCore(core) ==
    CASE core = "AlreadyStored"     -> E("AlreadyExists")
      [] core = "InvalidData"       -> E("BadRequest")
      [] core = "InsufficientPeers" -> E("Network")
      [] core = "PartialUpload"     -> Says("PartialUpload", "dropped")
      [] core \in {"NotFound", "Payment", "Network", "Timeout", "CloseGroupShortfall",
                   "PointerFinal", "PointerForked"} -> E(core)
      [] OTHER                      -> E("Internal")

-----------------------------------------------------------------------------
\* AntdError::code.
Code(kind) ==
    CASE kind = "NotFound"            -> "NOT_FOUND"
      [] kind = "AlreadyExists"       -> "ALREADY_EXISTS"
      [] kind = "BadRequest"          -> "BAD_REQUEST"
      [] kind = "Payment"             -> "PAYMENT_REQUIRED"
      [] kind = "Network"             -> "NETWORK_ERROR"
      [] kind = "TooLarge"            -> "TOO_LARGE"
      [] kind = "PayloadTooLarge"     -> "PAYLOAD_TOO_LARGE"
      [] kind = "Timeout"             -> "TIMEOUT"
      [] kind = "ServiceUnavailable"  -> "SERVICE_UNAVAILABLE"
      [] kind = "NotImplemented"      -> "NOT_IMPLEMENTED"
      [] kind = "Internal"            -> "INTERNAL_ERROR"
      [] kind = "RangeNotSatisfiable" -> "RANGE_NOT_SATISFIABLE"
      [] kind = "PartialUpload"       -> "PARTIAL_UPLOAD"
      [] kind = "CloseGroupShortfall" -> "CLOSE_GROUP_SHORTFALL"
      [] kind = "PointerFinal"        -> "POINTER_FINAL"
      [] kind = "PointerForked"       -> "POINTER_FORKED"
      [] kind = "Conflict"            -> "CONFLICT"

\* into_response: status, and a body whose `retryable` is absent for "silent".
HttpStatus(kind) ==
    CASE kind = "NotFound"                        -> 404
      [] kind \in {"AlreadyExists", "PointerFinal", "PointerForked", "Conflict"} -> 409
      [] kind = "BadRequest"                      -> 400
      [] kind = "Payment"                         -> 402
      [] kind \in {"Network", "PartialUpload"}    -> 502
      [] kind \in {"TooLarge", "PayloadTooLarge"} -> 413
      [] kind = "Timeout"                         -> 504
      [] kind \in {"ServiceUnavailable", "CloseGroupShortfall"} -> 503
      [] kind = "NotImplemented"                  -> 501
      [] kind = "Internal"                        -> 500
      [] kind = "RangeNotSatisfiable"             -> 416

RestAnswer(e) == [status |-> HttpStatus(e.kind), code |-> Code(e.kind), retryable |-> e.retention]

\* Status::from: the codes that share a status with an older error carry a tag.
GrpcCode(kind) ==
    CASE kind = "NotFound"            -> "NOT_FOUND"
      [] kind = "AlreadyExists"       -> "ALREADY_EXISTS"
      [] kind = "BadRequest"          -> "INVALID_ARGUMENT"
      [] kind \in {"Payment", "PointerFinal", "PointerForked"} -> "FAILED_PRECONDITION"
      [] kind \in {"Network", "ServiceUnavailable", "CloseGroupShortfall"} -> "UNAVAILABLE"
      [] kind \in {"TooLarge", "PayloadTooLarge"} -> "RESOURCE_EXHAUSTED"
      [] kind = "Timeout"             -> "DEADLINE_EXCEEDED"
      [] kind = "NotImplemented"      -> "UNIMPLEMENTED"
      [] kind = "Internal"            -> "INTERNAL"
      [] kind = "RangeNotSatisfiable" -> "OUT_OF_RANGE"
      [] kind \in {"PartialUpload", "Conflict"} -> "ABORTED"

Tagged == {"CloseGroupShortfall", "PointerFinal", "PointerForked", "Conflict", "PayloadTooLarge"}

\* The message: what it opens with, and the hint in its closing parenthesis
\* (a pointer finalize that kept the state closes with the same one).
GrpcAnswer(e) ==
    [code |-> GrpcCode(e.kind),
     tag  |-> IF e.kind \in Tagged THEN Code(e.kind) ELSE "none",
     opens |-> IF e.kind = "PartialUpload" THEN "counts" ELSE "other",
     hint |-> e.retention]

\* A proxy, or another version of the daemon, may cut or change a message: the
\* counts may not parse and the hint may be gone.
Damaged(a) ==
    {a} \cup {[a EXCEPT !.hint = "silent"], [a EXCEPT !.opens = "prefix", !.hint = "silent"]}

-----------------------------------------------------------------------------
\* The SDK's errors, a partial upload with what it knows of retention.
SdkError(kind, retention) == [kind |-> kind, retention |-> retention]

\* error_for_status.
ForStatus(status) ==
    CASE status = 400 -> "BadRequest"
      [] status = 402 -> "Payment"
      [] status = 404 -> "NotFound"
      [] status = 409 -> "AlreadyExists"
      [] status = 413 -> "TooLarge"
      [] status = 416 -> "RangeNotSatisfiable"
      [] status = 502 -> "Network"
      [] status = 503 -> "ServiceUnavailable"
      [] OTHER        -> "Internal"

\* error_for_body: by the code first, by the status without one.  A shortfall
\* that does not say "kept" reads as not kept.
SdkOfRest(a) ==
    CASE a.code = "PARTIAL_UPLOAD"        -> SdkError("PartialUpload", a.retryable)
      [] a.code = "POINTER_FINAL"         -> SdkError("PointerFinal", "silent")
      [] a.code = "POINTER_FORKED"        -> SdkError("PointerForked", "silent")
      [] a.code = "CONFLICT"              -> SdkError("Conflict", "silent")
      [] a.code = "CLOSE_GROUP_SHORTFALL" ->
            SdkError("CloseGroupShortfall", IF a.retryable = "kept" THEN "kept" ELSE "silent")
      [] OTHER -> SdkError(ForStatus(a.status), "silent")

\* typed_status_error: an error by its tag, if code and tag belong together.
TypedStatus(a) ==
    CASE a.code = "FAILED_PRECONDITION" /\ a.tag \in {"POINTER_FINAL"}  -> "PointerFinal"
      [] a.code = "FAILED_PRECONDITION" /\ a.tag \in {"POINTER_FORKED"} -> "PointerForked"
      [] a.code = "ABORTED" /\ a.tag = "CONFLICT"                       -> "Conflict"
      [] a.code = "UNAVAILABLE" /\ a.tag = "CLOSE_GROUP_SHORTFALL"      -> "CloseGroupShortfall"
      [] OTHER -> "none"

\* Fault: readable counts without a hint read as "not kept".
RetentionByCounts(a) ==
    IF a.opens # "counts" THEN "silent" ELSE IF a.hint = "silent" THEN "dropped" ELSE a.hint

\* parse_partial_upload_message: retention is known only if the counts parse and
\* the message closes with one of the daemon's two hints.
MessageRetention(a) == IF a.opens = "counts" THEN a.hint ELSE "silent"

\* From<tonic::Status>; everything else stays a status.
SdkOfGrpc(a) ==
    IF TypedStatus(a) # "none"
    THEN SdkError(TypedStatus(a), IF a.hint = "kept" THEN "kept" ELSE "silent")
    ELSE IF a.code = "INVALID_ARGUMENT" THEN SdkError("BadRequest", "silent")
    ELSE IF a.code = "ABORTED" /\ a.opens \in {"counts", "prefix"}
    THEN SdkError("PartialUpload", MessageRetention(a))
    ELSE SdkError("Grpc", "silent")

\* range_call_error: a call for a range reads OUT_OF_RANGE itself.
SdkOfRange(a) ==
    IF a.code = "OUT_OF_RANGE" THEN SdkError("RangeNotSatisfiable", "silent") ELSE SdkOfGrpc(a)

\* ClientError::from of the embedded client.
FfiOfCore(core) ==
    CASE core = "AlreadyStored"                   -> "AlreadyExists"
      [] core = "InvalidData"                     -> "InvalidInput"
      [] core = "Payment"                         -> "PaymentError"
      [] core \in {"Network", "InsufficientPeers"} -> "NetworkError"
      [] core = "Timeout"                         -> "Timeout"
      [] core \in {"InsufficientDiskSpace", "IoStorageFull"} -> "InsufficientDiskSpace"
      [] core = "PartialUpload"                   -> "PartialUpload"
      [] OTHER                                    -> "InternalError"

=============================================================================
