------------------------------ MODULE Surfaces ------------------------------
(***************************************************************************)
(* One call of the Rust SDK over REST or gRPC, from the SDK's own checks   *)
(* through route or stub and dispatch to the handler's steps and back; or  *)
(* one call of the embedded client, from Rust or through its Node binding. *)
(* Calls share nothing here: what they share (sessions, pointers, streams) *)
(* has modules of its own, so one call at a time is followed.              *)
(*                                                                         *)
(* Everything a handler refuses may be wrong with a call, some of it only  *)
(* in a call of another client on the same route.  ant-core's calls return *)
(* or fail, the caller may leave at any await of the handler, and the      *)
(* daemon may die.                                                         *)
(***************************************************************************)
EXTENDS Naturals, FiniteSets, RestHandlers, GrpcHandlers, GrpcRoutes, SdkCalls, FfiCalls,
        Errors

CONSTANTS
    MaxBad,      \* facts that fail in one call (bound)
    CoreErrors   \* the errors of ant-core that are tried (bound)

ASSUME BoundsAssumption == MaxBad \in Nat /\ CoreErrors \subseteq CoreKinds

\* A call goes to the daemon or into the embedded client.
ToDaemon   == {"rest", "grpc"}
Embedded   == {"ffi", "node"}
Transports == ToDaemon \cup Embedded

Ops(via) == CASE via = "rest" -> DOMAIN HttpCalls
              [] via = "grpc" -> DOMAIN Rpcs
              [] via = "ffi"  -> DOMAIN FfiScripts
              [] via = "node" -> DOMAIN NodeDelegates

-----------------------------------------------------------------------------
(* From a call to the steps of its handler.                                *)

\* data_stream and its gRPC twins answer a range differently.
RangeTwin ==
    [data_stream |-> "data_stream_range", data_stream_public |-> "data_stream_public_range",
     stream      |-> "stream_range",      stream_public      |-> "stream_public_range"]

Asked(call, handler) == IF call.ranged THEN RangeTwin[handler] ELSE handler

RestRoute(call) == <<call.verb, call.path>>

GrpcPath(call) == Stubs[call.service][call.method]

Routed(op, via) ==
    CASE via = "rest" -> RestRoute(HttpCalls[op]) \in DOMAIN Router
      [] via = "grpc" -> GrpcPath(Rpcs[op]) \in DOMAIN Dispatch[Rpcs[op].service]
      [] OTHER        -> TRUE

RestScript(call) == RestScripts[Asked(call, Router[RestRoute(call)])]

GrpcScript(call) ==
    GrpcScripts[call.service][Asked(call, Dispatch[call.service][GrpcPath(call)].method)]

Script(op, via) ==
    CASE via = "rest" -> RestScript(HttpCalls[op])
      [] via = "grpc" -> GrpcScript(Rpcs[op])
      [] via = "ffi"  -> FfiScripts[op]
      [] via = "node" -> FfiScripts[NodeDelegates[op]]

Checks(op, via) == CASE via = "rest" -> HttpCalls[op].checks
                     [] via = "grpc" -> Rpcs[op].checks
                     [] OTHER        -> <<>>

FactsOf(steps) == {steps[i].fact : i \in DOMAIN steps} \ {"none"}

Facts(op, via) == FactsOf(Script(op, via)) \cup FactsOf(Checks(op, via))

\* The first guard a call fails, 0 if there is none.
FirstRefusal(steps, bad) ==
    LET failing == {i \in DOMAIN steps : steps[i].do = "need" /\ steps[i].fact \in bad}
    IN IF failing = {} THEN 0 ELSE CHOOSE i \in failing : \A j \in failing : i <= j

-----------------------------------------------------------------------------
(* Answers, as the transports carry them.                                  *)

\* A handler's own status, without any of the tags an AntdError brings.
Status(code) == [code |-> code, tag |-> "none", opens |-> "other", hint |-> "silent"]

Carried(via, error) ==
    IF via = "rest" THEN RestAnswer(E(error))
    ELSE IF error \in ErrorKinds THEN GrpcAnswer(E(error)) ELSE Status(error)

CarriedCore(via, core) ==
    IF via = "rest" THEN RestAnswer(FromCore(core)) ELSE GrpcAnswer(FromCore(core))

SdkReads(op, via, answer) ==
    IF via = "rest" THEN SdkOfRest(answer)
    ELSE IF Rpcs[op].ranged THEN SdkOfRange(answer) ELSE SdkOfGrpc(answer)

-----------------------------------------------------------------------------
VARIABLES
    req,      \* the call: what it asks, where its handler is, how it ended
    done,     \* ant-core's calls that returned, and the handler's effects
    cut,      \* ant-core's calls whose future was dropped while they ran
    open      \* the handler's temporary file, or its reporting task, is there

vars == <<req, done, cut, open>>

\* `by` says what ended the call; `here` that somebody waits for the answer.
Idle == [pc |-> "idle", op |-> "none", via |-> "none", bad |-> {}, at |-> 0, call |-> 0,
         here |-> TRUE, by |-> "none", error |-> "none"]

Init == req = Idle /\ done = {} /\ cut = {} /\ open = FALSE

Steps == Script(req.op, req.via)
Running == req.pc = "handler"
Here == Steps[req.at]
AtStep == Running /\ req.at <= Len(Steps)

\* A caller that left gets no answer.
Ends(by, error) ==
    req' = IF req.here THEN [req EXCEPT !.pc = "answered", !.by = by, !.error = error]
                       ELSE [req EXCEPT !.pc = "gone"]

Advance == req' = [req EXCEPT !.at = @ + 1, !.call = 1]

\* A method of the SDK: its checks, then its request.
Send(op, via, bad) ==
    /\ req.pc = "idle"
    /\ LET refused == FirstRefusal(Checks(op, via), bad)
           asked   == [Idle EXCEPT !.op = op, !.via = via, !.bad = bad]
       IN req' = IF refused # 0 THEN [asked EXCEPT !.pc = "answered", !.by = "sdk",
                                                   !.error = Checks(op, via)[refused].error]
                 ELSE IF ~Routed(op, via)
                 THEN [asked EXCEPT !.pc = "answered", !.by = "route", !.error = "NotFound"]
                 ELSE [asked EXCEPT !.pc = "handler", !.at = 1, !.call = 1]
    /\ UNCHANGED <<done, cut, open>>

\* A guard, of the request or of a result.
Guard ==
    /\ AtStep
    /\ Here.do \in {"need", "check"}
    /\ IF Here.fact \in req.bad THEN Ends(Here.do, Here.error) ELSE Advance
    /\ UNCHANGED <<done, cut, open>>

EndsEarly ==
    /\ AtStep
    /\ Here.do = "ends"
    /\ IF Here.fact \in req.bad THEN Ends("ok", "none") ELSE Advance
    /\ UNCHANGED <<done, cut, open>>

Touch ==
    /\ AtStep
    /\ Here.do \in {"effect", "cleanup"}
    /\ Advance
    /\ open' = (Here \in {Stage, Bridge} \/ (open /\ Here \notin {Unstage, Flush, FlushIfDone}))
    /\ done' = done \cup {Here.calls[1]}
    /\ UNCHANGED cut

Calling == AtStep /\ Here.do \in {"spawn", "await"}

CallReturns ==
    /\ Calling
    /\ done' = done \cup {Here.calls[req.call]}
    /\ IF req.call < Len(Here.calls) THEN req' = [req EXCEPT !.call = @ + 1]
       ELSE IF req.here THEN Advance ELSE Ends("ok", "none")
    /\ UNCHANGED <<cut, open>>

\* What has to be closed again is closed before the error is answered.
CleansUp ==
    /\ req.here
    /\ req.at < Len(Steps)
    /\ Steps[req.at + 1].do = "cleanup"

CallFails(core) ==
    /\ Calling
    /\ Ends("core", CASE Here.error # "core"    -> Here.error
                      [] req.via \in Embedded -> FfiOfCore(core)
                      [] OTHER                -> core)
    /\ open' = (open /\ ~CleansUp)
    /\ UNCHANGED <<done, cut>>

Answer ==
    /\ Running
    /\ req.at > Len(Steps)
    /\ Ends("ok", "none")
    /\ UNCHANGED <<done, cut, open>>

-----------------------------------------------------------------------------
\* Fault: the calls of a spawned task run in the handler.
NeverDetached(step) == FALSE

\* tokio::spawn: the task goes on when the handler that waits for it is dropped.
Detached(step) == step.do = "spawn"

\* Where a handler awaits, and so can be dropped.  A Promise cannot be.
Awaits(step) ==
    CASE req.via = "node" -> FALSE
      [] req.via = "ffi"  -> step.do = "await" \/ step \in {Flush, FlushIfDone}
      [] OTHER -> \/ step.do \in {"spawn", "await"}
                  \/ step \in {Stage, Effect("take_chunk"), Effect("insert_chunk"),
                               Effect("insert_upload")}

\* The SDK's HTTP request times out, or the caller drops the call.  The write of a
\* temporary file goes on by itself.
CallerLeaves ==
    /\ AtStep
    /\ req.here
    /\ Awaits(Here)
    /\ IF Detached(Here)
       THEN /\ req' = [req EXCEPT !.here = FALSE]
            /\ UNCHANGED <<cut, open>>
       ELSE /\ req' = [req EXCEPT !.here = FALSE, !.pc = "gone"]
            /\ cut' = IF Here.do \in {"effect", "cleanup"} THEN cut ELSE {Here.calls[req.call]}
            /\ open' \in {open, open \/ Here = Stage}
    /\ UNCHANGED done

\* The daemon, or the app's process, dies: what it was doing ends where it stands; a
\* temporary file stays.
DaemonDies ==
    /\ Running
    /\ req' = [req EXCEPT !.pc = "died"]
    /\ UNCHANGED <<done, cut, open>>

Next ==
    \/ \E via \in Transports : \E op \in Ops(via) :
          \E bad \in {b \in SUBSET Facts(op, via) : Cardinality(b) <= MaxBad} :
             Send(op, via, bad)
    \/ Guard
    \/ EndsEarly
    \/ Touch
    \/ CallReturns
    \/ \E core \in CoreErrors : CallFails(core)
    \/ Answer
    \/ CallerLeaves
    \/ DaemonDies

Spec == Init /\ [][Next]_vars

-----------------------------------------------------------------------------
(* Properties.                                                             *)

Answered == req.pc = "answered"

\* What a successful call has done, by the documentation of the SDK's method.
Promise(op) ==
    CASE op \in {"health", "wallet_address", "pointer_keys"} -> {}
      [] op = "data_put"              -> {"data_upload"}
      [] op = "data_put_public"       -> {"data_upload", "data_map_store"}
      [] op = "data_get"              -> {"data_download"}
      [] op = "data_get_public"       -> {"data_map_fetch", "data_download"}
      [] op \in {"data_stream", "data_stream_with_progress"} -> {"open_stream"}
      [] op \in {"data_stream_public", "data_stream_public_with_progress"}
                                      -> {"data_map_fetch", "open_stream"}
      [] op = "data_stream_range"     -> {"open_range"}
      [] op = "data_stream_public_range" -> {"data_map_fetch", "open_range"}
      [] op \in {"data_cost", "file_cost"} -> {"estimate"}
      [] op = "file_put"              -> {"file_upload"}
      [] op = "file_put_public"       -> {"file_upload_public"}
      [] op = "file_get"              -> {"file_download"}
      [] op = "file_get_public"       -> {"data_map_fetch", "file_download"}
      [] op = "wallet_balance"        -> {"token_balance", "gas_balance"}
      [] op = "wallet_approve"        -> {"approve"}
      [] op \in {"prepare_upload", "prepare_upload_public"} -> {"file_prepare", "insert_upload"}
      [] op = "prepare_data_upload"   -> {"data_prepare", "insert_upload"}
      [] op \in {"finalize_upload", "finalize_merkle_upload"} -> {"finalize_pending"}
      [] op = "prepare_chunk_upload"  -> IF "new" \in req.bad THEN {"prepare_chunk"}
                                         ELSE {"prepare_chunk", "insert_chunk"}
      [] op = "finalize_chunk_upload" -> {"take_chunk", "finalize_chunk"}
      [] op = "verify_quotes"         -> {"verify"}
      [] op = "data_put_private"      -> {"data_upload"}
      [] op = "data_get_private"      -> {"data_download"}
      [] op = "file_upload_private"   -> {"file_upload"}
      [] op = "file_download_private" -> {"file_download"}
      [] op \in {"file_download_public", "download_public_to_file"}
                                      -> {"data_map_fetch", "file_download"}
      [] op = "download_private_to_file" -> {"file_download"}
      [] op = "file_upload_public_with_progress"  -> {"file_upload_public"}
      [] op = "file_upload_private_with_progress" -> {"file_upload"}
      [] op \in {"estimate_file_cost", "estimate_file_cost_with_progress"} -> {"estimate"}
      [] op \in {"prepare_file_upload", "prepare_file_upload_with_progress"}
                                      -> {"file_prepare", "insert_upload"}
      [] op \in {"finalize_upload_with_progress", "finalize_upload_merkle",
                 "finalize_upload_merkle_with_progress"} -> {"take_session", "finalize_pending"}
      [] op = "payment_transactions"  -> {"bill"}
      [] op = "build_manifest"        -> {"build"}
      [] op = "decode_manifest"       -> {"decode"}
      [] OTHER                        -> {op}

\* An SDK method's success means what its documentation says, and only that,
\* whichever transport it took: everything promised has been done and nothing
\* else that lasts.  An error means that something was wrong with the call or that
\* a call into ant-core failed: no route is missing and none leads elsewhere.  Both
\* come when the handler's temporary file has been removed and the last progress
\* delivered, but for the download to a file that fails in the embedded client.
AnswerIsDeserved ==
    Answered =>
        /\ IF req.by = "ok"
           THEN Promise(req.op) \subseteq done /\ done \cap Lasting \subseteq Promise(req.op)
           ELSE req.by = "core" \/ req.bad # {}
        /\ open => req.by = "core" /\ req.op \in DOMAIN FfiProgressDownloads

\* A call that is refused has left nothing behind: nothing was paid, stored,
\* written to disk or put into a session, whatever else is wrong with it.  The one
\* exception is the finalize of a chunk, which takes the session first.
RefusedLeavesNothing ==
    Answered /\ req.by \in {"sdk", "need"}
      => done \cap Lasting \subseteq {"take_chunk"}

\* What has been paid for is stored to the end when the caller leaves: no call
\* of the daemon that spends, or stores what was paid, is dropped half way, and none
\* that a Promise waits for.  The exception is chunk_put, which runs in the handler
\* on both transports.
PaidIsNotCut ==
    req.via # "ffi" => cut \cap (WalletCalls \cup PaidStores) \subseteq {"chunk_put"}

\* What the SDK's caller sees of a refusal: the kind of the SDK's error, which is that
\* of the check for one of its own, and the code that came with it.
Report(op, via, by, error) ==
    LET answer == Carried(via, error)
    IN IF by = "sdk" THEN [kind |-> error, code |-> "none"]
       ELSE [kind |-> SdkReads(op, via, answer).kind, code |-> answer.code]

Refuses(op, via, bad) ==
    FirstRefusal(Checks(op, via), bad) # 0 \/ FirstRefusal(Script(op, via), bad) # 0

\* The report of a transport that refuses a call for one of `bad`, if ant-core's calls
\* before its refusal return.
Refusal(op, via, bad) ==
    LET check == FirstRefusal(Checks(op, via), bad)
        need  == FirstRefusal(Script(op, via), bad)
    IN IF check # 0 THEN Report(op, via, "sdk", Checks(op, via)[check].error)
       ELSE Report(op, via, "need", Script(op, via)[need].error)

\* What is wrong with how a transport carries a call, not with the call: over REST the
\* body's length, its JSON and base64 and a header's characters, over gRPC the base64
\* that verify_quotes decodes itself (over REST it is a verdict on its entry).
Carriage == {"length", "json", "base64", "ascii", "entries64"}

\* The errors the SDK has a kind for over REST alone.
RestOnly == {"NotFound", "ServiceUnavailable", "Internal"}

\* The wallet's own service.
OwnCodes == {"wallet_address", "wallet_balance", "wallet_approve"}

\* The same kind; or the status of that kind, where the SDK leaves it to its caller.
\* A daemon without a wallet answers the wallet's calls with FAILED_PRECONDITION
\* where REST says 503, and the SDK has no kind for that.
ReadAlike(op, rest, grpc) ==
    IF rest.kind \notin RestOnly THEN grpc.kind = rest.kind
    ELSE /\ grpc.kind = "Grpc"
         /\ grpc.code = IF op \in OwnCodes THEN "FAILED_PRECONDITION" ELSE GrpcCode(rest.kind)

\* What one transport refuses the other refuses, whoever refuses it, the SDK or the
\* handler, and in an order that makes the SDK report it alike, whatever else is wrong
\* with the call but how it is carried.
TransportsAgree ==
    Answered /\ req.by \in {"sdk", "need"} /\ req.via \in ToDaemon /\ req.bad \cap Carriage = {}
      => LET other == IF req.via = "rest" THEN "grpc" ELSE "rest"
             own   == Report(req.op, req.via, req.by, req.error)
             its   == Refusal(req.op, other, req.bad)
         IN /\ Refuses(req.op, other, req.bad)
            /\ IF req.via = "rest" THEN ReadAlike(req.op, own, its)
               ELSE ReadAlike(req.op, its, own)

=============================================================================
