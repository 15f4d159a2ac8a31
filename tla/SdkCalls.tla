------------------------------ MODULE SdkCalls ------------------------------
(***************************************************************************)
(* The calls of the Rust SDK over both transports (antd-rust/src/client.rs *)
(* and grpc_client.rs): what a call checks before it sends anything, which *)
(* route or stub it uses, and whether it asks for a range.  How an answer  *)
(* is read into the SDK's types is left out.                               *)
(***************************************************************************)
EXTENDS Handlers

\* An HTTP call: a verb, a path ("<addr>" is the caller's address) and whether it
\* carries a Range header.  A local check refuses before anything is sent.
Http(verb, path) == [checks |-> <<>>, verb |-> verb, path |-> path, ranged |-> FALSE]
GetCall(path)    == Http("GET", path)
PostCall(path)   == Http("POST", path)
Ranged(call)     == [call EXCEPT !.ranged = TRUE, !.checks = <<Need("positive", "BadRequest")>>]
Checked(call, facts) == [call EXCEPT !.checks = facts]

\* A gRPC call: a service's stub and one of its methods.
Rpc(service, method) ==
    [checks |-> <<>>, service |-> service, method |-> method, ranged |-> FALSE]

-----------------------------------------------------------------------------
(* client.rs.                                                              *)

DataCalls ==
    [health          |-> GetCall("/health"),
     data_put        |-> PostCall("/v1/data"),
     data_get        |-> PostCall("/v1/data/get"),
     data_put_public |-> PostCall("/v1/data/public"),
     data_get_public |-> GetCall("/v1/data/public/<addr>")]

StreamCalls ==
    LET private == PostCall("/v1/data/stream")
        public  == GetCall("/v1/data/public/<addr>/stream")
    IN [data_stream              |-> private,
        data_stream_public       |-> public,
        data_stream_range        |-> Ranged(private),
        data_stream_public_range |-> Ranged(public)]

\* The NDJSON variants differ in the Accept header.
ProgressCalls ==
    [data_stream_with_progress        |-> PostCall("/v1/data/stream"),
     data_stream_public_with_progress |-> GetCall("/v1/data/public/<addr>/stream"),
     data_cost                        |-> PostCall("/v1/data/cost"),
     chunk_put                        |-> PostCall("/v1/chunks"),
     chunk_get                        |-> GetCall("/v1/chunks/<addr>")]

FileCalls ==
    [file_put        |-> PostCall("/v1/files"),
     file_get        |-> PostCall("/v1/files/get"),
     file_put_public |-> PostCall("/v1/files/public"),
     file_get_public |-> PostCall("/v1/files/public/get"),
     file_cost       |-> PostCall("/v1/files/cost")]

WalletCallsOfSdk ==
    [wallet_address |-> GetCall("/v1/wallet/address"),
     wallet_balance |-> GetCall("/v1/wallet/balance"),
     wallet_approve |-> PostCall("/v1/wallet/approve")]

PrepareCalls ==
    [prepare_upload        |-> PostCall("/v1/upload/prepare"),
     prepare_upload_public |-> PostCall("/v1/upload/prepare"),
     prepare_data_upload   |-> PostCall("/v1/data/prepare"),
     verify_quotes         |-> PostCall("/v1/verify/quotes")]

FinalizeCalls ==
    [finalize_upload        |-> PostCall("/v1/upload/finalize"),
     finalize_merkle_upload |-> PostCall("/v1/upload/finalize")]

ChunkSessionCalls ==
    [prepare_chunk_upload  |-> PostCall("/v1/chunks/prepare"),
     finalize_chunk_upload |-> PostCall("/v1/chunks/finalize")]

PointerWriteCalls ==
    [pointer_keys     |-> GetCall("/v1/pointers/keys"),
     pointer_create   |-> PostCall("/v1/pointers"),
     pointer_update   |-> PostCall("/v1/pointers/update"),
     pointer_transfer |-> PostCall("/v1/pointers/transfer")]

PointerReadCalls ==
    [pointer_get        |-> GetCall("/v1/pointers/<addr>"),
     pointer_resolve    |-> GetCall("/v1/pointers/<addr>/resolve"),
     pointer_finality   |-> GetCall("/v1/pointers/<addr>/finality"),
     pointer_controller |-> GetCall("/v1/pointers/<addr>/controller")]

PointerSessionCalls ==
    [pointer_prepare  |-> PostCall("/v1/pointers/prepare"),
     pointer_finalize |-> PostCall("/v1/pointers/finalize")]

\* manifests.rs: an entry has exactly one of a DataMap and an address, and there
\* is something to decode.
ManifestCalls ==
    [build_manifest  |-> Checked(PostCall("/v1/manifests/build"),
                                 <<Need("one_source", "BadRequest")>>),
     decode_manifest |-> Checked(PostCall("/v1/manifests/decode"),
                                 <<Need("nonempty", "BadRequest")>>)]

HttpCalls ==
    Joined({DataCalls, StreamCalls, ProgressCalls, FileCalls, WalletCallsOfSdk,
            PrepareCalls, FinalizeCalls, ChunkSessionCalls, PointerWriteCalls,
            PointerReadCalls, PointerSessionCalls, ManifestCalls})

-----------------------------------------------------------------------------
(* grpc_client.rs.                                                         *)

DataRpcs ==
    [health          |-> Rpc("HealthService", "check"),
     data_put        |-> Rpc("DataService", "put"),
     data_get        |-> Rpc("DataService", "get"),
     data_put_public |-> Rpc("DataService", "put_public"),
     data_get_public |-> Rpc("DataService", "get_public")]

StreamRpcs ==
    LET private == Rpc("DataService", "stream")
        public  == Rpc("DataService", "stream_public")
    IN [data_stream              |-> private,
        data_stream_public       |-> public,
        data_stream_range        |-> Ranged(private),
        data_stream_public_range |-> Ranged(public)]

\* The progress variants set include_progress.
ProgressRpcs ==
    [data_stream_with_progress        |-> Rpc("DataService", "stream"),
     data_stream_public_with_progress |-> Rpc("DataService", "stream_public"),
     data_cost                        |-> Rpc("DataService", "cost"),
     chunk_put                        |-> Rpc("ChunkService", "put"),
     chunk_get                        |-> Rpc("ChunkService", "get")]

ChunkSessionRpcs ==
    [prepare_chunk_upload  |-> Rpc("ChunkService", "prepare_chunk"),
     finalize_chunk_upload |-> Rpc("ChunkService", "finalize_chunk")]

FileRpcs ==
    [file_put        |-> Rpc("FileService", "put"),
     file_get        |-> Rpc("FileService", "get"),
     file_put_public |-> Rpc("FileService", "put_public"),
     file_get_public |-> Rpc("FileService", "get_public"),
     file_cost       |-> Rpc("FileService", "cost")]

\* verify_quotes decodes the base64 of its entries itself.
PrepareRpcs ==
    [prepare_upload        |-> Rpc("UploadService", "prepare_file_upload"),
     prepare_upload_public |-> Rpc("UploadService", "prepare_file_upload"),
     prepare_data_upload   |-> Rpc("UploadService", "prepare_data_upload"),
     verify_quotes         |-> Checked(Rpc("VerifyService", "verify_quotes"),
                                       <<Need("entries64", "BadRequest")>>)]

FinalizeRpcs ==
    [finalize_upload        |-> Rpc("UploadService", "finalize_upload"),
     finalize_merkle_upload |-> Rpc("UploadService", "finalize_upload")]

WalletRpcs ==
    [wallet_address |-> Rpc("WalletService", "get_address"),
     wallet_balance |-> Rpc("WalletService", "get_balance"),
     wallet_approve |-> Rpc("WalletService", "approve")]

PointerWriteRpcs ==
    [pointer_keys     |-> Rpc("PointerService", "list_keys"),
     pointer_create   |-> Rpc("PointerService", "create"),
     pointer_update   |-> Rpc("PointerService", "update"),
     pointer_transfer |-> Rpc("PointerService", "transfer")]

PointerReadRpcs ==
    [pointer_get        |-> Rpc("PointerService", "get"),
     pointer_resolve    |-> Rpc("PointerService", "resolve"),
     pointer_finality   |-> Rpc("PointerService", "finality"),
     pointer_controller |-> Rpc("PointerService", "controller")]

PointerSessionRpcs ==
    [pointer_prepare  |-> Rpc("PointerService", "prepare"),
     pointer_finalize |-> Rpc("PointerService", "finalize")]

ManifestRpcs ==
    [build_manifest  |-> Checked(Rpc("ManifestService", "build"),
                                 <<Need("one_source", "BadRequest")>>),
     decode_manifest |-> Checked(Rpc("ManifestService", "decode"),
                                 <<Need("nonempty", "BadRequest")>>)]

Rpcs ==
    Joined({DataRpcs, StreamRpcs, ProgressRpcs, ChunkSessionRpcs, FileRpcs, PrepareRpcs,
            FinalizeRpcs, WalletRpcs, PointerWriteRpcs, PointerReadRpcs,
            PointerSessionRpcs, ManifestRpcs})

=============================================================================
