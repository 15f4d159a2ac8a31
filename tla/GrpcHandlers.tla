---------------------------- MODULE GrpcHandlers ----------------------------
(***************************************************************************)
(* The gRPC surface of the daemon (antd/src/grpc/): for each service, what *)
(* its handlers do.  What a handler checks itself it refuses with a status *)
(* code, what it shares with REST with the kind of an AntdError.           *)
(* A protobuf message has no base64 and no JSON to refuse.                 *)
(***************************************************************************)
EXTENDS Handlers

Invalid(fact) == Need(fact, "INVALID_ARGUMENT")

\* A guard of a function that both transports call.
SharedBad(fact) == Need(fact, "BadRequest")

MapGuards == <<Invalid("hex"), Invalid("map_size"), Invalid("map")>>

\* parse_grpc_payment_mode and parse_grpc_visibility: the empty string of proto3
\* is "no preference", everything else is read as REST reads it.
GrpcMode       == Invalid("mode")
GrpcVisibility == Invalid("visibility")

WalletGuard == Need("wallet", "UNAVAILABLE")

-----------------------------------------------------------------------------
\* Fault: the payment mode is read before the wallet is looked for.
ModeFirst ==
    [get_public |->
        <<Invalid("address"), Spawn(<<"data_map_fetch", "data_download">>)>>,
     put_public |->
        <<GrpcMode, WalletGuard, Spawn(<<"data_upload", "data_map_store">>), MarkStored>>]

\* DataServiceImpl.
DataPublicHandlers ==
    [get_public |->
        <<Invalid("address"), Spawn(<<"data_map_fetch", "data_download">>)>>,
     put_public |->
        <<WalletGuard, GrpcMode, Spawn(<<"data_upload", "data_map_store">>), MarkStored>>]

\* wants_range, then data_chunk_range_response or data_chunk_stream_response.
WantsRange == <<Invalid("raw")>>

GrpcStream == <<Await(<<"resolve_root">>), Effect("open_stream")>>

GrpcRange ==
    <<Await(<<"resolve_root">>), Invalid("range"),
      Need("inside", "RangeNotSatisfiable"), Effect("open_range")>>

\* The range of a public object is looked at before its address.
DataStreamHandlers ==
    LET public == <<Invalid("address"), Await(<<"data_map_fetch">>)>>
    IN [stream              |-> MapGuards \o GrpcStream,
        stream_range        |-> MapGuards \o WantsRange \o GrpcRange,
        stream_public       |-> public \o GrpcStream,
        stream_public_range |-> WantsRange \o public \o GrpcRange]

DataPrivateHandlers ==
    [get |-> MapGuards \o <<Spawn(<<"data_download">>)>>,
     put |-> <<WalletGuard, GrpcMode, Spawn(<<"data_upload">>),
               Check("encodes", "Internal"), MarkStored>>]

DataCostHandler ==
    [cost |-> <<GrpcMode, Need("disk", "INTERNAL"), Stage, Spawn(<<"estimate">>), Unstage>>]

\* ChunkServiceImpl.
ChunkHandlers ==
    [get |-> <<Invalid("address"), Await(<<"chunk_get">>), Check("found", "NOT_FOUND")>>,
     put |-> <<WalletGuard, Await(<<"chunk_put">>), MarkStored>>]

ChunkPrepareHandler ==
    [prepare_chunk |-> <<Spawn(<<"prepare_chunk">>), EndsUnless("new"),
                         Check("signed", "Internal"), Effect("insert_chunk")>>]

ChunkFinalizeHandler ==
    [finalize_chunk |-> <<Need("known", "NOT_FOUND"), Effect("take_chunk"), SharedBad("hashes"),
                          Spawn(<<"finalize_chunk">>), MarkStored>>]

-----------------------------------------------------------------------------
\* Fault: the wallet is looked for when the upload is done.
PutsThenLooks ==
    [put        |-> <<GrpcMode, Invalid("path"), Spawn(<<"file_upload">>), WalletGuard,
                      Check("encodes", "Internal"), MarkStored>>,
     put_public |-> <<GrpcMode, Invalid("path"), Spawn(<<"file_upload_public">>), WalletGuard,
                      Check("addressed", "INTERNAL"), MarkStored>>]

\* FileServiceImpl.
FilePutHandlers ==
    LET guards == <<WalletGuard, GrpcMode, Invalid("path")>>
    IN [put        |-> guards \o <<Spawn(<<"file_upload">>),
                                   Check("encodes", "Internal"), MarkStored>>,
        put_public |-> guards \o <<Spawn(<<"file_upload_public">>),
                                   Check("addressed", "INTERNAL"), MarkStored>>]

FileGetHandlers ==
    [get        |-> MapGuards \o <<Invalid("dest"), Spawn(<<"file_download">>)>>,
     get_public |-> <<Invalid("address"), Invalid("dest"),
                      Spawn(<<"data_map_fetch", "file_download">>)>>]

FileCostHandler == [cost |-> <<GrpcMode, Invalid("path"), Spawn(<<"estimate">>)>>]

\* UploadServiceImpl.
UploadPrepareHandlers ==
    LET answer == <<Check("signed", "Internal"), Effect("insert_upload")>>
    IN [prepare_file_upload |-> <<Invalid("path"), GrpcVisibility,
                                  Spawn(<<"file_prepare">>)>> \o answer,
        prepare_data_upload |-> <<GrpcVisibility, Spawn(<<"data_prepare">>)>> \o answer]

UploadFinalizeHandler ==
    [finalize_upload |-> <<Need("known", "NotFound"), Invalid("hashes"),
                           Spawn(<<"finalize_pending">>)>>]

\* EventServiceImpl: a stream whose sender is gone when it is answered.
EventHandlers == [subscribe |-> <<>>]

\* WalletServiceImpl.  Its errors are its own, those of approve too.
WalletHandlers ==
    LET guard == Need("wallet", "FAILED_PRECONDITION")
    IN [get_address |-> <<guard>>,
        get_balance |-> <<guard, AwaitOr(<<"token_balance">>, "INTERNAL"),
                          AwaitOr(<<"gas_balance">>, "INTERNAL")>>,
        approve     |-> <<guard, SpawnOr(<<"approve">>, "INTERNAL")>>]

\* VerifyServiceImpl.
VerifyHandlers == [verify_quotes |-> <<Invalid("few"), SpawnOr(<<"verify">>, "INTERNAL")>>]

\* ManifestServiceImpl.
ManifestHandlers ==
    [build  |-> <<SharedBad("torrent"), SharedBad("entries"), Await(<<"build">>),
                  Check("encodes", "Internal")>>,
     decode |-> <<Invalid("input"), Await(<<"decode">>), Check("encodes", "Internal")>>]

\* HealthServiceImpl.
HealthHandlers == [check |-> <<>>]

-----------------------------------------------------------------------------
\* PointerServiceImpl (grpc/pointers.rs), over the operations REST calls.
GrpcPointerWrites ==
    LET write(call) == <<SharedBad("owner"), SharedBad("target"), Spawn(<<call>>)>>
    IN [list_keys |-> <<>>,
        create    |-> write("pointer_create"),
        update    |-> write("pointer_update"),
        transfer  |-> <<SharedBad("owner"), SharedBad("recipient"), Spawn(<<"pointer_transfer">>)>>]

GrpcPointerReads ==
    LET read(call) == <<SharedBad("address"), Await(<<call>>)>>
    IN [get        |-> read("pointer_get"),
        resolve    |-> read("pointer_resolve"),
        finality   |-> read("pointer_finality"),
        controller |-> read("pointer_controller")]

GrpcPointerSessions ==
    [prepare  |-> <<SharedBad("owner"), SharedBad("write"), Await(<<"pointer_prepare">>),
                    Check("signed", "Internal")>>,
     finalize |-> <<Spawn(<<"pointer_finalize">>)>>]

\* serve: the services that are added to the server.
GrpcScripts ==
    [HealthService   |-> HealthHandlers,
     DataService     |-> Joined({DataPublicHandlers, DataStreamHandlers, DataPrivateHandlers,
                                 DataCostHandler}),
     ChunkService    |-> Joined({ChunkHandlers, ChunkPrepareHandler, ChunkFinalizeHandler}),
     FileService     |-> Joined({FilePutHandlers, FileGetHandlers, FileCostHandler}),
     UploadService   |-> Joined({UploadPrepareHandlers, UploadFinalizeHandler}),
     EventService    |-> EventHandlers,
     WalletService   |-> WalletHandlers,
     VerifyService   |-> VerifyHandlers,
     PointerService  |-> Joined({GrpcPointerWrites, GrpcPointerReads, GrpcPointerSessions}),
     ManifestService |-> ManifestHandlers]

=============================================================================
