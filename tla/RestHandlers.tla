---------------------------- MODULE RestHandlers ----------------------------
(***************************************************************************)
(* The REST surface of the daemon (antd/src/rest/): the router and, for    *)
(* each route, what its handler does.  Errors are AntdError kinds.  The    *)
(* pointer handlers share their operations with gRPC (PointerWrites), the  *)
(* finalize of an upload its finalize_pending (UploadSessions).            *)
(***************************************************************************)
EXTENDS Handlers

Bad(fact) == Need(fact, "BadRequest")

NeedsWallet == Need("wallet", "ServiceUnavailable")

\* ApiJson: a body that is too long, or not the JSON the handler takes.
ApiJson == <<Need("length", "PayloadTooLarge"), Bad("json")>>

\* A DataMap of the caller: hex, at most 10 MB, and a DataMap.
DataMapGuards == <<Bad("hex"), Bad("map_size"), Bad("map")>>

\* canonical_dest.
DestGuard == <<Bad("dest")>>

-----------------------------------------------------------------------------
\* rest/data.rs.
PublicData ==
    [data_put_public |->
        ApiJson \o <<NeedsWallet, Bad("base64"), Bad("mode"),
                     Spawn(<<"data_upload", "data_map_store">>), MarkStored>>,
     data_get_public |->
        <<Bad("address"), Spawn(<<"data_map_fetch", "data_download">>)>>]

PrivateData ==
    [data_put |->
        ApiJson \o <<NeedsWallet, Bad("base64"), Bad("mode"), Spawn(<<"data_upload">>),
                     Check("encodes", "Internal"), MarkStored>>,
     data_get |->
        ApiJson \o DataMapGuards \o <<Spawn(<<"data_download">>)>>]

\* The file is removed before the estimate's error is answered.
DataCost ==
    [data_cost |->
        ApiJson \o <<Bad("base64"), Bad("mode"), Need("disk", "Internal"), Stage,
                     Spawn(<<"estimate">>), Unstage>>]

\* stream_response, and stream_response_ndjson alike up to its first line.
WholeObject == <<Await(<<"resolve_root">>), Effect("open_stream")>>

\* range_response: only the resolved map tells whether the range is in it.
RangeOfObject ==
    <<Bad("raw"), Bad("ascii"), Await(<<"resolve_root">>), Bad("range"),
      Need("inside", "RangeNotSatisfiable"), Effect("open_range")>>

\* data_stream and data_stream_public, by the headers of the request.
Streams ==
    LET private == ApiJson \o DataMapGuards
        public  == <<Bad("address"), Await(<<"data_map_fetch">>)>>
    IN [data_stream              |-> private \o WholeObject,
        data_stream_range        |-> private \o RangeOfObject,
        data_stream_public       |-> public \o WholeObject,
        data_stream_public_range |-> public \o RangeOfObject]

-----------------------------------------------------------------------------
\* rest/files.rs.
FilePuts ==
    LET guards == ApiJson \o <<NeedsWallet, Bad("path"), Bad("mode")>>
    IN [file_put        |-> guards \o <<Spawn(<<"file_upload">>),
                                        Check("encodes", "Internal"), MarkStored>>,
        file_put_public |-> guards \o <<Spawn(<<"file_upload_public">>),
                                        Check("addressed", "Internal"), MarkStored>>]

FileGets ==
    [file_get        |-> ApiJson \o DataMapGuards \o DestGuard \o <<Spawn(<<"file_download">>)>>,
     file_get_public |-> ApiJson \o <<Bad("address")>> \o DestGuard
                           \o <<Spawn(<<"data_map_fetch", "file_download">>)>>]

FileCost == [file_cost |-> ApiJson \o <<Bad("path"), Bad("mode"), Spawn(<<"estimate">>)>>]

-----------------------------------------------------------------------------
\* rest/chunks.rs.
Chunks ==
    [chunk_get |-> <<Bad("address"), Await(<<"chunk_get">>), Check("found", "NotFound")>>,
     chunk_put |-> ApiJson \o <<NeedsWallet, Bad("base64"), Await(<<"chunk_put">>), MarkStored>>]

ChunkPrepare ==
    [chunk_prepare |->
        ApiJson \o <<Bad("base64"), Spawn(<<"prepare_chunk">>), EndsUnless("new"),
                     Check("signed", "Internal"), Effect("insert_chunk")>>]

ChunkFinalize ==
    [chunk_finalize |->
        ApiJson \o <<Need("known", "NotFound"), Effect("take_chunk"), Bad("hashes"),
                     Spawn(<<"finalize_chunk">>), MarkStored>>]

\* rest/upload.rs.
UploadPrepares ==
    LET answer == <<Check("signed", "Internal"), Effect("insert_upload")>>
    IN [prepare_upload      |-> ApiJson \o <<Bad("path"), Bad("visibility"),
                                             Spawn(<<"file_prepare">>)>> \o answer,
        prepare_data_upload |-> ApiJson \o <<Bad("visibility"), Bad("base64"),
                                             Spawn(<<"data_prepare">>)>> \o answer]

UploadFinalize ==
    [finalize_upload |->
        ApiJson \o <<Need("known", "NotFound"), Bad("hashes"), Spawn(<<"finalize_pending">>)>>]

-----------------------------------------------------------------------------
\* rest/pointers.rs.
PointerWriteHandlers ==
    LET write(call) == ApiJson \o <<Bad("owner"), Bad("target"), Spawn(<<call>>)>>
    IN [pointer_keys     |-> <<>>,
        pointer_create   |-> write("pointer_create"),
        pointer_update   |-> write("pointer_update"),
        pointer_transfer |-> ApiJson \o <<Bad("owner"), Bad("recipient"),
                                          Spawn(<<"pointer_transfer">>)>>]

PointerReadHandlers ==
    LET read(call) == <<Bad("address"), Await(<<call>>)>>
    IN [pointer_get        |-> read("pointer_get"),
        pointer_resolve    |-> read("pointer_resolve"),
        pointer_finality   |-> read("pointer_finality"),
        pointer_controller |-> read("pointer_controller")]

PointerSessionHandlers ==
    [pointer_prepare  |-> ApiJson \o <<Bad("owner"), Bad("write"), Await(<<"pointer_prepare">>)>>,
     pointer_finalize |-> ApiJson \o <<Spawn(<<"pointer_finalize">>)>>]

\* rest/manifests.rs.
Manifests ==
    [manifest_build  |-> ApiJson \o <<Bad("torrent"), Bad("entries"), Await(<<"build">>),
                                      Check("encodes", "Internal")>>,
     manifest_decode |-> ApiJson \o <<Bad("input"), Bad("base64"), Await(<<"decode">>),
                                      Check("encodes", "Internal")>>]

\* rest/verify.rs.
Verify == [verify_quotes |-> ApiJson \o <<Bad("few"), SpawnOr(<<"verify">>, "Internal")>>]

\* rest/wallet.rs.
Wallet ==
    [wallet_address |-> <<NeedsWallet>>,
     wallet_balance |-> <<NeedsWallet, AwaitOr(<<"token_balance">>, "Internal"),
                          AwaitOr(<<"gas_balance">>, "Internal")>>,
     wallet_approve |-> <<NeedsWallet, Spawn(<<"approve">>)>>]

\* rest/mod.rs, health.
Health == [health |-> <<>>]

RestScripts ==
    Joined({PublicData, PrivateData, DataCost, Streams, FilePuts, FileGets, FileCost,
            Chunks, ChunkPrepare, ChunkFinalize, UploadPrepares, UploadFinalize,
            PointerWriteHandlers, PointerReadHandlers, PointerSessionHandlers,
            Manifests, Verify, Wallet, Health})

-----------------------------------------------------------------------------
Get(path)  == <<"GET", path>>
Post(path) == <<"POST", path>>

\* The routes of `router`.  "<addr>" stands for a segment that is not one of the
\* literal ones.
Routes ==
    {<<Get("/health"),                        "health">>,
     <<Post("/v1/data"),                      "data_put">>,
     <<Post("/v1/data/get"),                  "data_get">>,
     <<Post("/v1/data/stream"),               "data_stream">>,
     <<Post("/v1/data/public"),               "data_put_public">>,
     <<Get("/v1/data/public/<addr>"),         "data_get_public">>,
     <<Get("/v1/data/public/<addr>/stream"),  "data_stream_public">>,
     <<Post("/v1/data/cost"),                 "data_cost">>,
     <<Get("/v1/chunks/<addr>"),              "chunk_get">>,
     <<Post("/v1/chunks"),                    "chunk_put">>,
     <<Post("/v1/chunks/prepare"),            "chunk_prepare">>,
     <<Post("/v1/chunks/finalize"),           "chunk_finalize">>,
     <<Post("/v1/pointers"),                  "pointer_create">>,
     <<Get("/v1/pointers/keys"),              "pointer_keys">>,
     <<Post("/v1/pointers/update"),           "pointer_update">>,
     <<Post("/v1/pointers/transfer"),         "pointer_transfer">>,
     <<Post("/v1/pointers/prepare"),          "pointer_prepare">>,
     <<Post("/v1/pointers/finalize"),         "pointer_finalize">>,
     <<Get("/v1/pointers/<addr>"),            "pointer_get">>,
     <<Get("/v1/pointers/<addr>/resolve"),    "pointer_resolve">>,
     <<Get("/v1/pointers/<addr>/finality"),   "pointer_finality">>,
     <<Get("/v1/pointers/<addr>/controller"), "pointer_controller">>,
     <<Post("/v1/files"),                     "file_put">>,
     <<Post("/v1/files/get"),                 "file_get">>,
     <<Post("/v1/files/public"),              "file_put_public">>,
     <<Post("/v1/files/public/get"),          "file_get_public">>,
     <<Post("/v1/files/cost"),                "file_cost">>,
     <<Post("/v1/upload/prepare"),            "prepare_upload">>,
     <<Post("/v1/data/prepare"),              "prepare_data_upload">>,
     <<Post("/v1/upload/finalize"),           "finalize_upload">>,
     <<Post("/v1/verify/quotes"),             "verify_quotes">>,
     <<Post("/v1/manifests/build"),           "manifest_build">>,
     <<Post("/v1/manifests/decode"),          "manifest_decode">>,
     <<Get("/v1/wallet/address"),             "wallet_address">>,
     <<Get("/v1/wallet/balance"),             "wallet_balance">>,
     <<Post("/v1/wallet/approve"),            "wallet_approve">>}

Router == Table(Routes)

=============================================================================
