----------------------------- MODULE GrpcRoutes -----------------------------
(***************************************************************************)
(* The two sides of the generated gRPC code (antd-rust/src/generated/      *)
(* antd.v1.rs; the daemon is built from the same proto files).  A client   *)
(* stub sends a method's request to a path, the server's dispatch calls    *)
(* the trait method that a path belongs to.  Paths are written without     *)
(* their "/antd.v1." prefix.                                               *)
(*                                                                         *)
(* A unary method answers once; a streaming one answers with a stream,     *)
(* which is StreamPipeline's and RangeStream's from there on.              *)
(***************************************************************************)
EXTENDS Tables

Unary(method)     == [method |-> method, streams |-> FALSE]
Streaming(method) == [method |-> method, streams |-> TRUE]

-----------------------------------------------------------------------------
(* Client stubs: method to path.                                           *)

DataStub ==
    [put           |-> "DataService/Put",
     put_public    |-> "DataService/PutPublic",
     get           |-> "DataService/Get",
     get_public    |-> "DataService/GetPublic",
     stream        |-> "DataService/Stream",
     stream_public |-> "DataService/StreamPublic",
     cost          |-> "DataService/Cost"]

ChunkStub ==
    [get            |-> "ChunkService/Get",
     put            |-> "ChunkService/Put",
     prepare_chunk  |-> "ChunkService/PrepareChunk",
     finalize_chunk |-> "ChunkService/FinalizeChunk"]

FileStub ==
    [put        |-> "FileService/Put",
     put_public |-> "FileService/PutPublic",
     get        |-> "FileService/Get",
     get_public |-> "FileService/GetPublic",
     cost       |-> "FileService/Cost"]

UploadStub ==
    [prepare_file_upload |-> "UploadService/PrepareFileUpload",
     prepare_data_upload |-> "UploadService/PrepareDataUpload",
     finalize_upload     |-> "UploadService/FinalizeUpload"]

WalletStub ==
    [get_address |-> "WalletService/GetAddress",
     get_balance |-> "WalletService/GetBalance",
     approve     |-> "WalletService/Approve"]

PointerStub ==
    [list_keys  |-> "PointerService/ListKeys",
     create     |-> "PointerService/Create",
     update     |-> "PointerService/Update",
     transfer   |-> "PointerService/Transfer",
     get        |-> "PointerService/Get",
     resolve    |-> "PointerService/Resolve",
     finality   |-> "PointerService/Finality",
     controller |-> "PointerService/Controller",
     prepare    |-> "PointerService/Prepare",
     finalize   |-> "PointerService/Finalize"]

HealthStub   == [check |-> "HealthService/Check"]
EventStub    == [subscribe |-> "EventService/Subscribe"]
VerifyStub   == [verify_quotes |-> "VerifyService/VerifyQuotes"]
ManifestStub == [build |-> "ManifestService/Build", decode |-> "ManifestService/Decode"]

Stubs ==
    [HealthService   |-> HealthStub,   DataService    |-> DataStub,
     ChunkService    |-> ChunkStub,    FileService    |-> FileStub,
     UploadService   |-> UploadStub,   EventService   |-> EventStub,
     WalletService   |-> WalletStub,   VerifyService  |-> VerifyStub,
     PointerService  |-> PointerStub,  ManifestService |-> ManifestStub]

-----------------------------------------------------------------------------
(* Server dispatch: path to trait method; every other path is answered     *)
(* UNIMPLEMENTED.                                                          *)

DataPutDispatch ==
    Table({<<"DataService/Put", Unary("put")>>,
           <<"DataService/PutPublic", Unary("put_public")>>})

DataGetDispatch ==
    Table({<<"DataService/Get", Unary("get")>>,
           <<"DataService/GetPublic", Unary("get_public")>>})

DataStreamDispatch ==
    Table({<<"DataService/Stream", Streaming("stream")>>,
           <<"DataService/StreamPublic", Streaming("stream_public")>>})

DataCostDispatch == Table({<<"DataService/Cost", Unary("cost")>>})

ChunkDispatch ==
    Table({<<"ChunkService/Get", Unary("get")>>,
           <<"ChunkService/Put", Unary("put")>>})

ChunkSessionDispatch ==
    Table({<<"ChunkService/PrepareChunk", Unary("prepare_chunk")>>,
           <<"ChunkService/FinalizeChunk", Unary("finalize_chunk")>>})

FilePutDispatch ==
    Table({<<"FileService/Put", Unary("put")>>,
           <<"FileService/PutPublic", Unary("put_public")>>})

\* Fault: a public get is dispatched to the private handler.
FileGetDispatchCrossed ==
    Table({<<"FileService/Get", Unary("get")>>,
           <<"FileService/GetPublic", Unary("get")>>,
           <<"FileService/Cost", Unary("cost")>>})

FileGetDispatch ==
    Table({<<"FileService/Get", Unary("get")>>,
           <<"FileService/GetPublic", Unary("get_public")>>,
           <<"FileService/Cost", Unary("cost")>>})

UploadDispatch ==
    Table({<<"UploadService/PrepareFileUpload", Unary("prepare_file_upload")>>,
           <<"UploadService/PrepareDataUpload", Unary("prepare_data_upload")>>,
           <<"UploadService/FinalizeUpload", Unary("finalize_upload")>>})

WalletDispatch ==
    Table({<<"WalletService/GetAddress", Unary("get_address")>>,
           <<"WalletService/GetBalance", Unary("get_balance")>>,
           <<"WalletService/Approve", Unary("approve")>>})

PointerWriteDispatch ==
    Table({<<"PointerService/Create", Unary("create")>>,
           <<"PointerService/Update", Unary("update")>>,
           <<"PointerService/Transfer", Unary("transfer")>>})

PointerReadDispatch ==
    Table({<<"PointerService/Get", Unary("get")>>,
           <<"PointerService/Resolve", Unary("resolve")>>,
           <<"PointerService/Finality", Unary("finality")>>})

PointerOtherDispatch ==
    Table({<<"PointerService/Controller", Unary("controller")>>,
           <<"PointerService/Prepare", Unary("prepare")>>,
           <<"PointerService/Finalize", Unary("finalize")>>})

PointerKeysDispatch == Table({<<"PointerService/ListKeys", Unary("list_keys")>>})
HealthDispatch == Table({<<"HealthService/Check", Unary("check")>>})
EventDispatch == Table({<<"EventService/Subscribe", Streaming("subscribe")>>})
VerifyDispatch == Table({<<"VerifyService/VerifyQuotes", Unary("verify_quotes")>>})
ManifestDispatch ==
    Table({<<"ManifestService/Build", Unary("build")>>,
           <<"ManifestService/Decode", Unary("decode")>>})

Dispatch ==
    [HealthService   |-> HealthDispatch,
     DataService     |-> Joined({DataPutDispatch, DataGetDispatch, DataStreamDispatch,
                                 DataCostDispatch}),
     ChunkService    |-> Joined({ChunkDispatch, ChunkSessionDispatch}),
     FileService     |-> Joined({FilePutDispatch, FileGetDispatch}),
     UploadService   |-> UploadDispatch,
     EventService    |-> EventDispatch,
     WalletService   |-> WalletDispatch,
     VerifyService   |-> VerifyDispatch,
     PointerService  |-> Joined({PointerWriteDispatch, PointerReadDispatch,
                                 PointerOtherDispatch, PointerKeysDispatch}),
     ManifestService |-> ManifestDispatch]

=============================================================================
