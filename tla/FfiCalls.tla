------------------------------ MODULE FfiCalls ------------------------------
(***************************************************************************)
(* The methods of the embedded client (ffi/rust/ant-ffi/src/client.rs) as  *)
(* sequences of steps, and the Node binding that forwards to them.  They   *)
(* run in the app's own future, no task of their own; what the sessions    *)
(* of its uploads go through is in FfiClient.                              *)
(***************************************************************************)
EXTENDS Handlers

BadInput(fact) == Need(fact, "InvalidInput")

\* hex_to_address and decode_data_map_hex.
FfiAddress == <<BadInput("address")>>
FfiDataMap == <<BadInput("map_size"), BadInput("hex"), BadInput("map")>>

Encodes == Check("encodes", "InternalError")

\* A call that reports progress: a task forwards it to the app's listener, and what
\* it still holds is delivered before the method answers either way.
Reported(calls) == <<Bridge, Await(calls), Flush>>

FfiChunks ==
    [chunk_put    |-> <<Await(<<"chunk_put">>)>>,
     chunk_get    |-> FfiAddress \o <<Await(<<"chunk_get">>), Check("found", "NotFound")>>,
     chunk_exists |-> FfiAddress \o <<Await(<<"chunk_exists">>)>>]

FfiData ==
    [data_put_public  |-> <<Await(<<"data_upload", "data_map_store">>)>>,
     data_get_public  |-> FfiAddress \o <<Await(<<"data_map_fetch", "data_download">>)>>,
     data_put_private |-> <<Await(<<"data_upload">>), Encodes>>,
     data_get_private |-> FfiDataMap \o <<Await(<<"data_download">>)>>]

FfiFileUploads ==
    LET public  == <<Check("addressed", "InternalError")>>
        private == <<Encodes>>
    IN [file_upload_public  |-> <<Await(<<"file_upload_public">>)>> \o public,
        file_upload_private |-> <<Await(<<"file_upload">>)>> \o private,
        file_upload_public_with_progress  |-> Reported(<<"file_upload_public">>) \o public,
        file_upload_private_with_progress |-> Reported(<<"file_upload">>) \o private]

FfiDataMaps ==
    [data_map_store |-> FfiDataMap \o <<Await(<<"data_map_store">>)>>,
     data_map_fetch |-> FfiAddress \o <<Await(<<"data_map_fetch">>), Encodes>>]

FfiEstimates ==
    [estimate_file_cost               |-> <<Await(<<"estimate">>)>>,
     estimate_file_cost_with_progress |-> Reported(<<"estimate">>)]

FfiFileDownloads ==
    [file_download_public  |-> FfiAddress \o <<Await(<<"data_map_fetch", "file_download">>)>>,
     file_download_private |-> FfiDataMap \o <<Await(<<"file_download">>)>>]

FfiWallet == [wallet_approve |-> <<AwaitOr(<<"approve">>, "PaymentError")>>]

\* download_to_file: a download that fails answers before its progress is flushed.
DownloadToFile == <<Bridge, Await(<<"file_download">>), FlushIfDone>>

FfiProgressDownloads ==
    [download_public_to_file  |-> FfiAddress \o <<Await(<<"data_map_fetch">>)>> \o DownloadToFile,
     download_private_to_file |-> FfiDataMap \o DownloadToFile]

FfiPrepares ==
    LET stash == <<Check("one_batch", "InternalError"), Effect("insert_upload")>>
    IN [prepare_data_upload |-> <<Await(<<"data_prepare">>)>> \o stash,
        prepare_file_upload |-> <<Await(<<"file_prepare">>)>> \o stash,
        prepare_file_upload_with_progress |-> Reported(<<"file_prepare">>) \o stash,
        payment_transactions |-> <<Need("evm_network", "WalletNotConfigured"),
                                   BadInput("upload_id"), BadInput("unpaid"), Effect("bill")>>]

\* The session is taken once the input is known to be good; a shortfall puts it
\* back.
FfiFinalizes ==
    LET wave   == <<BadInput("hash"), BadInput("upload_id"), BadInput("complete"),
                    BadInput("wave"), Effect("take_session")>>
        merkle == <<BadInput("hash"), BadInput("upload_id"), BadInput("merkle"),
                    Effect("take_session")>>
        settle == <<Check("all_stored", "PartialUpload"), Encodes>>
        store  == <<"finalize_pending">>
    IN [finalize_upload        |-> wave \o <<Await(store)>> \o settle,
        finalize_upload_merkle |-> merkle \o <<Await(store)>> \o settle,
        finalize_upload_with_progress        |-> wave \o Reported(store) \o settle,
        finalize_upload_merkle_with_progress |-> merkle \o Reported(store) \o settle]

FfiScripts ==
    Joined({FfiChunks, FfiData, FfiFileUploads, FfiDataMaps, FfiEstimates,
            FfiFileDownloads, FfiWallet, FfiProgressDownloads, FfiPrepares,
            FfiFinalizes})

-----------------------------------------------------------------------------
(* ffi/node/src/client.rs: each method of the binding calls one of the      *)
(* embedded client's, in a future that JavaScript cannot drop.             *)

Same(ops) == [op \in ops |-> op]

NodeData ==
    Same({"chunk_put", "chunk_get", "chunk_exists", "data_put_public", "data_get_public",
          "data_put_private", "data_get_private"})

NodeFiles ==
    Same({"file_upload_public", "file_upload_public_with_progress", "file_upload_private",
          "file_upload_private_with_progress", "file_download_public", "file_download_private"})

NodeMapsAndWallet ==
    Same({"data_map_store", "data_map_fetch", "estimate_file_cost",
          "estimate_file_cost_with_progress", "wallet_approve"})

NodeUploads ==
    Same({"prepare_data_upload", "prepare_file_upload", "prepare_file_upload_with_progress",
          "payment_transactions", "finalize_upload", "finalize_upload_with_progress",
          "finalize_upload_merkle", "finalize_upload_merkle_with_progress"})

NodeDownloads == Same({"download_public_to_file", "download_private_to_file"})

NodeDelegates ==
    Joined({NodeData, NodeFiles, NodeMapsAndWallet, NodeUploads, NodeDownloads})

=============================================================================
