------------------------------ MODULE Handlers ------------------------------
(***************************************************************************)
(* What a request handler of the daemon is made of.  A handler is the      *)
(* sequence of its steps in the order of its code, up to its answer:       *)
(*                                                                         *)
(*   need    refuses with an error unless the request, or the daemon, has  *)
(*           a property (a "fact");                                        *)
(*   check   the same, of what a call returned;                            *)
(*   ends    answers with success unless a call returned so;               *)
(*   spawn   calls into ant-core, in a task of their own;                  *)
(*   await   calls in the handler's own future;                            *)
(*   effect  an assignment or a file operation of the handler itself;      *)
(*   cleanup an effect that follows a call also when the call fails.       *)
(*                                                                         *)
(* RestHandlers, GrpcHandlers and FfiCalls list the handlers, Surfaces     *)
(* runs them.                                                              *)
(* A task that panics is left out.                                         *)
(***************************************************************************)
EXTENDS Sequences, Tables

Step(do, fact, calls, error) == [do |-> do, fact |-> fact, calls |-> calls, error |-> error]

Need(fact, error)    == Step("need", fact, <<>>, error)
Check(fact, error)   == Step("check", fact, <<>>, error)
EndsUnless(fact)     == Step("ends", fact, <<>>, "none")
Effect(name)         == Step("effect", "none", <<name>>, "none")
Spawn(calls)         == Step("spawn", "none", calls, "core")
Await(calls)         == Step("await", "none", calls, "core")
\* A call whose failure the handler answers with an error of its own.
SpawnOr(calls, error) == Step("spawn", "none", calls, error)
AwaitOr(calls, error) == Step("await", "none", calls, error)

\* AppState::mark_store_ok.
MarkStored == Effect("mark_store_ok")

\* A temporary file for estimate_upload_cost, written and removed.
Cleanup(name) == Step("cleanup", "none", <<name>>, "none")
Stage   == Effect("stage")
Unstage == Cleanup("unstage")

\* The task that reports a call's progress to a listener, and its last reports.
Bridge == Effect("bridge")
Flush  == Cleanup("flush")
FlushIfDone == Effect("flush")

\* The calls that spend from the daemon's wallet, and those that store something
\* an external signer has paid for.
WalletCalls == {"data_upload", "data_map_store", "file_upload", "file_upload_public",
                "chunk_put", "approve", "pointer_create", "pointer_update", "pointer_transfer"}
PaidStores  == {"finalize_pending", "finalize_chunk", "pointer_finalize"}

\* Calls and effects that leave something behind for others.
Lasting == WalletCalls \cup PaidStores
             \cup {"file_download", "insert_upload", "insert_chunk", "take_chunk"}

=============================================================================
