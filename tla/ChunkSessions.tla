---------------------------- MODULE ChunkSessions ----------------------------
(***************************************************************************)
(* Single chunks: prepare, finalize and the daemon-paid put                *)
(* (antd/src/rest/chunks.rs and ChunkService of grpc/service.rs), with the *)
(* pending_chunks map and its sweep (state.rs).                            *)
(*                                                                         *)
(* Unlike an upload, a chunk's finalize takes the session out of the map   *)
(* before it reads the transaction hashes, and nothing puts it back.  The  *)
(* store of a finalize runs detached from its caller; the store of a put   *)
(* runs in the handler, so a caller that leaves stops it where it stands.  *)
(*                                                                         *)
(* Names differ from those of UploadSessions, which keeps the other map of *)
(* the daemon, so that one module can reason about both.                   *)
(***************************************************************************)
EXTENDS Naturals, FiniteSets

CONSTANTS
    Ids,        \* upload ids, each issued at most once (bound)
    Calls,      \* requests served at once (bound)
    Contents,   \* chunks, which are their addresses
    ChunkTTL,   \* ticks after which a session is stale
    NoChunk

ASSUME ChunkTTLAssumption == ChunkTTL \in Nat \ {0}

\* TimestampedChunk.
ChunkSession == [chunk: Contents, age: 0 .. ChunkTTL]

ASSUME NoChunkAssumption == NoChunk \notin Ids \cup Contents \cup ChunkSession

\* What a request is doing, and whether its caller has left.  It has a chunk until
\* it is answered, and the id of a session exactly while it stores from it.
Call ==
    {j \in [pc: {"idle", "quote", "insert", "store", "put"}, id: Ids \cup {NoChunk},
            chunk: Contents \cup {NoChunk}, left: BOOLEAN] :
       /\ j.pc = "idle" <=> j.chunk = NoChunk
       /\ j.pc = "store" <=> j.id # NoChunk}

IdleCall == [pc |-> "idle", id |-> NoChunk, chunk |-> NoChunk, left |-> FALSE]

Standings == {"unused", "live", "stored", "failed", "malformed", "expired", "lost"}

VARIABLES
    pending,   \* pending_chunks: [Ids -> ChunkSession or NoChunk]
    call,      \* [Calls -> Call]
    paidIds,   \* ids whose quotes the external signer has paid
    network,   \* chunks the network holds
    standing   \* history: [Ids -> how the session of the id stands]

chunkVars == <<pending, call, paidIds, network, standing>>

ChunkInit ==
    /\ pending = [i \in Ids |-> NoChunk]
    /\ call = [t \in Calls |-> IdleCall]
    /\ paidIds = {}
    /\ network \in SUBSET Contents
    /\ standing = [i \in Ids |-> "unused"]

Begin(t, pc, c) ==
    /\ call[t].pc = "idle"
    /\ call' = [call EXCEPT ![t] = [IdleCall EXCEPT !.pc = pc, !.chunk = c]]

EndCall(t) == call' = [call EXCEPT ![t] = IdleCall]

-----------------------------------------------------------------------------
\* chunk_prepare is called with a readable body; others change nothing.
StartPrepare(t, c) ==
    /\ Begin(t, "quote", c)
    /\ UNCHANGED <<pending, paidIds, network, standing>>

\* prepare_chunk_payment: quotes for a chunk the network does not hold, answered
\* at once otherwise; it may fail.  Also where signing the quotes fails.
Quote(t) ==
    /\ call[t].pc = "quote"
    /\ \/ call[t].chunk \notin network /\ call' = [call EXCEPT ![t].pc = "insert"]
       \/ EndCall(t)
    /\ UNCHANGED <<pending, paidIds, network, standing>>

\* The session goes into the map under a fresh random id, which is answered.
Insert(t, i) ==
    /\ call[t].pc = "insert"
    /\ standing[i] = "unused"
    /\ pending' = [pending EXCEPT ![i] = [chunk |-> call[t].chunk, age |-> 0]]
    /\ standing' = [standing EXCEPT ![i] = "live"]
    /\ EndCall(t)
    /\ UNCHANGED <<paidIds, network>>

\* The external signer pays what an answered prepare asked for.
Pay(i) ==
    /\ standing[i] # "unused"
    /\ paidIds' = paidIds \cup {i}
    /\ UNCHANGED <<pending, call, network, standing>>

\* Fault: the session is looked up and removed when the store has returned.
FinalizeKeepingSession(t, i, wellFormed) ==
    /\ call[t].pc = "idle"
    /\ pending[i] # NoChunk
    /\ wellFormed
    /\ call' = [call EXCEPT ![t] = [IdleCall EXCEPT !.pc = "store", !.id = i,
                                                 !.chunk = pending[i].chunk]]
    /\ UNCHANGED <<pending, paidIds, network, standing>>

\* chunk_finalize removes the session, NOT_FOUND without a change if there is
\* none, and only then reads the hashes: a malformed one ends the session.
StartFinalize(t, i, wellFormed) ==
    /\ call[t].pc = "idle"
    /\ pending[i] # NoChunk
    /\ pending' = [pending EXCEPT ![i] = NoChunk]
    /\ IF wellFormed
       THEN /\ call' = [call EXCEPT ![t] = [IdleCall EXCEPT !.pc = "store", !.id = i,
                                                         !.chunk = pending[i].chunk]]
            /\ UNCHANGED standing
       ELSE /\ standing' = [standing EXCEPT ![i] = "malformed"]
            /\ UNCHANGED call
    /\ UNCHANGED <<paidIds, network>>

\* chunk_put with a wallet: no session.
StartPut(t, c) ==
    /\ Begin(t, "put", c)
    /\ UNCHANGED <<pending, paidIds, network, standing>>

\* The close group takes the chunk of a put, or of a finalize that is paid for.
Land(t) ==
    /\ call[t].pc = "put" \/ (call[t].pc = "store" /\ call[t].id \in paidIds)
    /\ call[t].chunk \notin network
    /\ network' = network \cup {call[t].chunk}
    /\ UNCHANGED <<pending, call, paidIds, standing>>

\* finalize_chunk returns; an error ends the session also when the chunk landed
\* and the acknowledgements were lost.
FinalizeReturns(t) ==
    /\ call[t].pc = "store"
    /\ \E outcome \in {"stored", "failed"} :
          /\ outcome = "stored" => call[t].chunk \in network /\ call[t].id \in paidIds
          /\ standing' = [standing EXCEPT ![call[t].id] = outcome]
    /\ EndCall(t)
    /\ UNCHANGED <<pending, paidIds, network>>

PutReturns(t) ==
    /\ call[t].pc = "put"
    /\ EndCall(t)
    /\ UNCHANGED <<pending, paidIds, network, standing>>

-----------------------------------------------------------------------------
\* Fault: the store of a finalize runs in the handler.
NothingDetached(pc) == FALSE

\* The spawned finalize_chunk outlives its caller.
ChunkDetached(pc) == pc = "store"

ChunkCallerLeaves(t) ==
    /\ call[t].pc # "idle"
    /\ ~call[t].left
    /\ IF ChunkDetached(call[t].pc) THEN call' = [call EXCEPT ![t].left = TRUE]
       ELSE EndCall(t)
    /\ UNCHANGED <<pending, paidIds, network, standing>>

ChunkOlder(s) == IF s # NoChunk /\ s.age < ChunkTTL THEN [s EXCEPT !.age = @ + 1] ELSE s

ChunkTick ==
    /\ pending' = [i \in Ids |-> ChunkOlder(pending[i])]
    /\ pending' # pending
    /\ UNCHANGED <<call, paidIds, network, standing>>

ChunkStale(i) == pending[i] # NoChunk /\ pending[i].age >= ChunkTTL

\* cleanup_stale_chunks.
ChunkSweep ==
    /\ \E i \in Ids : ChunkStale(i)
    /\ pending' = [i \in Ids |-> IF ChunkStale(i) THEN NoChunk ELSE pending[i]]
    /\ standing' = [i \in Ids |-> IF ChunkStale(i) THEN "expired" ELSE standing[i]]
    /\ UNCHANGED <<call, paidIds, network>>

\* The daemon stops or dies, and starts with an empty map.
ChunkRestart ==
    /\ \E i \in Ids : standing[i] = "live"
    /\ pending' = [i \in Ids |-> NoChunk]
    /\ call' = [t \in Calls |-> IdleCall]
    /\ standing' = [i \in Ids |-> IF standing[i] = "live" THEN "lost" ELSE standing[i]]
    /\ UNCHANGED <<paidIds, network>>

-----------------------------------------------------------------------------
\* What a request does by itself, up to its answer.
ChunkStep(t) ==
    \/ Quote(t)
    \/ \E i \in Ids : Insert(t, i)
    \/ FinalizeReturns(t)
    \/ PutReturns(t)

ChunkNext ==
    \/ \E t \in Calls :
          \/ \E c \in Contents : StartPrepare(t, c) \/ StartPut(t, c)
          \/ \E i \in Ids, wellFormed \in BOOLEAN : StartFinalize(t, i, wellFormed)
          \/ ChunkStep(t)
          \/ Land(t)
          \/ ChunkCallerLeaves(t)
    \/ \E i \in Ids : Pay(i)
    \/ ChunkTick
    \/ ChunkSweep
    \/ ChunkRestart

ChunkSpec == ChunkInit /\ [][ChunkNext]_chunkVars

\* The runtime polls every task and ant-core's calls return.  Nothing is assumed of
\* callers or the network.
FairChunkSpec == ChunkSpec /\ \A t \in Calls : WF_chunkVars(ChunkStep(t))

-----------------------------------------------------------------------------
(* Properties.                                                             *)

\* Every variable has its type.
ChunkTypeOK ==
    /\ pending \in [Ids -> ChunkSession \cup {NoChunk}]
    /\ call \in [Calls -> Call]
    /\ paidIds \subseteq Ids
    /\ network \subseteq Contents
    /\ standing \in [Ids -> Standings]

Storing(i) == {t \in Calls : call[t].id = i}

\* A prepared chunk is in the map or with exactly one finalize until it is
\* stored, refused, expired or lost with the daemon: whatever finalizes, callers
\* that leave and sweeps do, no session is stored from twice or dropped.
ChunkLiveIsKept ==
    \A i \in Ids :
        /\ standing[i] = "live" <=> (pending[i] # NoChunk \/ Storing(i) # {})
        /\ pending[i] # NoChunk => Storing(i) = {}
        /\ \A t1, t2 \in Storing(i) : t1 = t2

\* Once a finalize has the session, its store ends by itself, with the chunk
\* stored or an error, also when the caller has left: only a restart loses it.
TakenIsSettled ==
    \A i \in Ids :
        Storing(i) # {} ~> standing[i] \in {"stored", "failed", "lost"}

=============================================================================
