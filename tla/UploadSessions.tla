--------------------------- MODULE UploadSessions ---------------------------
(***************************************************************************)
(* External-signer uploads: prepare, finalize and the retry of a finalize  *)
(* that stored only some chunks (antd/src/rest/upload.rs, shared by the    *)
(* gRPC surface, and the pending_uploads map and sweep of state.rs).       *)
(*                                                                         *)
(* A finalize looks the session up without consuming it, validates the     *)
(* request against what it saw, takes the session out of the map, and runs *)
(* the store detached from its caller.  Storing chunks and the data map is *)
(* external (ant-core).  A chunk stands for one merkle batch as well: it   *)
(* is paid for or it is not.                                               *)
(***************************************************************************)
EXTENDS Naturals, FiniteSets

CONSTANTS
    Uploads,     \* upload ids, each issued at most once (bound)
    Tasks,       \* finalize requests served at once (bound)
    Chunks,      \* the chunks of an upload
    TTL,         \* ticks after which a pending session is stale
    CoreFails,   \* whether ant-core's finalize may end in another error
    None

ASSUME ConstantsAssumption ==
    /\ Chunks # {}
    /\ TTL \in Nat \ {0}
    /\ CoreFails \in BOOLEAN

Kinds == {"wave", "merkle"}   \* PaymentKind

\* UploadSession with its timestamp: Prepared, or the Resume handle of a paid
\* attempt with the chunks it has proofs for and those it knows to be stored.
Session == [kind: Kinds, resume: BOOLEAN, paid: SUBSET Chunks,
            stored: SUBSET Chunks, age: 0 .. TTL]

\* What a finalize is doing.  `art` is the payment artefacts it resolved,
\* `paid` the chunks they pay for; it has a session exactly while it is past taking
\* it.
Job ==
    {j \in [pc: {"idle", "peeked", "taken", "storing", "mapping"},
            up: Uploads \cup {None}, art: Kinds \cup {"resume"},
            paid: SUBSET Chunks, map: BOOLEAN, held: Session \cup {None}] :
       /\ j.pc = "idle" <=> j.up = None
       /\ j.held = None <=> j.pc \in {"idle", "peeked"}}

IdleJob == [pc |-> "idle", up |-> None, art |-> "resume", paid |-> {},
            map |-> FALSE, held |-> None]

ASSUME NoneAssumption == None \notin Uploads \cup Session

VARIABLES
    uploads,   \* [Uploads -> session pending under the id, or None]
    job,       \* [Tasks -> what the finalize is doing]
    net,       \* [Uploads -> its chunks the network holds]
    maps,      \* uploads whose data map the network holds
    fate,      \* history: [Uploads -> how its session stands]
    quiet      \* history: [Uploads -> ticks since the last prepare or partial]

vars == <<uploads, job, net, maps, fate, quiet>>

Fates == {"unused", "live", "complete", "abandoned", "failed", "unmapped",
          "expired", "lost"}

Init ==
    /\ uploads = [u \in Uploads |-> None]
    /\ job = [t \in Tasks |-> IdleJob]
    /\ net = [u \in Uploads |-> {}]
    /\ maps = {}
    /\ fate = [u \in Uploads |-> "unused"]
    /\ quiet = [u \in Uploads |-> 0]

Finish(t) == job' = [job EXCEPT ![t] = IdleJob]

-----------------------------------------------------------------------------
\* prepare_upload and prepare_data_upload, quoted: nothing is shared before the
\* session goes into the map under a fresh random id.
Prepare(u, kind) ==
    /\ fate[u] = "unused"
    /\ uploads' = [uploads EXCEPT ![u] = [kind |-> kind, resume |-> FALSE, paid |-> {},
                                          stored |-> {}, age |-> 0]]
    /\ fate' = [fate EXCEPT ![u] = "live"]
    /\ UNCHANGED <<job, net, maps, quiet>>

\* The artefacts a valid request resolves to.  A wave needs a receipt for every
\* quote; a merkle request may leave batches unpaid; on a resume the request's
\* payment fields are ignored.
Resolved(s) ==
    IF s.resume THEN {[art |-> "resume", paid |-> s.paid]}
    ELSE IF s.kind = "wave" THEN {[art |-> "wave", paid |-> Chunks]}
    ELSE [art: {"merkle"}, paid: SUBSET Chunks]

\* pending_shape and the validation against it.  An unknown id (NOT_FOUND) or a
\* bad request changes nothing.
Peek(t, u) ==
    /\ job[t].pc = "idle"
    /\ uploads[u] # None
    /\ \E r \in Resolved(uploads[u]), map \in BOOLEAN :
          job' = [job EXCEPT ![t] = [pc |-> "peeked", up |-> u, art |-> r.art,
                                     paid |-> r.paid, map |-> map, held |-> None]]
    /\ UNCHANGED <<uploads, net, maps, fate, quiet>>

\* Fault: the session is read and removed later.
TakeWithoutRemoving(t) ==
    LET u == job[t].up IN
    /\ job[t].pc = "peeked"
    /\ IF uploads[u] = None
       THEN Finish(t)
       ELSE job' = [job EXCEPT ![t].pc = "taken", ![t].held = uploads[u]]
    /\ UNCHANGED <<uploads, net, maps, fate, quiet>>

\* Fault: a session that has gone meanwhile is waited for.
TakeWaits(t) ==
    LET u == job[t].up IN
    /\ job[t].pc = "peeked"
    /\ uploads[u] # None
    /\ uploads' = [uploads EXCEPT ![u] = None]
    /\ job' = [job EXCEPT ![t].pc = "taken", ![t].held = uploads[u]]
    /\ UNCHANGED <<net, maps, fate, quiet>>

\* finalize_pending removes the session, NOT_FOUND if it has gone meanwhile, and
\* spawns the store.
Take(t) ==
    LET u == job[t].up IN
    /\ job[t].pc = "peeked"
    /\ IF uploads[u] = None
       THEN Finish(t) /\ UNCHANGED uploads
       ELSE /\ uploads' = [uploads EXCEPT ![u] = None]
            /\ job' = [job EXCEPT ![t].pc = "taken", ![t].held = uploads[u]]
    /\ UNCHANGED <<net, maps, fate, quiet>>

\* The artefacts fit the session that was taken.
Matches(t) == job[t].held.resume <=> job[t].art = "resume"

\* Fault: a mismatch drops the session.
MismatchConsumes(t) ==
    /\ job[t].pc = "taken"
    /\ IF Matches(t) THEN job' = [job EXCEPT ![t].pc = "storing"] ELSE Finish(t)
    /\ UNCHANGED <<uploads, net, maps, fate, quiet>>

\* The match on session and artefacts: store, or put a session of another shape
\* back with its original timestamp.
Dispatch(t) ==
    /\ job[t].pc = "taken"
    /\ IF Matches(t)
       THEN job' = [job EXCEPT ![t].pc = "storing"] /\ UNCHANGED uploads
       ELSE /\ uploads' = [uploads EXCEPT ![job[t].up] = job[t].held]
            /\ Finish(t)
    /\ UNCHANGED <<net, maps, fate, quiet>>

-----------------------------------------------------------------------------
\* The network takes a chunk that is paid for and not known to be stored.
StoreChunk(t, c) ==
    LET u == job[t].up IN
    /\ job[t].pc = "storing"
    /\ c \in job[t].paid \ job[t].held.stored
    /\ c \notin net[u]
    /\ net' = [net EXCEPT ![u] = @ \cup {c}]
    /\ UNCHANGED <<uploads, job, maps, fate, quiet>>

Settle(t, outcome) ==
    /\ fate' = [fate EXCEPT ![job[t].up] = outcome]
    /\ Finish(t)
    /\ UNCHANGED <<uploads, net, quiet>>

\* FinalizeOutcome::Complete.  That ant-core reports it only with every chunk on
\* the network is assumed: the handler turns each Ok into Complete.
Complete(t) ==
    /\ job[t].pc = "storing"
    /\ net[job[t].up] = Chunks
    /\ IF job[t].map
       THEN job' = [job EXCEPT ![t].pc = "mapping"] /\ UNCHANGED <<uploads, net, fate, quiet>>
       ELSE Settle(t, "complete")
    /\ UNCHANGED maps

\* Fault: one paid batch is enough.
SomePaid(t) == job[t].paid # {}

\* merkle_fully_paid, which every wave is: the attempt can be resumed.
FullyPaid(t) == job[t].paid = Chunks

\* Fault: the timestamp is carried over.
HandleKeepingAge(s, paid, acked) ==
    [s EXCEPT !.resume = TRUE, !.paid = paid, !.stored = acked]

\* Fault: the session goes back as it was prepared.
HandleUnpaid(s, paid, acked) == [s EXCEPT !.resume = FALSE, !.age = 0]

\* TimestampedUpload::resume.
Handle(s, paid, acked) ==
    [s EXCEPT !.resume = TRUE, !.paid = paid, !.stored = acked, !.age = 0]

\* FinalizeOutcome::Partial: the handle goes back under the same id.  Chunks
\* whose acknowledgement was lost count as unstored.
Partial(t) ==
    LET u == job[t].up
        s == job[t].held
    IN /\ job[t].pc = "storing"
       /\ FullyPaid(t)
       /\ \E acked \in SUBSET (net[u] \cup s.stored) :
             /\ s.stored \subseteq acked
             /\ acked # Chunks   \* something is left to retry
             /\ uploads' = [uploads EXCEPT ![u] = Handle(s, job[t].paid, acked)]
       /\ quiet' = [quiet EXCEPT ![u] = 0]
       /\ Finish(t)
       /\ UNCHANGED <<net, maps, fate>>

\* finalize_upload_merkle_multi with unpaid batches falls short: PARTIAL_UPLOAD,
\* not retryable, nothing is kept.
PartialUnpaid(t) ==
    /\ job[t].pc = "storing"
    /\ ~FullyPaid(t)
    /\ Settle(t, "abandoned")
    /\ UNCHANGED maps

\* Any other error of ant-core's finalize ends the session.
CoreError(t) ==
    /\ CoreFails
    /\ job[t].pc = "storing"
    /\ Settle(t, "failed")
    /\ UNCHANGED maps

\* data_map_store, after every chunk is stored.
MapStored(t) ==
    /\ job[t].pc = "mapping"
    /\ maps' = maps \cup {job[t].up}
    /\ Settle(t, "complete")

MapFails(t) ==
    /\ job[t].pc = "mapping"
    /\ Settle(t, "unmapped")
    /\ UNCHANGED maps

-----------------------------------------------------------------------------
\* Fault: the store runs in the handler's own task.
NeverDetached(pc) == FALSE

\* What runs on the detached task.
Detached(pc) == pc \in {"taken", "storing", "mapping"}

\* A caller disconnects: what is not detached is dropped where it stands.
CallerLeaves(t) ==
    /\ job[t].pc # "idle"
    /\ ~Detached(job[t].pc)
    /\ Finish(t)
    /\ UNCHANGED <<uploads, net, maps, fate, quiet>>

Older(s) == IF s # None /\ s.age < TTL THEN [s EXCEPT !.age = @ + 1] ELSE s

Tick ==
    /\ uploads' = [u \in Uploads |-> Older(uploads[u])]
    /\ job' = [t \in Tasks |-> [job[t] EXCEPT !.held = Older(@)]]
    /\ quiet' = [u \in Uploads |->
                   IF fate[u] = "live" /\ quiet[u] < TTL THEN quiet[u] + 1 ELSE quiet[u]]
    /\ uploads' # uploads \/ job' # job
    /\ UNCHANGED <<net, maps, fate>>

\* Fault: paid attempts are kept for ever.
StalePrepared(s) == s # None /\ ~s.resume /\ s.age >= TTL

\* cleanup_stale_uploads, for prepared uploads and resume handles alike.
Stale(s) == s # None /\ s.age >= TTL

Sweep ==
    LET stale == {u \in Uploads : Stale(uploads[u])} IN
    /\ stale # {}
    /\ uploads' = [u \in Uploads |-> IF u \in stale THEN None ELSE uploads[u]]
    /\ fate' = [u \in Uploads |-> IF u \in stale THEN "expired" ELSE fate[u]]
    /\ UNCHANGED <<job, net, maps, quiet>>

\* The daemon stops, or dies, and starts again with an empty map.
Restart ==
    /\ \E u \in Uploads : fate[u] = "live"
    /\ uploads' = [u \in Uploads |-> None]
    /\ job' = [t \in Tasks |-> IdleJob]
    /\ fate' = [u \in Uploads |-> IF fate[u] = "live" THEN "lost" ELSE fate[u]]
    /\ UNCHANGED <<net, maps, quiet>>

-----------------------------------------------------------------------------
\* What a finalize does by itself, up to its answer.
Step(t) ==
    \/ Take(t)
    \/ Dispatch(t)
    \/ Complete(t)
    \/ Partial(t)
    \/ PartialUnpaid(t)
    \/ CoreError(t)
    \/ MapStored(t)
    \/ MapFails(t)

Next ==
    \/ \E u \in Uploads, kind \in Kinds : Prepare(u, kind)
    \/ \E t \in Tasks :
          \/ \E u \in Uploads : Peek(t, u)
          \/ Step(t)
          \/ \E c \in Chunks : StoreChunk(t, c)
          \/ CallerLeaves(t)
    \/ Tick
    \/ Sweep
    \/ Restart

Spec == Init /\ [][Next]_vars

\* The runtime polls every task, ant-core's calls return, time passes and the
\* sweep runs on an interval.  Nothing is assumed of callers or the network.
FairSpec ==
    /\ Spec
    /\ \A t \in Tasks : WF_vars(Step(t))
    /\ WF_vars(Tick)
    /\ WF_vars(Sweep)

-----------------------------------------------------------------------------
(* Properties.                                                             *)

\* Every variable has its type.
TypeOK ==
    /\ uploads \in [Uploads -> Session \cup {None}]
    /\ job \in [Tasks -> Job]
    /\ net \in [Uploads -> SUBSET Chunks]
    /\ maps \subseteq Uploads
    /\ fate \in [Uploads -> Fates]
    /\ quiet \in [Uploads -> 0 .. TTL]

Holders(u) == {t \in Tasks : job[t].up = u /\ job[t].held # None}

\* finalize_pending's ownership of the session: whatever races (finalizes of the
\* same id, the sweep, disconnecting callers, misrouted calls), a session that
\* has not ended is in the map or with exactly one store, never both, so it is
\* neither lost nor stored from twice.
LiveIsKept ==
    \A u \in Uploads :
        /\ fate[u] = "live" <=> (uploads[u] # None \/ Holders(u) # {})
        /\ \A t1, t2 \in Holders(u) : t1 = t2
        /\ Holders(u) # {} => uploads[u] = None

\* The session of an upload, wherever it is.
SessionsOf(u) == {s \in {uploads[u]} \cup {job[t].held : t \in Holders(u)} : s # None}

\* A retained attempt can drain: merkle_fully_paid keeps unpaid chunks, for which
\* a handle has no proof, out of every attempt that is kept for a retry.
ResumeCanDrain ==
    \A u \in Uploads : \A s \in SessionsOf(u) : s.resume => s.paid = Chunks

\* Once an upload has been answered for good (complete, failed, or nothing is kept),
\* or has expired, that stays its only outcome: no rival finalize that saw the
\* session earlier stores from its payment or publishes a data map any more, and
\* none puts the session back.  So a caller that prepares and pays anew after
\* "nothing is kept" does not pay for what another finalize is still storing.
EndedIsFinal ==
    [][\A u \in Uploads : fate[u] \notin {"unused", "live"} =>
         /\ fate'[u] = fate[u]
         /\ uploads'[u] = None
         /\ net'[u] = net[u]
         /\ u \in maps' <=> u \in maps]_vars

\* A session that comes back from a store, or that was retained before, never
\* asks for a payment again and forgets no stored chunk.
ResumeNeverRegresses ==
    [][\A u \in Uploads :
         /\ \A s \in SessionsOf(u) : \A s2 \in SessionsOf(u)' :
               s.resume => s2.resume /\ s.stored \subseteq s2.stored
         /\ \A t \in Tasks :
               job[t].up = u /\ job[t].pc = "storing" /\ uploads'[u] # None
                  => uploads'[u].resume]_vars

\* TimestampedUpload::resume: the caller gets a full TTL from the moment the
\* shortfall was reported, so the sweep never takes a session sooner.
FullRetryWindow ==
    [][\A u \in Uploads :
         fate[u] = "live" /\ fate'[u] = "expired" => quiet[u] = TTL]_vars

\* Every finalize is answered.
EveryFinalizeAnswered == \A t \in Tasks : job[t].pc # "idle" ~> job[t].pc = "idle"

\* A session nobody finalizes leaves the map.
AbandonedIsSwept ==
    \A u \in Uploads :
        []<>(uploads[u] = None) \/ []<>(\E t \in Tasks : job[t].up = u)

=============================================================================
