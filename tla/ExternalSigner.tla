--------------------------- MODULE ExternalSigner ---------------------------
(***************************************************************************)
(* A signer that uploads one content through the daemon, composed with     *)
(* UploadSessions and with the errors of both transports.  It prepares,    *)
(* pays, finalizes and recovers as docs/external-signer-flow.md section 6  *)
(* and antd-rust/examples/07-external-signer.rs tell it to: it repeats the *)
(* finalize of a retained attempt a bounded number of times in a row,      *)
(* prepares again only once the daemon has told it that nothing is kept,   *)
(* and on an answer it cannot read, or none, it only finalizes again.      *)
(*                                                                         *)
(* Its HTTP client times out while the daemon goes on storing, and what    *)
(* the daemon says may reach it damaged (gRPC carries it in a text).       *)
(***************************************************************************)
EXTENDS UploadSessions, Errors

CONSTANTS
    MaxAttempts,   \* MAX_FINALIZE_ATTEMPTS
    Transports     \* {"rest", "grpc"}

ASSUME SignerAssumption == MaxAttempts \in Nat \ {0} /\ None \notin Tasks

\* Of the signer, `told` is what the daemon said about the attempt in the last
\* answer, `attempts` and `failed` belong to the retry loop, and `unanswered` has
\* the finalizes it got no answer to.
VARIABLES
    signer,    \* what the signer does and knows
    covered    \* [Uploads -> chunks the signer paid for under it]

\* last_failed before the first partial upload: more than any count.
NoCount == Cardinality(Chunks) + 1

SignerInit ==
    /\ Init
    /\ signer = [phase |-> "start", up |-> None, task |-> None, told |-> "silent",
                 attempts |-> 0, failed |-> NoCount, unanswered |-> {}]
    /\ covered = [u \in Uploads |-> {}]

\* What the network holds of the content, whichever upload stored it.
Known == UNION {net[u] : u \in Uploads}

\* prepare_upload of the same content: chunks on the network are not due.
SignerPrepares(u, kind) ==
    /\ signer.phase \in {"start", "restart"}
    /\ fate[u] = "unused"
    /\ uploads' = [uploads EXCEPT ![u] = [kind |-> kind, resume |-> FALSE, paid |-> {},
                                          stored |-> Known, age |-> 0]]
    /\ net' = [net EXCEPT ![u] = Known]
    /\ fate' = [fate EXCEPT ![u] = "live"]
    /\ signer' = [signer EXCEPT !.phase = "prepared", !.up = u]
    /\ UNCHANGED <<job, maps, quiet, covered>>

\* external_signer_pay: every chunk that is due.
SignerPays ==
    /\ signer.phase = "prepared"
    /\ covered' = [covered EXCEPT ![signer.up] = Chunks \ net[signer.up]]
    /\ signer' = [signer EXCEPT !.phase = "ready", !.attempts = 0,
                                !.failed = NoCount, !.unanswered = {}]
    /\ UNCHANGED vars

\* finalize_upload with an id the daemon holds.
SignerFinalizes(t) ==
    /\ signer.phase = "ready"
    /\ Peek(t, signer.up)
    /\ signer' = [signer EXCEPT !.phase = "waiting", !.task = t, !.told = "silent"]
    /\ UNCHANGED covered

\* Fault: a missing id is taken for the end of the attempt at once.
RestartAtOnce(s) == [s EXCEPT !.phase = "restart", !.task = None]

\* A 404 says only that the daemon holds nothing now.  The signer makes sure that
\* no finalize of the id runs before it acts on it, and asks again otherwise.
HearsNotFound(s) ==
    [s EXCEPT !.phase = IF \A t \in s.unanswered : job[t].pc = "idle" THEN "restart" ELSE "ready",
              !.task = None]

SignerNotFound ==
    /\ signer.phase = "ready"
    /\ uploads[signer.up] = None
    /\ signer' = HearsNotFound(signer)
    /\ UNCHANGED <<vars, covered>>

\* finalize_with_retry, on a partial upload with `failed` chunks left: it repeats
\* while the attempt is kept and shrinks, and gives up otherwise.  What was kept,
\* or may have been, is finalized again later with fresh counters; only what was
\* dropped is prepared anew.
HearsPartial(s, retention, failed) ==
    LET heard == [s EXCEPT !.task = None, !.told = retention] IN
    IF retention = "dropped" THEN [heard EXCEPT !.phase = "restart"]
    ELSE IF retention = "kept" /\ s.attempts + 1 < MaxAttempts /\ failed < s.failed
    THEN [heard EXCEPT !.phase = "ready", !.attempts = @ + 1, !.failed = failed]
    ELSE [heard EXCEPT !.phase = "ready", !.attempts = 0, !.failed = NoCount]

\* What the SDK makes of the daemon's error on the transport in use.
Hears(e) ==
    {SdkOfRest(RestAnswer(e)) : x \in Transports \cap {"rest"}}
        \cup UNION {{SdkOfGrpc(a) : a \in Damaged(GrpcAnswer(e))} :
                       x \in Transports \cap {"grpc"}}

\* The retryable flag of a shortfall: finalize_pending sets it on its resumable
\* branches, and from_core clears it on the one for unpaid batches.
PartialError(t) == Says("PartialUpload", IF FullyPaid(t) THEN "kept" ELSE "dropped")

\* A finalize takes a step in the daemon; its last one is the signer's answer.
SignerHears(t) ==
    LET u == signer.up
        answered == signer.task = t /\ job'[t].pc = "idle"
    IN /\ Step(t)
       /\ signer' \in
            IF ~answered THEN {signer}
            ELSE IF fate'[u] = "complete" THEN {[signer EXCEPT !.phase = "done", !.task = None]}
            ELSE IF job[t].pc = "peeked" THEN {HearsNotFound(signer)}
            ELSE IF job[t].pc = "storing" /\ fate'[u] \in {"live", "abandoned"}
            THEN {HearsPartial(signer, e.retention, Cardinality(Chunks \ net[u])) :
                     e \in Hears(PartialError(t))}
            ELSE {[signer EXCEPT !.phase = "stopped", !.task = None]}
       /\ UNCHANGED covered

\* The SDK's request times out: the daemon may notice the closed connection.
SignerTimesOut ==
    /\ signer.phase = "waiting"
    /\ signer' = [signer EXCEPT !.phase = "ready", !.task = None,
                                !.unanswered = @ \cup {signer.task}]
    /\ CallerLeaves(signer.task) \/ UNCHANGED vars
    /\ UNCHANGED covered

\* The daemon by itself.  What it loses in a restart has no answer.
Daemon ==
    \/ /\ Tick \/ Sweep \/ \E t \in Tasks, c \in Chunks : StoreChunk(t, c)
       /\ UNCHANGED <<signer, covered>>
    \/ /\ Restart
       /\ signer' = IF signer.phase = "waiting"
                    THEN [signer EXCEPT !.phase = "ready", !.task = None] ELSE signer
       /\ UNCHANGED covered

SignerNext ==
    \/ \E u \in Uploads, kind \in Kinds : SignerPrepares(u, kind)
    \/ SignerPays
    \/ \E t \in Tasks : SignerFinalizes(t) \/ SignerHears(t)
    \/ SignerNotFound
    \/ SignerTimesOut
    \/ Daemon

SignerSpec == SignerInit /\ [][SignerNext]_<<vars, signer, covered>>

-----------------------------------------------------------------------------
(* Properties.                                                             *)

\* An attempt whose payment is gone: a merkle attempt with unpaid batches, one the
\* daemon forgot (an hour's expiry or a restart), and one ant-core failed.
Gone(u) == fate[u] \in {"abandoned", "expired", "lost", "failed"}

\* docs/external-signer-flow.md section 6, "No re-prepare, no second signature, no
\* double payment": a signer that recovers by the guide pays for a chunk a second
\* time only when the first attempt that covered it is gone, through any number of
\* partial stores, timeouts with the store still running, transient 404s and
\* damaged messages.
NeverPaysTwice ==
    \A u1, u2 \in Uploads :
        u1 # u2 /\ covered[u1] \cap covered[u2] # {} => Gone(u1) \/ Gone(u2)

\* The retryable and retention_known flags the SDKs give: told that the attempt is
\* kept, the daemon holds it with all its proofs; told that it is dropped, the
\* daemon holds nothing.
FlagsAreTrue ==
    [][signer.phase = "waiting" /\ signer'.phase # "waiting" =>
         LET s == uploads'[signer.up] IN
         /\ signer'.told = "kept" => s # None /\ s.resume /\ s.paid = Chunks
         /\ signer'.told = "dropped" => s = None]_<<vars, signer, covered>>

=============================================================================
