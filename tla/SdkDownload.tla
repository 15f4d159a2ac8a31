---------------------------- MODULE SdkDownload ----------------------------
(***************************************************************************)
(* A download with progress from end to end: the daemon's pipeline         *)
(* (StreamPipeline), a connection that breaks when the daemon dies, and    *)
(* the Rust SDK's stream (NdjsonFrames of antd-rust/src/client.rs; tonic's *)
(* stream and frame_of of grpc_client.rs) that an app polls.               *)
(*                                                                         *)
(* `got` of StreamPipeline is what has arrived at the client's end.  The   *)
(* app sees the frames up to `taken`, then `tail`: the error of a          *)
(* connection that broke and, if it polls on over REST, what the SDK still *)
(* had of a line.  It may go on polling after an error, or drop the stream. *)
(***************************************************************************)
EXTENDS StreamPipeline

VARIABLES
    taken,    \* how many of the frames in got the app has been handed
    link,     \* "up", "lost", or "told" once the app knows that it is lost
    buf,      \* NdjsonFrames.buf without its newline: <<>>, or <<what it parses as>>
    tail,     \* what the app was handed after the frames in got
    app       \* "polling", "ended" after the stream's None, or "left"

sdkVars == <<taken, link, buf, tail, app>>
allVars == <<vars, sdkVars>>

SdkInit ==
    /\ Init
    /\ taken = 0 /\ link = "up" /\ buf = <<>> /\ tail = <<>>
    /\ app = "polling"

-----------------------------------------------------------------------------
Daemon ==
    /\ Producing \/ DataForwards \/ ProgressForwards
    /\ UNCHANGED sdkVars

\* The SDK polls the body only when it has handed on all it had: a slow app holds
\* the download back.
BodyPolled ==
    /\ link = "up"
    /\ taken = Len(got)
    /\ ClientReads
    /\ UNCHANGED sdkVars

\* The daemon dies, and what was on its way arrives up to some point, over REST
\* possibly within a line: in the middle of it, which does not parse, or just
\* before its newline, which does.
DaemonDies ==
    /\ link = "up"
    /\ client = "reading"
    /\ link' = "lost"
    /\ client' = "gone"
    /\ producer' = [producer EXCEPT !.pc = "done"]
    /\ dataFwd' = Stopped /\ progFwd' = Stopped
    /\ bytes' = <<>> /\ progress' = <<>> /\ lines' = <<>>
    /\ \E n \in taken .. Len(got) + Len(lines) :
           /\ got' = SubSeq(got \o lines, 1, n)
           /\ \/ buf' = <<>>
              \/ /\ surface = "ndjson" /\ n < Len(got) + Len(lines)
                 /\ buf' \in {<<Failure>>, <<(got \o lines)[n + 1]>>}
    /\ UNCHANGED <<surface, taken, tail, app>>

-----------------------------------------------------------------------------
(* poll_next.                                                              *)

\* A complete line, or a message: parse_ndjson_frame, frame_of.  An error line
\* is an error of the stream, and does not end it over REST.
PollFrame ==
    /\ app = "polling"
    /\ taken < Len(got)
    /\ taken' = taken + 1
    /\ UNCHANGED <<vars, link, buf, tail, app>>

\* Fault: a connection that breaks is taken for the end of the body.
PollBreakAsEnd ==
    /\ app = "polling"
    /\ taken = Len(got)
    /\ link = "lost"
    /\ link' = "told"
    /\ app' = "ended"
    /\ UNCHANGED <<vars, taken, buf, tail>>

\* The error of a connection that broke.  Neither buf nor done is touched.
PollBreak ==
    /\ app = "polling"
    /\ taken = Len(got)
    /\ link = "lost"
    /\ link' = "told"
    /\ tail' = Append(tail, Failure)
    /\ UNCHANGED <<vars, taken, buf, app>>

\* The body has ended, also after its error: what is left of a line is parsed and
\* handed over, as a frame or as an error; then there is nothing more.
PollEnd ==
    /\ app = "polling"
    /\ taken = Len(got)
    /\ client = "ended" \/ link = "told"
    /\ IF buf # <<>> THEN tail' = tail \o buf /\ buf' = <<>> /\ UNCHANGED app
                     ELSE app' = "ended" /\ UNCHANGED <<tail, buf>>
    /\ UNCHANGED <<vars, taken, link>>

\* The app drops the stream, and with it the request if it is still under way.
AppLeaves ==
    /\ app = "polling"
    /\ app' = "left"
    /\ IF client = "reading" THEN ClientLeaves ELSE UNCHANGED vars
    /\ UNCHANGED <<taken, link, buf, tail>>

Poll == PollFrame \/ PollBreak \/ PollEnd

SdkNext == Daemon \/ BodyPolled \/ DaemonDies \/ Poll \/ AppLeaves

SdkSpec == SdkInit /\ [][SdkNext]_allVars

\* The runtimes poll their tasks, the download returns in the end, and an app
\* that keeps its stream polls it.  Daemons need not die and apps need not leave.
FairSdkSpec ==
    /\ SdkSpec
    /\ WF_allVars(Producing /\ UNCHANGED sdkVars)
    /\ WF_allVars(DataForwards /\ UNCHANGED sdkVars)
    /\ WF_allVars(ProgressForwards /\ UNCHANGED sdkVars)
    /\ WF_allVars(BodyPolled)
    /\ WF_allVars(Poll)

-----------------------------------------------------------------------------
(* Properties.                                                             *)

\* What the app was handed, in order.
Seen == SubSeq(got, 1, taken) \o tail

\* The frames of a type come in the order of their numbers, from 1 and without gap.
InOrder(s, type) ==
    \A i \in 1 .. Len(s) : s[i].type = type =>
        /\ s[i].n = 1 \/ \E j \in 1 .. i - 1 : s[j] = [type |-> type, n |-> s[i].n - 1]
        /\ \A j \in 1 .. i - 1 : s[j].type = type => s[j].n < s[i].n

\* The only data that can follow an error: over NDJSON, the connection broke just
\* before a line's newline, and the app polled on after it was told.
CutBeforeNewline(i, j) ==
    surface = "ndjson" /\ link = "told" /\ i = taken + 1 /\ j = i + 1 /\ j = Len(Seen)

\* The app reads a prefix of the object in order, without gap or repetition, across
\* the error of a broken connection too: the one frame that the SDK may still hand
\* over after that error is the next one, and it is the last.  No data follows the
\* daemon's own error.  The progress frames are in order as well, and an NDJSON
\* download tells the object's size before any of its frames.
ReadsPrefix ==
    /\ InOrder(Seen, "data") /\ InOrder(Seen, "progress")
    /\ \A i, j \in 1 .. Len(Seen) :
           i < j /\ Seen[i].type = "error" /\ Seen[j].type = "data" => CutBeforeNewline(i, j)
    /\ surface = "ndjson" =>
           \A i \in 1 .. Len(Seen) : Seen[i].type \in {"data", "progress"} =>
               \E j \in 1 .. i - 1 : Seen[j] = Meta

\* A stream that ends has handed over the last batch (and so, in order, all) or an
\* error: neither a failed download, nor a daemon that died between two frames or
\* within one, is ever mistaken for a whole object.
EndsWholeOrFailed ==
    app = "ended" =>
        \/ Batches = 0
        \/ \E i \in 1 .. Len(Seen) : Seen[i] = Data(Batches) \/ Seen[i].type = "error"

\* Whether the app reads to the end or leaves at any point, its stream ends and
\* every task of the daemon stops: none waits for ever on a full channel or on one
\* that nobody reads any more.
EverythingStops == <>(app # "polling" /\ TasksStopped)

=============================================================================
