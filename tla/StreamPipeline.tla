--------------------------- MODULE StreamPipeline ---------------------------
(***************************************************************************)
(* A streaming download with progress frames: stream_response_ndjson of    *)
(* antd/src/rest/data.rs and data_chunk_stream_response of                 *)
(* antd/src/grpc/service.rs, which share one shape.                        *)
(*                                                                         *)
(* A producer task runs the download (external: ant-core) into a channel   *)
(* of batches and a channel of progress events.  A forwarder task per      *)
(* channel frames the items and sends them into the channel of lines that  *)
(* is the response body.  All three channels are bounded; a send waits for *)
(* room and fails once the receiver is dropped; a receive ends once every  *)
(* sender is dropped and the channel is empty.                             *)
(***************************************************************************)
EXTENDS Naturals, Sequences

CONSTANTS
    Batches,      \* batches a complete download delivers
    Events,       \* progress events it may emit
    ByteCap, ProgressCap, LineCap,   \* channel capacities
    Surfaces      \* subset of {"ndjson", "grpc"}

ASSUME ConstantsAssumption ==
    /\ Batches \in Nat /\ Events \in Nat
    /\ {ByteCap, ProgressCap, LineCap} \subseteq Nat \ {0}
    /\ Surfaces \subseteq {"ndjson", "grpc"}

Frame == [type: {"data"}, n: 1 .. Batches] \cup [type: {"progress"}, n: 1 .. Events]
             \cup [type: {"meta", "error"}, n: {0}]

Data(n) == [type |-> "data", n |-> n]
Progress(n) == [type |-> "progress", n |-> n]
Meta == [type |-> "meta", n |-> 0]
Failure == [type |-> "error", n |-> 0]
NoFrame == [type |-> "none", n |-> 0]

VARIABLES
    surface,    \* the framing: NDJSON over REST, or gRPC
    producer,   \* [pc, sent, events]: the download and what it has sent
    bytes,      \* the batch channel
    progress,   \* the progress channel
    lines,      \* the line channel
    dataFwd,    \* the data forwarder's item in hand, or where it stands
    progFwd,    \* the progress forwarder's
    client,     \* "reading", "gone", or "ended" once it saw the body end
    got         \* history: the frames the client has read

vars == <<surface, producer, bytes, progress, lines, dataFwd, progFwd, client, got>>

\* A forwarder receives, sends the item it holds, or has stopped.
Forwarder == [pc: {"recv", "send", "done"}, item: Frame \cup {NoFrame}]

Receiving == [pc |-> "recv", item |-> NoFrame]
Sending(f) == [pc |-> "send", item |-> f]
Stopped == [pc |-> "done", item |-> NoFrame]

\* The meta line is sent before any task is spawned, so it finds room.  gRPC
\* carries the size in a header instead.
Init ==
    /\ surface \in Surfaces
    /\ producer = [pc |-> "download", sent |-> 0, events |-> 0]
    /\ bytes = <<>>
    /\ progress = <<>>
    /\ lines = IF surface = "ndjson" THEN <<Meta>> ELSE <<>>
    /\ dataFwd = Receiving
    /\ progFwd = Receiving
    /\ client = "reading"
    /\ got = <<>>

-----------------------------------------------------------------------------
(* The producer task (external: file_download_to_sender, then the error).  *)

\* The next batch, in order.
SendBatch ==
    /\ producer.pc = "download"
    /\ producer.sent < Batches
    /\ dataFwd.pc # "done"
    /\ Len(bytes) < ByteCap
    /\ bytes' = Append(bytes, Data(producer.sent + 1))
    /\ producer' = [producer EXCEPT !.sent = @ + 1]
    /\ UNCHANGED <<surface, progress, lines, dataFwd, progFwd, client, got>>

SendEvent ==
    /\ producer.pc = "download"
    /\ producer.events < Events
    /\ progFwd.pc # "done"
    /\ Len(progress) < ProgressCap
    /\ progress' = Append(progress, Progress(producer.events + 1))
    /\ producer' = [producer EXCEPT !.events = @ + 1]
    /\ UNCHANGED <<surface, bytes, lines, dataFwd, progFwd, client, got>>

\* The download returns, dropping its senders: whole, or with an error at any
\* point but while it waits for room in the batch channel (a closed channel is
\* an error).
DownloadReturns ==
    /\ producer.pc = "download"
    /\ \/ producer.sent = Batches /\ producer' = [producer EXCEPT !.pc = "done"]
       \/ /\ dataFwd.pc = "done" \/ Len(bytes) < ByteCap
          /\ producer' = [producer EXCEPT !.pc = "failed"]
    /\ UNCHANGED <<surface, bytes, progress, lines, dataFwd, progFwd, client, got>>

\* The error goes into the batch channel through a cloned sender, after every
\* batch sent before it; nobody is told if the channel is closed.
SendError ==
    /\ producer.pc = "failed"
    /\ \/ /\ dataFwd.pc = "done"
          /\ UNCHANGED bytes
       \/ /\ dataFwd.pc # "done"
          /\ Len(bytes) < ByteCap
          /\ bytes' = Append(bytes, Failure)
    /\ producer' = [producer EXCEPT !.pc = "done"]
    /\ UNCHANGED <<surface, progress, lines, dataFwd, progFwd, client, got>>

-----------------------------------------------------------------------------
(* The forwarders.  A receive on a channel whose senders are all gone ends  *)
(* the task, and so does a send to a client that is gone.                  *)

BytesClosed == producer.pc = "done"
ProgressClosed == producer.pc # "download"

DataReceives ==
    /\ dataFwd.pc = "recv"
    /\ \/ /\ bytes # <<>>
          /\ dataFwd' = Sending(Head(bytes))
          /\ bytes' = Tail(bytes)
       \/ /\ bytes = <<>> /\ BytesClosed
          /\ dataFwd' = Stopped
          /\ UNCHANGED bytes
    /\ UNCHANGED <<surface, producer, progress, lines, progFwd, client, got>>

ProgressReceives ==
    /\ progFwd.pc = "recv"
    /\ \/ /\ progress # <<>>
          /\ progFwd' = Sending(Head(progress))
          /\ progress' = Tail(progress)
       \/ /\ progress = <<>> /\ ProgressClosed
          /\ progFwd' = Stopped
          /\ UNCHANGED progress
    /\ UNCHANGED <<surface, producer, bytes, lines, dataFwd, client, got>>

\* Sending into the line channel, for either forwarder.
Room == Len(lines) < LineCap

\* Fault: the line is dropped when the channel is full (try_send).
DataTrySends ==
    /\ dataFwd.pc = "send"
    /\ \/ /\ client # "reading"
          /\ dataFwd' = Stopped
          /\ bytes' = <<>>
          /\ UNCHANGED lines
       \/ /\ client = "reading"
          /\ lines' = IF Room THEN Append(lines, dataFwd.item) ELSE lines
          /\ dataFwd' = Receiving
          /\ UNCHANGED bytes
    /\ UNCHANGED <<surface, producer, progress, progFwd, client, got>>

DataSends ==
    /\ dataFwd.pc = "send"
    /\ \/ /\ client # "reading"
          /\ dataFwd' = Stopped
          /\ bytes' = <<>>
          /\ UNCHANGED lines
       \/ /\ client = "reading" /\ Room
          /\ lines' = Append(lines, dataFwd.item)
          /\ dataFwd' = Receiving
          /\ UNCHANGED bytes
    /\ UNCHANGED <<surface, producer, progress, progFwd, client, got>>

\* Fault: the progress forwarder ignores a failed send and waits for room.
ProgressSendsOnlyToReader ==
    /\ progFwd.pc = "send"
    /\ client = "reading" /\ Room
    /\ lines' = Append(lines, progFwd.item)
    /\ progFwd' = Receiving
    /\ UNCHANGED <<surface, producer, bytes, progress, dataFwd, client, got>>

ProgressSends ==
    /\ progFwd.pc = "send"
    /\ \/ /\ client # "reading"
          /\ progFwd' = Stopped
          /\ progress' = <<>>
          /\ UNCHANGED lines
       \/ /\ client = "reading" /\ Room
          /\ lines' = Append(lines, progFwd.item)
          /\ progFwd' = Receiving
          /\ UNCHANGED progress
    /\ UNCHANGED <<surface, producer, bytes, dataFwd, client, got>>

-----------------------------------------------------------------------------
(* The connection's other end; SdkDownload adds the SDK and its app.  tonic *)
(* ends a gRPC stream at its first error.                                  *)

ClientReads ==
    /\ client = "reading"
    /\ \/ /\ lines # <<>>
          /\ got' = Append(got, Head(lines))
          /\ IF Head(lines) = Failure /\ surface = "grpc"
             THEN client' = "ended" /\ lines' = <<>>
             ELSE lines' = Tail(lines) /\ UNCHANGED client
       \/ /\ lines = <<>> /\ dataFwd = Stopped /\ progFwd = Stopped
          /\ client' = "ended"
          /\ UNCHANGED <<lines, got>>
    /\ UNCHANGED <<surface, producer, bytes, progress, dataFwd, progFwd>>

ClientLeaves ==
    /\ client = "reading"
    /\ client' = "gone"
    /\ lines' = <<>>
    /\ UNCHANGED <<surface, producer, bytes, progress, dataFwd, progFwd, got>>

-----------------------------------------------------------------------------
Producing == SendBatch \/ SendEvent \/ DownloadReturns \/ SendError
DataForwards == DataReceives \/ DataSends
ProgressForwards == ProgressReceives \/ ProgressSends

-----------------------------------------------------------------------------
TasksStopped == producer.pc = "done" /\ dataFwd = Stopped /\ progFwd = Stopped

=============================================================================
