----------------------------- MODULE RangeStream -----------------------------
(***************************************************************************)
(* Ranged downloads: the range arithmetic and window planning of           *)
(* antd/src/range.rs, its window producer, and the two consumers of it,    *)
(* range_response (rest/data.rs) and data_chunk_range_response             *)
(* (grpc/service.rs).  A stretch of plaintext is the half-open interval    *)
(* [start, end); its bytes are left out.                                   *)
(***************************************************************************)
EXTENDS Integers, Sequences

CONSTANTS
    Objects,       \* chunk size sequences, in index order
    MaxU64,        \* the largest u64, at which arithmetic saturates
    WindowChunks,  \* RANGE_WINDOW_CHUNKS
    FrameBytes,    \* RANGE_FRAME_BYTES
    OutCap         \* capacity of the gRPC frame channel

\* Where each chunk ends; the first starts at 0.
Ends(object) ==
    LET end[i \in 0 .. Len(object)] == IF i = 0 THEN 0 ELSE end[i - 1] + object[i]
    IN end

Size(object) == Ends(object)[Len(object)]

\* Self-encryption makes no empty chunk, and an object's size is a u64.
ASSUME ConstantsAssumption ==
    /\ {MaxU64, WindowChunks, FrameBytes, OutCap} \subseteq Nat \ {0}
    /\ \A object \in Objects : object \in Seq(Nat \ {0}) /\ Size(object) <= MaxU64

U64 == 0 .. MaxU64
Absent == -1

\* A request for a range: the header's first-last, first- and -suffix forms, or
\* the gRPC offset and length.
Requests ==
    [form: {"header"}, first: U64, last: U64 \cup {Absent}]
    \cup [form: {"suffix"}, last: U64]
    \cup [form: {"offset"}, first: U64, last: U64 \cup {Absent}]

Least(a, b) == IF a < b THEN a ELSE b
Greatest(a, b) == IF a > b THEN a ELSE b
SaturatingAdd(a, b) == Least(a + b, MaxU64)
SaturatingSub(a, b) == Greatest(a - b, 0)

Invalid == [outcome |-> "invalid", start |-> 0, end |-> 0]
Unsatisfiable == [outcome |-> "unsatisfiable", start |-> 0, end |-> 0]
Served(start, end) == [outcome |-> "range", start |-> start, end |-> end]

\* parse_range_header on a decoded header; -suffix is ParseSuffix.
ParseHeader(first, last, size) ==
    IF last # Absent /\ last < first THEN Invalid
    ELSE IF first >= size THEN Unsatisfiable
    ELSE Served(first, IF last = Absent THEN size
                      ELSE Least(SaturatingAdd(last, 1), size))

\* Fault: the subtraction is not guarded against a suffix longer than the object.
ParseSuffixFromZero(n, size) ==
    IF n = 0 \/ size = 0 THEN Unsatisfiable ELSE Served(size - Least(n, size - 1), size)

ParseSuffix(n, size) ==
    IF n = 0 \/ size = 0 THEN Unsatisfiable ELSE Served(SaturatingSub(size, n), size)

\* range_from_offset.
RangeFromOffset(offset, length, size) ==
    IF length = 0 THEN Invalid
    ELSE IF offset >= size THEN Unsatisfiable
    ELSE Served(offset, IF length = Absent THEN size
                       ELSE Least(SaturatingAdd(offset, length), size))

Parse(r, size) ==
    CASE r.form = "header" -> ParseHeader(r.first, r.last, size)
      [] r.form = "suffix" -> ParseSuffix(r.last, size)
      [] r.form = "offset" -> RangeFromOffset(r.first, r.last, size)

-----------------------------------------------------------------------------
(* plan_windows: one pass over the chunks.  `at` is where the next chunk    *)
(* starts, `count` how many chunks the open window has (none is open at 0)  *)
(* and `open` where that window starts.                                    *)

PlanStart == [windows |-> <<>>, open |-> 0, count |-> 0, at |-> 0]

Window(start, end) == [start |-> start, end |-> end]

Overlaps(at, end, r) == at < r.end /\ end > r.start

\* Fault: a full window ends where its last chunk does, past the range or not.
CloseAtChunk(end, r) == end

CloseAt(end, r) == Least(end, r.end)

PlanChunk(plan, size, r, k) ==
    LET end == SaturatingAdd(plan.at, size)
        start == IF plan.count = 0 THEN Greatest(plan.at, r.start) ELSE plan.open
    IN IF ~Overlaps(plan.at, end, r) THEN [plan EXCEPT !.at = end]
       ELSE IF plan.count + 1 = k
       THEN [windows |-> Append(plan.windows, Window(start, CloseAt(end, r))),
             open |-> 0, count |-> 0, at |-> end]
       ELSE [windows |-> plan.windows, open |-> start, count |-> plan.count + 1, at |-> end]

\* The pass, by the number of chunks it has seen.
Plan(object, r, k) ==
    LET plan[i \in 0 .. Len(object)] ==
            IF i = 0 THEN PlanStart ELSE PlanChunk(plan[i - 1], object[i], r, k)
    IN plan

PlanWindows(object, r, k) ==
    LET plan == Plan(object, r, k)[Len(object)]
    IN IF plan.count = 0 THEN plan.windows
       ELSE Append(plan.windows, Window(plan.open, r.end))

-----------------------------------------------------------------------------
VARIABLES
    sizes,     \* the object's chunk sizes
    request,   \* the range asked for
    range,     \* what it parsed to
    windows,   \* windows the producer has still to fetch
    chan,      \* the producer's channel, of capacity 1
    out,       \* the gRPC frame channel
    hand,      \* what the gRPC forwarder still has to send of a window
    producing, forwarding,   \* whether the two tasks run
    client,    \* "reading", "gone" or "ended"
    got        \* history: what the client has read

vars == <<sizes, request, range, windows, chan, out, hand, producing, forwarding,
          client, got>>

Failed == [start |-> 0, end |-> 0]   \* an Err item; no window is empty

\* Headers reach REST, whose body is the producer's channel; offsets reach gRPC,
\* whose forwarder cuts the windows into frames.
Grpc == request.form = "offset"

Init ==
    /\ sizes \in Objects
    /\ request \in Requests
    /\ range = Parse(request, Size(sizes))
    /\ windows = IF range.outcome = "range"
                 THEN PlanWindows(sizes, range, WindowChunks) ELSE <<>>
    /\ chan = <<>>
    /\ out = <<>>
    /\ hand = Failed
    /\ producing = (range.outcome = "range")
    /\ forwarding = (range.outcome = "range" /\ Grpc)
    /\ client = IF range.outcome = "range" THEN "reading" ELSE "ended"
    /\ got = <<>>

\* Who receives from the producer's channel is still there.
Heard == IF Grpc THEN forwarding ELSE client = "reading"

\* spawn_range_stream: fetch a window (external) and send it; an error is sent
\* and ends the task.
SendWindow ==
    /\ producing /\ windows # <<>>
    /\ Heard /\ chan = <<>>
    /\ \/ /\ chan' = <<Head(windows)>>
          /\ windows' = Tail(windows)
       \/ /\ chan' = <<Failed>>
          /\ windows' = <<>>
    /\ producing' = (windows' # <<>>)
    /\ UNCHANGED <<sizes, request, range, out, hand, forwarding, client, got>>

\* A send that finds the receiver dropped ends the task.
SendWindowToNobody ==
    /\ producing
    /\ ~Heard
    /\ producing' = FALSE
    /\ windows' = <<>>
    /\ UNCHANGED <<sizes, request, range, chan, out, hand, forwarding, client, got>>

\* The gRPC forwarder takes the next window, or stops with the producer.
TakeWindow ==
    /\ forwarding /\ hand = Failed
    /\ \/ /\ chan # <<>> /\ Head(chan) # Failed
          /\ hand' = Head(chan) /\ chan' = <<>>
          /\ UNCHANGED <<out, forwarding>>
       \/ /\ chan # <<>> /\ Head(chan) = Failed
          /\ client # "reading" \/ Len(out) < OutCap
          /\ out' = IF client = "reading" THEN Append(out, Failed) ELSE out
          /\ chan' = <<>> /\ forwarding' = FALSE
          /\ UNCHANGED hand
       \/ /\ chan = <<>> /\ ~producing
          /\ forwarding' = FALSE
          /\ UNCHANGED <<chan, out, hand>>
    /\ UNCHANGED <<sizes, request, range, windows, producing, client, got>>

\* Fault: a failed send does not end the task.
SendFrameOnlyToReader ==
    /\ forwarding /\ hand # Failed
    /\ client = "reading" /\ Len(out) < OutCap
    /\ LET cut == Least(hand.start + FrameBytes, hand.end) IN
       /\ out' = Append(out, Window(hand.start, cut))
       /\ hand' = IF cut = hand.end THEN Failed ELSE Window(cut, hand.end)
    /\ UNCHANGED <<sizes, request, range, windows, chan, producing, forwarding,
                   client, got>>

\* bytes.split_to(min(len, RANGE_FRAME_BYTES)), sent as a frame of its own.
SendFrame ==
    /\ forwarding /\ hand # Failed
    /\ IF client # "reading"
       THEN /\ forwarding' = FALSE /\ hand' = Failed /\ chan' = <<>>
            /\ UNCHANGED out
       ELSE LET cut == Least(hand.start + FrameBytes, hand.end) IN
            /\ Len(out) < OutCap
            /\ out' = Append(out, Window(hand.start, cut))
            /\ hand' = IF cut = hand.end THEN Failed ELSE Window(cut, hand.end)
            /\ UNCHANGED <<forwarding, chan>>
    /\ UNCHANGED <<sizes, request, range, windows, producing, client, got>>

Body == IF Grpc THEN out ELSE chan

\* The client reads an item, stopping at an error, or sees the end of the body.
ClientReads ==
    /\ client = "reading"
    /\ \/ /\ Body # <<>>
          /\ got' = Append(got, Head(Body))
          /\ IF Grpc THEN out' = Tail(out) /\ UNCHANGED chan
                     ELSE chan' = <<>> /\ UNCHANGED out
          /\ client' = IF Head(Body) = Failed THEN "ended" ELSE client
       \/ /\ Body = <<>> /\ ~producing /\ ~forwarding
          /\ client' = "ended"
          /\ UNCHANGED <<got, chan, out>>
    /\ UNCHANGED <<sizes, request, range, windows, hand, producing, forwarding>>

ClientLeaves ==
    /\ client = "reading"
    /\ client' = "gone"
    /\ UNCHANGED <<sizes, request, range, windows, chan, out, hand, producing,
                   forwarding, got>>

Produces == SendWindow \/ SendWindowToNobody
Forwards == TakeWindow \/ SendFrame

-----------------------------------------------------------------------------
(* Properties.                                                             *)

\* The positions a request names, by RFC 9110 and the proto's words, in
\* unbounded arithmetic.
Requested ==
    LET positions == 0 .. Size(sizes) - 1 IN
    CASE request.form = "header" ->
           {i \in positions : i >= request.first /\ (request.last # Absent => i <= request.last)}
      [] request.form = "suffix" ->
           {i \in positions : Size(sizes) - i <= request.last}
      [] request.form = "offset" ->
           {i \in positions : i >= request.first
                              /\ (request.last # Absent => i < request.first + request.last)}

\* The range that is served is exactly the one asked for, at every boundary a
\* saturating u64 has; it is refused as unsatisfiable only if it names no byte,
\* and as invalid only if it is empty by its own words.
RangeIsRequested ==
    /\ range.outcome = "range" =>
         range.start < range.end /\ range.start .. range.end - 1 = Requested
    /\ range.outcome # "range" => Requested = {}

\* Where a sequence of stretches that starts at `from` ends.
EndOf(stretches, from) ==
    IF stretches = <<>> THEN from ELSE stretches[Len(stretches)].end

\* Where the windows that are fetched end, as long as none failed.
Fetched ==
    EndOf(chan, IF hand # Failed THEN hand.end ELSE EndOf(out, EndOf(got, range.start)))

\* Chunks a window needs, by index.
Needs(w) ==
    {i \in 1 .. Len(sizes) : Ends(sizes)[i - 1] < w.end /\ Ends(sizes)[i] > w.start}

\* The windows still to fetch cover the rest of the range, in order and without
\* gap or overlap, until the producer stops or is left alone; none needs more than
\* RANGE_WINDOW_CHUNKS chunks, and no chunk is fetched for two of them.
WindowsPartition ==
    /\ producing /\ Heard =>
         /\ windows # <<>>
         /\ windows[1].start = Fetched
         /\ windows[Len(windows)].end = range.end
         /\ \A i \in 1 .. Len(windows) - 1 : windows[i].end = windows[i + 1].start
    /\ \A i \in 1 .. Len(windows) :
         /\ Needs(windows[i]) # {} /\ \A a, b \in Needs(windows[i]) : a - b < WindowChunks
         /\ \A j \in 1 .. i - 1 : Needs(windows[i]) \cap Needs(windows[j]) = {}

TasksStopped == ~producing /\ ~forwarding

=============================================================================
