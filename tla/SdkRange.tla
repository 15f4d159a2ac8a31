------------------------------ MODULE SdkRange ------------------------------
(***************************************************************************)
(* A ranged download from end to end: the daemon's windows and frames      *)
(* (RangeStream), a connection that may break, and the Rust SDK's          *)
(* RangeStream (antd-rust/src/range.rs), which counts what it carries      *)
(* against the length the daemon announced.  Clients without the SDK,      *)
(* which send any header, read the same bodies.                            *)
(***************************************************************************)
EXTENDS RangeStream

Foreign == [offset |-> 0, length |-> 0]   \* no call of the SDK: its length is positive

VARIABLES
    asked,     \* the SDK's call, or Foreign
    taken,     \* items of got that the app has been handed
    received,  \* RangeStream.received
    link,      \* "up", or "lost" when the connection broke
    app        \* "polling", "ended", "failed" or "left"

sdkVars == <<asked, taken, received, link, app>>
allVars == <<vars, sdkVars>>

\* range_header: over REST a length whose last byte would overflow is sent as an
\* open range; gRPC carries both numbers.
RequestOf(call, grpc) ==
    IF grpc THEN [form |-> "offset", first |-> call.offset, last |-> call.length]
    ELSE LET last == call.offset + call.length - 1 IN
         [form |-> "header", first |-> call.offset,
          last |-> IF call.length = Absent \/ last > MaxU64 THEN Absent ELSE last]

SdkInit ==
    /\ Init
    /\ \/ asked = Foreign
       \/ \E offset \in U64, length \in (U64 \ {0}) \cup {Absent}, grpc \in BOOLEAN :
             /\ asked = [offset |-> offset, length |-> length]
             /\ request = RequestOf(asked, grpc)
    /\ taken = 0 /\ received = 0
    /\ link = "up"
    /\ app = IF range.outcome = "range" THEN "polling" ELSE "failed"

-----------------------------------------------------------------------------
Daemon == (Produces \/ Forwards) /\ UNCHANGED sdkVars

BodyPolled ==
    /\ link = "up"
    /\ taken = Len(got)
    /\ ClientReads
    /\ UNCHANGED sdkVars

\* Some of what was on its way arrives; over REST possibly half a window.
DaemonDies ==
    /\ link = "up"
    /\ client = "reading"
    /\ link' = "lost"
    /\ client' = "gone"
    /\ producing' = FALSE /\ forwarding' = FALSE
    /\ windows' = <<>> /\ chan' = <<>> /\ out' = <<>> /\ hand' = Failed
    /\ \/ got' \in {got, got \o Body}
       \/ /\ ~Grpc /\ Body # <<>> /\ Head(Body) # Failed
          /\ \E cut \in Head(Body).start + 1 .. Head(Body).end - 1 :
                got' = Append(got, Window(Head(Body).start, cut))
    /\ UNCHANGED <<sizes, request, range, asked, taken, received, app>>

-----------------------------------------------------------------------------
(* poll_next.                                                              *)

Announced == range.end - range.start

\* An item: bytes are counted, and more than were announced are an error like
\* any other, which ends the stream.
PollItem ==
    /\ app = "polling"
    /\ taken < Len(got)
    /\ taken' = taken + 1
    /\ LET item == got[taken + 1]
           sum  == received + item.end - item.start
       IN IF item = Failed THEN app' = "failed" /\ UNCHANGED received
          ELSE /\ received' = sum
               /\ app' = IF asked # Foreign /\ sum > Announced THEN "failed" ELSE app
    /\ UNCHANGED <<vars, asked, link>>

\* Fault: an end is believed without counting.
PollEndUncounted ==
    /\ app = "polling"
    /\ taken = Len(got)
    /\ client = "ended" \/ link = "lost"
    /\ \/ link = "lost" /\ app' = "failed"
       \/ link = "lost" /\ asked # Foreign /\ app' = "ended"
       \/ client = "ended" /\ app' = "ended"
    /\ UNCHANGED <<vars, asked, taken, received, link>>

\* The end.  A broken connection is an error, or looks like an end of the body (a
\* proxy may close it quietly); an end before the announced length is an error.
PollEnd ==
    /\ app = "polling"
    /\ taken = Len(got)
    /\ client = "ended" \/ link = "lost"
    /\ \/ link = "lost" /\ app' = "failed"
       \/ /\ asked # Foreign
          /\ app' = IF received = Announced THEN "ended" ELSE "failed"
       \/ asked = Foreign /\ client = "ended" /\ app' = "ended"
    /\ UNCHANGED <<vars, asked, taken, received, link>>

AppLeaves ==
    /\ app = "polling"
    /\ app' = "left"
    /\ IF client = "reading" THEN ClientLeaves ELSE UNCHANGED vars
    /\ UNCHANGED <<asked, taken, received, link>>

Poll == PollItem \/ PollEnd

SdkNext == Daemon \/ BodyPolled \/ DaemonDies \/ Poll \/ AppLeaves

SdkSpec == SdkInit /\ [][SdkNext]_allVars

\* The runtime polls the daemon's tasks, a window's fetch returns, and an app that
\* keeps its stream polls it.
FairSdkSpec ==
    /\ SdkSpec
    /\ WF_allVars(Produces /\ UNCHANGED sdkVars)
    /\ WF_allVars(Forwards /\ UNCHANGED sdkVars)
    /\ WF_allVars(BodyPolled)
    /\ WF_allVars(Poll)

-----------------------------------------------------------------------------
(* Properties.                                                             *)

\* The positions the app wants: what it asked the SDK for, in unbounded
\* arithmetic, or what its own request names.
Wanted ==
    IF asked = Foreign THEN Requested
    ELSE {i \in 0 .. Size(sizes) - 1 :
             i >= asked.offset /\ (asked.length # Absent => i < asked.offset + asked.length)}

Bytes(w) == w.start .. w.end - 1
Read == UNION {Bytes(got[i]) : i \in 1 .. taken}

\* What the app reads is contiguous from the first byte it wants, never goes past
\* the last, and is all of it if its stream ends without an error: however the
\* call was translated, a window failed, or the connection was cut.
AppHasRange ==
    range.outcome = "range" =>
        /\ \A i \in 1 .. taken : got[i] # Failed =>
              got[i].start = IF i = 1 THEN range.start ELSE got[i - 1].end
        /\ Read \subseteq Wanted
        /\ app = "ended" => Read = Wanted

\* Both tasks stop and the app's stream ends, whether the app reads on, leaves or
\* loses its connection.
EverythingStops == <>(TasksStopped /\ app # "polling")

=============================================================================
