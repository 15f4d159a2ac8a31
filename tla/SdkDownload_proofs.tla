------------------------- MODULE SdkDownload_proofs -------------------------
(***************************************************************************)
(* Theorems about a download from end to end, for any number of batches    *)
(* and events and any capacity of the channels: whatever the app reads is  *)
(* a prefix of the object, and an object that ends is whole or has failed. *)
(***************************************************************************)
EXTENDS SdkDownload, SequenceTheorems, TLAPS

-----------------------------------------------------------------------------
(* Sequences of frames.                                                    *)

HasError(s) == \E i \in 1 .. Len(s) : s[i].type = "error"

\* The frames of a type are numbered 1 to b, in order.
Upto(s, type, b) ==
    /\ \A i \in 1 .. Len(s) : s[i].type = type => s[i].n \in 1 .. b
    /\ \A i, j \in 1 .. Len(s) : i < j /\ s[i].type = type /\ s[j].type = type => s[i].n < s[j].n
    /\ \A m \in 1 .. b : \E i \in 1 .. Len(s) : s[i] = [type |-> type, n |-> m]

\* A whole object, or one that failed.
Complete(s) ==
    Batches = 0 \/ \E i \in 1 .. Len(s) : s[i] = Data(Batches) \/ s[i].type = "error"

NoDataAfterError(s) ==
    \A i, j \in 1 .. Len(s) : i < j /\ s[i].type = "error" => s[j].type # "data"

Opened(s) == surface = "ndjson" /\ Len(s) > 0 => s[1] = Meta

\* What a client may have read.
Good(s) ==
    InOrder(s, "data") /\ InOrder(s, "progress") /\ NoDataAfterError(s) /\ Opened(s)

LEMMA FrameFacts ==
    /\ \A n \in 1 .. Batches : Data(n) \in Frame
    /\ \A n \in 1 .. Events : Progress(n) \in Frame
    /\ Meta \in Frame /\ Failure \in Frame
    /\ \A n : Data(n).type = "data" /\ Data(n).n = n
    /\ \A n : Progress(n).type = "progress" /\ Progress(n).n = n
    /\ Meta.type = "meta" /\ Failure.type = "error"
BY DEF Data, Progress, Meta, Failure, Frame

LEMMA Numbers ==
    ASSUME NEW f \in Frame
    PROVE  /\ f.n \in Nat
           /\ f.type \in {"data", "progress"} => f = [type |-> f.type, n |-> f.n] /\ f.n >= 1
BY ConstantsAssumption DEF Frame

LEMMA UptoInOrder ==
    ASSUME NEW s \in Seq(Frame), NEW type \in {"data", "progress"}, NEW b \in Nat,
           Upto(s, type, b)
    PROVE  InOrder(s, type)
<1> SUFFICES ASSUME NEW i \in 1 .. Len(s), s[i].type = type
             PROVE  /\ s[i].n = 1 \/ \E j \in 1 .. i - 1 : s[j] = [type |-> type, n |-> s[i].n - 1]
                    /\ \A j \in 1 .. i - 1 : s[j].type = type => s[j].n < s[i].n
  BY DEF InOrder
<1>1. Len(s) \in Nat /\ s[i].n \in 1 .. b
  BY DEF Upto
<1>2. ASSUME s[i].n # 1
      PROVE  \E j \in 1 .. i - 1 : s[j] = [type |-> type, n |-> s[i].n - 1]
  <2>1. s[i].n - 1 \in 1 .. b
    BY <1>1, <1>2
  <2>2. PICK j \in 1 .. Len(s) : s[j] = [type |-> type, n |-> s[i].n - 1]
    BY <2>1 DEF Upto
  <2>3. s[j].type = type /\ s[j].n = s[i].n - 1
    BY <2>2
  <2>4. ~(i < j) /\ i # j
    BY <1>1, <2>3 DEF Upto
  <2> QED BY <1>1, <2>2, <2>4
<1>3. \A j \in 1 .. i - 1 : s[j].type = type => s[j].n < s[i].n
  BY <1>1 DEF Upto
<1> QED BY <1>2, <1>3

\* Appending the next frame of a type, or one of another.
LEMMA AppendNext ==
    ASSUME NEW s \in Seq(Frame), NEW type \in {"data", "progress"}, NEW b \in Nat,
           Upto(s, type, b), NEW f \in Frame, f = [type |-> type, n |-> b + 1],
           NEW t, t = Append(s, f)
    PROVE  Upto(t, type, b + 1)
<1>1. /\ Len(s) \in Nat /\ Len(t) = Len(s) + 1 /\ t[Len(s) + 1] = f
      /\ \A i \in 1 .. Len(s) : t[i] = s[i]
  BY AppendProperties
<1>2. f.type = type /\ f.n = b + 1
  OBVIOUS
<1>3. \A i \in 1 .. Len(t) : i \in 1 .. Len(s) \/ i = Len(s) + 1
  BY <1>1
<1>4. \A i \in 1 .. Len(t) : t[i].type = type => t[i].n \in 1 .. b + 1
  BY <1>1, <1>2, <1>3 DEF Upto
<1>5. ASSUME NEW i \in 1 .. Len(t), NEW j \in 1 .. Len(t), i < j, t[i].type = type,
             t[j].type = type
      PROVE  t[i].n < t[j].n
  <2>1. i \in 1 .. Len(s)
    BY <1>1, <1>5
  <2>2. s[i].n \in 1 .. b /\ t[i] = s[i]
    BY <1>1, <1>5, <2>1 DEF Upto
  <2>3. CASE j \in 1 .. Len(s)
    BY <1>1, <1>5, <2>1, <2>3 DEF Upto
  <2>4. CASE j = Len(s) + 1
    BY <1>1, <1>2, <2>2, <2>4
  <2> QED BY <1>3, <2>3, <2>4
<1>6. ASSUME NEW m \in 1 .. b + 1
      PROVE  \E i \in 1 .. Len(t) : t[i] = [type |-> type, n |-> m]
  <2>1. CASE m = b + 1
    BY <1>1, <2>1
  <2>2. CASE m \in 1 .. b
    <3>1. PICK i \in 1 .. Len(s) : s[i] = [type |-> type, n |-> m]
      BY <2>2 DEF Upto
    <3> QED BY <1>1, <3>1
  <2> QED BY <2>1, <2>2
<1> QED BY <1>4, <1>5, <1>6 DEF Upto

LEMMA AppendOther ==
    ASSUME NEW s \in Seq(Frame), NEW type, NEW b \in Nat, Upto(s, type, b),
           NEW f \in Frame, f.type # type, NEW t, t = Append(s, f)
    PROVE  Upto(t, type, b)
<1>1. /\ Len(s) \in Nat /\ Len(t) = Len(s) + 1 /\ t[Len(s) + 1] = f
      /\ \A i \in 1 .. Len(s) : t[i] = s[i]
  BY AppendProperties
<1>2. \A i \in 1 .. Len(t) : t[i].type = type => i \in 1 .. Len(s)
  BY <1>1
<1>3. \A m \in 1 .. b : \E i \in 1 .. Len(t) : t[i] = [type |-> type, n |-> m]
  <2> SUFFICES ASSUME NEW m \in 1 .. b
               PROVE  \E i \in 1 .. Len(t) : t[i] = [type |-> type, n |-> m]
    OBVIOUS
  <2>1. PICK i \in 1 .. Len(s) : s[i] = [type |-> type, n |-> m]
    BY DEF Upto
  <2> QED BY <1>1, <2>1
<1> QED BY <1>1, <1>2, <1>3 DEF Upto

LEMMA AppendErrors ==
    ASSUME NEW s \in Seq(Frame), NEW f \in Frame, NEW t, t = Append(s, f)
    PROVE  /\ HasError(t) <=> HasError(s) \/ f.type = "error"
           /\ NoDataAfterError(s) /\ (f.type # "data" \/ ~HasError(s)) => NoDataAfterError(t)
           /\ Opened(s) /\ (Len(s) > 0 \/ surface # "ndjson") => Opened(t)
           /\ t \in Seq(Frame)
<1>1. /\ Len(s) \in Nat /\ Len(t) = Len(s) + 1 /\ t[Len(s) + 1] = f
      /\ \A i \in 1 .. Len(s) : t[i] = s[i]
      /\ t \in Seq(Frame)
  BY AppendProperties
<1>2. \A i \in 1 .. Len(t) : i \in 1 .. Len(s) \/ i = Len(s) + 1
  BY <1>1
<1>3. HasError(t) <=> HasError(s) \/ f.type = "error"
  BY <1>1, <1>2 DEF HasError
<1>4. NoDataAfterError(s) /\ (f.type # "data" \/ ~HasError(s)) => NoDataAfterError(t)
  BY <1>1, <1>2 DEF HasError, NoDataAfterError
<1>5. Opened(s) /\ (Len(s) > 0 \/ surface # "ndjson") => Opened(t)
  BY <1>1 DEF Opened
<1> QED BY <1>1, <1>3, <1>4, <1>5

\* A prefix of what may be read may be read.
PrefixOf(t, s) == Len(t) <= Len(s) /\ \A i \in 1 .. Len(t) : t[i] = s[i]

LEMMA PrefixIsGood ==
    ASSUME NEW s \in Seq(Frame), NEW t \in Seq(Frame), PrefixOf(t, s), Good(s)
    PROVE  Good(t)
<1>1. Len(s) \in Nat /\ Len(t) \in Nat /\ 1 .. Len(t) \subseteq 1 .. Len(s)
  BY DEF PrefixOf
<1>2. ASSUME NEW type, InOrder(s, type) PROVE InOrder(t, type)
  <2> SUFFICES ASSUME NEW i \in 1 .. Len(t), t[i].type = type
               PROVE  /\ t[i].n = 1
                            \/ \E j \in 1 .. i - 1 : t[j] = [type |-> type, n |-> t[i].n - 1]
                      /\ \A j \in 1 .. i - 1 : t[j].type = type => t[j].n < t[i].n
    BY DEF InOrder
  <2>1. i \in 1 .. Len(s) /\ s[i] = t[i] /\ \A j \in 1 .. i - 1 : t[j] = s[j]
    BY <1>1 DEF PrefixOf
  <2> QED BY <1>2, <2>1 DEF InOrder
<1>3. NoDataAfterError(t)
  BY <1>1 DEF Good, NoDataAfterError, PrefixOf
<1>4. Opened(t)
  BY <1>1 DEF Good, Opened, PrefixOf
<1> QED BY <1>2, <1>3, <1>4 DEF Good

LEMMA SubSeqIsPrefix ==
    ASSUME NEW s \in Seq(Frame), NEW n \in 0 .. Len(s), NEW t, t = SubSeq(s, 1, n)
    PROVE  t \in Seq(Frame) /\ Len(t) = n /\ PrefixOf(t, s)
<1>1. Len(s) \in Nat /\ n \in Nat /\ \A i \in 1 .. n : s[i] \in Frame
  BY ElementOfSeq
<1>2. /\ t \in Seq(Frame) /\ Len(t) = IF 1 <= n THEN n - 1 + 1 ELSE 0
      /\ \A i \in 1 .. n - 1 + 1 : t[i] = s[1 + i - 1]
  BY <1>1, SubSeqProperties
<1>3. Len(t) = n /\ \A i \in 1 .. n : t[i] = s[i]
  BY <1>1, <1>2
<1> QED BY <1>2, <1>3 DEF PrefixOf
-----------------------------------------------------------------------------
(* Types.                                                                  *)

TypeOK ==
    /\ surface \in Surfaces
    /\ producer \in [pc: {"download", "failed", "done"}, sent: 0 .. Batches,
                     events: 0 .. Events]
    /\ bytes \in Seq(Frame) /\ progress \in Seq(Frame) /\ lines \in Seq(Frame)
    /\ dataFwd \in Forwarder /\ progFwd \in Forwarder
    /\ dataFwd.pc = "send" => dataFwd.item \in Frame
    /\ progFwd.pc = "send" => progFwd.item \in Frame
    /\ client \in {"reading", "gone", "ended"}
    /\ got \in Seq(Frame)
    /\ taken \in 0 .. Len(got)
    /\ link \in {"up", "lost", "told"}
    /\ buf \in Seq(Frame) /\ tail \in Seq(Frame)
    /\ app \in {"polling", "ended", "left"}

\* The frames on their way to the client, behind those it has read.
Stream == got \o lines

LEMMA StreamType == TypeOK => Stream \in Seq(Frame) /\ Len(Stream) = Len(got) + Len(lines)
BY ConcatProperties DEF TypeOK, Stream

LEMMA Forwarding ==
    /\ Receiving \in Forwarder /\ Stopped \in Forwarder
    /\ Receiving.pc = "recv" /\ Stopped.pc = "done"
    /\ \A f \in Frame : Sending(f) \in Forwarder
    /\ \A f : Sending(f).pc = "send" /\ Sending(f).item = f
BY DEF Forwarder, Receiving, Stopped, Sending

\* What the steps leave alone.
LEMMA Leaves ==
    ASSUME [SdkNext]_allVars
    PROVE  /\ surface' = surface
           /\ \/ Producing /\ UNCHANGED sdkVars
              \/ DataForwards /\ UNCHANGED sdkVars
              \/ ProgressForwards /\ UNCHANGED sdkVars
              \/ BodyPolled \/ DaemonDies \/ PollFrame \/ PollBreak \/ PollEnd \/ AppLeaves
              \/ UNCHANGED allVars
BY DEF SdkNext, Daemon, Poll, allVars, vars, Producing, DataForwards, ProgressForwards,
   SendBatch, SendEvent, DownloadReturns, SendError, DataReceives, DataSends,
   ProgressReceives, ProgressSends, BodyPolled, ClientReads, ClientLeaves, DaemonDies,
   PollFrame, PollBreak, PollEnd, AppLeaves

\* What the client's end has when the daemon dies: some of the stream, and over
\* NDJSON possibly a line that was cut.
LEMMA Dies ==
    ASSUME TypeOK, DaemonDies
    PROVE  \E n \in 0 .. Len(Stream) :
               /\ taken <= n /\ got' = SubSeq(Stream, 1, n)
               /\ \/ buf' = <<>>
                  \/ buf' = <<Failure>>
                  \/ /\ surface = "ndjson" /\ n + 1 \in 1 .. Len(Stream)
                     /\ buf' = <<Stream[n + 1]>> /\ Stream[n + 1] \in Frame
<1>1. /\ Len(got) \in Nat /\ Len(lines) \in Nat /\ taken \in Nat
      /\ Stream \in Seq(Frame) /\ Len(Stream) = Len(got) + Len(lines)
  BY StreamType DEF TypeOK
<1>2. PICK n \in taken .. Len(got) + Len(lines) :
          /\ got' = SubSeq(Stream, 1, n)
          /\ \/ buf' = <<>>
             \/ /\ surface = "ndjson" /\ n < Len(got) + Len(lines)
                /\ buf' \in {<<Failure>>, <<Stream[n + 1]>>}
  BY Zenon DEF DaemonDies, Stream
<1>3. n \in 0 .. Len(Stream) /\ taken <= n
  BY <1>1
<1>4. n < Len(Stream) => n + 1 \in 1 .. Len(Stream) /\ Stream[n + 1] \in Frame
  BY <1>1, <1>3, ElementOfSeq
<1> QED BY <1>1, <1>2, <1>3, <1>4

LEMMA NextType == TypeOK /\ [SdkNext]_allVars => TypeOK'
<1> SUFFICES ASSUME TypeOK, [SdkNext]_allVars PROVE TypeOK'
  OBVIOUS
<1>0. /\ Batches \in Nat /\ Events \in Nat
      /\ producer.sent \in 0 .. Batches /\ producer.events \in 0 .. Events
  BY ConstantsAssumption DEF TypeOK
<1>1. CASE Producing /\ UNCHANGED sdkVars
  <2>1. CASE SendBatch
    <3>1. producer.sent + 1 \in 1 .. Batches
      BY <1>0, <2>1 DEF SendBatch
    <3>2. bytes' \in Seq(Frame)
      BY <2>1, <3>1, FrameFacts, AppendProperties DEF SendBatch, TypeOK
    <3>3. producer' \in [pc: {"download", "failed", "done"}, sent: 0 .. Batches,
                         events: 0 .. Events]
      <4>1. /\ producer.sent + 1 \in 0 .. Batches
            /\ producer' = [producer EXCEPT !.sent = producer.sent + 1]
        BY <1>0, <2>1, <3>1 DEF SendBatch
      <4> QED BY <4>1 DEF TypeOK
    <3> QED BY <1>1, <2>1, <3>2, <3>3 DEF SendBatch, TypeOK, sdkVars
  <2>2. CASE SendEvent
    <3>1. producer.events + 1 \in 1 .. Events
      BY <1>0, <2>2 DEF SendEvent
    <3>2. progress' \in Seq(Frame)
      BY <2>2, <3>1, FrameFacts, AppendProperties DEF SendEvent, TypeOK
    <3>3. producer' \in [pc: {"download", "failed", "done"}, sent: 0 .. Batches,
                         events: 0 .. Events]
      <4>1. /\ producer.events + 1 \in 0 .. Events
            /\ producer' = [producer EXCEPT !.events = producer.events + 1]
        BY <1>0, <2>2, <3>1 DEF SendEvent
      <4> QED BY <4>1 DEF TypeOK
    <3> QED BY <1>1, <2>2, <3>2, <3>3 DEF SendEvent, TypeOK, sdkVars
  <2>3. CASE DownloadReturns
    BY <1>1, <2>3 DEF DownloadReturns, TypeOK, sdkVars
  <2>4. CASE SendError
    <3>0. bytes \in Seq(Frame) /\ Append(bytes, Failure) \in Seq(Frame)
      BY FrameFacts, AppendProperties DEF TypeOK
    <3>1. bytes' \in Seq(Frame)
      BY <2>4, <3>0 DEF SendError
    <3> QED BY <1>1, <2>4, <3>1 DEF SendError, TypeOK, sdkVars
  <2> QED BY <1>1, <2>1, <2>2, <2>3, <2>4 DEF Producing
<1>2. CASE DataForwards /\ UNCHANGED sdkVars
  <2>1. CASE DataReceives
    <3>1. bytes # <<>> => Head(bytes) \in Frame /\ Tail(bytes) \in Seq(Frame)
      BY HeadTailProperties DEF TypeOK
    <3>2. /\ bytes' \in Seq(Frame) /\ dataFwd' \in Forwarder
          /\ dataFwd'.pc = "send" => dataFwd'.item \in Frame
      BY <2>1, <3>1, Forwarding DEF DataReceives, TypeOK
    <3> QED BY <1>2, <2>1, <3>2 DEF DataReceives, TypeOK, sdkVars
  <2>2. CASE DataSends
    <3>0. Append(lines, dataFwd.item) \in Seq(Frame)
      BY <2>2, AppendProperties DEF DataSends, TypeOK
    <3>1. lines' \in Seq(Frame) /\ bytes' \in Seq(Frame)
      BY <2>2, <3>0, EmptySeq DEF DataSends, TypeOK
    <3>2. dataFwd' \in Forwarder /\ dataFwd'.pc # "send"
      BY <2>2, Forwarding DEF DataSends
    <3> QED BY <1>2, <2>2, <3>1, <3>2 DEF DataSends, TypeOK, sdkVars
  <2> QED BY <1>2, <2>1, <2>2 DEF DataForwards
<1>3. CASE ProgressForwards /\ UNCHANGED sdkVars
  <2>1. CASE ProgressReceives
    <3>1. progress # <<>> => Head(progress) \in Frame /\ Tail(progress) \in Seq(Frame)
      BY HeadTailProperties DEF TypeOK
    <3>2. /\ progress' \in Seq(Frame) /\ progFwd' \in Forwarder
          /\ progFwd'.pc = "send" => progFwd'.item \in Frame
      BY <2>1, <3>1, Forwarding DEF ProgressReceives, TypeOK
    <3> QED BY <1>3, <2>1, <3>2 DEF ProgressReceives, TypeOK, sdkVars
  <2>2. CASE ProgressSends
    <3>0. Append(lines, progFwd.item) \in Seq(Frame)
      BY <2>2, AppendProperties DEF ProgressSends, TypeOK
    <3>1. lines' \in Seq(Frame) /\ progress' \in Seq(Frame)
      BY <2>2, <3>0, EmptySeq DEF ProgressSends, TypeOK
    <3>2. progFwd' \in Forwarder /\ progFwd'.pc # "send"
      BY <2>2, Forwarding DEF ProgressSends
    <3> QED BY <1>3, <2>2, <3>1, <3>2 DEF ProgressSends, TypeOK, sdkVars
  <2> QED BY <1>3, <2>1, <2>2 DEF ProgressForwards
<1>4. CASE BodyPolled
  <2>1. lines # <<>> => Head(lines) \in Frame /\ Tail(lines) \in Seq(Frame)
    BY HeadTailProperties DEF TypeOK
  <2>0. Len(got) \in Nat /\ got \in Seq(Frame)
    BY DEF TypeOK
  <2>2. lines' \in Seq(Frame) /\ got' \in Seq(Frame) /\ Len(got') >= Len(got)
    <3>1. CASE lines # <<>> /\ got' = Append(got, Head(lines)) /\ lines' \in {<<>>, Tail(lines)}
      <4>1. got' \in Seq(Frame) /\ Len(got') = Len(got) + 1
        BY <2>0, <2>1, <3>1, AppendProperties
      <4>2. <<>> \in Seq(Frame) /\ Tail(lines) \in Seq(Frame)
        BY <2>1, <3>1, EmptySeq
      <4>3. lines' \in Seq(Frame)
        BY <3>1, <4>2
      <4>4. Len(got') >= Len(got)
        BY <2>0, <4>1
      <4> QED BY <4>1, <4>3, <4>4
    <3>2. CASE UNCHANGED <<lines, got>>
      BY <2>0, <3>2 DEF TypeOK
    <3> QED BY <1>4, <3>1, <3>2 DEF BodyPolled, ClientReads
  <2>3. taken' \in 0 .. Len(got')
    BY <1>4, <2>0, <2>2 DEF BodyPolled, sdkVars, TypeOK
  <2> QED BY <1>4, <2>2, <2>3 DEF BodyPolled, ClientReads, TypeOK, sdkVars
<1>5. CASE DaemonDies
  <2>1. PICK n \in 0 .. Len(Stream) :
            /\ taken <= n /\ got' = SubSeq(Stream, 1, n)
            /\ \/ buf' = <<>>
               \/ buf' = <<Failure>>
               \/ buf' = <<Stream[n + 1]>> /\ Stream[n + 1] \in Frame
    BY <1>5, Dies
  <2>2. buf' \in Seq(Frame)
    <3>1. <<>> \in Seq(Frame) /\ \A f \in Frame : <<f>> \in Seq(Frame)
      OBVIOUS
    <3> QED BY <2>1, <3>1, FrameFacts, Zenon
  <2>3. got' \in Seq(Frame) /\ taken' \in 0 .. Len(got')
    <3>1. Stream \in Seq(Frame) /\ Len(Stream) \in Nat /\ taken \in Nat /\ taken' = taken
      BY <1>5, StreamType DEF DaemonDies, TypeOK
    <3>2. PICK t : t = SubSeq(Stream, 1, n)
      OBVIOUS
    <3>3. t \in Seq(Frame) /\ Len(t) = n
      BY <3>1, <3>2, SubSeqIsPrefix
    <3> QED BY <2>1, <3>1, <3>2, <3>3
  <2>4. producer' \in [pc: {"download", "failed", "done"}, sent: 0 .. Batches,
                       events: 0 .. Events]
    BY <1>5 DEF DaemonDies, TypeOK
  <2>5. bytes' \in Seq(Frame) /\ progress' \in Seq(Frame) /\ lines' \in Seq(Frame)
    BY <1>5, EmptySeq DEF DaemonDies
  <2>6. /\ dataFwd' \in Forwarder /\ progFwd' \in Forwarder
        /\ dataFwd'.pc # "send" /\ progFwd'.pc # "send"
    BY <1>5, Forwarding DEF DaemonDies
  <2> QED BY <1>5, <2>2, <2>3, <2>4, <2>5, <2>6 DEF DaemonDies, TypeOK
<1>6. CASE PollFrame \/ PollBreak \/ PollEnd
  <2>1. CASE PollFrame
    <3>1. Len(got) \in Nat
      BY DEF TypeOK
    <3>2. taken' \in 0 .. Len(got) /\ UNCHANGED <<vars, link, buf, tail, app>>
      BY <2>1, <3>1 DEF PollFrame, TypeOK
    <3> QED BY <3>2 DEF TypeOK, vars
  <2>2. CASE PollBreak
    <3>1. Append(tail, Failure) \in Seq(Frame)
      BY FrameFacts, AppendProperties DEF TypeOK
    <3> QED BY <2>2, <3>1 DEF PollBreak, TypeOK, vars
  <2>3. CASE PollEnd
    <3>1. tail \o buf \in Seq(Frame) /\ <<>> \in Seq(Frame)
      BY ConcatProperties DEF TypeOK
    <3> QED BY <2>3, <3>1 DEF PollEnd, TypeOK, vars
  <2> QED BY <1>6, <2>1, <2>2, <2>3
<1>7. CASE AppLeaves
  BY <1>7, EmptySeq DEF AppLeaves, ClientLeaves, TypeOK, vars
<1>8. CASE UNCHANGED allVars
  BY <1>8 DEF allVars, vars, sdkVars, TypeOK
<1> QED BY <1>1, <1>2, <1>3, <1>4, <1>5, <1>6, <1>7, <1>8, Leaves

LEMMA InitType == SdkInit => TypeOK
<1> SUFFICES ASSUME SdkInit PROVE TypeOK
  OBVIOUS
<1>1. <<>> \in Seq(Frame) /\ Len(<<>>) = 0
  OBVIOUS
<1>2. lines \in Seq(Frame)
  BY FrameFacts DEF SdkInit, Init
<1>3. producer \in [pc: {"download", "failed", "done"}, sent: 0 .. Batches,
                    events: 0 .. Events]
  BY ConstantsAssumption DEF SdkInit, Init
<1>4. taken \in 0 .. Len(got)
  BY <1>1 DEF SdkInit, Init
<1> QED BY <1>1, <1>2, <1>3, <1>4, Forwarding DEF SdkInit, Init, TypeOK
-----------------------------------------------------------------------------
(* How the stream of frames changes.                                       *)

\* A frame that a forwarder sends goes to the stream's end.
LEMMA StreamGrows ==
    ASSUME TypeOK, NEW f \in Frame, lines' = Append(lines, f), got' = got
    PROVE  Stream' = Append(Stream, f)
<1>1. /\ got \in Seq(Frame) /\ lines \in Seq(Frame) /\ <<f>> \in Seq(Frame)
      /\ got \o lines \in Seq(Frame)
  BY ConcatProperties DEF TypeOK
<1>2. Append(lines, f) = lines \o <<f>> /\ Append(got \o lines, f) = (got \o lines) \o <<f>>
  BY <1>1, AppendIsConcat
<1>3. (got \o lines) \o <<f>> = got \o (lines \o <<f>>)
  BY <1>1, ConcatAssociative
<1> QED BY <1>2, <1>3 DEF Stream

\* A frame that the client reads only moves on.
LEMMA StreamMoves ==
    ASSUME TypeOK, lines # <<>>, got' = Append(got, Head(lines)), lines' = Tail(lines)
    PROVE  Stream' = Stream
<1> DEFINE h == Head(lines)
           t == Tail(lines)
<1>1. /\ got \in Seq(Frame) /\ lines \in Seq(Frame) /\ h \in Frame /\ t \in Seq(Frame)
      /\ <<h>> \in Seq(Frame)
  BY HeadTailProperties DEF TypeOK
<1>2. lines = <<h>> \o t
  <2>1. /\ Len(lines) \in Nat /\ Len(lines) >= 1 /\ Len(t) = Len(lines) - 1
        /\ \A i \in 1 .. Len(t) : t[i] = lines[i + 1]
        /\ h = lines[1]
    BY <1>1, HeadTailProperties
  <2>2. /\ <<h>> \o t \in Seq(Frame) /\ Len(<<h>> \o t) = 1 + Len(t)
        /\ \A i \in 1 .. 1 + Len(t) :
              (<<h>> \o t)[i] = IF i <= 1 THEN <<h>>[i] ELSE t[i - 1]
    <3>1. Len(<<h>>) = 1
      OBVIOUS
    <3> HIDE DEF h, t
    <3> QED BY <1>1, <3>1, ConcatProperties
  <2> HIDE DEF h, t
  <2>3. ASSUME NEW i \in 1 .. Len(lines) PROVE lines[i] = (<<h>> \o t)[i]
    <3>1. CASE i = 1
      BY <2>1, <2>2, <3>1
    <3>2. CASE i > 1
      <4>1. i - 1 \in 1 .. Len(t) /\ i - 1 + 1 = i /\ i \in 1 .. 1 + Len(t) /\ ~(i <= 1)
        BY <2>1, <3>2
      <4> QED BY <2>1, <2>2, <4>1
    <3>3. i = 1 \/ i > 1
      BY <2>1
    <3> QED BY <3>1, <3>2, <3>3
  <2>4. Len(lines) = Len(<<h>> \o t)
    BY <2>1, <2>2
  <2> QED BY <1>1, <2>2, <2>3, <2>4, SeqEqual
<1>3. got' = got \o <<h>>
  BY <1>1, AppendIsConcat
<1>4. got \o (<<h>> \o t) = (got \o <<h>>) \o t
  BY <1>1, ConcatAssociative
<1> QED BY <1>2, <1>3, <1>4 DEF Stream

\* While the client reads on, the stream keeps its frames and may get one more.
Grows(f) == f \in Frame /\ Stream' = Append(Stream, f)

ReadsOn == client = "reading" /\ client' = "reading"

LEMMA StreamSteps ==
    ASSUME TypeOK, [SdkNext]_allVars
    PROVE  \/ Stream' = Stream
           \/ ReadsOn /\ DataSends /\ UNCHANGED sdkVars /\ Grows(dataFwd.item)
           \/ ReadsOn /\ ProgressSends /\ UNCHANGED sdkVars /\ Grows(progFwd.item)
           \/ ~ReadsOn /\ PrefixOf(Stream', Stream) /\ Stream' \in Seq(Frame)
<1>0. /\ got \in Seq(Frame) /\ lines \in Seq(Frame) /\ Stream \in Seq(Frame)
      /\ Len(got) \in Nat /\ Len(lines) \in Nat
      /\ Len(Stream) = Len(got) + Len(lines)
      /\ \A i \in 1 .. Len(got) : Stream[i] = got[i]
  BY StreamType, ConcatProperties DEF TypeOK, Stream
<1>1. ASSUME UNCHANGED <<lines, got>> PROVE Stream' = Stream
  BY <1>1 DEF Stream
<1>2. CASE DataForwards /\ UNCHANGED sdkVars
  <2>1. CASE DataSends /\ client = "reading"
    <3>1. dataFwd.item \in Frame /\ lines' = Append(lines, dataFwd.item) /\ got' = got
          /\ client' = "reading"
      BY <2>1 DEF DataSends, TypeOK
    <3> QED BY <1>2, <2>1, <3>1, StreamGrows DEF Grows, ReadsOn
  <2>2. CASE DataReceives \/ (DataSends /\ client # "reading")
    BY <1>1, <2>2 DEF DataReceives, DataSends
  <2> QED BY <1>2, <2>1, <2>2 DEF DataForwards
<1>3. CASE ProgressForwards /\ UNCHANGED sdkVars
  <2>1. CASE ProgressSends /\ client = "reading"
    <3>1. progFwd.item \in Frame /\ lines' = Append(lines, progFwd.item) /\ got' = got
          /\ client' = "reading"
      BY <2>1 DEF ProgressSends, TypeOK
    <3> QED BY <1>3, <2>1, <3>1, StreamGrows DEF Grows, ReadsOn
  <2>2. CASE ProgressReceives \/ (ProgressSends /\ client # "reading")
    BY <1>1, <2>2 DEF ProgressReceives, ProgressSends
  <2> QED BY <1>3, <2>1, <2>2 DEF ProgressForwards
<1>4. CASE Producing \/ PollFrame \/ PollBreak \/ PollEnd \/ UNCHANGED allVars
  BY <1>1, <1>4 DEF Producing, SendBatch, SendEvent, DownloadReturns, SendError, PollFrame,
     PollBreak, PollEnd, allVars, vars
\* The client has the first frames, the rest is lost.
<1>5. ASSUME NEW n \in 0 .. Len(Stream), got' = SubSeq(Stream, 1, n), lines' = <<>>
      PROVE  PrefixOf(Stream', Stream) /\ Stream' \in Seq(Frame)
  <2>1. got' \in Seq(Frame) /\ PrefixOf(got', Stream)
    BY <1>0, <1>5, SubSeqIsPrefix
  <2>2. Stream' = got'
    BY <1>5, <2>1, ConcatEmptySeq DEF Stream
  <2> QED BY <2>1, <2>2
<1>6. CASE BodyPolled
  <2>1. CASE lines = <<>>
    BY <1>1, <1>6, <2>1 DEF BodyPolled, ClientReads
  <2>2. CASE lines # <<>> /\ lines' = Tail(lines)
    <3>1. got' = Append(got, Head(lines))
      BY <1>6, <2>2 DEF BodyPolled, ClientReads
    <3> QED BY <2>2, <3>1, StreamMoves
  <2>3. CASE lines # <<>> /\ lines' # Tail(lines)
    <3>1. got' = Append(got, Head(lines)) /\ client' = "ended" /\ lines' = <<>>
      BY <1>6, <2>3 DEF BodyPolled, ClientReads
    <3>2. /\ Head(lines) = lines[1] /\ Len(lines) >= 1 /\ Head(lines) \in Frame
      BY <1>0, <2>3, HeadTailProperties
    <3>3. /\ got' \in Seq(Frame) /\ Len(got') = Len(got) + 1
          /\ \A i \in 1 .. Len(got) : got'[i] = got[i]
          /\ got'[Len(got) + 1] = Head(lines)
      BY <1>0, <3>1, <3>2, AppendProperties
    <3>4. Stream[Len(got) + 1] = lines[1]
      <4>1. Len(got) + 1 \in 1 .. Len(got) + Len(lines) /\ ~(Len(got) + 1 <= Len(got))
            /\ Len(got) + 1 - Len(got) = 1
        BY <1>0, <3>2
      <4> QED BY <1>0, <4>1, ConcatProperties DEF Stream
    <3>5. Stream' = got'
      BY <3>1, <3>3, ConcatEmptySeq DEF Stream
    <3>6. PrefixOf(got', Stream)
      <4>1. Len(got') <= Len(Stream)
        BY <1>0, <3>2, <3>3
      <4>2. ASSUME NEW i \in 1 .. Len(got') PROVE got'[i] = Stream[i]
        <5>1. i \in 1 .. Len(got) \/ i = Len(got) + 1
          BY <1>0, <3>3
        <5> QED BY <1>0, <3>2, <3>3, <3>4, <5>1
      <4> QED BY <4>1, <4>2 DEF PrefixOf
    <3> QED BY <3>1, <3>3, <3>5, <3>6 DEF ReadsOn
  <2> QED BY <2>1, <2>2, <2>3
<1>7. CASE DaemonDies
  <2>1. PICK n \in taken .. Len(got) + Len(lines) : got' = SubSeq(Stream, 1, n)
    BY <1>7 DEF DaemonDies, Stream
  <2>2. n \in 0 .. Len(Stream)
    BY <1>0, <2>1 DEF TypeOK
  <2>3. lines' = <<>> /\ client' = "gone"
    BY <1>7 DEF DaemonDies
  <2> QED BY <1>5, <2>1, <2>2, <2>3 DEF ReadsOn
<1>8. CASE AppLeaves
  <2>1. CASE client = "reading"
    <3>1. lines' = <<>> /\ got' = got /\ client' = "gone"
      BY <1>8, <2>1 DEF AppLeaves, ClientLeaves
    <3>2. Stream' = got
      BY <1>0, <3>1, ConcatEmptySeq DEF Stream
    <3>3. PrefixOf(got, Stream)
      BY <1>0 DEF PrefixOf
    <3> QED BY <1>0, <3>1, <3>2, <3>3 DEF ReadsOn
  <2>2. CASE client # "reading"
    BY <1>1, <1>8, <2>2 DEF AppLeaves, vars
  <2> QED BY <2>1, <2>2
<1> QED BY <1>2, <1>3, <1>4, <1>6, <1>7, <1>8, Leaves
-----------------------------------------------------------------------------
(* What is still to come.  All of it is about a client that reads: the     *)
(* stream of one that does not gets no more frames.                        *)

\* The batch channel has every batch that was sent after c, then the error if the
\* download has failed; without one it was whole.
Queue(c) ==
    /\ c \in 0 .. producer.sent
    /\ \A i \in 1 .. producer.sent - c : bytes[i] = Data(c + i)
    /\ \/ /\ Len(bytes) = producer.sent - c
          /\ producer.pc = "done" => producer.sent = Batches
       \/ /\ Len(bytes) = producer.sent - c + 1
          /\ bytes[Len(bytes)] = Failure
          /\ producer.pc = "done"

Drained == bytes = <<>> /\ producer.pc = "done"

\* Where the data forwarder stands when the stream has b batches.
Forwards(b) ==
    \/ dataFwd = Receiving /\ Queue(b) /\ ~HasError(Stream)
    \/ dataFwd = Sending(Data(b + 1)) /\ Queue(b + 1) /\ ~HasError(Stream)
    \/ dataFwd = Sending(Failure) /\ Drained
    \/ dataFwd = Receiving /\ Drained /\ HasError(Stream)
    \/ dataFwd = Stopped /\ Drained /\ (HasError(Stream) \/ b = Batches)

DataOK == client = "reading" => \E b \in Nat : Upto(Stream, "data", b) /\ Forwards(b)

\* A step that leaves the stream, the forwarder and the channel alone.
LEMMA ForwardsOn ==
    ASSUME TypeOK, NEW b \in Nat, Upto(Stream, "data", b), Forwards(b),
           Stream' = Stream \/ (Grows(progFwd.item) /\ progFwd.item.type = "progress"),
           UNCHANGED <<dataFwd, bytes>>, producer'.pc = producer.pc,
           producer'.sent = producer.sent
    PROVE  Upto(Stream', "data", b) /\ Forwards(b)'
<1>1. HasError(Stream') <=> HasError(Stream)
  BY StreamType, AppendErrors DEF Grows
<1>2. Upto(Stream', "data", b)
  BY StreamType, AppendOther DEF Grows
<1>3. \A c : Queue(c) => Queue(c)'
  BY DEF Queue
<1>4. Drained => Drained'
  BY DEF Drained
<1> QED BY <1>1, <1>2, <1>3, <1>4 DEF Forwards

\* The producer's steps.
LEMMA ForwardsMore ==
    ASSUME TypeOK, NEW b \in Nat, Forwards(b), Producing, UNCHANGED sdkVars
    PROVE  Forwards(b)'
<1>0. /\ Stream' = Stream /\ dataFwd' = dataFwd
      /\ Len(bytes) \in Nat /\ bytes \in Seq(Frame) /\ producer.sent \in 0 .. Batches
      /\ Batches \in Nat
  <2>1. got' = got /\ lines' = lines /\ dataFwd' = dataFwd
    BY DEF Producing, SendBatch, SendEvent, DownloadReturns, SendError
  <2> QED BY <2>1, ConstantsAssumption DEF TypeOK, Stream
<1>1. ASSUME NEW c \in Nat, Queue(c), SendBatch PROVE Queue(c)'
  <2>1. /\ producer'.sent = producer.sent + 1 /\ producer'.pc = "download"
        /\ producer.sent < Batches /\ producer.pc = "download"
        /\ bytes' = Append(bytes, Data(producer.sent + 1))
    BY <1>1 DEF SendBatch, TypeOK
  <2>2. Data(producer.sent + 1) \in Frame
    BY <1>0, <2>1, FrameFacts
  <2>3. /\ Len(bytes') = Len(bytes) + 1 /\ bytes'[Len(bytes) + 1] = Data(producer.sent + 1)
        /\ \A i \in 1 .. Len(bytes) : bytes'[i] = bytes[i]
    BY <1>0, <2>1, <2>2, AppendProperties
  <2>4. Len(bytes) = producer.sent - c /\ c \in 0 .. producer.sent
    BY <1>1, <2>1 DEF Queue
  <2>5. ASSUME NEW i \in 1 .. producer.sent + 1 - c PROVE bytes'[i] = Data(c + i)
    <3>1. CASE i \in 1 .. Len(bytes)
      BY <1>1, <2>3, <2>4, <3>1 DEF Queue
    <3>2. CASE i = Len(bytes) + 1
      <4>1. c + i = producer.sent + 1
        BY <1>0, <2>4, <3>2
      <4> QED BY <2>3, <3>2, <4>1
    <3>3. i \in 1 .. Len(bytes) \/ i = Len(bytes) + 1
      BY <1>0, <2>4
    <3> QED BY <3>1, <3>2, <3>3
  <2>6. Len(bytes') = producer.sent + 1 - c /\ c \in 0 .. producer.sent + 1
    BY <1>0, <2>3, <2>4
  <2>7. /\ c \in 0 .. producer'.sent /\ Len(bytes') = producer'.sent - c
        /\ \A i \in 1 .. producer'.sent - c : bytes'[i] = Data(c + i)
        /\ ~(producer'.pc = "done")
    <3>1. producer'.sent = producer.sent + 1 /\ producer'.pc = "download"
      BY <2>1
    <3>2. c \in 0 .. producer'.sent /\ Len(bytes') = producer'.sent - c
      BY <1>0, <2>6, <3>1
    <3>3. \A i \in 1 .. producer'.sent - c : bytes'[i] = Data(c + i)
      BY <1>0, <2>5, <3>1
    <3> QED BY <3>1, <3>2, <3>3
  <2> QED BY <2>7 DEF Queue
<1>2. ASSUME NEW c \in Nat, Queue(c), SendError, dataFwd.pc # "done" PROVE Queue(c)'
  <2>1. /\ producer'.sent = producer.sent /\ producer'.pc = "done" /\ producer.pc = "failed"
        /\ bytes' = Append(bytes, Failure)
    BY <1>2 DEF SendError, TypeOK
  <2>2. /\ Len(bytes') = Len(bytes) + 1 /\ bytes'[Len(bytes) + 1] = Failure
        /\ \A i \in 1 .. Len(bytes) : bytes'[i] = bytes[i]
    BY <1>0, <2>1, FrameFacts, AppendProperties
  <2>3. Len(bytes) = producer.sent - c
    BY <1>2, <2>1 DEF Queue
  <2> QED BY <1>2, <2>1, <2>2, <2>3 DEF Queue
<1>3. ASSUME NEW c \in Nat, Queue(c), DownloadReturns \/ SendEvent PROVE Queue(c)'
  <2>1. /\ producer'.sent = producer.sent /\ bytes' = bytes /\ producer.pc = "download"
        /\ producer'.pc = "done" => producer.sent = Batches
    BY <1>3 DEF DownloadReturns, SendEvent, TypeOK
  <2> QED BY <1>3, <2>1 DEF Queue
<1>4. ~(producer.pc = "done") /\ ~Drained
  BY DEF Producing, SendBatch, SendEvent, DownloadReturns, SendError, Drained
<1>5. /\ dataFwd.pc # "done"
      /\ \/ dataFwd = Receiving /\ Queue(b) /\ ~HasError(Stream)
         \/ dataFwd = Sending(Data(b + 1)) /\ Queue(b + 1) /\ ~HasError(Stream)
  BY <1>4, Forwarding DEF Forwards
<1>6. b + 1 \in Nat /\ (Queue(b) => Queue(b)') /\ (Queue(b + 1) => Queue(b + 1)')
  BY <1>1, <1>2, <1>3, <1>5 DEF Producing
<1> QED BY <1>0, <1>5, <1>6 DEF Forwards

LEMMA Receives ==
    ASSUME TypeOK, NEW b \in Nat, Forwards(b), DataReceives
    PROVE  Forwards(b)'
<1>0. /\ Stream' = Stream /\ producer' = producer /\ dataFwd.pc = "recv"
      /\ Len(bytes) \in Nat /\ bytes \in Seq(Frame) /\ producer.sent \in Nat
      /\ Batches \in Nat
  BY ConstantsAssumption DEF TypeOK, Stream, DataReceives
<1>1. CASE bytes = <<>>
  <2>1. dataFwd' = Stopped /\ bytes' = <<>> /\ producer.pc = "done"
    BY <1>1 DEF DataReceives, BytesClosed
  <2>2. Queue(b) => b = Batches
    <3>1. Len(bytes) = 0
      BY <1>1
    <3> QED BY <1>0, <2>1, <3>1 DEF Queue
  <2>3. HasError(Stream) \/ b = Batches
    BY <1>0, <2>2, Forwarding DEF Forwards
  <2> QED BY <1>0, <2>1, <2>3 DEF Forwards, Drained
<1>2. CASE bytes # <<>>
  <2>1. dataFwd' = Sending(Head(bytes)) /\ bytes' = Tail(bytes)
    BY <1>2 DEF DataReceives
  <2>2. dataFwd = Receiving /\ Queue(b) /\ ~HasError(Stream)
    BY <1>0, <1>2, Forwarding DEF Forwards, Drained
  <2>3. /\ Head(bytes) = bytes[1] /\ Len(bytes) >= 1 /\ Len(bytes') = Len(bytes) - 1
        /\ \A i \in 1 .. Len(bytes') : bytes'[i] = bytes[i + 1]
        /\ bytes' \in Seq(Frame)
    BY <1>0, <1>2, <2>1, HeadTailProperties
  <2>4. b \in 0 .. producer.sent
    BY <2>2 DEF Queue
  <2>5. CASE b < producer.sent
    <3>1. bytes[1] = Data(b + 1)
      <4>1. 1 \in 1 .. producer.sent - b
        BY <1>0, <2>4, <2>5
      <4> QED BY <2>2, <4>1 DEF Queue
    <3>2. ASSUME NEW i \in 1 .. producer.sent - (b + 1) PROVE bytes'[i] = Data((b + 1) + i)
      <4>1. i + 1 \in 1 .. producer.sent - b /\ b + (i + 1) = (b + 1) + i
        BY <1>0, <2>4
      <4>2. i \in 1 .. Len(bytes')
        BY <1>0, <2>2, <2>3, <2>4 DEF Queue
      <4>3. bytes[i + 1] = Data(b + (i + 1))
        BY <2>2, <4>1 DEF Queue
      <4> QED BY <2>3, <4>1, <4>2, <4>3
    <3>3. b + 1 \in 0 .. producer.sent
      BY <1>0, <2>4, <2>5
    <3>4. CASE Len(bytes) = producer.sent - b /\ (producer.pc = "done" => producer.sent = Batches)
      <4>1. Len(bytes') = producer.sent - (b + 1)
        BY <1>0, <2>3, <2>4, <3>4
      <4>2. Queue(b + 1)'
        BY <1>0, <3>2, <3>3, <3>4, <4>1 DEF Queue
      <4> QED BY <1>0, <2>1, <2>2, <2>3, <3>1, <4>2 DEF Forwards
    <3>5. CASE /\ Len(bytes) = producer.sent - b + 1 /\ bytes[Len(bytes)] = Failure
               /\ producer.pc = "done"
      <4>1. /\ Len(bytes') = producer.sent - (b + 1) + 1
            /\ Len(bytes') \in 1 .. Len(bytes') /\ Len(bytes') + 1 = Len(bytes)
        BY <1>0, <2>3, <2>4, <2>5, <3>5
      <4>2. bytes'[Len(bytes')] = Failure
        BY <2>3, <3>5, <4>1
      <4>3. Queue(b + 1)'
        BY <1>0, <3>2, <3>3, <3>5, <4>1, <4>2 DEF Queue
      <4> QED BY <1>0, <2>1, <2>2, <2>3, <3>1, <4>3 DEF Forwards
    <3> QED BY <2>2, <3>4, <3>5 DEF Queue
  <2>6. CASE b = producer.sent
    <3>1. Len(bytes) = 1 /\ bytes[1] = Failure /\ producer.pc = "done"
      BY <1>0, <2>2, <2>3, <2>6 DEF Queue
    <3>2. bytes' = <<>>
      BY <2>3, <3>1, EmptySeq
    <3> QED BY <1>0, <2>1, <2>3, <3>1, <3>2 DEF Forwards, Drained
  <2> QED BY <1>0, <2>4, <2>5, <2>6
<1> QED BY <1>1, <1>2

LEMMA Sends ==
    ASSUME TypeOK, NEW b \in Nat, Upto(Stream, "data", b), Forwards(b), DataSends, ReadsOn,
           Grows(dataFwd.item)
    PROVE  /\ \E b2 \in Nat : Upto(Stream', "data", b2) /\ Forwards(b2)'
           /\ dataFwd.item.type = "data" => ~HasError(Stream)
           /\ dataFwd.item.type # "progress"
<1>0. /\ Stream \in Seq(Frame) /\ producer' = producer /\ bytes' = bytes
      /\ dataFwd' = Receiving /\ dataFwd.pc = "send"
      /\ dataFwd.item \in Frame /\ Stream' = Append(Stream, dataFwd.item)
  BY StreamType DEF DataSends, ReadsOn, Grows
<1>1. CASE dataFwd = Sending(Data(b + 1)) /\ Queue(b + 1) /\ ~HasError(Stream)
  <2>1. dataFwd.item = Data(b + 1)
    BY <1>1, Forwarding
  <2>2. ~HasError(Stream')
    BY <1>0, <1>1, <2>1, AppendErrors, FrameFacts
  <2>3. Upto(Stream', "data", b + 1)
    BY <1>0, <2>1, AppendNext DEF Data
  <2>4. Forwards(b + 1)'
    BY <1>0, <1>1, <2>2 DEF Forwards, Queue
  <2>5. b + 1 \in Nat
    OBVIOUS
  <2> QED BY <1>1, <2>1, <2>3, <2>4, <2>5, FrameFacts
<1>2. CASE dataFwd = Sending(Failure) /\ Drained
  <2>1. dataFwd.item = Failure
    BY <1>2, Forwarding
  <2>2. HasError(Stream')
    BY <1>0, <2>1, AppendErrors, FrameFacts
  <2>3. Upto(Stream', "data", b)
    BY <1>0, <2>1, AppendOther, FrameFacts
  <2>4. Forwards(b)'
    BY <1>0, <1>2, <2>2 DEF Forwards, Drained
  <2> QED BY <2>1, <2>3, <2>4, FrameFacts
<1> QED BY <1>0, <1>1, <1>2, Forwarding DEF Forwards

\* The frames in the progress forwarder's hand and channel.
EventsFrom(p) ==
    /\ p \in 0 .. producer.events
    /\ Len(progress) = producer.events - p
    /\ \A i \in 1 .. Len(progress) : progress[i] = Progress(p + i)

Reports(p) ==
    \/ progFwd = Receiving /\ EventsFrom(p)
    \/ progFwd = Sending(Progress(p + 1)) /\ EventsFrom(p + 1)
    \/ progFwd = Stopped

ProgressOK == client = "reading" => \E p \in Nat : Upto(Stream, "progress", p) /\ Reports(p)

LEMMA ReportsOn ==
    ASSUME TypeOK, NEW p \in Nat, Upto(Stream, "progress", p), Reports(p),
           Stream' = Stream \/ (Grows(dataFwd.item) /\ dataFwd.item.type # "progress"),
           UNCHANGED <<progFwd, progress>>, producer'.events = producer.events
    PROVE  Upto(Stream', "progress", p) /\ Reports(p)'
<1>1. Upto(Stream', "progress", p)
  BY StreamType, AppendOther DEF Grows
<1>2. \A q : EventsFrom(q) => EventsFrom(q)'
  BY DEF EventsFrom
<1> QED BY <1>1, <1>2 DEF Reports

LEMMA ReportsMore ==
    ASSUME TypeOK, NEW p \in Nat, Reports(p), SendEvent
    PROVE  Reports(p)'
<1>0. /\ progFwd' = progFwd /\ progFwd.pc # "done"
      /\ Len(progress) \in Nat /\ progress \in Seq(Frame)
      /\ producer.events \in 0 .. Events /\ Events \in Nat
      /\ producer'.events = producer.events + 1 /\ producer.events < Events
      /\ progress' = Append(progress, Progress(producer.events + 1))
  BY ConstantsAssumption DEF TypeOK, SendEvent
<1>1. ASSUME NEW q \in Nat, EventsFrom(q) PROVE EventsFrom(q)'
  <2>1. Progress(producer.events + 1) \in Frame
    BY <1>0, FrameFacts
  <2>2. /\ Len(progress') = Len(progress) + 1
        /\ progress'[Len(progress) + 1] = Progress(producer.events + 1)
        /\ \A i \in 1 .. Len(progress) : progress'[i] = progress[i]
    BY <1>0, <2>1, AppendProperties
  <2>3. q \in 0 .. producer.events /\ Len(progress) = producer.events - q
    BY <1>1 DEF EventsFrom
  <2>4. ASSUME NEW i \in 1 .. Len(progress') PROVE progress'[i] = Progress(q + i)
    <3>1. CASE i \in 1 .. Len(progress)
      BY <1>1, <2>2, <3>1 DEF EventsFrom
    <3>2. CASE i = Len(progress) + 1
      <4>1. q + i = producer.events + 1
        BY <1>0, <2>3, <3>2
      <4> QED BY <2>2, <3>2, <4>1
    <3>3. i \in 1 .. Len(progress) \/ i = Len(progress) + 1
      BY <1>0, <2>2
    <3> QED BY <3>1, <3>2, <3>3
  <2>5. q \in 0 .. producer'.events /\ Len(progress') = producer'.events - q
    BY <1>0, <2>2, <2>3
  <2> QED BY <2>4, <2>5 DEF EventsFrom
<1>2. p + 1 \in Nat
  OBVIOUS
<1> QED BY <1>0, <1>1, <1>2, Forwarding DEF Reports

LEMMA ReportReceived ==
    ASSUME TypeOK, NEW p \in Nat, Reports(p), ProgressReceives
    PROVE  Reports(p)'
<1>0. /\ producer' = producer /\ progFwd.pc = "recv"
      /\ Len(progress) \in Nat /\ progress \in Seq(Frame) /\ producer.events \in Nat
  BY ConstantsAssumption DEF TypeOK, ProgressReceives
<1>1. CASE progress = <<>>
  BY <1>1 DEF ProgressReceives, Reports
<1>2. CASE progress # <<>>
  <2>1. progFwd' = Sending(Head(progress)) /\ progress' = Tail(progress)
    BY <1>2 DEF ProgressReceives
  <2>2. EventsFrom(p)
    BY <1>0, Forwarding DEF Reports
  <2>3. /\ Head(progress) = progress[1] /\ Len(progress) >= 1
        /\ Len(progress') = Len(progress) - 1
        /\ \A i \in 1 .. Len(progress') : progress'[i] = progress[i + 1]
    BY <1>0, <1>2, <2>1, HeadTailProperties
  <2>4. p \in 0 .. producer.events /\ Len(progress) = producer.events - p
    BY <2>2 DEF EventsFrom
  <2>5. progress[1] = Progress(p + 1)
    <3>1. 1 \in 1 .. Len(progress)
      BY <1>0, <2>3
    <3> QED BY <2>2, <3>1 DEF EventsFrom
  <2>6. p + 1 \in 0 .. producer.events /\ Len(progress') = producer.events - (p + 1)
    BY <1>0, <2>3, <2>4
  <2>7. ASSUME NEW i \in 1 .. Len(progress') PROVE progress'[i] = Progress((p + 1) + i)
    <3>1. i + 1 \in 1 .. Len(progress) /\ p + (i + 1) = (p + 1) + i
      BY <1>0, <2>3
    <3>2. progress[i + 1] = Progress(p + (i + 1))
      BY <2>2, <3>1 DEF EventsFrom
    <3> QED BY <2>3, <3>1, <3>2
  <2>8. EventsFrom(p + 1)'
    BY <1>0, <2>6, <2>7 DEF EventsFrom
  <2> QED BY <2>1, <2>3, <2>5, <2>8 DEF Reports
<1> QED BY <1>1, <1>2

LEMMA ReportSent ==
    ASSUME TypeOK, NEW p \in Nat, Upto(Stream, "progress", p), Reports(p), ProgressSends,
           ReadsOn, Grows(progFwd.item)
    PROVE  /\ \E p2 \in Nat : Upto(Stream', "progress", p2) /\ Reports(p2)'
           /\ progFwd.item.type = "progress"
<1>0. /\ Stream \in Seq(Frame) /\ producer' = producer /\ progress' = progress
      /\ progFwd' = Receiving /\ progFwd.pc = "send"
      /\ progFwd.item \in Frame /\ Stream' = Append(Stream, progFwd.item)
  BY StreamType DEF ProgressSends, ReadsOn, Grows
<1>1. progFwd.item = Progress(p + 1) /\ EventsFrom(p + 1)
  BY <1>0, Forwarding DEF Reports
<1>2. Upto(Stream', "progress", p + 1)
  BY <1>0, <1>1, AppendNext DEF Progress
<1>3. Reports(p + 1)'
  BY <1>0, <1>1 DEF Reports, EventsFrom
<1>4. p + 1 \in Nat
  OBVIOUS
<1> QED BY <1>1, <1>2, <1>3, <1>4, FrameFacts

-----------------------------------------------------------------------------
(* The inductive invariant.                                                *)

StreamOK == Good(Stream)

\* How a download ends for the client and the app.
EndOK ==
    /\ client # "reading" => lines = <<>>
    /\ client = "ended" => Complete(got)
    /\ link # "up" => client = "gone"
    /\ app = "ended" => taken = Len(got) /\ (client = "ended" \/ link = "told")

\* A line that was cut: it does not parse, or it is what came next.
Cut(f) == f = Failure \/ (surface = "ndjson" /\ Good(Append(got, f)))

\* After the frames in got comes the error of the break, then the line that was cut.
TailOK ==
    /\ link = "up" => buf = <<>>
    /\ link # "told" => tail = <<>>
    /\ buf # <<>> => \E f \in Frame : buf = <<f>> /\ Cut(f)
    /\ link = "told" =>
          /\ taken = Len(got)
          /\ \/ tail = <<Failure>>
             \/ buf = <<>> /\ \E f \in Frame : tail = <<Failure, f>> /\ Cut(f)

\* An NDJSON stream has its opening line.
OpeningOK == client = "reading" => Len(Stream) > 0 \/ surface # "ndjson"

DownloadInv == TypeOK /\ DataOK /\ ProgressOK /\ StreamOK /\ OpeningOK /\ EndOK /\ TailOK

LEMMA NextData == TypeOK /\ DataOK /\ ProgressOK /\ [SdkNext]_allVars => DataOK'
<1> SUFFICES ASSUME TypeOK, DataOK, ProgressOK, [SdkNext]_allVars, client' = "reading"
             PROVE  \E b \in Nat : Upto(Stream', "data", b) /\ Forwards(b)'
  BY DEF DataOK
<1>1. client = "reading"
  BY DEF SdkNext, Daemon, Producing, SendBatch, SendEvent, DownloadReturns, SendError,
     DataForwards, DataReceives, DataSends, ProgressForwards, ProgressReceives, ProgressSends,
     BodyPolled, ClientReads, DaemonDies, Poll, PollFrame, PollBreak, PollEnd, AppLeaves,
     ClientLeaves, allVars, vars
<1>2. PICK b \in Nat : Upto(Stream, "data", b) /\ Forwards(b)
  BY <1>1 DEF DataOK
<1>3. PICK p \in Nat : Upto(Stream, "progress", p) /\ Reports(p)
  BY <1>1 DEF ProgressOK
<1>4. ReadsOn
  BY <1>1 DEF ReadsOn
<1>5. CASE Producing /\ UNCHANGED sdkVars
  <2>1. Stream' = Stream
    BY <1>5 DEF Stream, Producing, SendBatch, SendEvent, DownloadReturns, SendError
  <2> QED BY <1>2, <1>5, <2>1, ForwardsMore
<1>6. CASE DataReceives
  <2>1. Stream' = Stream
    BY <1>6 DEF Stream, DataReceives
  <2> QED BY <1>2, <1>6, <2>1, Receives
<1>7. CASE DataSends
  <2>1. dataFwd.item \in Frame /\ lines' = Append(lines, dataFwd.item) /\ got' = got
    BY <1>1, <1>7 DEF DataSends, TypeOK
  <2>2. Grows(dataFwd.item)
    BY <2>1, StreamGrows DEF Grows
  <2> QED BY <1>2, <1>4, <1>7, <2>2, Sends
<1>8. CASE ProgressReceives
  <2>1. Stream' = Stream /\ UNCHANGED <<dataFwd, bytes, producer>>
    BY <1>8 DEF Stream, ProgressReceives
  <2> QED BY <1>2, <2>1, ForwardsOn
<1>9. CASE ProgressSends
  <2>1. progFwd.item \in Frame /\ lines' = Append(lines, progFwd.item) /\ got' = got
    BY <1>1, <1>9 DEF ProgressSends, TypeOK
  <2>2. Grows(progFwd.item)
    BY <2>1, StreamGrows DEF Grows
  <2>3. progFwd.item.type = "progress"
    BY <1>3, <1>4, <1>9, <2>2, ReportSent
  <2>4. UNCHANGED <<dataFwd, bytes, producer>>
    BY <1>9 DEF ProgressSends
  <2> QED BY <1>2, <2>2, <2>3, <2>4, ForwardsOn
<1>10. CASE BodyPolled
  <2>1. UNCHANGED <<dataFwd, bytes, producer>>
    BY <1>10 DEF BodyPolled, ClientReads
  <2>2. lines # <<>> /\ got' = Append(got, Head(lines)) /\ lines' = Tail(lines)
    BY <1>10 DEF BodyPolled, ClientReads
  <2>3. Stream' = Stream
    BY <2>2, StreamMoves
  <2> QED BY <1>2, <2>1, <2>3, ForwardsOn
<1>11. CASE UNCHANGED vars
  <2>1. Stream' = Stream /\ UNCHANGED <<dataFwd, bytes, producer>>
    BY <1>11 DEF Stream, vars
  <2> QED BY <1>2, <2>1, ForwardsOn
<1>12. ~DaemonDies
  BY DEF DaemonDies
<1>13. PollFrame \/ PollBreak \/ PollEnd \/ AppLeaves \/ UNCHANGED allVars => UNCHANGED vars
  BY DEF PollFrame, PollBreak, PollEnd, AppLeaves, ClientLeaves, allVars
<1> QED
  BY <1>5, <1>6, <1>7, <1>8, <1>9, <1>10, <1>11, <1>12, <1>13, Leaves
  DEF DataForwards, ProgressForwards

LEMMA NextProgress == TypeOK /\ DataOK /\ ProgressOK /\ [SdkNext]_allVars => ProgressOK'
<1> SUFFICES ASSUME TypeOK, DataOK, ProgressOK, [SdkNext]_allVars, client' = "reading"
             PROVE  \E p \in Nat : Upto(Stream', "progress", p) /\ Reports(p)'
  BY DEF ProgressOK
<1>1. client = "reading"
  BY DEF SdkNext, Daemon, Producing, SendBatch, SendEvent, DownloadReturns, SendError,
     DataForwards, DataReceives, DataSends, ProgressForwards, ProgressReceives, ProgressSends,
     BodyPolled, ClientReads, DaemonDies, Poll, PollFrame, PollBreak, PollEnd, AppLeaves,
     ClientLeaves, allVars, vars
<1>2. PICK b \in Nat : Upto(Stream, "data", b) /\ Forwards(b)
  BY <1>1 DEF DataOK
<1>3. PICK p \in Nat : Upto(Stream, "progress", p) /\ Reports(p)
  BY <1>1 DEF ProgressOK
<1>4. ReadsOn
  BY <1>1 DEF ReadsOn
<1>5. CASE SendEvent
  <2>1. Stream' = Stream
    BY <1>5 DEF Stream, SendEvent
  <2> QED BY <1>3, <1>5, <2>1, ReportsMore
<1>6. CASE SendBatch \/ DownloadReturns \/ SendError
  <2>1. Stream' = Stream /\ UNCHANGED <<progFwd, progress>>
    BY <1>6 DEF Stream, SendBatch, DownloadReturns, SendError
  <2>2. producer'.events = producer.events
    BY <1>6 DEF SendBatch, DownloadReturns, SendError, TypeOK
  <2> QED BY <1>3, <2>1, <2>2, ReportsOn
<1>7. CASE DataSends
  <2>1. dataFwd.item \in Frame /\ lines' = Append(lines, dataFwd.item) /\ got' = got
    BY <1>1, <1>7 DEF DataSends, TypeOK
  <2>2. Grows(dataFwd.item)
    BY <2>1, StreamGrows DEF Grows
  <2>3. dataFwd.item.type # "progress"
    BY <1>2, <1>4, <1>7, <2>2, Sends
  <2>4. UNCHANGED <<progFwd, progress, producer>>
    BY <1>7 DEF DataSends
  <2> QED BY <1>3, <2>2, <2>3, <2>4, ReportsOn
<1>8. CASE ProgressReceives
  <2>1. Stream' = Stream
    BY <1>8 DEF Stream, ProgressReceives
  <2> QED BY <1>3, <1>8, <2>1, ReportReceived
<1>9. CASE ProgressSends
  <2>1. progFwd.item \in Frame /\ lines' = Append(lines, progFwd.item) /\ got' = got
    BY <1>1, <1>9 DEF ProgressSends, TypeOK
  <2>2. Grows(progFwd.item)
    BY <2>1, StreamGrows DEF Grows
  <2> QED BY <1>3, <1>4, <1>9, <2>2, ReportSent
<1>10. CASE BodyPolled
  <2>1. UNCHANGED <<progFwd, progress, producer>>
    BY <1>10 DEF BodyPolled, ClientReads
  <2>2. lines # <<>> /\ got' = Append(got, Head(lines)) /\ lines' = Tail(lines)
    BY <1>10 DEF BodyPolled, ClientReads
  <2>3. Stream' = Stream
    BY <2>2, StreamMoves
  <2> QED BY <1>3, <2>1, <2>3, ReportsOn
<1>11. CASE DataReceives \/ UNCHANGED vars
  <2>1. Stream' = Stream /\ UNCHANGED <<progFwd, progress, producer>>
    BY <1>11 DEF Stream, vars, DataReceives
  <2> QED BY <1>3, <2>1, ReportsOn
<1>12. ~DaemonDies
  BY DEF DaemonDies
<1>13. PollFrame \/ PollBreak \/ PollEnd \/ AppLeaves \/ UNCHANGED allVars => UNCHANGED vars
  BY DEF PollFrame, PollBreak, PollEnd, AppLeaves, ClientLeaves, allVars
<1> QED
  BY <1>5, <1>6, <1>7, <1>8, <1>9, <1>10, <1>11, <1>12, <1>13, Leaves
  DEF DataForwards, ProgressForwards, Producing

LEMMA NextStream ==
    TypeOK /\ DataOK /\ ProgressOK /\ StreamOK /\ OpeningOK /\ [SdkNext]_allVars
        => StreamOK' /\ OpeningOK'
<1> SUFFICES ASSUME TypeOK, DataOK, ProgressOK, StreamOK, OpeningOK, [SdkNext]_allVars
             PROVE  StreamOK' /\ OpeningOK'
  OBVIOUS
<1>0. surface' = surface /\ Stream \in Seq(Frame) /\ Len(Stream) \in Nat
  BY Leaves, StreamType
<1>1. client' = "reading" => client = "reading"
  BY DEF SdkNext, Daemon, Producing, SendBatch, SendEvent, DownloadReturns, SendError,
     DataForwards, DataReceives, DataSends, ProgressForwards, ProgressReceives, ProgressSends,
     BodyPolled, ClientReads, DaemonDies, Poll, PollFrame, PollBreak, PollEnd, AppLeaves,
     ClientLeaves, allVars, vars
<1>2. CASE Stream' = Stream
  BY <1>0, <1>1, <1>2 DEF StreamOK, OpeningOK, Good, Opened
<1>3. CASE ~ReadsOn /\ PrefixOf(Stream', Stream) /\ Stream' \in Seq(Frame)
  <2>1. Good(Stream) /\ client' # "reading"
    BY <1>1, <1>3 DEF StreamOK, ReadsOn
  <2>2. PICK t \in Seq(Frame) : t = Stream'
    BY <1>3
  <2>3. Good(t)
    BY <1>0, <1>3, <2>1, <2>2, PrefixIsGood
  <2> QED BY <1>0, <2>1, <2>2, <2>3 DEF StreamOK, OpeningOK, Good, Opened
<1>4. ASSUME NEW f, ReadsOn, Grows(f), f.type = "data" => ~HasError(Stream)
      PROVE  StreamOK' /\ OpeningOK'
  <2>1. TypeOK' /\ DataOK' /\ ProgressOK'
    BY NextType, NextData, NextProgress
  <2>2. Stream' \in Seq(Frame) /\ Stream' = Append(Stream, f) /\ f \in Frame
    BY <1>0, <1>4, AppendProperties DEF Grows
  <2>3. PICK t \in Seq(Frame) : t = Stream'
    BY <2>2
  <2>4. InOrder(t, "data")
    <3>1. PICK b \in Nat : Upto(Stream', "data", b)
      BY <1>4, <2>1 DEF DataOK, ReadsOn
    <3> QED BY <2>3, <3>1, UptoInOrder
  <2>5. InOrder(t, "progress")
    <3>1. PICK p \in Nat : Upto(Stream', "progress", p)
      BY <1>4, <2>1 DEF ProgressOK, ReadsOn
    <3> QED BY <2>3, <3>1, UptoInOrder
  <2>6. NoDataAfterError(t) /\ Opened(t) /\ Len(t) > 0
    <3>1. NoDataAfterError(Stream) /\ Opened(Stream) /\ (Len(Stream) > 0 \/ surface # "ndjson")
      BY <1>4 DEF StreamOK, Good, OpeningOK, ReadsOn
    <3>2. Len(t) = Len(Stream) + 1
      BY <1>0, <2>2, <2>3, AppendProperties
    <3>3. t = Append(Stream, f)
      BY <2>2, <2>3
    <3>4. /\ NoDataAfterError(Stream) /\ (f.type # "data" \/ ~HasError(Stream)) =>
                NoDataAfterError(t)
          /\ Opened(Stream) /\ (Len(Stream) > 0 \/ surface # "ndjson") => Opened(t)
      BY <1>0, <2>2, <3>3, AppendErrors
    <3> QED BY <1>0, <1>4, <3>1, <3>2, <3>4
  <2> QED BY <1>0, <2>3, <2>4, <2>5, <2>6 DEF StreamOK, OpeningOK, Good, Opened
<1>5. CASE ReadsOn /\ DataSends /\ UNCHANGED sdkVars /\ Grows(dataFwd.item)
  <2>1. PICK b \in Nat : Upto(Stream, "data", b) /\ Forwards(b)
    BY <1>5 DEF DataOK, ReadsOn
  <2>2. dataFwd.item.type = "data" => ~HasError(Stream)
    BY <1>5, <2>1, Sends
  <2> QED BY <1>4, <1>5, <2>2
<1>6. CASE ReadsOn /\ ProgressSends /\ UNCHANGED sdkVars /\ Grows(progFwd.item)
  <2>1. PICK p \in Nat : Upto(Stream, "progress", p) /\ Reports(p)
    BY <1>6 DEF ProgressOK, ReadsOn
  <2>2. progFwd.item.type = "progress"
    BY <1>6, <2>1, ReportSent
  <2> QED BY <1>4, <1>6, <2>2
<1> QED BY <1>2, <1>3, <1>5, <1>6, StreamSteps

\* A stream that ended by itself has the last batch or an error.
LEMMA EndsComplete ==
    ASSUME TypeOK, DataOK, BodyPolled, client' = "ended"
    PROVE  lines' = <<>> /\ Complete(got)'
<1>0. /\ got \in Seq(Frame) /\ Len(got) \in Nat /\ Batches \in Nat
      /\ client = "reading"
  BY ConstantsAssumption DEF TypeOK, BodyPolled, ClientReads
<1>1. CASE lines = <<>>
  <2>1. lines' = lines /\ got' = got /\ dataFwd = Stopped
    BY <1>1 DEF BodyPolled, ClientReads
  <2>2. Stream = got
    BY <1>0, <1>1, ConcatEmptySeq DEF Stream
  <2>3. PICK b \in Nat : Upto(got, "data", b) /\ Forwards(b)
    BY <1>0, <2>2 DEF DataOK
  <2>4. HasError(got) \/ b = Batches
    BY <2>1, <2>2, <2>3, Forwarding DEF Forwards
  <2>5. Complete(got)
    <3>1. CASE HasError(got)
      BY <3>1 DEF HasError, Complete
    <3>2. CASE b = Batches /\ Batches # 0
      <4>1. Batches \in 1 .. b
        BY <1>0, <3>2
      <4>2. PICK i \in 1 .. Len(got) : got[i] = [type |-> "data", n |-> Batches]
        BY <2>3, <4>1 DEF Upto
      <4> QED BY <4>2 DEF Complete, Data
    <3>3. CASE Batches = 0
      BY <3>3 DEF Complete
    <3> QED BY <2>4, <3>1, <3>2, <3>3
  <2> QED BY <1>1, <2>1, <2>5 DEF Complete
<1>2. CASE lines # <<>>
  <2>1. got' = Append(got, Failure) /\ lines' = <<>>
    BY <1>0, <1>2 DEF BodyPolled, ClientReads
  <2>2. Len(got') = Len(got) + 1 /\ got'[Len(got) + 1] = Failure
    BY <1>0, <2>1, FrameFacts, AppendProperties
  <2>3. Len(got) + 1 \in 1 .. Len(got')
    BY <1>0, <2>2
  <2> QED BY <2>1, <2>2, <2>3, FrameFacts DEF Complete
<1> QED BY <1>1, <1>2

LEMMA NextEnd == TypeOK /\ DataOK /\ EndOK /\ [SdkNext]_allVars => EndOK'
<1> SUFFICES ASSUME TypeOK, DataOK, EndOK, [SdkNext]_allVars PROVE EndOK'
  OBVIOUS
<1>1. CASE Producing /\ UNCHANGED sdkVars
  BY <1>1 DEF Producing, SendBatch, SendEvent, DownloadReturns, SendError, sdkVars, EndOK,
     Complete
<1>2. CASE (DataForwards \/ ProgressForwards) /\ UNCHANGED sdkVars
  <2>1. UNCHANGED <<client, got, taken, link, buf, tail, app>>
    BY <1>2 DEF DataForwards, DataReceives, DataSends, ProgressForwards, ProgressReceives,
       ProgressSends, sdkVars
  <2>2. client # "reading" => lines' = lines
    BY <1>2 DEF DataForwards, DataReceives, DataSends, ProgressForwards, ProgressReceives,
       ProgressSends
  <2> QED BY <2>1, <2>2 DEF EndOK, Complete
<1>3. CASE BodyPolled
  <2>1. /\ client = "reading" /\ UNCHANGED sdkVars /\ client' \in {"reading", "ended"}
        /\ link = "up"
    BY <1>3 DEF BodyPolled, ClientReads, TypeOK
  <2>2. app # "ended"
    BY <2>1 DEF EndOK
  <2>3. client' = "ended" => lines' = <<>> /\ Complete(got)'
    BY <1>3, EndsComplete
  <2> QED BY <2>1, <2>2, <2>3 DEF EndOK, sdkVars
<1>4. CASE DaemonDies
  <2>1. /\ link = "up" /\ client = "reading" /\ link' = "lost" /\ client' = "gone"
        /\ lines' = <<>> /\ UNCHANGED <<taken, app>>
    BY <1>4 DEF DaemonDies
  <2>2. app # "ended"
    BY <2>1 DEF EndOK
  <2> QED BY <2>1, <2>2 DEF EndOK
<1>5. CASE PollFrame
  BY <1>5 DEF PollFrame, EndOK, Complete, vars
<1>6. CASE PollBreak
  BY <1>6 DEF PollBreak, EndOK, Complete, vars, TypeOK
<1>7. CASE PollEnd
  <2>1. /\ taken = Len(got) /\ (client = "ended" \/ link = "told")
        /\ UNCHANGED <<vars, taken, link>>
    BY <1>7 DEF PollEnd
  <2> QED BY <2>1 DEF EndOK, Complete, vars
<1>8. CASE AppLeaves
  <2>1. /\ app' = "left" /\ UNCHANGED <<taken, link, got>>
        /\ \/ client' = "gone" /\ lines' = <<>>
           \/ UNCHANGED <<client, lines>>
    BY <1>8 DEF AppLeaves, ClientLeaves, vars
  <2> QED BY <2>1 DEF EndOK, Complete
<1>9. CASE UNCHANGED allVars
  BY <1>9 DEF EndOK, Complete, allVars, vars, sdkVars
<1> QED BY <1>1, <1>2, <1>3, <1>4, <1>5, <1>6, <1>7, <1>8, <1>9, Leaves

\* Once the connection is lost nothing more arrives.
LEMMA NextTail == TypeOK /\ StreamOK /\ EndOK /\ TailOK /\ [SdkNext]_allVars => TailOK'
<1> SUFFICES ASSUME TypeOK, StreamOK, EndOK, TailOK, [SdkNext]_allVars PROVE TailOK'
  OBVIOUS
<1>0. surface' = surface /\ Stream \in Seq(Frame) /\ Len(Stream) \in Nat
  BY Leaves, StreamType
<1>1. CASE UNCHANGED <<link, buf, tail, taken, got>>
  BY <1>0, <1>1 DEF TailOK, Cut, Good, Opened
<1>2. CASE link = "up" /\ link' = "up" /\ UNCHANGED <<buf, tail>>
  BY <1>2 DEF TailOK
<1>3. CASE DaemonDies
  <2>1. PICK n \in 0 .. Len(Stream) :
            /\ taken <= n /\ got' = SubSeq(Stream, 1, n)
            /\ \/ buf' = <<>>
               \/ buf' = <<Failure>>
               \/ /\ surface = "ndjson" /\ n + 1 \in 1 .. Len(Stream)
                  /\ buf' = <<Stream[n + 1]>> /\ Stream[n + 1] \in Frame
    BY <1>3, Dies
  <2>2. link = "up" /\ link' = "lost" /\ tail' = tail
    BY <1>3 DEF DaemonDies
  <2>3. ASSUME buf' # <<>> PROVE \E f \in Frame : buf' = <<f>> /\ Cut(f)'
    <3>1. CASE buf' = <<Failure>>
      BY <3>1, FrameFacts DEF Cut
    <3>2. CASE /\ surface = "ndjson" /\ n + 1 \in 1 .. Len(Stream)
               /\ buf' = <<Stream[n + 1]>> /\ Stream[n + 1] \in Frame
      <4>1. PICK f \in Frame : f = Stream[n + 1] /\ buf' = <<f>>
        BY <3>2
      <4>2. PICK t : t = SubSeq(Stream, 1, n)
        OBVIOUS
      <4>3. t \in Seq(Frame) /\ Len(t) = n /\ PrefixOf(t, Stream) /\ t = got' /\ n \in Nat
        <5>1. t \in Seq(Frame) /\ Len(t) = n /\ PrefixOf(t, Stream)
          BY <1>0, <4>2, SubSeqIsPrefix
        <5>2. t = got' /\ n \in Nat
          BY <1>0, <2>1, <4>2
        <5> QED BY <5>1, <5>2
      <4>4. PICK w : w = Append(t, f)
        OBVIOUS
      <4>5. /\ w \in Seq(Frame) /\ Len(w) = n + 1 /\ w[n + 1] = f
            /\ \A i \in 1 .. n : w[i] = t[i]
        BY <4>3, <4>4, AppendProperties
      <4>6. PrefixOf(w, Stream)
        <5>1. \A i \in 1 .. Len(w) : i = n + 1 \/ i \in 1 .. n
          BY <4>3, <4>5
        <5> QED BY <1>0, <3>2, <4>1, <4>3, <4>5, <5>1 DEF PrefixOf
      <4>7. Good(w)
        BY <1>0, <4>5, <4>6, PrefixIsGood DEF StreamOK
      <4>8. w = Append(got', f) /\ (surface = "ndjson")'
        BY <1>0, <3>2, <4>3, <4>4
      <4>9. Good(w)'
        BY <1>0, <4>5, <4>7 DEF Good, Opened
      <4>10. Cut(f)'
        BY <4>4, <4>7, <4>8, <1>0 DEF Cut, Good, Opened
      <4> QED BY <4>1, <4>10
    <3> QED BY <2>1, <2>3, <3>1, <3>2
  <2> QED BY <2>2, <2>3 DEF TailOK
<1>4. CASE PollFrame
  <2>1. UNCHANGED <<link, buf, tail, got>> /\ taken < Len(got)
    BY <1>4 DEF PollFrame, vars
  <2>2. Len(got) \in Nat /\ taken \in Nat
    BY DEF TypeOK
  <2>3. link # "told"
    BY <2>1, <2>2 DEF TailOK
  <2> QED BY <1>0, <2>1, <2>3 DEF TailOK, Cut, Good, Opened
<1>5. CASE PollBreak
  <2>1. /\ link = "lost" /\ link' = "told" /\ taken = Len(got) /\ UNCHANGED <<taken, got, buf>>
        /\ tail' = Append(tail, Failure)
    BY <1>5 DEF PollBreak, vars
  <2>2. tail' = <<Failure>>
    BY <2>1 DEF TailOK
  <2> QED BY <1>0, <2>1, <2>2 DEF TailOK, Cut, Good, Opened
<1>6. CASE PollEnd
  <2>1. UNCHANGED <<link, taken, got>>
    BY <1>6 DEF PollEnd, vars
  <2>2. CASE buf = <<>>
    BY <1>1, <1>6, <2>1, <2>2 DEF PollEnd
  <2>3. CASE buf # <<>>
    <3>1. PICK f \in Frame : buf = <<f>> /\ Cut(f)
      BY <2>3 DEF TailOK
    <3>2. buf' = <<>> /\ tail' = tail \o buf
      BY <1>6, <2>3 DEF PollEnd
    <3>3. CASE link = "told"
      <4>1. tail = <<Failure>> /\ taken = Len(got)
        BY <2>3, <3>3 DEF TailOK
      <4>2. tail' = <<Failure, f>>
        <5>1. <<Failure>> \o <<f>> = <<Failure, f>>
          <6>1. PICK a \in Seq(Frame), b \in Seq(Frame), c \in Seq(Frame) :
                    a = <<Failure>> /\ b = <<f>> /\ c = <<Failure, f>>
            <7>1. Failure \in Frame /\ f \in Frame
              BY FrameFacts
            <7>2. <<Failure>> \in Seq(Frame) /\ <<f>> \in Seq(Frame)
              BY <7>1
            <7>3. <<Failure, f>> \in Seq(Frame)
              BY <7>1
            <7> QED BY <7>2, <7>3, Zenon
          <6>2. /\ Len(a) = 1 /\ a[1] = Failure /\ Len(b) = 1 /\ b[1] = f
                /\ Len(c) = 2 /\ c[1] = Failure /\ c[2] = f
            BY <6>1
          <6>3. /\ a \o b \in Seq(Frame) /\ Len(a \o b) = 2
                /\ \A i \in 1 .. 2 : (a \o b)[i] = IF i <= 1 THEN a[i] ELSE b[i - 1]
            BY <6>2, ConcatProperties
          <6>4. \A i \in 1 .. 2 : i = 1 \/ i = 2
            OBVIOUS
          <6>5. \A i \in 1 .. 2 : (a \o b)[i] = c[i]
            BY <6>2, <6>3, <6>4
          <6>6. a \o b = c
            BY <6>2, <6>3, <6>5, SeqEqual
          <6> QED BY <6>1, <6>6
        <5>2. tail' = <<Failure>> \o <<f>>
          BY <3>1, <3>2, <4>1, Zenon
        <5> QED BY <5>1, <5>2, Zenon
      <4>3. Cut(f)'
        BY <1>0, <2>1, <3>1 DEF Cut, Good, Opened
      <4> QED BY <2>1, <3>2, <3>3, <4>1, <4>2, <4>3 DEF TailOK
    <3>4. CASE link # "told"
      BY <1>6, <2>3, <3>4 DEF PollEnd, EndOK, TailOK, TypeOK
    <3> QED BY <3>3, <3>4
  <2> QED BY <2>2, <2>3
<1>7. UNCHANGED sdkVars => UNCHANGED <<link, buf, tail, taken>>
  BY DEF sdkVars
<1>8. CASE (DataForwards \/ ProgressForwards \/ Producing) /\ UNCHANGED sdkVars
  <2>1. got' = got
    BY <1>8 DEF DataForwards, DataReceives, DataSends, ProgressForwards, ProgressReceives,
       ProgressSends, Producing, SendBatch, SendEvent, DownloadReturns, SendError
  <2> QED BY <1>1, <1>7, <1>8, <2>1
<1>9. CASE BodyPolled
  BY <1>2, <1>7, <1>9 DEF BodyPolled
<1>10. CASE AppLeaves
  BY <1>1, <1>10 DEF AppLeaves, ClientLeaves, vars
<1>11. CASE UNCHANGED allVars
  BY <1>1, <1>7, <1>11 DEF allVars, vars
<1> QED BY <1>3, <1>4, <1>5, <1>6, <1>8, <1>9, <1>10, <1>11, Leaves

LEMMA InitInv == SdkInit => DownloadInv
<1> SUFFICES ASSUME SdkInit PROVE DownloadInv
  OBVIOUS
<1>1. TypeOK
  BY InitType
<1>2. /\ got = <<>> /\ client = "reading" /\ dataFwd = Receiving /\ progFwd = Receiving
      /\ bytes = <<>> /\ progress = <<>> /\ lines = IF surface = "ndjson" THEN <<Meta>> ELSE <<>>
      /\ producer.sent = 0 /\ producer.events = 0 /\ producer.pc = "download"
      /\ link = "up" /\ tail = <<>> /\ app = "polling" /\ buf = <<>>
  BY DEF SdkInit, Init
<1>3. Stream = lines /\ lines \in Seq(Frame)
  BY <1>1, <1>2, ConcatEmptySeq DEF TypeOK, Stream
<1>4. /\ \A i \in 1 .. Len(Stream) : i = 1 /\ Stream[i] = Meta
      /\ surface = "ndjson" => Len(Stream) = 1
  <2>1. CASE surface = "ndjson"
    <3>1. Stream = <<Meta>>
      BY <1>2, <1>3, <2>1
    <3> QED BY <3>1
  <2>2. CASE surface # "ndjson"
    BY <1>2, <1>3, <2>2
  <2> QED BY <2>1, <2>2
<1>5. \A i \in 1 .. Len(Stream) : Stream[i].type = "meta"
  BY <1>4, FrameFacts
<1>6. StreamOK /\ OpeningOK /\ ~HasError(Stream)
  BY <1>4, <1>5 DEF StreamOK, OpeningOK, Good, InOrder, NoDataAfterError, Opened, HasError
<1>7. Upto(Stream, "data", 0) /\ Upto(Stream, "progress", 0)
  BY <1>5 DEF Upto
<1>8. Queue(0) /\ EventsFrom(0)
  BY <1>2 DEF Queue, EventsFrom
<1>9. DataOK /\ ProgressOK
  <2>1. 0 \in Nat /\ Forwards(0) /\ Reports(0)
    BY <1>2, <1>6, <1>8 DEF Forwards, Reports
  <2> QED BY <1>7, <2>1 DEF DataOK, ProgressOK
<1>10. EndOK /\ TailOK
  BY <1>2 DEF EndOK, TailOK
<1> QED BY <1>1, <1>6, <1>9, <1>10 DEF DownloadInv

LEMMA Inductive == SdkSpec => []DownloadInv
<1>1. DownloadInv /\ [SdkNext]_allVars => DownloadInv'
  BY NextType, NextData, NextProgress, NextStream, NextEnd, NextTail DEF DownloadInv
<1> QED BY <1>1, InitInv, PTL DEF SdkSpec

-----------------------------------------------------------------------------
(* The theorems.                                                           *)

\* The frames the app was handed, then what came after its connection broke.
LEMMA SeenShape ==
    ASSUME TypeOK, NEW t, t = SubSeq(got, 1, taken)
    PROVE  /\ t \in Seq(Frame) /\ Len(t) = taken /\ PrefixOf(t, got) /\ taken \in Nat
           /\ Len(tail) \in Nat /\ Len(Seen) = taken + Len(tail) /\ Seen \in Seq(Frame)
           /\ \A i \in 1 .. Len(Seen) :
                 Seen[i] = IF i <= taken THEN t[i] ELSE tail[i - taken]
<1>1. got \in Seq(Frame) /\ taken \in 0 .. Len(got) /\ tail \in Seq(Frame) /\ taken \in Nat
  BY DEF TypeOK
<1>2. t \in Seq(Frame) /\ Len(t) = taken /\ PrefixOf(t, got)
  BY <1>1, SubSeqIsPrefix
<1>3. Seen = t \o tail
  BY DEF Seen
<1>4. /\ t \o tail \in Seq(Frame) /\ Len(t \o tail) = Len(t) + Len(tail)
      /\ \A i \in 1 .. Len(t) + Len(tail) :
            (t \o tail)[i] = IF i <= Len(t) THEN t[i] ELSE tail[i - Len(t)]
  BY <1>1, <1>2, ConcatProperties
<1> QED BY <1>1, <1>2, <1>3, <1>4

\* What ReadsPrefix says of a sequence, but for the data that may follow an error.
Reads(s) ==
    /\ InOrder(s, "data") /\ InOrder(s, "progress")
    /\ surface = "ndjson" =>
           \A i \in 1 .. Len(s) : s[i].type \in {"data", "progress"} =>
               \E j \in 1 .. i - 1 : s[j] = Meta

\* Frames that may be read, then nothing but errors.
LEMMA ThenErrors ==
    ASSUME NEW t \in Seq(Frame), Good(t), NEW s \in Seq(Frame), Len(t) <= Len(s),
           \A i \in 1 .. Len(s) : s[i] = IF i <= Len(t) THEN t[i] ELSE Failure
    PROVE  /\ Reads(s)
           /\ \A i, j \in 1 .. Len(s) : i < j /\ s[i].type = "error" => s[j].type # "data"
<1>0. Len(t) \in Nat /\ Len(s) \in Nat
  OBVIOUS
<1>1. ASSUME NEW i \in 1 .. Len(s), s[i].type \in {"data", "progress"}
      PROVE  i \in 1 .. Len(t) /\ s[i] = t[i] /\ \A j \in 1 .. i - 1 : s[j] = t[j]
  <2>1. i <= Len(t)
    BY <1>1, FrameFacts
  <2> QED BY <1>0, <2>1
<1>2. ASSUME NEW type \in {"data", "progress"} PROVE InOrder(s, type)
  <2> SUFFICES ASSUME NEW i \in 1 .. Len(s), s[i].type = type
               PROVE  /\ s[i].n = 1
                            \/ \E j \in 1 .. i - 1 : s[j] = [type |-> type, n |-> s[i].n - 1]
                      /\ \A j \in 1 .. i - 1 : s[j].type = type => s[j].n < s[i].n
    BY DEF InOrder
  <2>1. i \in 1 .. Len(t) /\ s[i] = t[i] /\ \A j \in 1 .. i - 1 : s[j] = t[j]
    BY <1>1
  <2>2. InOrder(t, type)
    BY DEF Good
  <2> QED BY <2>1, <2>2 DEF InOrder
<1>3. ASSUME NEW i \in 1 .. Len(s), s[i].type \in {"data", "progress"}, surface = "ndjson"
      PROVE  \E j \in 1 .. i - 1 : s[j] = Meta
  <2>1. i \in 1 .. Len(t) /\ s[i] = t[i] /\ \A j \in 1 .. i - 1 : s[j] = t[j]
    BY <1>1, <1>3
  <2>2. t[1] = Meta
    BY <1>0, <1>3, <2>1 DEF Good, Opened
  <2>3. i # 1
    BY <1>3, <2>1, <2>2, FrameFacts
  <2> QED BY <2>1, <2>2, <2>3
<1>4. ASSUME NEW i \in 1 .. Len(s), NEW j \in 1 .. Len(s), i < j, s[i].type = "error",
             s[j].type = "data"
      PROVE  FALSE
  <2>1. j \in 1 .. Len(t) /\ s[j] = t[j] /\ \A k \in 1 .. j - 1 : s[k] = t[k]
    BY <1>1, <1>4
  <2>2. i \in 1 .. j - 1 /\ i \in 1 .. Len(t)
    BY <1>0, <1>4, <2>1
  <2> QED BY <1>4, <2>1, <2>2 DEF Good, NoDataAfterError
<1> QED BY <1>2, <1>3, <1>4 DEF Reads

\* The error of the break stands between the frames read and the one that came next.
LEMMA ThenBreak ==
    ASSUME NEW t \in Seq(Frame), NEW f \in Frame, NEW w, w = Append(t, f), Good(w),
           NEW s \in Seq(Frame), Len(s) = Len(t) + 2,
           \A i \in 1 .. Len(t) : s[i] = t[i],
           s[Len(t) + 1] = Failure, s[Len(t) + 2] = f
    PROVE  /\ Reads(s)
           /\ \A i, j \in 1 .. Len(s) : i < j /\ s[i].type = "error" /\ s[j].type = "data"
                 => i = Len(t) + 1 /\ j = Len(t) + 2
<1>0. Len(t) \in Nat
  OBVIOUS
<1>1. /\ w \in Seq(Frame) /\ Len(w) = Len(t) + 1 /\ w[Len(t) + 1] = f
      /\ \A i \in 1 .. Len(t) : w[i] = t[i]
  BY AppendProperties
<1>2. \A i \in 1 .. Len(s) : i \in 1 .. Len(t) \/ i = Len(t) + 1 \/ i = Len(t) + 2
  BY <1>0
\* Where a frame of s that is not the break's error stands in w.
<1> DEFINE At(i) == IF i = Len(t) + 2 THEN Len(t) + 1 ELSE i
<1>3. ASSUME NEW i \in 1 .. Len(s), i # Len(t) + 1
      PROVE  /\ At(i) \in 1 .. Len(w) /\ s[i] = w[At(i)]
             /\ \A j \in 1 .. At(i) - 1 : j \in 1 .. i - 1 /\ s[j] = w[j]
             /\ \A j \in 1 .. i - 1 : j = Len(t) + 1 \/ j \in 1 .. At(i) - 1
  <2>1. CASE i \in 1 .. Len(t)
    <3>1. At(i) = i
      BY <1>0, <2>1
    <3> QED BY <1>0, <1>1, <2>1, <3>1
  <2>2. CASE i = Len(t) + 2
    <3>1. At(i) = Len(t) + 1
      BY <2>2
    <3> QED BY <1>0, <1>1, <2>2, <3>1
  <2> QED BY <1>2, <1>3, <2>1, <2>2
<1> HIDE DEF At
<1>4. ASSUME NEW i \in 1 .. Len(s), s[i].type \in {"data", "progress"} PROVE i # Len(t) + 1
  BY <1>4, FrameFacts
<1>5. ASSUME NEW type \in {"data", "progress"} PROVE InOrder(s, type)
  <2> SUFFICES ASSUME NEW i \in 1 .. Len(s), s[i].type = type
               PROVE  /\ s[i].n = 1
                            \/ \E j \in 1 .. i - 1 : s[j] = [type |-> type, n |-> s[i].n - 1]
                      /\ \A j \in 1 .. i - 1 : s[j].type = type => s[j].n < s[i].n
    BY DEF InOrder
  <2>0. i # Len(t) + 1
    BY <1>4
  <2>1. PICK k \in 1 .. Len(w) :
            /\ s[i] = w[k]
            /\ \A j \in 1 .. k - 1 : j \in 1 .. i - 1 /\ s[j] = w[j]
            /\ \A j \in 1 .. i - 1 : j = Len(t) + 1 \/ j \in 1 .. k - 1
    BY <1>3, <2>0
  <2>2. InOrder(w, type)
    BY DEF Good
  <2>3. /\ w[k].n = 1 \/ \E j \in 1 .. k - 1 : w[j] = [type |-> type, n |-> w[k].n - 1]
        /\ \A j \in 1 .. k - 1 : w[j].type = type => w[j].n < w[k].n
    BY <2>1, <2>2 DEF InOrder
  <2>4. s[Len(t) + 1].type # type
    BY FrameFacts
  <2> QED BY <2>1, <2>3, <2>4
<1>6. ASSUME NEW i \in 1 .. Len(s), s[i].type \in {"data", "progress"}, surface = "ndjson"
      PROVE  \E j \in 1 .. i - 1 : s[j] = Meta
  <2>1. PICK k \in 1 .. Len(w) :
            s[i] = w[k] /\ \A j \in 1 .. k - 1 : j \in 1 .. i - 1 /\ s[j] = w[j]
    BY <1>3, <1>4, <1>6
  <2>2. w[1] = Meta
    BY <1>0, <1>1, <1>6 DEF Good, Opened
  <2>3. k # 1
    BY <1>6, <2>1, <2>2, FrameFacts
  <2>4. 1 \in 1 .. k - 1
    BY <1>0, <1>1, <2>1, <2>3
  <2> QED BY <2>1, <2>2, <2>4
<1>7. ASSUME NEW i \in 1 .. Len(s), NEW j \in 1 .. Len(s), i < j, s[i].type = "error",
             s[j].type = "data"
      PROVE  i = Len(t) + 1 /\ j = Len(t) + 2
  <2>1. CASE i = Len(t) + 1
    BY <1>0, <1>2, <1>7, <2>1
  <2>2. CASE i # Len(t) + 1
    <3>1. i \in 1 .. Len(t)
      BY <1>0, <1>2, <1>7, <2>2
    <3>2. PICK k \in 1 .. Len(w) :
              s[j] = w[k] /\ \A h \in 1 .. j - 1 : h = Len(t) + 1 \/ h \in 1 .. k - 1
      BY <1>3, <1>4, <1>7
    <3>3. i \in 1 .. k - 1 /\ i \in 1 .. Len(w) /\ s[i] = w[i]
      BY <1>0, <1>1, <1>7, <2>2, <3>1, <3>2
    <3> QED BY <1>0, <1>1, <1>7, <3>2, <3>3 DEF Good, NoDataAfterError
  <2> QED BY <2>1, <2>2
<1> QED BY <1>5, <1>6, <1>7 DEF Reads

\* Over either framing, with a slow, failing or vanishing peer on both sides, the app
\* reads a prefix of the object in order, also past the error of a broken connection;
\* the only data after an error is the line that was cut just before its newline.
THEOREM ReadsInOrder == SdkSpec => []ReadsPrefix
<1>1. DownloadInv => ReadsPrefix
  <2> SUFFICES ASSUME DownloadInv PROVE ReadsPrefix
    OBVIOUS
  <2>1. TypeOK /\ Good(Stream) /\ TailOK
    BY DEF DownloadInv, StreamOK
  <2>2. /\ got \in Seq(Frame) /\ Stream \in Seq(Frame) /\ PrefixOf(got, Stream)
    <3>1. /\ got \in Seq(Frame) /\ lines \in Seq(Frame) /\ Len(got) \in Nat
          /\ Len(lines) \in Nat
      BY <2>1 DEF TypeOK
    <3>2. /\ Stream \in Seq(Frame) /\ Len(Stream) = Len(got) + Len(lines)
          /\ \A i \in 1 .. Len(got) + Len(lines) :
                Stream[i] = IF i <= Len(got) THEN got[i] ELSE lines[i - Len(got)]
      BY <3>1, ConcatProperties DEF Stream
    <3> QED BY <3>1, <3>2 DEF PrefixOf
  <2>3. PICK t : t = SubSeq(got, 1, taken)
    OBVIOUS
  <2>4. /\ t \in Seq(Frame) /\ Len(t) = taken /\ PrefixOf(t, got) /\ taken \in Nat
        /\ Len(tail) \in Nat /\ Len(Seen) = taken + Len(tail) /\ Seen \in Seq(Frame)
        /\ \A i \in 1 .. Len(Seen) : Seen[i] = IF i <= taken THEN t[i] ELSE tail[i - taken]
    BY <2>1, <2>3, SeenShape
  <2>5. Good(t)
    BY <2>1, <2>2, <2>4, PrefixIsGood
  <2>6. PICK s \in Seq(Frame) : s = Seen
    BY <2>4
  <2>7. CASE \A i \in 1 .. Len(tail) : tail[i] = Failure
    <3>1. \A i \in 1 .. Len(s) : s[i] = IF i <= Len(t) THEN t[i] ELSE Failure
      <4> SUFFICES ASSUME NEW i \in 1 .. Len(s), ~(i <= taken) PROVE s[i] = Failure
        BY <2>4, <2>6
      <4>1. i - taken \in 1 .. Len(tail)
        BY <2>4, <2>6
      <4> QED BY <2>4, <2>6, <2>7, <4>1
    <3>2. Len(t) <= Len(s)
      BY <2>4, <2>6
    <3>3. /\ Reads(s)
          /\ \A i, j \in 1 .. Len(s) : i < j /\ s[i].type = "error" => s[j].type # "data"
      BY <2>4, <2>5, <3>1, <3>2, ThenErrors
    <3> QED BY <2>6, <3>3 DEF Reads, ReadsPrefix
  <2>8. ASSUME NEW f \in Frame, link = "told", tail = <<Failure, f>>, surface = "ndjson",
               Good(Append(got, f))
        PROVE  ReadsPrefix
    <3>1. taken = Len(got) /\ Len(tail) = 2 /\ tail[1] = Failure /\ tail[2] = f
      BY <2>1, <2>8 DEF TailOK
    <3>2. t = got
      <4>1. Len(t) = Len(got) /\ \A i \in 1 .. Len(got) : t[i] = got[i]
        BY <2>4, <3>1 DEF PrefixOf
      <4> QED BY <2>2, <2>4, <4>1, SeqEqual
    <3>3. PICK w : w = Append(t, f)
      OBVIOUS
    <3>4. Good(w)
      BY <2>8, <3>2, <3>3
    <3>5. Len(s) = Len(t) + 2 /\ \A i \in 1 .. Len(t) : s[i] = t[i]
      BY <2>4, <2>6, <3>1
    <3>6. s[Len(t) + 1] = Failure /\ s[Len(t) + 2] = f
      <4>1. /\ Len(t) + 1 \in 1 .. Len(s) /\ ~(Len(t) + 1 <= taken) /\ Len(t) + 1 - taken = 1
            /\ Len(t) + 2 \in 1 .. Len(s) /\ ~(Len(t) + 2 <= taken) /\ Len(t) + 2 - taken = 2
        BY <2>4, <3>5
      <4> QED BY <2>4, <2>6, <3>1, <4>1
    <3>7. /\ Reads(s)
          /\ \A i, j \in 1 .. Len(s) : i < j /\ s[i].type = "error" /\ s[j].type = "data"
                => i = Len(t) + 1 /\ j = Len(t) + 2
      BY <2>4, <3>3, <3>4, <3>5, <3>6, ThenBreak
    <3>8. \A i, j \in 1 .. Len(Seen) :
              i < j /\ Seen[i].type = "error" /\ Seen[j].type = "data" => CutBeforeNewline(i, j)
      <4> SUFFICES ASSUME NEW i \in 1 .. Len(Seen), NEW j \in 1 .. Len(Seen), i < j,
                          Seen[i].type = "error", Seen[j].type = "data"
                   PROVE  CutBeforeNewline(i, j)
        OBVIOUS
      <4>1. i = Len(t) + 1 /\ j = Len(t) + 2
        BY <2>6, <3>7
      <4>2. Len(Seen) = taken + 2 /\ Len(t) = taken
        BY <2>4, <3>1
      <4> QED BY <2>4, <2>8, <4>1, <4>2 DEF CutBeforeNewline
    <3> QED BY <2>6, <3>7, <3>8 DEF Reads, ReadsPrefix
  <2>9. CASE link # "told" \/ tail = <<Failure>>
    BY <2>1, <2>7, <2>9 DEF TailOK
  <2>10. CASE link = "told" /\ tail # <<Failure>>
    <3>1. PICK f \in Frame : tail = <<Failure, f>> /\ Cut(f)
      BY <2>1, <2>10 DEF TailOK
    <3>2. CASE f = Failure
      <4>1. tail = <<Failure, Failure>>
        BY <3>1, <3>2
      <4>2. \A i \in 1 .. Len(tail) : tail[i] = Failure
        BY <4>1
      <4> QED BY <2>7, <4>2
    <3>3. CASE f # Failure
      BY <2>8, <2>10, <3>1, <3>3 DEF Cut
    <3> QED BY <3>2, <3>3
  <2> QED BY <2>9, <2>10
<1> QED BY <1>1, Inductive, PTL

\* A stream that ends has handed over the last batch or an error.
THEOREM EndsHonestly == SdkSpec => []EndsWholeOrFailed
<1>1. DownloadInv => EndsWholeOrFailed
  <2> SUFFICES ASSUME DownloadInv, app = "ended", Batches # 0
               PROVE  \E i \in 1 .. Len(Seen) : Seen[i] = Data(Batches) \/ Seen[i].type = "error"
    BY DEF EndsWholeOrFailed
  <2>1. TypeOK /\ TailOK /\ taken = Len(got) /\ (client = "ended" \/ link = "told")
    BY DEF DownloadInv, EndOK
  <2>2. PICK t : t = SubSeq(got, 1, taken)
    OBVIOUS
  <2>3. /\ Len(t) = taken /\ PrefixOf(t, got) /\ taken \in Nat
        /\ Len(tail) \in Nat /\ Len(Seen) = taken + Len(tail)
        /\ \A i \in 1 .. Len(Seen) : Seen[i] = IF i <= taken THEN t[i] ELSE tail[i - taken]
    BY <2>1, <2>2, SeenShape
  <2>4. CASE link = "told"
    <3>1. Len(tail) >= 1 /\ tail[1] = Failure
      BY <2>1, <2>4 DEF TailOK
    <3>2. taken + 1 \in 1 .. Len(Seen) /\ ~(taken + 1 <= taken) /\ taken + 1 - taken = 1
      BY <2>3, <3>1
    <3>3. Seen[taken + 1] = Failure
      BY <2>3, <3>1, <3>2
    <3> QED BY <3>2, <3>3, FrameFacts
  <2>5. CASE client = "ended"
    <3>1. PICK i \in 1 .. Len(got) : got[i] = Data(Batches) \/ got[i].type = "error"
      BY <2>5 DEF DownloadInv, EndOK, Complete
    <3>2. i \in 1 .. Len(Seen) /\ i <= taken /\ Seen[i] = got[i]
      BY <2>1, <2>3, <3>1 DEF PrefixOf
    <3> QED BY <3>1, <3>2
  <2> QED BY <2>1, <2>4, <2>5
<1> QED BY <1>1, Inductive, PTL

=============================================================================
