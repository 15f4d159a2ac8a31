----------------------- MODULE ExternalSigner_proofs -----------------------
(***************************************************************************)
(* Theorems about UploadSessions, for every set of uploads, requests and   *)
(* chunks and any time to live: no session is lost or stored from twice,   *)
(* what is reported complete is stored, and what is kept for a retry can   *)
(* be finished without another payment.                                    *)
(*                                                                         *)
(* Then about a signer that recovers by the guide, for any bound on its    *)
(* retries and either transport: it does not pay for a chunk twice while   *)
(* the first payment stands, and what the SDK tells it about a paid        *)
(* attempt is what the daemon holds.                                       *)
(*                                                                         *)
(* Last about ChunkSessions, the sessions the daemon keeps beside these:   *)
(* no chunk's session is lost or stored from twice.                        *)
(***************************************************************************)
EXTENDS ExternalSigner, ChunkSessions, TLAPS

-----------------------------------------------------------------------------
(* Types.                                                                  *)

LEMMA IdleType == IdleJob \in Job /\ IdleJob.pc = "idle" /\ IdleJob.held = None
BY NoneAssumption DEF IdleJob, Job

\* A finalize that has taken a session knows its upload.
LEMMA Holding ==
    ASSUME TypeOK, NEW t \in Tasks
    PROVE  /\ job[t].held # None <=> job[t].pc \in {"taken", "storing", "mapping"}
           /\ job[t].pc \in {"taken", "storing", "mapping"} =>
                job[t].up \in Uploads /\ job[t].held \in Session
BY NoneAssumption DEF TypeOK, Job

\* A session only grows older.
LEMMA OlderKeeps ==
    ASSUME NEW s \in Session \cup {None}
    PROVE  /\ Older(s) \in Session \cup {None}
           /\ Older(s) = None <=> s = None
           /\ s # None => /\ Older(s).resume = s.resume /\ Older(s).paid = s.paid
                          /\ Older(s).stored = s.stored
                          /\ Older(s).age = IF s.age < TTL THEN s.age + 1 ELSE s.age
<1>1. CASE s = None
  BY <1>1 DEF Older
<1>2. CASE s \in Session
  <2>1. s # None
    BY <1>2, NoneAssumption
  <2>2. CASE ~(s.age < TTL)
    BY <1>2, <2>1, <2>2 DEF Older
  <2>3. CASE s.age < TTL
    <3>1. Older(s) = [s EXCEPT !.age = s.age + 1]
      BY <2>1, <2>3 DEF Older
    <3>2. s.age + 1 \in 0 .. TTL
      BY <1>2, <2>3, ConstantsAssumption DEF Session
    <3>3. [s EXCEPT !.age = s.age + 1] \in Session
      BY <1>2, <3>2 DEF Session
    <3> QED BY <1>2, <2>1, <2>3, <3>1, <3>3, NoneAssumption DEF Session
  <2> QED BY <2>2, <2>3
<1> QED BY <1>1, <1>2

\* A job whose session has aged is a job.
LEMMA OlderJob ==
    ASSUME TypeOK, NEW t \in Tasks
    PROVE  [job[t] EXCEPT !.held = Older(@)] \in Job
<1>1. job[t] \in Job /\ job[t].held \in Session \cup {None}
  BY DEF TypeOK, Job
<1>2. /\ Older(job[t].held) \in Session \cup {None}
      /\ Older(job[t].held) = None <=> job[t].held = None
  BY <1>1, OlderKeeps
<1> QED BY <1>1, <1>2 DEF Job

\* The handle a shortfall leaves is a session that can be resumed.
LEMMA HandleType ==
    ASSUME NEW s \in Session, NEW paid \in SUBSET Chunks, NEW acked \in SUBSET Chunks
    PROVE  /\ Handle(s, paid, acked) \in Session
           /\ Handle(s, paid, acked).resume = TRUE
           /\ Handle(s, paid, acked).paid = paid
           /\ Handle(s, paid, acked).stored = acked
           /\ Handle(s, paid, acked).age = 0
<1>1. 0 \in 0 .. TTL
  BY ConstantsAssumption
<1> DEFINE r1 == [s EXCEPT !.resume = TRUE]
           r2 == [r1 EXCEPT !.paid = paid]
           r3 == [r2 EXCEPT !.stored = acked]
           r4 == [r3 EXCEPT !.age = 0]
<1>2. r1 \in Session /\ r1.resume = TRUE
  BY DEF Session
<1> HIDE DEF r1
<1>3. r2 \in Session /\ r2.resume = TRUE /\ r2.paid = paid
  BY <1>2 DEF Session
<1> HIDE DEF r2
<1>4. r3 \in Session /\ r3.resume = TRUE /\ r3.paid = paid /\ r3.stored = acked
  BY <1>3 DEF Session
<1> HIDE DEF r3
<1>5. r4 \in Session /\ r4.resume = TRUE /\ r4.paid = paid /\ r4.stored = acked /\ r4.age = 0
  BY <1>1, <1>4 DEF Session
<1>6. Handle(s, paid, acked) = r4
  BY DEF Handle, r1, r2, r3
<1> HIDE DEF r4
<1> QED BY <1>5, <1>6

LEMMA InitType == Init => TypeOK
BY IdleType, ConstantsAssumption DEF Init, TypeOK, Fates

LEMMA PeekType ==
    ASSUME TypeOK, NEW t \in Tasks, NEW u \in Uploads, Peek(t, u)
    PROVE  /\ \E j \in Job : j.held = None /\ j.pc = "peeked"
                             /\ job' = [job EXCEPT ![t] = j]
           /\ TypeOK'
<1>1. PICK r \in Resolved(uploads[u]), map \in BOOLEAN :
         job' = [job EXCEPT ![t] = [pc |-> "peeked", up |-> u, art |-> r.art,
                                    paid |-> r.paid, map |-> map, held |-> None]]
  BY DEF Peek
<1>2. uploads[u] \in Session
  BY DEF Peek, TypeOK
<1>3. r.art \in Kinds \cup {"resume"} /\ r.paid \in SUBSET Chunks
  BY <1>2 DEF Resolved, Session, Kinds
<1> DEFINE j == [pc |-> "peeked", up |-> u, art |-> r.art, paid |-> r.paid,
                 map |-> map, held |-> None]
<1>4. j \in Job /\ j.held = None /\ j.pc = "peeked"
  BY <1>3, NoneAssumption DEF Job
<1>5. job' = [job EXCEPT ![t] = j]
  BY <1>1
<1> HIDE DEF j
<1> QED BY <1>4, <1>5 DEF Peek, TypeOK

LEMMA StepType ==
    ASSUME TypeOK, NEW t \in Tasks, Step(t)
    PROVE  TypeOK'
<1>1. job[t] \in Job
  BY DEF TypeOK
<1>2. CASE Take(t)
  <2>1. CASE uploads[job[t].up] = None
    BY <1>2, <2>1, IdleType DEF Take, Finish, TypeOK
  <2>2. CASE uploads[job[t].up] # None
    <3>1. job[t].up \in Uploads
      BY <1>1, <1>2 DEF Take, Job
    <3>2. uploads[job[t].up] \in Session
      BY <2>2, <3>1 DEF TypeOK
    <3> DEFINE j == [job[t] EXCEPT !.pc = "taken", !.held = uploads[job[t].up]]
    <3>3. j \in Job
      BY <1>1, <1>2, <3>2, NoneAssumption DEF Take, Job
    <3>4. job' = [job EXCEPT ![t] = j]
      BY <1>2, <2>2 DEF Take, TypeOK
    <3> HIDE DEF j
    <3> QED BY <1>2, <2>2, <3>1, <3>3, <3>4 DEF Take, TypeOK
  <2> QED BY <2>1, <2>2
<1>3. CASE Dispatch(t)
  <2>1. job[t].up \in Uploads /\ job[t].held \in Session
    BY <1>3, Holding DEF Dispatch
  <2>2. [job[t] EXCEPT !.pc = "storing"] \in Job
    BY <1>1, <1>3 DEF Dispatch, Job
  <2> QED BY <1>3, <2>1, <2>2, IdleType DEF Dispatch, Finish, TypeOK
<1>4. CASE Complete(t)
  <2>1. [job[t] EXCEPT !.pc = "mapping"] \in Job
    BY <1>1, <1>4 DEF Complete, Job
  <2> QED BY <1>4, <2>1, IdleType DEF Complete, Settle, Finish, TypeOK, Fates
<1>5. CASE Partial(t)
  <2>1. /\ job[t].up \in Uploads /\ job[t].held \in Session
        /\ job[t].paid \in SUBSET Chunks
    BY <1>1, <1>5, Holding DEF Partial, Job
  <2>2. PICK acked \in SUBSET (net[job[t].up] \cup job[t].held.stored) :
           uploads' = [uploads EXCEPT ![job[t].up] = Handle(job[t].held, job[t].paid, acked)]
    BY <1>5 DEF Partial
  <2>3. acked \in SUBSET Chunks
    BY <2>1 DEF TypeOK, Session
  <2>4. Handle(job[t].held, job[t].paid, acked) \in Session
    BY <2>1, <2>3, HandleType
  <2>5. uploads' \in [Uploads -> Session \cup {None}]
    BY <2>2, <2>4 DEF TypeOK
  <2> QED BY <1>5, <2>5, IdleType, ConstantsAssumption DEF Partial, Finish, TypeOK
<1>6. CASE PartialUnpaid(t) \/ CoreError(t) \/ MapFails(t)
  BY <1>6, IdleType DEF PartialUnpaid, CoreError, MapFails, Settle, Finish, TypeOK, Fates
<1>7. CASE MapStored(t)
  <2>1. job[t].up \in Uploads
    BY <1>7, Holding DEF MapStored
  <2> QED BY <1>7, <2>1, IdleType DEF MapStored, Settle, Finish, TypeOK, Fates
<1> QED BY <1>2, <1>3, <1>4, <1>5, <1>6, <1>7 DEF Step

LEMMA NextType == TypeOK /\ [Next]_vars => TypeOK'
<1> SUFFICES ASSUME TypeOK, [Next]_vars PROVE TypeOK'
  OBVIOUS
<1>1. ASSUME NEW u \in Uploads, NEW kind \in Kinds, Prepare(u, kind) PROVE TypeOK'
  <2>1. [kind |-> kind, resume |-> FALSE, paid |-> {}, stored |-> {}, age |-> 0] \in Session
    BY ConstantsAssumption DEF Session
  <2> QED BY <1>1, <2>1 DEF Prepare, TypeOK, Fates
<1>2. ASSUME NEW t \in Tasks, NEW c \in Chunks, StoreChunk(t, c) PROVE TypeOK'
  BY <1>2 DEF StoreChunk, TypeOK
<1>3. ASSUME NEW t \in Tasks, CallerLeaves(t) PROVE TypeOK'
  BY <1>3, IdleType DEF CallerLeaves, Finish, TypeOK
<1>4. CASE Tick
  <2>1. uploads' \in [Uploads -> Session \cup {None}]
    BY <1>4, OlderKeeps DEF Tick, TypeOK
  <2>2. job' \in [Tasks -> Job]
    BY <1>4, OlderJob DEF Tick
  <2>3. quiet' \in [Uploads -> 0 .. TTL]
    BY <1>4, ConstantsAssumption DEF Tick, TypeOK
  <2> QED BY <1>4, <2>1, <2>2, <2>3 DEF Tick, TypeOK
<1>5. CASE Sweep
  BY <1>5 DEF Sweep, TypeOK, Fates
<1>6. CASE Restart
  BY <1>6, IdleType DEF Restart, TypeOK, Fates
<1>7. CASE UNCHANGED vars
  BY <1>7 DEF vars, TypeOK
<1> QED BY <1>1, <1>2, <1>3, <1>4, <1>5, <1>6, <1>7, PeekType, StepType DEF Next

\* Every state of every behaviour is well typed.
THEOREM Typing == Spec => []TypeOK
<1> QED BY InitType, NextType, PTL DEF Spec

-----------------------------------------------------------------------------
(* A session is in one place.                                              *)

\* Requests hold what they held, and sessions are where they were.
LEMMA SamePlaces ==
    ASSUME LiveIsKept, fate' = fate,
           \A u \in Uploads : uploads'[u] = None <=> uploads[u] = None,
           \A u \in Uploads : Holders(u)' = Holders(u)
    PROVE  LiveIsKept'
BY DEF LiveIsKept

\* A request that holds nothing becomes another that holds nothing.
LEMMA NothingHeld ==
    ASSUME TypeOK, NEW t \in Tasks, job[t].held = None, NEW j \in Job, j.held = None,
           job' = [job EXCEPT ![t] = j]
    PROVE  \A u \in Uploads : Holders(u)' = Holders(u)
BY DEF TypeOK, Holders

\* A request that holds a session goes on with it.
LEMMA GoesOn ==
    ASSUME TypeOK, NEW t \in Tasks, NEW j, j.held = job[t].held, j.up = job[t].up,
           job' = [job EXCEPT ![t] = j]
    PROVE  \A u \in Uploads : Holders(u)' = Holders(u)
BY DEF TypeOK, Holders

\* The one holder of a session lets go of it.
LEMMA LetsGo ==
    ASSUME TypeOK, LiveIsKept, NEW t \in Tasks, NEW u \in Uploads, u = job[t].up,
           job[t].held # None, Finish(t)
    PROVE  /\ fate[u] = "live" /\ uploads[u] = None
           /\ Holders(u)' = {}
           /\ \A v \in Uploads \ {u} : Holders(v)' = Holders(v)
<1>1. t \in Holders(u)
  BY DEF Holders
<1>2. Holders(u) = {t}
  BY <1>1 DEF LiveIsKept, Holders
<1>3. /\ job'[t].held = None
      /\ \A t2 \in Tasks \ {t} : job'[t2] = job[t2]
  BY IdleType DEF Finish, TypeOK
<1>4. \A v \in Uploads \ {u} : t \notin Holders(v)
  BY DEF Holders
<1> QED BY <1>1, <1>2, <1>3, <1>4 DEF LiveIsKept, Holders

\* An attempt that ends, and one that puts its session back.
LEMMA SettleKeeps ==
    ASSUME TypeOK, LiveIsKept, NEW t \in Tasks, NEW outcome \in Fates \ {"live"},
           job[t].held # None, Settle(t, outcome)
    PROVE  LiveIsKept'
<1>1. PICK u \in Uploads : u = job[t].up
  BY Holding
<1>2. fate'[u] # "live" /\ \A v \in Uploads \ {u} : fate'[v] = fate[v]
  BY <1>1 DEF Settle, TypeOK
<1>3. uploads' = uploads
  BY DEF Settle
<1>4. /\ uploads[u] = None
      /\ Holders(u)' = {}
      /\ \A v \in Uploads \ {u} : Holders(v)' = Holders(v)
  BY <1>1, LetsGo DEF Settle
<1> QED BY <1>2, <1>3, <1>4 DEF LiveIsKept

LEMMA PutBackKeeps ==
    ASSUME TypeOK, LiveIsKept, NEW t \in Tasks, NEW s \in Session, job[t].held # None,
           uploads' = [uploads EXCEPT ![job[t].up] = s], fate' = fate, Finish(t)
    PROVE  LiveIsKept'
<1>1. PICK u \in Uploads : u = job[t].up
  BY Holding
<1>2. uploads'[u] # None /\ \A v \in Uploads \ {u} : uploads'[v] = uploads[v]
  BY <1>1, NoneAssumption DEF TypeOK
<1>3. /\ fate[u] = "live"
      /\ Holders(u)' = {}
      /\ \A v \in Uploads \ {u} : Holders(v)' = Holders(v)
  BY <1>1, LetsGo
<1> QED BY <1>2, <1>3 DEF LiveIsKept

LEMMA TakeKeeps ==
    ASSUME TypeOK, LiveIsKept, NEW t \in Tasks, Take(t)
    PROVE  LiveIsKept'
<1>0. job[t].held = None
  BY Holding DEF Take
<1>1. PICK u \in Uploads : u = job[t].up
  BY DEF Take, TypeOK, Job
<1>2. CASE uploads[u] = None
  <2>1. job' = [job EXCEPT ![t] = IdleJob] /\ uploads' = uploads /\ fate' = fate
    BY <1>1, <1>2 DEF Take, Finish
  <2>2. \A v \in Uploads : Holders(v)' = Holders(v)
    BY <1>0, <2>1, IdleType, NothingHeld
  <2> QED BY <2>1, <2>2, SamePlaces
<1>3. CASE uploads[u] # None
  <2>1. Holders(u) = {} /\ fate[u] = "live"
    BY <1>3 DEF LiveIsKept
  <2>2. /\ uploads'[u] = None /\ \A v \in Uploads \ {u} : uploads'[v] = uploads[v]
        /\ fate' = fate
    BY <1>1, <1>3 DEF Take, TypeOK
  <2>3. /\ job'[t].up = u /\ job'[t].held # None
        /\ \A t2 \in Tasks \ {t} : job'[t2] = job[t2]
    <3>1. job' = [job EXCEPT ![t] = [job[t] EXCEPT !.pc = "taken", !.held = uploads[u]]]
      BY <1>1, <1>3 DEF Take, TypeOK
    <3>2. [job[t] EXCEPT !.pc = "taken", !.held = uploads[u]].up = u
      BY <1>1 DEF TypeOK, Job
    <3>3. [job[t] EXCEPT !.pc = "taken", !.held = uploads[u]].held = uploads[u]
      BY DEF TypeOK, Job
    <3> QED BY <1>3, <3>1, <3>2, <3>3 DEF TypeOK
  <2>4. Holders(u)' = {t} /\ \A v \in Uploads \ {u} : Holders(v)' = Holders(v)
    BY <1>0, <2>1, <2>3 DEF Holders
  <2> QED BY <2>1, <2>2, <2>4 DEF LiveIsKept
<1> QED BY <1>2, <1>3

LEMMA StepKeeps ==
    ASSUME TypeOK, LiveIsKept, NEW t \in Tasks, Step(t)
    PROVE  LiveIsKept'
<1>1. CASE Dispatch(t)
  <2>1. job[t].held \in Session /\ job[t].held # None
    BY <1>1, Holding, NoneAssumption DEF Dispatch
  <2>2. CASE Matches(t)
    <3>1. /\ job' = [job EXCEPT ![t] = [job[t] EXCEPT !.pc = "storing"]]
          /\ uploads' = uploads /\ fate' = fate
      BY <1>1, <2>2 DEF Dispatch, TypeOK
    <3>2. /\ [job[t] EXCEPT !.pc = "storing"].held = job[t].held
          /\ [job[t] EXCEPT !.pc = "storing"].up = job[t].up
      BY DEF TypeOK, Job
    <3> QED BY <3>1, <3>2, GoesOn, SamePlaces
  <2>3. CASE ~Matches(t)
    BY <1>1, <2>1, <2>3, PutBackKeeps DEF Dispatch
  <2> QED BY <2>2, <2>3
<1>2. ASSUME NEW outcome \in Fates \ {"live"}, Settle(t, outcome),
             job[t].pc \in {"storing", "mapping"}
      PROVE  LiveIsKept'
  BY <1>2, Holding, SettleKeeps
<1>3. CASE Complete(t)
  <2>1. CASE ~job[t].map
    BY <1>2, <1>3, <2>1 DEF Complete, Fates
  <2>2. CASE job[t].map
    <3>1. /\ job' = [job EXCEPT ![t] = [job[t] EXCEPT !.pc = "mapping"]]
          /\ uploads' = uploads /\ fate' = fate
      BY <1>3, <2>2 DEF Complete, TypeOK
    <3>2. /\ [job[t] EXCEPT !.pc = "mapping"].held = job[t].held
          /\ [job[t] EXCEPT !.pc = "mapping"].up = job[t].up
      BY DEF TypeOK, Job
    <3> QED BY <3>1, <3>2, GoesOn, SamePlaces
  <2> QED BY <2>1, <2>2
<1>4. CASE Partial(t)
  <2>1. /\ job[t].held \in Session /\ job[t].held # None
        /\ job[t].paid \in SUBSET Chunks
    BY <1>4, Holding, NoneAssumption DEF Partial, TypeOK, Job
  <2>2. PICK acked \in SUBSET (net[job[t].up] \cup job[t].held.stored) :
           uploads' = [uploads EXCEPT ![job[t].up] = Handle(job[t].held, job[t].paid, acked)]
    BY <1>4 DEF Partial
  <2>3. acked \in SUBSET Chunks
    BY <1>4, <2>1, Holding DEF Partial, TypeOK, Session
  <2>4. Handle(job[t].held, job[t].paid, acked) \in Session
    BY <2>1, <2>3, HandleType
  <2> QED BY <1>4, <2>1, <2>2, <2>4, PutBackKeeps DEF Partial
<1>5. CASE PartialUnpaid(t) \/ CoreError(t) \/ MapFails(t) \/ MapStored(t)
  BY <1>2, <1>5 DEF PartialUnpaid, CoreError, MapFails, MapStored, Fates
<1> QED BY <1>1, <1>3, <1>4, <1>5, TakeKeeps DEF Step

LEMMA NextKeeps == TypeOK /\ LiveIsKept /\ [Next]_vars => LiveIsKept'
<1> SUFFICES ASSUME TypeOK, LiveIsKept, [Next]_vars PROVE LiveIsKept'
  OBVIOUS
<1>1. ASSUME NEW u \in Uploads, NEW kind \in Kinds, Prepare(u, kind) PROVE LiveIsKept'
  <2>1. Holders(u) = {} /\ \A v \in Uploads : Holders(v)' = Holders(v)
    BY <1>1 DEF Prepare, LiveIsKept, Holders
  <2>2. [kind |-> kind, resume |-> FALSE, paid |-> {}, stored |-> {}, age |-> 0] \in Session
    BY ConstantsAssumption DEF Session
  <2>3. /\ uploads'[u] # None /\ fate'[u] = "live"
        /\ \A v \in Uploads \ {u} : uploads'[v] = uploads[v] /\ fate'[v] = fate[v]
    BY <1>1, <2>2, NoneAssumption DEF Prepare, TypeOK
  <2> QED BY <2>1, <2>3 DEF LiveIsKept
<1>2. ASSUME NEW t \in Tasks, NEW u \in Uploads, Peek(t, u) PROVE LiveIsKept'
  <2>1. job[t].held = None
    BY <1>2, Holding DEF Peek
  <2> QED BY <1>2, <2>1, PeekType, NothingHeld, SamePlaces DEF Peek
<1>3. ASSUME NEW t \in Tasks, NEW c \in Chunks, StoreChunk(t, c) PROVE LiveIsKept'
  BY <1>3, SamePlaces DEF StoreChunk, Holders
<1>4. ASSUME NEW t \in Tasks, CallerLeaves(t) PROVE LiveIsKept'
  <2>1. job[t].held = None
    BY <1>4, Holding DEF CallerLeaves, Detached
  <2> QED BY <1>4, <2>1, IdleType, NothingHeld, SamePlaces DEF CallerLeaves, Finish
<1>5. CASE Tick
  <2>1. ASSUME NEW t \in Tasks
        PROVE  job'[t].up = job[t].up /\ (job'[t].held = None <=> job[t].held = None)
    <3>1. job[t].held \in Session \cup {None}
      BY DEF TypeOK, Job
    <3>2. job'[t] = [job[t] EXCEPT !.held = Older(job[t].held)]
      BY <1>5 DEF Tick
    <3>3. job'[t].up = job[t].up /\ job'[t].held = Older(job[t].held)
      BY <3>2 DEF TypeOK, Job
    <3> QED BY <3>1, <3>3, OlderKeeps
  <2>2. \A u \in Uploads : Holders(u)' = Holders(u)
    BY <2>1 DEF Holders
  <2>3. \A u \in Uploads : uploads'[u] = None <=> uploads[u] = None
    BY <1>5, OlderKeeps DEF Tick, TypeOK
  <2> QED BY <1>5, <2>2, <2>3, SamePlaces DEF Tick
<1>6. CASE Sweep
  <2>1. \A u \in Uploads : Holders(u)' = Holders(u)
    BY <1>6 DEF Sweep, Holders
  <2> QED BY <1>6, <2>1 DEF Sweep, Stale, LiveIsKept
<1>7. CASE Restart
  <2>1. \A u \in Uploads : Holders(u)' = {}
    BY <1>7, IdleType DEF Restart, Holders
  <2> QED BY <1>7, <2>1 DEF Restart, LiveIsKept
<1>8. CASE UNCHANGED vars
  BY <1>8, SamePlaces DEF vars, Holders
<1> QED BY <1>1, <1>2, <1>3, <1>4, <1>5, <1>6, <1>7, <1>8, StepKeeps DEF Next

\* finalize_pending, to_completion's store and the sweep: until an upload's session
\* is stored, abandoned, failed, swept or lost to a restart it is in the map or
\* with exactly one finalize.
THEOREM SessionsKept == Spec => []LiveIsKept
<1>1. Init => LiveIsKept
  BY IdleType DEF Init, LiveIsKept, Holders
<1> QED BY <1>1, InitType, NextType, NextKeeps, PTL DEF Spec

-----------------------------------------------------------------------------
(* What is complete is stored.                                             *)

\* A finalize that got as far as the data map has stored every chunk, whatever
\* became of the map.
DoneIsStored ==
    \A u \in Uploads : fate[u] \in {"complete", "unmapped"} => net[u] = Chunks

\* The data map is stored only after the last chunk.
MappedIsStored ==
    \A t \in Tasks : job[t].pc = "mapping" => net[job[t].up] = Chunks

\* The network keeps what it has.
LEMMA NetKeeps ==
    ASSUME TypeOK, [Next]_vars
    PROVE  \A u \in Uploads : net[u] = Chunks => net'[u] = Chunks
<1>1. ASSUME NEW t \in Tasks, NEW c \in Chunks, StoreChunk(t, c)
      PROVE  \A u \in Uploads : net[u] = Chunks => net'[u] = Chunks
  BY <1>1 DEF StoreChunk, TypeOK
<1>2. CASE net' = net
  BY <1>2
<1> QED
  BY <1>1, <1>2 DEF Next, vars, Prepare, Peek, Step, Take, Dispatch, Complete, Partial,
     PartialUnpaid, CoreError, MapStored, MapFails, Settle, CallerLeaves, Tick, Sweep, Restart

LEMMA NextStores ==
    TypeOK /\ DoneIsStored /\ MappedIsStored /\ [Next]_vars
      => DoneIsStored' /\ MappedIsStored'
<1> SUFFICES ASSUME TypeOK, DoneIsStored, MappedIsStored, [Next]_vars
             PROVE  DoneIsStored' /\ MappedIsStored'
  OBVIOUS
<1>1. \A u \in Uploads : net[u] = Chunks => net'[u] = Chunks
  BY NetKeeps
<1>2. ASSUME NEW t \in Tasks, NEW j, j.pc # "mapping", job' = [job EXCEPT ![t] = j]
      PROVE  MappedIsStored'
  <2>1. ASSUME NEW t2 \in Tasks, job'[t2].pc = "mapping" PROVE net'[job'[t2].up] = Chunks
    <3>1. job'[t2] = job[t2] /\ job[t2].up \in Uploads
      BY <1>2, <2>1, Holding DEF TypeOK
    <3> QED BY <1>1, <2>1, <3>1 DEF MappedIsStored
  <2> QED BY <2>1 DEF MappedIsStored
<1>3. ASSUME job' = job PROVE MappedIsStored'
  BY <1>1, <1>3, Holding DEF MappedIsStored
<1>4. ASSUME \A u \in Uploads :
               fate'[u] \in {"complete", "unmapped"} => fate'[u] = fate[u]
      PROVE  DoneIsStored'
  BY <1>1, <1>4 DEF DoneIsStored
<1>5. ASSUME NEW u \in Uploads, NEW kind \in Kinds, Prepare(u, kind)
      PROVE  DoneIsStored' /\ MappedIsStored'
  BY <1>3, <1>4, <1>5 DEF Prepare, TypeOK
<1>6. ASSUME NEW t \in Tasks, NEW u \in Uploads, Peek(t, u)
      PROVE  DoneIsStored' /\ MappedIsStored'
  <2>1. PICK j \in Job : j.pc = "peeked" /\ job' = [job EXCEPT ![t] = j]
    BY <1>6, PeekType
  <2> QED BY <1>2, <1>4, <1>6, <2>1 DEF Peek
<1>7. ASSUME NEW t \in Tasks, NEW outcome \in Fates, Settle(t, outcome),
             job[t].held # None, outcome \in {"complete", "unmapped"} => net[job[t].up] = Chunks
      PROVE  DoneIsStored' /\ MappedIsStored'
  <2>1. MappedIsStored'
    BY <1>2, <1>7, IdleType DEF Settle, Finish
  <2>2. PICK u \in Uploads : u = job[t].up
    BY <1>7, Holding
  <2>3. fate' = [fate EXCEPT ![u] = outcome]
    BY <1>7, <2>2 DEF Settle
  <2> QED BY <1>1, <1>7, <2>1, <2>2, <2>3 DEF DoneIsStored, TypeOK
<1>8. ASSUME NEW t \in Tasks, Step(t) PROVE DoneIsStored' /\ MappedIsStored'
  <2>1. CASE Take(t)
    <3>1. CASE uploads[job[t].up] = None
      BY <1>2, <1>4, <2>1, <3>1, IdleType DEF Take, Finish
    <3>2. CASE uploads[job[t].up] # None
      <4>1. job' = [job EXCEPT ![t] = [job[t] EXCEPT !.pc = "taken",
                                                    !.held = uploads[job[t].up]]]
        BY <2>1, <3>2 DEF Take, TypeOK
      <4>2. [job[t] EXCEPT !.pc = "taken", !.held = uploads[job[t].up]].pc = "taken"
        BY DEF TypeOK, Job
      <4> QED BY <1>2, <1>4, <2>1, <4>1, <4>2 DEF Take
    <3> QED BY <3>1, <3>2
  <2>2. CASE Dispatch(t)
    <3>1. [job[t] EXCEPT !.pc = "storing"].pc = "storing"
      BY DEF TypeOK, Job
    <3>2. PICK j : j.pc # "mapping" /\ job' = [job EXCEPT ![t] = j]
      BY <2>2, <3>1, IdleType DEF Dispatch, Finish, TypeOK
    <3> QED BY <1>2, <1>4, <2>2, <3>2 DEF Dispatch
  <2>3. CASE Complete(t)
    <3>1. job[t].held # None
      BY <2>3, Holding DEF Complete
    <3>2. CASE ~job[t].map
      BY <1>7, <2>3, <3>1, <3>2 DEF Complete, Fates
    <3>3. CASE job[t].map
      <4>1. job[t].up \in Uploads /\ net'[job[t].up] = Chunks
        BY <1>1, <2>3, Holding DEF Complete
      <4>2. job'[t].up = job[t].up /\ \A t2 \in Tasks \ {t} : job'[t2] = job[t2]
        <5>1. job' = [job EXCEPT ![t] = [job[t] EXCEPT !.pc = "mapping"]]
          BY <2>3, <3>3 DEF Complete, TypeOK
        <5>2. [job[t] EXCEPT !.pc = "mapping"].up = job[t].up
          BY DEF TypeOK, Job
        <5> QED BY <5>1, <5>2 DEF TypeOK
      <4>3. MappedIsStored'
        BY <1>1, <4>1, <4>2, Holding DEF MappedIsStored
      <4> QED BY <1>4, <2>3, <3>3, <4>3 DEF Complete
    <3> QED BY <3>2, <3>3
  <2>4. CASE Partial(t)
    BY <1>2, <1>4, <2>4, IdleType DEF Partial, Finish
  <2>5. CASE PartialUnpaid(t) \/ CoreError(t)
    BY <1>7, <2>5, Holding DEF PartialUnpaid, CoreError, Fates
  <2>6. CASE MapStored(t) \/ MapFails(t)
    BY <1>7, <2>6, Holding DEF MapStored, MapFails, MappedIsStored, Fates
  <2> QED BY <1>8, <2>1, <2>2, <2>3, <2>4, <2>5, <2>6 DEF Step
<1>9. ASSUME NEW t \in Tasks, NEW c \in Chunks, StoreChunk(t, c)
      PROVE  DoneIsStored' /\ MappedIsStored'
  BY <1>3, <1>4, <1>9 DEF StoreChunk
<1>10. ASSUME NEW t \in Tasks, CallerLeaves(t) PROVE DoneIsStored' /\ MappedIsStored'
  BY <1>2, <1>4, <1>10, IdleType DEF CallerLeaves, Finish
<1>11. CASE Tick
  <2>1. \A t \in Tasks : job'[t].pc = job[t].pc /\ job'[t].up = job[t].up
    BY <1>11 DEF Tick, TypeOK, Job
  <2>2. MappedIsStored'
    BY <1>1, <2>1, Holding DEF MappedIsStored
  <2> QED BY <1>4, <1>11, <2>2 DEF Tick
<1>12. CASE Sweep
  BY <1>3, <1>4, <1>12 DEF Sweep
<1>13. CASE Restart
  <2>1. MappedIsStored'
    BY <1>13, IdleType DEF Restart, MappedIsStored
  <2> QED BY <1>4, <1>13, <2>1 DEF Restart
<1>14. CASE UNCHANGED vars
  BY <1>3, <1>4, <1>14 DEF vars
<1> QED
  BY <1>5, <1>6, <1>8, <1>9, <1>10, <1>11, <1>12, <1>13, <1>14 DEF Next

-----------------------------------------------------------------------------
(* What is kept for a retry is paid for.                                   *)

CanDrain(s) == s # None => (s.resume => s.paid = Chunks)

Drains ==
    /\ \A u \in Uploads : CanDrain(uploads[u])
    /\ \A t \in Tasks : CanDrain(job[t].held)

LEMMA NextDrains == TypeOK /\ Drains /\ [Next]_vars => Drains'
<1> SUFFICES ASSUME TypeOK, Drains, [Next]_vars PROVE Drains'
  OBVIOUS
<1>1. CanDrain(None)
  BY DEF CanDrain
<1>2. ASSUME NEW t \in Tasks, NEW j, CanDrain(j.held), job' = [job EXCEPT ![t] = j]
      PROVE  \A t2 \in Tasks : CanDrain(job'[t2].held)
  BY <1>2 DEF Drains, TypeOK
<1>3. ASSUME NEW u, NEW s, CanDrain(s), uploads' = [uploads EXCEPT ![u] = s]
      PROVE  \A v \in Uploads : CanDrain(uploads'[v])
  BY <1>3 DEF Drains, TypeOK
<1>4. ASSUME NEW t \in Tasks, Finish(t)
      PROVE  \A t2 \in Tasks : CanDrain(job'[t2].held)
  BY <1>1, <1>2, <1>4, IdleType DEF Finish
<1>5. ASSUME NEW u \in Uploads, NEW kind \in Kinds, Prepare(u, kind) PROVE Drains'
  <2>1. CanDrain([kind |-> kind, resume |-> FALSE, paid |-> {}, stored |-> {}, age |-> 0])
    BY DEF CanDrain
  <2> QED BY <1>3, <1>5, <2>1 DEF Prepare, Drains
<1>6. ASSUME NEW t \in Tasks, NEW u \in Uploads, Peek(t, u) PROVE Drains'
  <2>1. PICK j \in Job : j.held = None /\ job' = [job EXCEPT ![t] = j]
    BY <1>6, PeekType
  <2> QED BY <1>1, <1>2, <1>6, <2>1 DEF Peek, Drains
<1>7. ASSUME NEW t \in Tasks, Take(t) PROVE Drains'
  <2>1. CASE uploads[job[t].up] = None
    BY <1>4, <1>7, <2>1 DEF Take, Drains
  <2>2. CASE uploads[job[t].up] # None
    <3>1. job[t].up \in Uploads
      BY <1>7 DEF Take, TypeOK, Job
    <3>2. job' = [job EXCEPT ![t] = [job[t] EXCEPT !.pc = "taken",
                                                  !.held = uploads[job[t].up]]]
      BY <1>7, <2>2 DEF Take, TypeOK
    <3>3. [job[t] EXCEPT !.pc = "taken", !.held = uploads[job[t].up]].held
            = uploads[job[t].up]
      BY DEF TypeOK, Job
    <3>4. CanDrain(uploads[job[t].up])
      BY <3>1 DEF Drains
    <3>5. \A t2 \in Tasks : CanDrain(job'[t2].held)
      BY <1>2, <3>2, <3>3, <3>4
    <3>6. uploads' = [uploads EXCEPT ![job[t].up] = None]
      BY <1>7, <2>2 DEF Take
    <3> QED BY <1>1, <1>3, <3>5, <3>6 DEF Drains
  <2> QED BY <2>1, <2>2
<1>8. ASSUME NEW t \in Tasks, Dispatch(t) PROVE Drains'
  <2>1. CanDrain(job[t].held)
    BY DEF Drains
  <2>2. CASE Matches(t)
    <3>1. [job[t] EXCEPT !.pc = "storing"].held = job[t].held
      BY DEF TypeOK, Job
    <3>2. job' = [job EXCEPT ![t] = [job[t] EXCEPT !.pc = "storing"]]
      BY <1>8, <2>2 DEF Dispatch, TypeOK
    <3> QED BY <1>2, <1>8, <2>1, <2>2, <3>1, <3>2 DEF Dispatch, Drains
  <2>3. CASE ~Matches(t)
    BY <1>3, <1>4, <1>8, <2>1, <2>3 DEF Dispatch, Drains
  <2> QED BY <2>2, <2>3
<1>9. ASSUME NEW t \in Tasks, NEW outcome, Settle(t, outcome) PROVE Drains'
  BY <1>4, <1>9 DEF Settle, Drains
<1>10. ASSUME NEW t \in Tasks, Complete(t) PROVE Drains'
  <2>1. CASE job[t].map
    <3>1. /\ [job[t] EXCEPT !.pc = "mapping"].held = job[t].held
          /\ CanDrain(job[t].held)
      BY DEF TypeOK, Job, Drains
    <3>2. job' = [job EXCEPT ![t] = [job[t] EXCEPT !.pc = "mapping"]]
      BY <1>10, <2>1 DEF Complete, TypeOK
    <3> QED BY <1>2, <1>10, <2>1, <3>1, <3>2 DEF Complete, Drains
  <2> QED BY <1>9, <1>10, <2>1 DEF Complete
<1>11. ASSUME NEW t \in Tasks, Partial(t) PROVE Drains'
  <2>1. job[t].held \in Session /\ job[t].paid = Chunks
    BY <1>11, Holding DEF Partial, FullyPaid
  <2>2. PICK acked \in SUBSET (net[job[t].up] \cup job[t].held.stored) :
           uploads' = [uploads EXCEPT ![job[t].up] = Handle(job[t].held, job[t].paid, acked)]
    BY <1>11 DEF Partial
  <2>3. acked \in SUBSET Chunks
    BY <1>11, <2>1, Holding DEF Partial, TypeOK, Session
  <2>4. CanDrain(Handle(job[t].held, job[t].paid, acked))
    <3>1. job[t].paid \in SUBSET Chunks
      BY <2>1
    <3>2. Handle(job[t].held, job[t].paid, acked).paid = job[t].paid
      BY <2>1, <2>3, <3>1, HandleType
    <3> QED BY <2>1, <3>2 DEF CanDrain
  <2> QED BY <1>3, <1>4, <1>11, <2>2, <2>4 DEF Partial, Drains
<1>12. ASSUME NEW t \in Tasks, Step(t) PROVE Drains'
  BY <1>7, <1>8, <1>9, <1>10, <1>11, <1>12
     DEF Step, PartialUnpaid, CoreError, MapStored, MapFails
<1>13. ASSUME NEW t \in Tasks, NEW c \in Chunks, StoreChunk(t, c) PROVE Drains'
  BY <1>13 DEF StoreChunk, Drains
<1>14. ASSUME NEW t \in Tasks, CallerLeaves(t) PROVE Drains'
  BY <1>4, <1>14 DEF CallerLeaves, Drains
<1>15. CASE Tick
  <2>1. ASSUME NEW s \in Session \cup {None}, CanDrain(s) PROVE CanDrain(Older(s))
    BY <2>1, OlderKeeps DEF CanDrain
  <2>2. \A u \in Uploads : CanDrain(uploads'[u])
    BY <1>15, <2>1 DEF Tick, Drains, TypeOK
  <2>3. \A t \in Tasks : job'[t].held = Older(job[t].held) /\ job[t].held \in Session \cup {None}
    BY <1>15 DEF Tick, TypeOK, Job
  <2> QED BY <2>1, <2>2, <2>3 DEF Drains
<1>16. CASE Sweep
  BY <1>1, <1>16 DEF Sweep, Drains
<1>17. CASE Restart
  BY <1>1, <1>17, IdleType DEF Restart, Drains
<1>18. CASE UNCHANGED vars
  BY <1>18 DEF vars, Drains
<1> QED
  BY <1>5, <1>6, <1>12, <1>13, <1>14, <1>15, <1>16, <1>17, <1>18 DEF Next

\* merkle_fully_paid: whatever finalizes race, a session that is kept for a retry
\* has every chunk paid for, so its retries can reach the end without the payer.
THEOREM RetriesCanFinish == Spec => []ResumeCanDrain
<1>1. Init => Drains
  BY IdleType DEF Init, Drains, CanDrain
<1>2. Drains => ResumeCanDrain
  BY DEF Drains, CanDrain, ResumeCanDrain, SessionsOf, Holders
<1> QED BY <1>1, <1>2, InitType, NextType, NextDrains, PTL DEF Spec

-----------------------------------------------------------------------------
(* Where a session comes from.                                             *)

LEMMA SessionsIn ==
    ASSUME TypeOK, NEW u \in Uploads, NEW s
    PROVE  s \in SessionsOf(u) <=> \/ s = uploads[u] /\ s # None
                                   \/ \E t \in Tasks : /\ job[t].up = u
                                                       /\ job[t].held = s /\ s # None
BY DEF SessionsOf, Holders

\* A session of u is the one u had before, perhaps older; what a shortfall left
\* of it; or a new one.
Newborn(u, s2) == fate[u] = "unused" /\ s2.age = 0

Retained(u, s, s2) ==
    \E t \in Tasks, acked \in SUBSET Chunks :
        /\ Partial(t) /\ job[t].up = u /\ job[t].held = s
        /\ s.stored \subseteq acked
        /\ s2 = Handle(s, job[t].paid, acked)
        /\ quiet'[u] = 0

Comes(u, s2) ==
    \/ Newborn(u, s2)
    \/ \E s \in SessionsOf(u) : \/ s2 = s /\ quiet'[u] = quiet[u]
                                \/ s2 = Older(s) /\ Tick
                                \/ Retained(u, s, s2)

\* A session of one of two places that did not change.
LEMMA StaysPut ==
    ASSUME TypeOK, NEW u \in Uploads, NEW s2, quiet'[u] = quiet[u],
           \/ s2 = uploads[u] /\ s2 # None
           \/ \E t \in Tasks : job[t].up = u /\ job[t].held = s2 /\ s2 # None
    PROVE  Comes(u, s2)
BY SessionsIn DEF Comes

LEMMA PartialOrigin ==
    ASSUME TypeOK, LiveIsKept, NEW t \in Tasks, Partial(t),
           NEW u \in Uploads, NEW s2,
           \/ s2 = uploads'[u] /\ s2 # None
           \/ \E t2 \in Tasks : job'[t2].up = u /\ job'[t2].held = s2 /\ s2 # None
    PROVE  Comes(u, s2)
<1>1. /\ job[t].up \in Uploads /\ job[t].held \in Session /\ job[t].held # None
  BY Holding, NoneAssumption DEF Partial
<1>2. PICK acked \in SUBSET (net[job[t].up] \cup job[t].held.stored) :
        /\ job[t].held.stored \subseteq acked
        /\ uploads' = [uploads EXCEPT ![job[t].up] = Handle(job[t].held, job[t].paid, acked)]
  BY DEF Partial
<1>3. acked \in SUBSET Chunks
  BY <1>1 DEF TypeOK, Session
<1>4. job' = [job EXCEPT ![t] = IdleJob] /\ quiet' = [quiet EXCEPT ![job[t].up] = 0]
  BY DEF Partial, Finish
<1>5. job'[t].held = None /\ \A t2 \in Tasks \ {t} : job'[t2] = job[t2]
  BY <1>4, IdleType DEF TypeOK
<1>6. CASE u = job[t].up
  <2>1. \A t2 \in Tasks \ {t} : job[t2].up # u \/ job[t2].held = None
    BY <1>1, <1>6 DEF LiveIsKept, Holders
  <2>2. s2 = Handle(job[t].held, job[t].paid, acked)
    BY <1>2, <1>5, <1>6, <2>1 DEF TypeOK
  <2>3. job[t].held \in SessionsOf(u)
    BY <1>1, <1>6, SessionsIn
  <2>4. quiet'[u] = 0
    BY <1>4, <1>6 DEF TypeOK
  <2> QED BY <1>2, <1>3, <1>6, <2>2, <2>3, <2>4 DEF Comes, Retained
<1>7. CASE u # job[t].up
  BY <1>2, <1>4, <1>5, <1>7, StaysPut DEF TypeOK
<1> QED BY <1>6, <1>7

LEMMA StepOrigin ==
    ASSUME TypeOK, LiveIsKept, NEW t \in Tasks, Step(t),
           NEW u \in Uploads, NEW s2,
           \/ s2 = uploads'[u] /\ s2 # None
           \/ \E t2 \in Tasks : job'[t2].up = u /\ job'[t2].held = s2 /\ s2 # None
    PROVE  Comes(u, s2)
<1>1. CASE Partial(t)
  BY <1>1, PartialOrigin
<1>2. ASSUME ~Partial(t) PROVE quiet' = quiet
  BY <1>2 DEF Step, Take, Dispatch, Complete, PartialUnpaid, CoreError, MapStored, MapFails,
              Settle
<1>3. ASSUME Finish(t), quiet' = quiet, uploads' = uploads PROVE Comes(u, s2)
  <2>1. job'[t].held = None /\ \A t2 \in Tasks \ {t} : job'[t2] = job[t2]
    BY <1>3, IdleType DEF Finish, TypeOK
  <2> QED BY <1>3, <2>1, StaysPut
<1>4. ASSUME NEW pc, job' = [job EXCEPT ![t] = [job[t] EXCEPT !.pc = pc]],
             quiet' = quiet, uploads' = uploads
      PROVE  Comes(u, s2)
  <2>1. [job[t] EXCEPT !.pc = pc].up = job[t].up /\ [job[t] EXCEPT !.pc = pc].held = job[t].held
    BY DEF TypeOK, Job
  <2> QED BY <1>4, <2>1, StaysPut DEF TypeOK
<1>5. CASE Take(t) /\ ~Partial(t)
  <2>1. job[t].up \in Uploads
    BY <1>5 DEF Take, TypeOK, Job
  <2>2. CASE uploads[job[t].up] = None
    BY <1>2, <1>3, <1>5, <2>2 DEF Take
  <2>3. CASE uploads[job[t].up] # None
    <3>1. /\ job' = [job EXCEPT ![t] = [job[t] EXCEPT !.pc = "taken",
                                                     !.held = uploads[job[t].up]]]
          /\ uploads' = [uploads EXCEPT ![job[t].up] = None]
      BY <1>5, <2>3 DEF Take, TypeOK
    <3>2. /\ [job[t] EXCEPT !.pc = "taken", !.held = uploads[job[t].up]].up = job[t].up
          /\ [job[t] EXCEPT !.pc = "taken", !.held = uploads[job[t].up]].held
                = uploads[job[t].up]
      BY DEF TypeOK, Job
    <3>3. \A t2 \in Tasks : job'[t2] = IF t2 = t THEN job'[t] ELSE job[t2]
      BY <3>1 DEF TypeOK
    <3>4. job'[t].up = job[t].up /\ job'[t].held = uploads[job[t].up]
      BY <3>1, <3>2 DEF TypeOK
    <3>5. uploads'[u] # None => uploads'[u] = uploads[u]
      BY <2>1, <3>1 DEF TypeOK
    <3> QED BY <1>2, <1>5, <2>1, <3>3, <3>4, <3>5, StaysPut
  <2> QED BY <2>2, <2>3
<1>6. CASE Dispatch(t) /\ ~Partial(t)
  <2>1. CASE Matches(t)
    <3>1. job' = [job EXCEPT ![t] = [job[t] EXCEPT !.pc = "storing"]] /\ uploads' = uploads
      BY <1>6, <2>1 DEF Dispatch, TypeOK
    <3> QED BY <1>2, <1>4, <1>6, <3>1
  <2>2. CASE ~Matches(t)
    <3>1. job[t].up \in Uploads /\ job[t].held # None
      BY <1>6, Holding, NoneAssumption DEF Dispatch
    <3>2. /\ uploads' = [uploads EXCEPT ![job[t].up] = job[t].held]
          /\ job'[t].held = None /\ \A t2 \in Tasks \ {t} : job'[t2] = job[t2]
      BY <1>6, <2>2, IdleType DEF Dispatch, Finish, TypeOK
    <3>3. uploads'[u] = IF u = job[t].up THEN job[t].held ELSE uploads[u]
      BY <3>1, <3>2 DEF TypeOK
    <3> QED BY <1>2, <1>6, <3>1, <3>2, <3>3, StaysPut
  <2> QED BY <2>1, <2>2
<1>7. CASE Complete(t) /\ ~Partial(t)
  <2>1. CASE job[t].map
    <3>1. job' = [job EXCEPT ![t] = [job[t] EXCEPT !.pc = "mapping"]] /\ uploads' = uploads
      BY <1>7, <2>1 DEF Complete, TypeOK
    <3> QED BY <1>2, <1>4, <1>7, <3>1
  <2>2. CASE ~job[t].map
    BY <1>2, <1>3, <1>7, <2>2 DEF Complete, Settle
  <2> QED BY <2>1, <2>2
<1>8. CASE (PartialUnpaid(t) \/ CoreError(t) \/ MapStored(t) \/ MapFails(t)) /\ ~Partial(t)
  BY <1>2, <1>3, <1>8 DEF PartialUnpaid, CoreError, MapStored, MapFails, Settle
<1> QED BY <1>1, <1>5, <1>6, <1>7, <1>8 DEF Step
\* Every session of a next state comes from one of these places.
LEMMA Origins ==
    ASSUME TypeOK, LiveIsKept, [Next]_vars, NEW u \in Uploads, NEW s2 \in SessionsOf(u)'
    PROVE  Comes(u, s2)
<1>1. \/ s2 = uploads'[u] /\ s2 # None
      \/ \E t \in Tasks : job'[t].up = u /\ job'[t].held = s2 /\ s2 # None
  BY DEF SessionsOf, Holders
<1>2. ASSUME NEW v \in Uploads, NEW kind \in Kinds, Prepare(v, kind) PROVE Comes(u, s2)
  <2>1. /\ uploads'[u] = IF u = v
                         THEN [kind |-> kind, resume |-> FALSE, paid |-> {}, stored |-> {},
                               age |-> 0]
                         ELSE uploads[u]
        /\ fate[v] = "unused" /\ quiet' = quiet /\ job' = job
    BY <1>2 DEF Prepare, TypeOK
  <2>2. CASE \E t \in Tasks : job'[t].up = u /\ job'[t].held = s2 /\ s2 # None
    BY <2>1, <2>2, StaysPut
  <2>3. CASE s2 = uploads'[u] /\ s2 # None /\ u = v
    BY <2>1, <2>3 DEF Comes, Newborn
  <2>4. CASE s2 = uploads'[u] /\ s2 # None /\ u # v
    BY <2>1, <2>4, StaysPut
  <2> QED BY <1>1, <2>2, <2>3, <2>4
<1>3. ASSUME NEW t \in Tasks, NEW j, j.held = None, job' = [job EXCEPT ![t] = j],
             UNCHANGED <<uploads, quiet>>
      PROVE  Comes(u, s2)
  BY <1>1, <1>3, StaysPut DEF TypeOK
<1>4. ASSUME NEW t \in Tasks, NEW v \in Uploads, Peek(t, v) PROVE Comes(u, s2)
  <2>1. PICK j \in Job : j.held = None /\ job' = [job EXCEPT ![t] = j]
    BY <1>4, PeekType
  <2> QED BY <1>3, <1>4, <2>1 DEF Peek
<1>5. ASSUME NEW t \in Tasks, Step(t) PROVE Comes(u, s2)
  BY <1>1, <1>5, StepOrigin
<1>6. ASSUME NEW t \in Tasks, CallerLeaves(t) PROVE Comes(u, s2)
  BY <1>3, <1>6, IdleType DEF CallerLeaves, Finish
<1>7. ASSUME UNCHANGED <<uploads, job, quiet>> PROVE Comes(u, s2)
  BY <1>1, <1>7, StaysPut
<1>8. ASSUME NEW t \in Tasks, NEW c \in Chunks, StoreChunk(t, c) PROVE Comes(u, s2)
  BY <1>7, <1>8 DEF StoreChunk
<1>9. CASE Tick
  <2>1. uploads'[u] = Older(uploads[u]) /\ uploads[u] \in Session \cup {None}
    BY <1>9 DEF Tick, TypeOK
  <2>2. CASE s2 = uploads'[u] /\ s2 # None
    BY <1>9, <2>1, <2>2, OlderKeeps, SessionsIn DEF Comes
  <2>3. ASSUME NEW t \in Tasks, job'[t].up = u, job'[t].held = s2, s2 # None
        PROVE  Comes(u, s2)
    <3>1. job'[t] = [job[t] EXCEPT !.held = Older(job[t].held)]
      BY <1>9 DEF Tick
    <3>2. job'[t].up = job[t].up /\ job'[t].held = Older(job[t].held)
      BY <3>1 DEF TypeOK, Job
    <3>3. job[t].held \in Session \cup {None}
      BY DEF TypeOK, Job
    <3> QED BY <1>9, <2>3, <3>2, <3>3, OlderKeeps, SessionsIn DEF Comes
  <2> QED BY <1>1, <2>2, <2>3
<1>10. CASE Sweep
  <2>1. (uploads'[u] = uploads[u] \/ uploads'[u] = None) /\ UNCHANGED <<job, quiet>>
    BY <1>10 DEF Sweep
  <2> QED BY <1>1, <2>1, StaysPut
<1>11. CASE Restart
  BY <1>1, <1>11, IdleType DEF Restart
<1>12. CASE UNCHANGED vars
  BY <1>7, <1>12 DEF vars
<1> QED
  BY <1>2, <1>4, <1>5, <1>6, <1>8, <1>9, <1>10, <1>11, <1>12 DEF Next

\* A session is live, and the only one of its upload.
LEMMA OneSession ==
    ASSUME TypeOK, LiveIsKept, NEW u \in Uploads, NEW s \in SessionsOf(u)
    PROVE  /\ fate[u] = "live" /\ s \in Session
           /\ \A r \in SessionsOf(u) : r = s
<1>1. fate[u] = "live"
  BY DEF SessionsOf, LiveIsKept
<1>2. s \in Session
  <2>1. uploads[u] \in Session \cup {None} /\ \A t \in Tasks : job[t].held \in Session \cup {None}
    BY DEF TypeOK, Job
  <2> QED BY <2>1, SessionsIn
<1>3. \A r \in SessionsOf(u) : r = s
  BY DEF SessionsOf, LiveIsKept
<1> QED BY <1>1, <1>2, <1>3

\* While a store has the session, only its own shortfall puts one back.
LEMMA OnlyHandlesComeBack ==
    ASSUME TypeOK, LiveIsKept, [Next]_vars, NEW u \in Uploads, NEW t \in Tasks,
           job[t].up = u, job[t].pc = "storing", uploads'[u] # None
    PROVE  uploads'[u].resume
<1>1. t \in Holders(u) /\ uploads[u] = None /\ fate[u] = "live" /\ \A r \in Holders(u) : r = t
  BY Holding DEF Holders, LiveIsKept
<1>2. uploads'[u] \in SessionsOf(u)'
  BY DEF SessionsOf
<1>3. uploads'[u] # uploads[u]
  BY <1>1
<1>4. ASSUME NEW t2 \in Tasks, Step(t2) PROVE uploads'[u].resume
  <2>1. CASE Partial(t2)
    <3>1. /\ job[t2].up \in Uploads /\ job[t2].held \in Session
          /\ job[t2].paid \in SUBSET Chunks
      BY <2>1, Holding DEF Partial, TypeOK, Job
    <3>2. PICK acked \in SUBSET (net[job[t2].up] \cup job[t2].held.stored) :
            uploads' = [uploads EXCEPT ![job[t2].up] =
                          Handle(job[t2].held, job[t2].paid, acked)]
      BY <2>1 DEF Partial
    <3>3. acked \in SUBSET Chunks
      BY <3>1 DEF TypeOK, Session
    <3>4. uploads'[u] = Handle(job[t2].held, job[t2].paid, acked)
      BY <1>3, <3>1, <3>2 DEF TypeOK
    <3>5. Handle(job[t2].held, job[t2].paid, acked).resume = TRUE
      BY <3>1, <3>3, HandleType
    <3> QED BY <3>4, <3>5
  <2>2. CASE Take(t2)
    BY <1>1, <2>2 DEF Take, TypeOK
  <2>3. CASE Dispatch(t2)
    <3>1. job[t2].up \in Uploads /\ job[t2].held # None
      BY <2>3, Holding, NoneAssumption DEF Dispatch
    <3>2. job[t2].up = u
      BY <1>1, <2>3, <3>1 DEF Dispatch, TypeOK
    <3>3. t2 = t
      BY <1>1, <3>1, <3>2 DEF Holders
    <3> QED BY <2>3, <3>3 DEF Dispatch
  <2>4. CASE uploads' = uploads
    BY <1>1, <2>4
  <2> QED
    BY <1>4, <2>1, <2>2, <2>3, <2>4
       DEF Step, Complete, PartialUnpaid, CoreError, MapStored, MapFails, Settle
<1>5. CASE Tick
  BY <1>1, <1>5 DEF Tick, Older
<1>6. CASE Sweep \/ Restart
  BY <1>1, <1>6 DEF Sweep, Restart
<1>7. ASSUME NEW v \in Uploads, NEW kind \in Kinds, Prepare(v, kind) PROVE FALSE
  BY <1>1, <1>7 DEF Prepare, TypeOK
<1>8. CASE uploads' = uploads
  BY <1>1, <1>8
<1> QED
  BY <1>4, <1>5, <1>6, <1>7, <1>8 DEF Next, vars, Peek, StoreChunk, CallerLeaves

Advances ==
    \A u \in Uploads :
        /\ \A s \in SessionsOf(u) : \A s2 \in SessionsOf(u)' :
              s.resume => s2.resume /\ s.stored \subseteq s2.stored
        /\ \A t \in Tasks :
              job[t].up = u /\ job[t].pc = "storing" /\ uploads'[u] # None
                 => uploads'[u].resume

LEMMA NextAdvances == TypeOK /\ LiveIsKept /\ [Next]_vars => Advances
<1> SUFFICES ASSUME TypeOK, LiveIsKept, [Next]_vars, NEW u \in Uploads
             PROVE  /\ \A s \in SessionsOf(u) : \A s2 \in SessionsOf(u)' :
                          s.resume => s2.resume /\ s.stored \subseteq s2.stored
                    /\ \A t \in Tasks :
                          job[t].up = u /\ job[t].pc = "storing" /\ uploads'[u] # None
                             => uploads'[u].resume
  BY DEF Advances
<1>1. ASSUME NEW s \in SessionsOf(u), NEW s2 \in SessionsOf(u)', s.resume
      PROVE  s2.resume /\ s.stored \subseteq s2.stored
  <2>1. fate[u] = "live" /\ s \in Session /\ \A r \in SessionsOf(u) : r = s
    BY OneSession
  <2>2. Comes(u, s2)
    BY Origins
  <2>3. s2 = s \/ s2 = Older(s) \/ Retained(u, s, s2)
    BY <2>1, <2>2 DEF Comes, Newborn
  <2>4. CASE s2 = Older(s)
    BY <1>1, <2>1, <2>4, OlderKeeps, NoneAssumption
  <2>5. CASE Retained(u, s, s2)
    <3>1. PICK t \in Tasks, acked \in SUBSET Chunks :
            s.stored \subseteq acked /\ s2 = Handle(s, job[t].paid, acked)
      BY <2>5 DEF Retained
    <3>2. job[t].paid \in SUBSET Chunks
      BY DEF TypeOK, Job
    <3> QED BY <2>1, <3>1, <3>2, HandleType
  <2> QED BY <1>1, <2>3, <2>4, <2>5
<1>2. ASSUME NEW t \in Tasks, job[t].up = u, job[t].pc = "storing", uploads'[u] # None
      PROVE  uploads'[u].resume
  BY <1>2, OnlyHandlesComeBack
<1> QED BY <1>1, <1>2

\* TimestampedUpload::resume and the put-back of finalize_pending: whatever races,
\* a session that comes back from a store asks for no payment again, and one that
\* was retained stays so and forgets no stored chunk.
THEOREM PaymentsAreKept == Spec => ResumeNeverRegresses
<1>1. TypeOK /\ LiveIsKept /\ [Next]_vars => [Advances]_vars
  BY NextAdvances
<1> QED BY <1>1, Typing, SessionsKept, PTL DEF Spec, ResumeNeverRegresses, Advances

-----------------------------------------------------------------------------
(* How long a session is kept.                                             *)

\* A session is no older than its upload has been quiet: a shortfall starts both
\* again.
Fresh == \A u \in Uploads : \A s \in SessionsOf(u) : s.age <= quiet[u]

LEMMA NextFresh == TypeOK /\ LiveIsKept /\ Fresh /\ TypeOK' /\ [Next]_vars => Fresh'
<1> SUFFICES ASSUME TypeOK, LiveIsKept, Fresh, TypeOK', [Next]_vars,
                    NEW u \in Uploads, NEW s2 \in SessionsOf(u)'
             PROVE  s2.age <= quiet'[u]
  BY DEF Fresh
<1>1. Comes(u, s2)
  BY Origins
<1>2. quiet[u] \in 0 .. TTL /\ quiet'[u] \in 0 .. TTL
  BY DEF TypeOK
<1>3. CASE Newborn(u, s2)
  BY <1>2, <1>3, ConstantsAssumption DEF Newborn
<1>4. ASSUME NEW s \in SessionsOf(u), s2 = s, quiet'[u] = quiet[u] PROVE s2.age <= quiet'[u]
  BY <1>4 DEF Fresh
<1>5. ASSUME NEW s \in SessionsOf(u), s2 = Older(s), Tick PROVE s2.age <= quiet'[u]
  <2>1. fate[u] = "live" /\ s \in Session /\ s # None /\ s.age <= quiet[u] /\ s.age \in 0 .. TTL
    BY OneSession, NoneAssumption DEF Fresh, Session
  <2>2. quiet'[u] = IF quiet[u] < TTL THEN quiet[u] + 1 ELSE quiet[u]
    BY <1>5, <2>1 DEF Tick
  <2>3. s2.age = IF s.age < TTL THEN s.age + 1 ELSE s.age
    BY <1>5, <2>1, OlderKeeps
  <2> QED BY <1>2, <2>1, <2>2, <2>3, ConstantsAssumption
<1>6. ASSUME NEW s \in SessionsOf(u), Retained(u, s, s2) PROVE s2.age <= quiet'[u]
  <2>1. PICK t \in Tasks, acked \in SUBSET Chunks :
          s2 = Handle(s, job[t].paid, acked) /\ quiet'[u] = 0
    BY <1>6 DEF Retained
  <2>2. job[t].paid \in SUBSET Chunks /\ s \in Session
    BY OneSession DEF TypeOK, Job
  <2>3. Handle(s, job[t].paid, acked).age = 0
    BY <2>2, HandleType
  <2> QED BY <1>2, <2>1, <2>3
<1> QED BY <1>1, <1>3, <1>4, <1>5, <1>6 DEF Comes

SweptLate == \A u \in Uploads : fate[u] = "live" /\ fate'[u] = "expired" => quiet[u] = TTL

LEMMA OnlySweepExpires ==
    ASSUME TypeOK, [Next]_vars, ~Sweep
    PROVE  \A u \in Uploads : fate[u] = "live" => fate'[u] # "expired"
<1>1. ASSUME NEW t \in Tasks, NEW outcome, outcome # "expired", Settle(t, outcome)
      PROVE  \A u \in Uploads : fate[u] = "live" => fate'[u] # "expired"
  BY <1>1 DEF Settle, TypeOK
<1>2. ASSUME NEW u \in Uploads, NEW kind \in Kinds, Prepare(u, kind)
      PROVE  \A v \in Uploads : fate[v] = "live" => fate'[v] # "expired"
  BY <1>2 DEF Prepare, TypeOK
<1>3. CASE Restart
  BY <1>3 DEF Restart
<1>4. CASE fate' = fate
  BY <1>4
<1> QED
  BY <1>1, <1>2, <1>3, <1>4
     DEF Next, vars, Peek, Step, Take, Dispatch, Complete, Partial, PartialUnpaid, CoreError,
         MapStored, MapFails, StoreChunk, CallerLeaves, Tick

LEMMA NextSweptLate == TypeOK /\ Fresh /\ [Next]_vars => SweptLate
<1> SUFFICES ASSUME TypeOK, Fresh, [Next]_vars, NEW u \in Uploads,
                    fate[u] = "live", fate'[u] = "expired"
             PROVE  quiet[u] = TTL
  BY DEF SweptLate
<1>1. Sweep
  BY OnlySweepExpires
<1>2. uploads[u] # None /\ uploads[u].age >= TTL
  BY <1>1 DEF Sweep, Stale
<1>3. uploads[u] \in SessionsOf(u) /\ uploads[u] \in Session
  BY <1>2 DEF SessionsOf, TypeOK
<1>4. uploads[u].age <= quiet[u] /\ quiet[u] \in 0 .. TTL /\ uploads[u].age \in 0 .. TTL
  BY <1>3 DEF Fresh, TypeOK, Session
<1> QED BY <1>2, <1>4, ConstantsAssumption

\* TimestampedUpload::resume and cleanup_stale_uploads: the sweep takes no session
\* before a whole TTL has gone by since it was prepared or its last shortfall was
\* reported.
THEOREM RetryWindow == Spec => FullRetryWindow
<1>1. Init => Fresh
  BY IdleType DEF Init, Fresh, SessionsOf, Holders
<1>2. TypeOK /\ Fresh /\ [Next]_vars => [SweptLate]_vars
  BY NextSweptLate
<1>3. Spec => []Fresh
  BY <1>1, InitType, NextType, NextKeeps, NextFresh, SessionsKept, PTL DEF Spec
<1> QED BY <1>2, <1>3, Typing, PTL DEF Spec, FullRetryWindow, SweptLate

-----------------------------------------------------------------------------
(* The signer's state.                                                     *)

Phases == {"start", "prepared", "ready", "waiting", "restart", "done", "stopped"}

Counts == {NoCount} \cup {Cardinality(S) : S \in SUBSET Chunks}

Signer == [phase: Phases, up: Uploads \cup {None}, task: Tasks \cup {None},
           told: Retentions, attempts: Nat, failed: Counts, unanswered: SUBSET Tasks]

SignerTypeOK ==
    /\ TypeOK
    /\ signer \in Signer
    /\ covered \in [Uploads -> SUBSET Chunks]

\* The updates of the signer's record, field by field.
Turning(s, phase, task) == [s EXCEPT !.phase = phase, !.task = task]
Opening(s, u) == [s EXCEPT !.phase = "prepared", !.up = u]
Sending(s, t) == [s EXCEPT !.phase = "waiting", !.task = t, !.told = "silent"]
Parting(s) == [s EXCEPT !.phase = "ready", !.task = None, !.unanswered = @ \cup {s.task}]

LEMMA Ending ==
    ASSUME NEW s \in Signer, NEW phase \in Phases, NEW task \in Tasks \cup {None},
           NEW r, r = Turning(s, phase, task)
    PROVE  /\ r \in Signer /\ r.phase = phase /\ r.task = task
           /\ r.up = s.up /\ r.told = s.told /\ r.unanswered = s.unanswered
BY DEF Signer, Turning

LEMMA Preparing ==
    ASSUME NEW s \in Signer, NEW u \in Uploads,
           NEW r, r = Opening(s, u)
    PROVE  /\ r \in Signer /\ r.phase = "prepared" /\ r.up = u /\ r.task = s.task
BY DEF Signer, Phases, Opening

LEMMA Asking ==
    ASSUME NEW s \in Signer, NEW t \in Tasks,
           NEW r, r = Sending(s, t)
    PROVE  /\ r \in Signer /\ r.phase = "waiting" /\ r.task = t /\ r.told = "silent"
           /\ r.up = s.up /\ r.unanswered = s.unanswered
<1> DEFINE r1 == [s EXCEPT !.phase = "waiting"]
           r2 == [r1 EXCEPT !.task = t]
           r3 == [r2 EXCEPT !.told = "silent"]
<1>1. /\ r1 \in Signer /\ r1.phase = "waiting" /\ r1.up = s.up
      /\ r1.unanswered = s.unanswered
  BY DEF Signer, Phases
<1> HIDE DEF r1
<1>2. /\ r2 \in Signer /\ r2.phase = "waiting" /\ r2.up = s.up /\ r2.task = t
      /\ r2.unanswered = s.unanswered
  BY <1>1 DEF Signer
<1> HIDE DEF r2
<1>3. /\ r3 \in Signer /\ r3.phase = "waiting" /\ r3.up = s.up /\ r3.task = t
      /\ r3.told = "silent" /\ r3.unanswered = s.unanswered
  BY <1>2 DEF Signer, Retentions
<1>4. r = r3
  BY DEF r1, r2, Sending
<1> HIDE DEF r3
<1> QED BY <1>3, <1>4

LEMMA TimingOut ==
    ASSUME NEW s \in Signer, s.task \in Tasks,
           NEW r, r = Parting(s)
    PROVE  /\ r \in Signer /\ r.phase = "ready" /\ r.up = s.up /\ r.told = s.told
           /\ r.task = None
           /\ r.unanswered = s.unanswered \cup {s.task}
<1> DEFINE r1 == [s EXCEPT !.phase = "ready"]
           r2 == [r1 EXCEPT !.task = None]
           r3 == [r2 EXCEPT !.unanswered = s.unanswered \cup {s.task}]
<1>1. /\ r1 \in Signer /\ r1.phase = "ready" /\ r1.up = s.up /\ r1.told = s.told
      /\ r1.unanswered = s.unanswered
  BY DEF Signer, Phases
<1> HIDE DEF r1
<1>2. /\ r2 \in Signer /\ r2.phase = "ready" /\ r2.up = s.up /\ r2.told = s.told
      /\ r2.task = None
      /\ r2.unanswered = s.unanswered
  BY <1>1 DEF Signer
<1> HIDE DEF r2
<1>3. s.unanswered \cup {s.task} \in SUBSET Tasks
  BY DEF Signer
<1>4. /\ r3 \in Signer /\ r3.phase = "ready" /\ r3.up = s.up /\ r3.told = s.told
      /\ r3.task = None
      /\ r3.unanswered = s.unanswered \cup {s.task}
  BY <1>2, <1>3 DEF Signer
<1>5. r = r3
  BY DEF Parting, r1, r2, Signer
<1> HIDE DEF r3
<1> QED BY <1>4, <1>5

\* A loop that starts over, on a payment or a later try, or goes on.
Looping(s, a, c) == [s EXCEPT !.phase = "ready", !.attempts = a, !.failed = c]

LEMMA Counting ==
    ASSUME NEW s \in Signer, NEW a \in Nat, NEW c \in Counts
    PROVE  /\ Looping(s, a, c) \in Signer /\ Looping(s, a, c).phase = "ready"
           /\ Looping(s, a, c).up = s.up /\ Looping(s, a, c).told = s.told
           /\ Looping(s, a, c).unanswered = s.unanswered /\ Looping(s, a, c).task = s.task
<1> DEFINE r1 == [s EXCEPT !.phase = "ready"]
           r2 == [r1 EXCEPT !.attempts = a]
           r3 == [r2 EXCEPT !.failed = c]
<1>1. /\ r1 \in Signer /\ r1.phase = "ready" /\ r1.up = s.up /\ r1.told = s.told
      /\ r1.unanswered = s.unanswered /\ r1.task = s.task
  BY DEF Signer, Phases
<1> HIDE DEF r1
<1>2. /\ r2 \in Signer /\ r2.phase = "ready" /\ r2.up = s.up /\ r2.told = s.told
      /\ r2.unanswered = s.unanswered /\ r2.task = s.task
  BY <1>1 DEF Signer
<1> HIDE DEF r2
<1>3. /\ r3 \in Signer /\ r3.phase = "ready" /\ r3.up = s.up /\ r3.told = s.told
      /\ r3.unanswered = s.unanswered /\ r3.task = s.task
  BY <1>2 DEF Signer
<1>4. Looping(s, a, c) = r3
  BY DEF Looping, r1, r2
<1> HIDE DEF r3
<1> QED BY <1>3, <1>4

LEMMA Paying ==
    ASSUME NEW s \in Signer,
           NEW r, r = [s EXCEPT !.phase = "ready", !.attempts = 0, !.failed = NoCount,
                              !.unanswered = {}]
    PROVE  r \in Signer /\ r.phase = "ready" /\ r.up = s.up /\ r.task = s.task
<1> DEFINE r1 == Looping(s, 0, NoCount)
           r2 == [r1 EXCEPT !.unanswered = {}]
<1>1. NoCount \in Counts
  BY DEF Counts
<1>2. r1 \in Signer /\ r1.phase = "ready" /\ r1.up = s.up /\ r1.task = s.task
  BY <1>1, Counting
<1>3. r = r2
  BY DEF Looping
<1> HIDE DEF r1
<1>4. r2 \in Signer /\ r2.phase = "ready" /\ r2.up = s.up /\ r2.task = s.task
  BY <1>2 DEF Signer
<1> QED BY <1>3, <1>4

\* finalize_with_retry goes on with the same upload, and prepares anew only after
\* an answer that says nothing is kept.
LEMMA HearsPartialType ==
    ASSUME NEW s \in Signer, NEW retention \in Retentions, NEW S \in SUBSET Chunks,
           NEW r, r = HearsPartial(s, retention, Cardinality(S))
    PROVE  /\ r \in Signer /\ r.up = s.up /\ r.told = retention
           /\ r.unanswered = s.unanswered /\ r.task = None
           /\ r.phase = IF retention = "dropped" THEN "restart" ELSE "ready"
<1> DEFINE heard1 == [s EXCEPT !.task = None]
           heard == [heard1 EXCEPT !.told = retention]
<1>1. /\ heard1 \in Signer /\ heard1.up = s.up /\ heard1.unanswered = s.unanswered
      /\ heard1.task = None
  BY DEF Signer
<1>2. [s EXCEPT !.task = None, !.told = retention] = heard
  OBVIOUS
<1> HIDE DEF heard1
<1>3. /\ heard \in Signer /\ heard.up = s.up /\ heard.unanswered = s.unanswered
      /\ heard.told = retention /\ heard.task = None
  BY <1>1 DEF Signer
<1>4. r =
        IF retention = "dropped" THEN [heard EXCEPT !.phase = "restart"]
        ELSE IF retention = "kept" /\ s.attempts + 1 < MaxAttempts /\ Cardinality(S) < s.failed
        THEN [heard EXCEPT !.phase = "ready", !.attempts = heard.attempts + 1,
                           !.failed = Cardinality(S)]
        ELSE [heard EXCEPT !.phase = "ready", !.attempts = 0, !.failed = NoCount]
  BY <1>2, <1>3 DEF HearsPartial
<1> HIDE DEF heard
<1>5. Cardinality(S) \in Counts /\ NoCount \in Counts /\ heard.attempts + 1 \in Nat
  BY <1>3 DEF Counts, Signer
<1>6. CASE retention = "dropped"
  BY <1>3, <1>4, <1>6 DEF Signer, Phases
<1>7. CASE retention # "dropped"
  <2>1. PICK a \in Nat, c \in Counts :
          r = Looping(heard, a, c)
    BY <1>4, <1>5, <1>7 DEF Looping
  <2> QED BY <1>3, <1>7, <2>1, Counting
<1> QED BY <1>6, <1>7
-----------------------------------------------------------------------------
(* What the SDK makes of a partial upload's error.                         *)

\* RestAnswer with error_for_body, and GrpcAnswer with
\* parse_partial_upload_message: on either transport, the message intact or
\* damaged, the SDK knows the daemon's word on retention or says it does not.
LEMMA HintsAreTrue ==
    ASSUME NEW retention \in Retentions,
           NEW e \in Hears(Says("PartialUpload", retention))
    PROVE  e.retention \in {retention, "silent"}
<1> DEFINE err == Says("PartialUpload", retention)
<1>1. err.kind = "PartialUpload" /\ err.retention = retention
  BY DEF Says
<1>2. CASE e = SdkOfRest(RestAnswer(err))
  <2>1. RestAnswer(err).code = "PARTIAL_UPLOAD" /\ RestAnswer(err).retryable = retention
    BY <1>1 DEF RestAnswer, Code
  <2> QED BY <1>2, <2>1 DEF SdkOfRest, SdkError
<1>3. ASSUME NEW a \in Damaged(GrpcAnswer(err)), e = SdkOfGrpc(a)
      PROVE  e.retention \in {retention, "silent"}
  <2> DEFINE whole == GrpcAnswer(err)
             cut1 == [whole EXCEPT !.hint = "silent"]
             cut2 == [whole EXCEPT !.opens = "prefix", !.hint = "silent"]
  <2>1. /\ whole.tag = "none" /\ whole.hint = retention
        /\ cut1.tag = "none" /\ cut1.hint = "silent"
        /\ cut2.tag = "none" /\ cut2.hint = "silent"
    BY <1>1 DEF GrpcAnswer, Tagged
  <2>2. a \in {whole, cut1, cut2}
    BY <1>3 DEF Damaged
  <2> HIDE DEF whole, cut1, cut2
  <2>3. a.tag = "none" /\ a.hint \in {retention, "silent"}
    BY <2>1, <2>2
  <2>4. MessageRetention(a) \in {retention, "silent"}
    BY <2>3 DEF MessageRetention
  <2>5. TypedStatus(a) # "none" => e.retention \in {retention, "silent"}
    BY <1>3, <2>3 DEF SdkOfGrpc, SdkError
  <2> QED BY <1>3, <2>3, <2>4, <2>5 DEF SdkOfGrpc, SdkError
<1> QED BY <1>2, <1>3 DEF Hears

-----------------------------------------------------------------------------
(* The daemon under the signer.                                            *)

\* A session that has ended stays as it ended, and an id is used once.
LEMMA FateMoves ==
    ASSUME TypeOK, LiveIsKept, [Next]_vars, NEW u \in Uploads
    PROVE  /\ fate[u] # "unused" => fate'[u] # "unused"
           /\ fate[u] \notin {"unused", "live"} => fate'[u] = fate[u]
<1>1. ASSUME NEW t \in Tasks, NEW outcome \in Fates \ {"unused"}, Settle(t, outcome),
             job[t].held # None
      PROVE  /\ fate[u] # "unused" => fate'[u] # "unused"
             /\ fate[u] \notin {"unused", "live"} => fate'[u] = fate[u]
  <2>1. job[t].up \in Uploads /\ t \in Holders(job[t].up)
    BY <1>1, Holding DEF Holders
  <2>2. fate[job[t].up] = "live"
    BY <2>1 DEF LiveIsKept
  <2> QED BY <1>1, <2>1, <2>2 DEF Settle, TypeOK
<1>2. ASSUME NEW t \in Tasks, Step(t), fate' # fate
      PROVE  \E outcome \in Fates \ {"unused"} : Settle(t, outcome) /\ job[t].held # None
  <2>1. job[t].pc \in {"storing", "mapping"}
    BY <1>2 DEF Step, Take, Dispatch, Complete, Partial, PartialUnpaid, CoreError, MapStored,
                MapFails
  <2>2. job[t].held # None
    BY <2>1, Holding
  <2> QED
    BY <1>2, <2>2 DEF Step, Take, Dispatch, Complete, Partial, PartialUnpaid, CoreError,
                      MapStored, MapFails, Fates
<1>3. ASSUME NEW v \in Uploads, NEW kind \in Kinds, Prepare(v, kind)
      PROVE  /\ fate[u] # "unused" => fate'[u] # "unused"
             /\ fate[u] \notin {"unused", "live"} => fate'[u] = fate[u]
  BY <1>3 DEF Prepare, TypeOK
<1>4. CASE Sweep
  <2>1. \A v \in Uploads : Stale(uploads[v]) => fate[v] = "live"
    BY DEF LiveIsKept, Stale
  <2> QED BY <1>4, <2>1 DEF Sweep
<1>5. CASE Restart
  BY <1>5 DEF Restart
<1>6. CASE fate' = fate
  BY <1>6
<1> QED
  BY <1>1, <1>2, <1>3, <1>4, <1>5, <1>6
     DEF Next, vars, Peek, StoreChunk, CallerLeaves, Tick

\* Only a finalize that has the session stores from it.
LEMMA OverStays ==
    ASSUME TypeOK, LiveIsKept, LiveIsKept', [Next]_vars, NEW u \in Uploads,
           fate[u] \notin {"unused", "live"}
    PROVE  /\ fate'[u] = fate[u] /\ uploads'[u] = None
           /\ net'[u] = net[u] /\ (u \in maps' <=> u \in maps)
<1>1. fate'[u] = fate[u]
  BY FateMoves
<1>2. uploads'[u] = None
  BY <1>1 DEF LiveIsKept
<1>3. \A t \in Tasks : job[t].held # None => job[t].up # u
  BY DEF LiveIsKept, Holders
<1>4. ASSUME NEW t \in Tasks, NEW c \in Chunks, StoreChunk(t, c)
      PROVE  net'[u] = net[u] /\ maps' = maps
  <2>1. job[t].up # u
    BY <1>3, <1>4, Holding DEF StoreChunk
  <2> QED BY <1>4, <2>1 DEF StoreChunk, TypeOK
<1>5. ASSUME NEW t \in Tasks, Step(t)
      PROVE  net' = net /\ (u \in maps' <=> u \in maps)
  <2>1. CASE MapStored(t)
    <3>1. job[t].up # u
      BY <1>3, <2>1, Holding DEF MapStored
    <3> QED BY <2>1, <3>1 DEF MapStored, Settle
  <2>2. CASE ~MapStored(t)
    BY <1>5, <2>2 DEF Step, Take, Dispatch, Complete, Partial, PartialUnpaid, CoreError,
                      MapFails, Settle
  <2> QED BY <2>1, <2>2
<1>6. net'[u] = net[u] /\ (u \in maps' <=> u \in maps)
  BY <1>4, <1>5 DEF Next, vars, Prepare, Peek, CallerLeaves, Tick, Sweep, Restart
<1> QED BY <1>1, <1>2, <1>6

\* An upload that has been answered for good keeps its one outcome: no rival finalize
\* stores from its payment any more, publishes its data map or brings it back.
THEOREM OverIsOver == Spec => EndedIsFinal
<1>1. TypeOK /\ LiveIsKept /\ LiveIsKept' /\ [Next]_vars
        => [\A u \in Uploads : fate[u] \notin {"unused", "live"} =>
              /\ fate'[u] = fate[u]
              /\ uploads'[u] = None
              /\ net'[u] = net[u]
              /\ u \in maps' <=> u \in maps]_vars
  BY OverStays
<1>2. Spec => []TypeOK /\ []LiveIsKept
  BY Typing, SessionsKept, PTL
<1> QED BY <1>1, <1>2, PTL DEF Spec, EndedIsFinal

\* What changes the jobs besides a request.
Works ==
    \/ \E t \in Tasks : Step(t) \/ CallerLeaves(t) \/ \E c \in Chunks : StoreChunk(t, c)
    \/ Tick \/ Sweep \/ Restart
    \/ \E u \in Uploads, kind \in Kinds : Prepare(u, kind)
    \/ UNCHANGED vars

LEMMA WorksOrPeeks ==
    ASSUME [Next]_vars PROVE Works \/ \E t \in Tasks, u \in Uploads : Peek(t, u)
BY DEF Next, Works

\* A task serves its upload until it ends.
LEMMA StepUp ==
    ASSUME TypeOK, NEW t \in Tasks, Step(t), NEW t2 \in Tasks
    PROVE  /\ job'[t2].up \in {job[t2].up, None}
           /\ t2 # t => job'[t2] = job[t2]
<1>1. ASSUME NEW j, j.up \in {job[t].up, None}, job' = [job EXCEPT ![t] = j]
      PROVE  job'[t2].up \in {job[t2].up, None} /\ (t2 # t => job'[t2] = job[t2])
  BY <1>1 DEF TypeOK
<1>2. ASSUME Finish(t)
      PROVE  job'[t2].up \in {job[t2].up, None} /\ (t2 # t => job'[t2] = job[t2])
  BY <1>1, <1>2 DEF Finish, IdleJob
<1>3. ASSUME NEW pc, job' = [job EXCEPT ![t] = [job[t] EXCEPT !.pc = pc]]
      PROVE  job'[t2].up \in {job[t2].up, None} /\ (t2 # t => job'[t2] = job[t2])
  <2>1. [job[t] EXCEPT !.pc = pc].up = job[t].up
    BY DEF TypeOK, Job
  <2> QED BY <1>1, <1>3, <2>1
<1>4. CASE Take(t)
  <2>1. CASE uploads[job[t].up] = None
    BY <1>2, <1>4, <2>1 DEF Take
  <2>2. CASE uploads[job[t].up] # None
    <3>1. job' = [job EXCEPT ![t] = [job[t] EXCEPT !.pc = "taken",
                                                  !.held = uploads[job[t].up]]]
      BY <1>4, <2>2 DEF Take, TypeOK
    <3>2. [job[t] EXCEPT !.pc = "taken", !.held = uploads[job[t].up]].up = job[t].up
      BY DEF TypeOK, Job
    <3> QED BY <1>1, <3>1, <3>2
  <2> QED BY <2>1, <2>2
<1>5. CASE Dispatch(t)
  <2>1. CASE Matches(t)
    <3>1. job' = [job EXCEPT ![t] = [job[t] EXCEPT !.pc = "storing"]]
      BY <1>5, <2>1 DEF Dispatch, TypeOK
    <3> QED BY <1>3, <3>1
  <2>2. CASE ~Matches(t)
    BY <1>2, <1>5, <2>2 DEF Dispatch
  <2> QED BY <2>1, <2>2
<1>6. CASE Complete(t)
  <2>1. CASE job[t].map
    <3>1. job' = [job EXCEPT ![t] = [job[t] EXCEPT !.pc = "mapping"]]
      BY <1>6, <2>1 DEF Complete, TypeOK
    <3> QED BY <1>3, <3>1
  <2>2. CASE ~job[t].map
    BY <1>2, <1>6, <2>2 DEF Complete, Settle
  <2> QED BY <2>1, <2>2
<1>7. CASE Partial(t) \/ PartialUnpaid(t) \/ CoreError(t) \/ MapStored(t) \/ MapFails(t)
  BY <1>2, <1>7 DEF Partial, PartialUnpaid, CoreError, MapStored, MapFails, Settle
<1> QED BY <1>4, <1>5, <1>6, <1>7 DEF Step

LEMMA UpMoves ==
    ASSUME TypeOK, Works, NEW t \in Tasks
    PROVE  job'[t].up \in {job[t].up, None}
<1>1. ASSUME NEW t2 \in Tasks, Step(t2) PROVE job'[t].up \in {job[t].up, None}
  BY <1>1, StepUp
<1>2. ASSUME NEW t2 \in Tasks, CallerLeaves(t2) PROVE job'[t].up \in {job[t].up, None}
  BY <1>2 DEF CallerLeaves, Finish, IdleJob, TypeOK
<1>3. CASE Tick
  <2>1. job'[t] = [job[t] EXCEPT !.held = Older(@)]
    BY <1>3 DEF Tick
  <2> QED BY <2>1 DEF TypeOK, Job
<1>4. CASE Restart
  BY <1>4 DEF Restart, IdleJob
<1>5. CASE job' = job
  BY <1>5
<1> QED
  BY <1>1, <1>2, <1>3, <1>4, <1>5 DEF Works, vars, Prepare, StoreChunk, Sweep

\* A request is accepted only for an upload that is live.
LEMMA PeekMoves ==
    ASSUME TypeOK, LiveIsKept, NEW t \in Tasks, NEW u \in Uploads, Peek(t, u)
    PROVE  /\ fate[u] = "live" /\ job'[t].up = u
           /\ \A t2 \in Tasks \ {t} : job'[t2] = job[t2]
           /\ UNCHANGED <<uploads, net, maps, fate, quiet>>
BY DEF Peek, LiveIsKept, TypeOK
-----------------------------------------------------------------------------
(* The daemon keeps its invariants under the signer.                       *)

DaemonOK == TypeOK /\ LiveIsKept /\ DoneIsStored /\ MappedIsStored /\ Drains

\* The prepare of content the network may hold in part.
LEMMA PrepareKeeps ==
    ASSUME DaemonOK, NEW u \in Uploads, NEW kind \in Kinds, SignerPrepares(u, kind)
    PROVE  /\ DaemonOK'
           /\ fate[u] = "unused" /\ fate' = [fate EXCEPT ![u] = "live"]
           /\ \A v \in Uploads : net[v] = Chunks => net'[v] = Chunks /\ net'[u] = Chunks
           /\ UNCHANGED <<job, maps, quiet, covered>>
<1> DEFINE born == [kind |-> kind, resume |-> FALSE, paid |-> {}, stored |-> Known, age |-> 0]
<1>1. /\ fate[u] = "unused" /\ uploads' = [uploads EXCEPT ![u] = born]
      /\ net' = [net EXCEPT ![u] = Known] /\ fate' = [fate EXCEPT ![u] = "live"]
      /\ UNCHANGED <<job, maps, quiet, covered>>
  BY DEF SignerPrepares
<1>2. Known \in SUBSET Chunks /\ \A v \in Uploads : net[v] = Chunks => Known = Chunks
  BY DEF Known, DaemonOK, TypeOK
<1>3. born \in Session
  BY <1>2, ConstantsAssumption DEF Session
<1>4. born # None /\ ~born.resume
  BY <1>3, NoneAssumption
<1> HIDE DEF born
<1>5. uploads[u] = None /\ Holders(u) = {}
  BY <1>1 DEF DaemonOK, LiveIsKept
<1>6. TypeOK'
  BY <1>1, <1>2, <1>3 DEF DaemonOK, TypeOK, Fates
<1>7. \A v \in Uploads : Holders(v)' = Holders(v)
  BY <1>1 DEF Holders
<1>8. LiveIsKept'
  BY <1>1, <1>4, <1>5, <1>7 DEF DaemonOK, LiveIsKept, TypeOK
<1>9. DoneIsStored'
  BY <1>1, <1>2 DEF DaemonOK, DoneIsStored, TypeOK
<1>10. MappedIsStored'
  BY <1>1, <1>2, Holding DEF DaemonOK, MappedIsStored, TypeOK
<1>11. Drains'
  BY <1>1, <1>4 DEF DaemonOK, Drains, CanDrain, TypeOK
<1> QED BY <1>1, <1>2, <1>6, <1>8, <1>9, <1>10, <1>11 DEF DaemonOK, TypeOK

-----------------------------------------------------------------------------
(* What the signer knows of the daemon.                                    *)

Ended(u) == fate[u] \notin {"unused", "live"}

\* An id a finalize was asked for has been prepared.
AskedIsPrepared == \A t \in Tasks : \A u \in Uploads : job[t].up = u => fate[u] # "unused"

\* The signer waits for a finalize of its upload, and has heard nothing yet.
WaitsForItsOwn ==
    IF signer.phase = "waiting"
    THEN /\ signer.task \in Tasks /\ job[signer.task].up = signer.up
         /\ signer.told = "silent"
    ELSE signer.task = None

\* It knows which finalizes of its upload may run, and takes the upload for ended
\* only when it has.
KnowsItsFinalizes ==
    /\ signer.phase = "start" => signer.up = None
    /\ signer.phase # "start" => signer.up \in Uploads /\ fate[signer.up] # "unused"
    /\ signer.phase = "prepared" => \A t \in Tasks : job[t].up # signer.up
    /\ signer.phase \in {"ready", "waiting"} =>
         \A t \in Tasks : job[t].up = signer.up =>
            \/ t \in signer.unanswered
            \/ signer.phase = "waiting" /\ t = signer.task
    /\ signer.phase = "restart" => Ended(signer.up)

\* What it paid for before the upload in hand has ended; and if that left the
\* payment standing, nothing of the content is due any more.
PaidBefore ==
    \A u \in Uploads : covered[u] # {} =>
        /\ fate[u] # "unused" /\ signer.phase # "start"
        /\ u # signer.up => Ended(u)
        /\ signer.phase = "prepared" =>
             u # signer.up /\ (Gone(u) \/ net[signer.up] = Chunks)

SInv ==
    /\ DaemonOK /\ SignerTypeOK /\ AskedIsPrepared /\ WaitsForItsOwn
    /\ KnowsItsFinalizes /\ PaidBefore

\* Every step of the system but the signer's prepare is a step of the daemon or
\* leaves it alone.
LEMMA StepsOfDaemon ==
    ASSUME SignerNext, WaitsForItsOwn, KnowsItsFinalizes,
           \A u \in Uploads, kind \in Kinds : ~SignerPrepares(u, kind)
    PROVE  [Next]_vars
<1>1. CASE SignerPays \/ SignerNotFound
  BY <1>1 DEF SignerPays, SignerNotFound
<1>2. ASSUME NEW t \in Tasks, SignerFinalizes(t) PROVE Next
  <2>1. PICK u \in Uploads : u = signer.up
    BY <1>2 DEF SignerFinalizes, KnowsItsFinalizes
  <2> QED BY <1>2, <2>1 DEF SignerFinalizes, Next
<1>3. ASSUME NEW t \in Tasks, SignerHears(t) PROVE Next
  BY <1>3 DEF SignerHears, Next
<1>4. CASE SignerTimesOut
  BY <1>4 DEF SignerTimesOut, WaitsForItsOwn, Next
<1>5. CASE Daemon
  BY <1>5 DEF Daemon, Next
<1> QED BY <1>1, <1>2, <1>3, <1>4, <1>5 DEF SignerNext

LEMMA DaemonStays ==
    ASSUME SInv, [SignerNext]_<<vars, signer, covered>> PROVE DaemonOK'
<1>1. ASSUME NEW u \in Uploads, NEW kind \in Kinds, SignerPrepares(u, kind) PROVE DaemonOK'
  BY <1>1, PrepareKeeps DEF SInv
<1>2. CASE [Next]_vars
  BY <1>2, NextType, NextKeeps, NextStores, NextDrains DEF SInv, DaemonOK
<1> QED BY <1>1, <1>2, StepsOfDaemon DEF SInv, vars

\* An ended session stays so, gone or done.
LEMMA EndedStays ==
    ASSUME SInv, SignerNext, NEW u \in Uploads
    PROVE  /\ fate[u] # "unused" => fate'[u] # "unused"
           /\ Ended(u) => Ended(u)'
           /\ Gone(u) => Gone(u)'
           /\ net[u] = Chunks => net'[u] = Chunks
<1>1. ASSUME NEW v \in Uploads, NEW kind \in Kinds, SignerPrepares(v, kind)
      PROVE  /\ fate[u] # "unused" => fate'[u] = fate[u]
             /\ net[u] = Chunks => net'[u] = Chunks
  BY <1>1, PrepareKeeps DEF SInv, DaemonOK, TypeOK
<1>2. CASE [Next]_vars
  BY <1>2, FateMoves, NetKeeps DEF SInv, DaemonOK, Ended, Gone
<1> QED BY <1>1, <1>2, StepsOfDaemon DEF SInv, Ended, Gone

LEMMA EndedIs ==
    ASSUME SInv, NEW u \in Uploads, Ended(u) PROVE Gone(u) \/ net[u] = Chunks
BY DEF SInv, DaemonOK, DoneIsStored, TypeOK, Fates, Ended, Gone

LEMMA AskedStays ==
    ASSUME SInv, SignerNext PROVE AskedIsPrepared'
<1> SUFFICES ASSUME NEW t \in Tasks, NEW u \in Uploads, job'[t].up = u
             PROVE  fate'[u] # "unused"
  BY DEF AskedIsPrepared
<1>1. CASE job'[t].up = job[t].up
  BY <1>1, EndedStays DEF SInv, AskedIsPrepared
<1>2. ASSUME NEW v \in Uploads, NEW kind \in Kinds, SignerPrepares(v, kind)
      PROVE  job'[t].up = job[t].up
  BY <1>2 DEF SignerPrepares
<1>3. ASSUME NEW t2 \in Tasks, NEW v \in Uploads, Peek(t2, v) PROVE fate'[u] # "unused"
  BY <1>1, <1>3, PeekMoves DEF SInv, DaemonOK
<1>4. CASE Works
  <2>1. job'[t].up \in {job[t].up, None}
    BY <1>4, UpMoves DEF SInv, DaemonOK
  <2> QED BY <1>1, <2>1, NoneAssumption
<1> QED BY <1>1, <1>2, <1>3, <1>4, StepsOfDaemon, WorksOrPeeks DEF SInv

\* Nothing is left of an upload that no finalize runs for and the map lacks.
LEMMA NobodyHolds ==
    ASSUME SInv, NEW u \in Uploads, fate[u] # "unused", uploads[u] = None,
           \A t \in Tasks : job[t].up = u => job[t].pc \in {"idle", "peeked"}
    PROVE  Ended(u)
<1>1. Holders(u) = {}
  BY Holding DEF SInv, DaemonOK, Holders
<1> QED BY <1>1 DEF SInv, DaemonOK, LiveIsKept, Ended
-----------------------------------------------------------------------------
(* Each action of the signer keeps what it knows.                          *)

SignerKnows == SignerTypeOK /\ WaitsForItsOwn /\ KnowsItsFinalizes /\ PaidBefore

\* The payments of before stay settled while the signer stays with its upload.
LEMMA PaidBeforeStays ==
    ASSUME SInv, SignerNext, covered' = covered, signer'.up = signer.up,
           signer'.phase = "prepared" => signer.phase = "prepared",
           signer'.phase = "start" => signer.phase = "start"
    PROVE  PaidBefore'
<1> SUFFICES ASSUME NEW u \in Uploads, covered[u] # {}
             PROVE  /\ fate'[u] # "unused" /\ signer'.phase # "start"
                    /\ u # signer.up => Ended(u)'
                    /\ signer'.phase = "prepared" =>
                         u # signer.up /\ (Gone(u)' \/ net'[signer.up] = Chunks)
  BY DEF PaidBefore
<1>1. signer.phase = "prepared" => signer.up \in Uploads
  BY DEF SInv, KnowsItsFinalizes
<1> QED BY <1>1, EndedStays DEF SInv, PaidBefore

LEMMA KeepsPreparing ==
    ASSUME SInv, NEW u \in Uploads, NEW kind \in Kinds, SignerPrepares(u, kind)
    PROVE  SignerKnows'
<1>1. /\ DaemonOK' /\ fate[u] = "unused" /\ fate' = [fate EXCEPT ![u] = "live"]
      /\ \A v \in Uploads : net[v] = Chunks => net'[v] = Chunks /\ net'[u] = Chunks
      /\ UNCHANGED <<job, maps, quiet, covered>>
  BY PrepareKeeps DEF SInv
<1>2. signer' = Opening(signer, u) /\ signer \in Signer
  BY DEF Opening, SignerPrepares, SInv, SignerTypeOK
<1>3. /\ signer' \in Signer /\ signer'.phase = "prepared" /\ signer'.up = u
      /\ signer'.task = None
  BY <1>2, Preparing DEF SInv, WaitsForItsOwn, SignerPrepares
<1>4. SignerTypeOK'
  BY <1>1, <1>3 DEF SInv, SignerTypeOK, DaemonOK
<1>5. \A t \in Tasks : job'[t].up # u
  BY <1>1 DEF SInv, AskedIsPrepared
<1>6. fate'[u] # "unused"
  BY <1>1 DEF SInv, SignerTypeOK, TypeOK
<1>7. ASSUME NEW v \in Uploads, covered[v] # {}
      PROVE  v # u /\ fate'[v] # "unused" /\ Ended(v)' /\ (Gone(v)' \/ net'[u] = Chunks)
  <2>1. v # u /\ fate'[v] = fate[v]
    BY <1>1, <1>7 DEF SInv, PaidBefore, TypeOK, SignerTypeOK
  <2>2. Ended(v)
    BY <1>7 DEF SInv, PaidBefore, KnowsItsFinalizes, SignerPrepares
  <2>3. Gone(v) \/ net[v] = Chunks
    BY <2>2, EndedIs
  <2> QED BY <1>1, <2>1, <2>2, <2>3 DEF Ended, Gone
<1> QED
  BY <1>1, <1>3, <1>4, <1>5, <1>6, <1>7
     DEF SignerKnows, WaitsForItsOwn, KnowsItsFinalizes, PaidBefore

LEMMA KeepsPaying ==
    ASSUME SInv, SignerPays PROVE SignerKnows'
<1>1. /\ signer.phase = "prepared" /\ signer.up \in Uploads /\ fate[signer.up] # "unused"
      /\ \A t \in Tasks : job[t].up # signer.up
      /\ signer \in Signer /\ signer.task = None
  BY DEF SignerPays, SInv, KnowsItsFinalizes, WaitsForItsOwn, SignerTypeOK
<1>2. /\ signer' \in Signer /\ signer'.phase = "ready" /\ signer'.up = signer.up
      /\ signer'.task = None
  BY <1>1, Paying DEF SignerPays
<1>3. /\ UNCHANGED <<uploads, job, net, maps, fate, quiet>>
      /\ covered' = [covered EXCEPT ![signer.up] = Chunks \ net[signer.up]]
  BY DEF SignerPays, vars
<1>4. SignerTypeOK'
  BY <1>2, <1>3 DEF SInv, SignerTypeOK, TypeOK
<1>5. PaidBefore'
  BY <1>1, <1>2, <1>3 DEF SInv, PaidBefore, Ended, SignerTypeOK
<1> QED
  BY <1>1, <1>2, <1>3, <1>4, <1>5 DEF SignerKnows, WaitsForItsOwn, KnowsItsFinalizes

LEMMA KeepsAsking ==
    ASSUME SInv, NEW t \in Tasks, SignerFinalizes(t) PROVE SignerKnows'
<1>1. PICK u \in Uploads : u = signer.up
  BY DEF SignerFinalizes, SInv, KnowsItsFinalizes
<1>2. /\ Peek(t, u) /\ signer.phase = "ready" /\ signer \in Signer /\ covered' = covered
      /\ signer' = Sending(signer, t)
  BY <1>1 DEF Sending, SignerFinalizes, SInv, SignerTypeOK
<1>3. /\ signer' \in Signer /\ signer'.phase = "waiting" /\ signer'.task = t
      /\ signer'.told = "silent" /\ signer'.up = signer.up
      /\ signer'.unanswered = signer.unanswered
  BY <1>2, Asking
<1>4. /\ job'[t].up = u /\ \A t2 \in Tasks \ {t} : job'[t2] = job[t2]
      /\ UNCHANGED <<uploads, net, maps, fate, quiet>>
  BY <1>2, PeekMoves DEF SInv, DaemonOK
<1>5. SignerNext
  BY DEF SignerNext
<1>6. TypeOK' /\ PaidBefore'
  BY <1>2, <1>3, <1>5, DaemonStays, PaidBeforeStays DEF DaemonOK
<1> QED
  BY <1>1, <1>2, <1>3, <1>4, <1>6
     DEF SInv, SignerKnows, SignerTypeOK, WaitsForItsOwn, KnowsItsFinalizes

\* A 404 that is taken for the end of the upload is one.
LEMMA NotFoundKnows ==
    ASSUME SInv, signer.phase \in {"ready", "waiting"}, NEW s, s = HearsNotFound(signer)
    PROVE  /\ s \in Signer /\ s.up = signer.up /\ s.unanswered = signer.unanswered
           /\ s.phase \in {"ready", "restart"} /\ s.told = signer.told /\ s.task = None
           /\ s.phase = "restart" => \A t \in signer.unanswered : job[t].pc = "idle"
<1>1. signer \in Signer
  BY DEF SInv, SignerTypeOK
<1>2. PICK phase \in {"ready", "restart"} :
        /\ phase = "restart" => \A t \in signer.unanswered : job[t].pc = "idle"
        /\ s = Turning(signer, phase, None)
  BY DEF Turning, HearsNotFound
<1> QED BY <1>1, <1>2, Ending DEF Phases

LEMMA KeepsOnNotFound ==
    ASSUME SInv, SignerNotFound PROVE SignerKnows'
<1>1. /\ signer.phase = "ready" /\ uploads[signer.up] = None
      /\ UNCHANGED <<uploads, job, net, maps, fate, quiet, covered>>
      /\ signer' = HearsNotFound(signer)
  BY DEF SignerNotFound, vars
<1>2. /\ signer' \in Signer /\ signer'.up = signer.up
      /\ signer'.unanswered = signer.unanswered /\ signer'.task = None
      /\ signer'.phase \in {"ready", "restart"}
      /\ signer'.phase = "restart" => \A t \in signer.unanswered : job[t].pc = "idle"
  BY <1>1, NotFoundKnows
<1>3. /\ signer.up \in Uploads /\ fate[signer.up] # "unused"
      /\ \A t \in Tasks : job[t].up = signer.up => t \in signer.unanswered
  BY <1>1 DEF SInv, KnowsItsFinalizes
<1>4. signer'.phase = "restart" => Ended(signer.up)
  BY <1>1, <1>2, <1>3, NobodyHolds
<1>5. SignerNext
  BY DEF SignerNext
<1>6. TypeOK' /\ PaidBefore'
  BY <1>1, <1>2, <1>5, DaemonStays, PaidBeforeStays DEF DaemonOK
<1> QED
  BY <1>1, <1>2, <1>3, <1>4, <1>6
     DEF SInv, SignerKnows, SignerTypeOK, WaitsForItsOwn, KnowsItsFinalizes, Ended
LEMMA KeepsTimingOut ==
    ASSUME SInv, SignerTimesOut PROVE SignerKnows'
<1>1. /\ signer.phase = "waiting" /\ signer.task \in Tasks /\ signer \in Signer
      /\ signer' = Parting(signer) /\ covered' = covered /\ SignerNext /\ Works
  BY DEF Parting, SignerTimesOut, SInv, WaitsForItsOwn, SignerTypeOK, SignerNext, Works
<1>2. /\ signer' \in Signer /\ signer'.phase = "ready" /\ signer'.up = signer.up
      /\ signer'.task = None /\ signer'.unanswered = signer.unanswered \cup {signer.task}
  BY <1>1, TimingOut
<1>3. signer.up \in Uploads /\ fate'[signer.up] # "unused"
  BY <1>1, EndedStays DEF SInv, KnowsItsFinalizes
<1>4. ASSUME NEW t \in Tasks, job'[t].up = signer.up PROVE t \in signer'.unanswered
  <2>1. job[t].up = signer.up
    BY <1>1, <1>3, <1>4, UpMoves, NoneAssumption DEF SInv, DaemonOK
  <2> QED BY <1>1, <1>2, <2>1 DEF SInv, KnowsItsFinalizes
<1>5. TypeOK' /\ PaidBefore'
  BY <1>1, <1>2, DaemonStays, PaidBeforeStays DEF DaemonOK
<1> QED
  BY <1>1, <1>2, <1>3, <1>4, <1>5
     DEF SInv, SignerKnows, SignerTypeOK, WaitsForItsOwn, KnowsItsFinalizes

LEMMA KeepsWhileDaemonWorks ==
    ASSUME SInv, Daemon PROVE SignerKnows'
<1>1. SignerNext /\ covered' = covered /\ signer \in Signer /\ TypeOK'
  <2>1. SignerNext
    BY DEF SignerNext
  <2> QED BY <2>1, DaemonStays DEF Daemon, SInv, SignerTypeOK, DaemonOK
<1>2. CASE signer' = signer /\ \A t \in Tasks : job'[t].up = job[t].up
  <2>1. PaidBefore'
    BY <1>1, <1>2, PaidBeforeStays
  <2>2. KnowsItsFinalizes'
    BY <1>1, <1>2, EndedStays DEF SInv, KnowsItsFinalizes
  <2>3. WaitsForItsOwn'
    BY <1>2 DEF SInv, WaitsForItsOwn
  <2> QED BY <1>1, <1>2, <2>1, <2>2, <2>3 DEF SInv, SignerKnows, SignerTypeOK
<1>3. CASE Restart /\ signer' = IF signer.phase = "waiting"
                                THEN [signer EXCEPT !.phase = "ready", !.task = None]
                                ELSE signer
  <2>1. \A t \in Tasks : job'[t].up = None
    BY <1>3 DEF Restart, IdleJob
  <2>2. /\ signer' \in Signer /\ signer'.up = signer.up /\ signer'.task = None
        /\ signer'.phase = IF signer.phase = "waiting" THEN "ready" ELSE signer.phase
    <3>1. CASE signer.phase = "waiting"
      <4>1. signer' = Turning(signer, "ready", None)
        BY <1>3, <3>1 DEF Turning
      <4> QED BY <1>1, <3>1, <4>1, Ending DEF Phases
    <3>2. CASE signer.phase # "waiting"
      BY <1>1, <1>3, <3>2 DEF SInv, WaitsForItsOwn
    <3> QED BY <3>1, <3>2
  <2>3. PaidBefore'
    BY <1>1, <2>2, PaidBeforeStays
  <2>4. KnowsItsFinalizes'
    BY <1>1, <2>1, <2>2, EndedStays, NoneAssumption DEF SInv, KnowsItsFinalizes
  <2> QED BY <1>1, <2>2, <2>3, <2>4 DEF SInv, SignerKnows, SignerTypeOK, WaitsForItsOwn
<1>4. CASE Tick
  <2>1. ASSUME NEW t \in Tasks PROVE job'[t].up = job[t].up
    <3>1. job'[t] = [job[t] EXCEPT !.held = Older(@)]
      BY <1>4 DEF Tick
    <3> QED BY <3>1 DEF SInv, SignerTypeOK, TypeOK, Job
  <2>2. CASE signer' = signer
    BY <1>2, <2>1, <2>2
  <2> QED BY <1>3, <2>2 DEF Daemon
<1> QED BY <1>2, <1>3, <1>4 DEF Daemon, Sweep, StoreChunk

-----------------------------------------------------------------------------
(* What the signer makes of an answer.                                     *)

\* The answer to the signer's own finalize.
Answers(t) == SignerHears(t) /\ signer.task = t /\ job'[t].pc = "idle"

\* The finalize that is answered is of the signer's upload.
LEMMA AnsweredOwn ==
    ASSUME SInv, NEW t \in Tasks, Answers(t)
    PROVE  /\ signer \in Signer /\ signer.phase = "waiting" /\ signer.told = "silent"
           /\ signer.up \in Uploads /\ fate[signer.up] # "unused"
           /\ job[t].up = signer.up /\ covered' = covered /\ Step(t)
<1>1. signer.task # None
  BY SignerAssumption DEF Answers
<1>2. signer.phase = "waiting" /\ job[signer.task].up = signer.up /\ signer.told = "silent"
  BY <1>1 DEF SInv, WaitsForItsOwn
<1> QED
  BY <1>2 DEF Answers, SignerHears, SInv, SignerTypeOK, KnowsItsFinalizes

\* A store that ends leaves its upload to nobody else.
LEMMA LastStore ==
    ASSUME SInv, DaemonOK', NEW t \in Tasks, Step(t), job[t].pc = "storing",
           job'[t].pc = "idle", NEW u \in Uploads, job[t].up = u, uploads'[u] = None
    PROVE  fate'[u] # "live"
<1>1. t \in Holders(u)
  BY Holding DEF SInv, DaemonOK, Holders
<1>2. ASSUME NEW t2 \in Holders(u)' PROVE FALSE
  <2>1. t2 # t
    BY <1>2 DEF DaemonOK, TypeOK, Job, Holders
  <2>2. job'[t2] = job[t2]
    BY <1>2, <2>1, StepUp DEF SInv, DaemonOK, Holders
  <2>3. t2 \in Holders(u)
    BY <1>2, <2>2 DEF Holders
  <2> QED BY <1>1, <2>1, <2>3 DEF SInv, DaemonOK, LiveIsKept
<1> QED BY <1>2 DEF DaemonOK, LiveIsKept

\* The flag of a shortfall, set by the branch it comes from, says what the map holds.
LEMMA FlagByBranch ==
    ASSUME SInv, DaemonOK', NEW t \in Tasks, Step(t), job[t].pc = "storing",
           job'[t].pc = "idle", NEW u \in Uploads, job[t].up = u,
           fate'[u] \in {"live", "abandoned"}
    PROVE  FullyPaid(t) <=> uploads'[u] # None
<1>1. t \in Holders(u)
  BY Holding DEF SInv, DaemonOK, Holders
<1>2. uploads[u] = None /\ fate[u] = "live"
  BY <1>1 DEF SInv, DaemonOK, LiveIsKept
<1>3. \A outcome : Settle(t, outcome) => fate'[u] = outcome /\ uploads' = uploads
  BY DEF Settle, SInv, DaemonOK, TypeOK
<1>4. CASE Partial(t)
  <2>1. FullyPaid(t) /\ fate'[u] = "live"
    BY <1>2, <1>4 DEF Partial
  <2>2. uploads'[u] # None
    BY <2>1, LastStore
  <2> QED BY <2>1, <2>2
<1>5. CASE PartialUnpaid(t)
  BY <1>2, <1>3, <1>5 DEF PartialUnpaid
<1>6. ~Complete(t)
  <2>1. ASSUME Complete(t), job[t].map PROVE FALSE
    <3>1. job' = [job EXCEPT ![t] = [job[t] EXCEPT !.pc = "mapping"]]
      BY <2>1 DEF Complete, SInv, DaemonOK, TypeOK
    <3>2. [job[t] EXCEPT !.pc = "mapping"].pc = "mapping"
      BY DEF SInv, DaemonOK, TypeOK, Job
    <3> QED BY <3>1, <3>2 DEF SInv, DaemonOK, TypeOK
  <2> QED BY <1>3, <2>1 DEF Complete
<1>7. ~CoreError(t)
  BY <1>3 DEF CoreError
<1> QED
  BY <1>4, <1>5, <1>6, <1>7 DEF Step, Take, Dispatch, MapStored, MapFails

\* An answer keeps the signer with its upload, sends it back to the start only if
\* that has ended, and says of retention what the daemon did.
LEMMA AnswerIsTrue ==
    ASSUME SInv, NEW t \in Tasks, Answers(t)
    PROVE  /\ signer' \in Signer /\ signer'.up = signer.up /\ signer'.task = None
           /\ signer'.unanswered = signer.unanswered
           /\ signer'.phase \in {"done", "stopped", "ready", "restart"}
           /\ signer'.phase = "restart" => Ended(signer.up)'
           /\ signer'.told = "kept" =>
                job[t].pc = "storing" /\ uploads'[signer.up] # None
           /\ signer'.told = "dropped" => uploads'[signer.up] = None
<1>1. /\ signer \in Signer /\ signer.phase = "waiting" /\ signer.told = "silent"
      /\ signer.up \in Uploads /\ fate[signer.up] # "unused"
      /\ job[t].up = signer.up /\ Step(t)
      /\ job'[t].pc = "idle" /\ signer.task = t
  BY AnsweredOwn DEF Answers
<1>2. SignerNext
  BY DEF Answers, SignerNext
<1>3. DaemonOK' /\ fate'[signer.up] # "unused"
  BY <1>1, <1>2, DaemonStays, EndedStays
<1>4. CASE signer' \in {Turning(signer, "done", None), Turning(signer, "stopped", None)}
  <2>1. PICK phase \in {"done", "stopped"} : signer' = Turning(signer, phase, None)
    BY <1>4
  <2>2. /\ signer' \in Signer /\ signer'.phase = phase /\ signer'.task = None
        /\ signer'.up = signer.up /\ signer'.told = signer.told
        /\ signer'.unanswered = signer.unanswered
    <3>1. phase \in Phases /\ None \in Tasks \cup {None} /\ signer \in Signer
      BY <1>1 DEF Phases
    <3> QED BY <2>1, <3>1, Ending
  <2> QED BY <1>1, <2>2
<1>5. CASE job[t].pc = "peeked" /\ signer' = HearsNotFound(signer)
  <2>1. /\ signer' \in Signer /\ signer'.up = signer.up /\ signer'.task = None
        /\ signer'.unanswered = signer.unanswered /\ signer'.told = signer.told
        /\ signer'.phase \in {"ready", "restart"}
        /\ signer'.phase = "restart" => \A t2 \in signer.unanswered : job[t2].pc = "idle"
    BY <1>1, <1>5, NotFoundKnows
  <2>2. uploads[signer.up] = None
    <3>1. Take(t)
      BY <1>1, <1>5 DEF Step, Dispatch, Complete, Partial, PartialUnpaid, CoreError,
                        MapStored, MapFails
    <3>2. [job[t] EXCEPT !.pc = "taken", !.held = uploads[signer.up]].pc = "taken"
      BY DEF SInv, SignerTypeOK, TypeOK, Job
    <3>3. uploads[signer.up] # None =>
            job' = [job EXCEPT ![t] = [job[t] EXCEPT !.pc = "taken",
                                                     !.held = uploads[signer.up]]]
      BY <1>1, <3>1 DEF Take, SInv, SignerTypeOK, TypeOK
    <3> QED BY <1>1, <3>2, <3>3 DEF SInv, SignerTypeOK, TypeOK
  <2>3. \A t2 \in Tasks : job[t2].up = signer.up => t2 \in signer.unanswered \/ t2 = t
    BY <1>1 DEF SInv, KnowsItsFinalizes
  <2>4. signer'.phase = "restart" => Ended(signer.up)
    BY <1>1, <1>5, <2>1, <2>2, <2>3, NobodyHolds
  <2>5. signer'.phase = "restart" => Ended(signer.up)'
    BY <1>1, <1>2, <2>1, <2>4, EndedStays DEF Ended
  <2> QED BY <1>1, <2>1, <2>5
<1>6. ASSUME NEW e \in Hears(PartialError(t)), job[t].pc = "storing",
             fate'[signer.up] \in {"live", "abandoned"},
             signer' = HearsPartial(signer, e.retention,
                                    Cardinality(Chunks \ net[signer.up]))
      PROVE  /\ signer' \in Signer /\ signer'.up = signer.up /\ signer'.task = None
             /\ signer'.unanswered = signer.unanswered
             /\ signer'.phase \in {"done", "stopped", "ready", "restart"}
             /\ signer'.phase = "restart" => Ended(signer.up)'
             /\ signer'.told = "kept" =>
                  job[t].pc = "storing" /\ uploads'[signer.up] # None
             /\ signer'.told = "dropped" => uploads'[signer.up] = None
  <2>1. PICK truth \in {"kept", "dropped"} :
          /\ truth = IF uploads'[signer.up] # None THEN "kept" ELSE "dropped"
          /\ PartialError(t) = Says("PartialUpload", truth)
    <3>1. FullyPaid(t) <=> uploads'[signer.up] # None
      BY <1>1, <1>3, <1>6, FlagByBranch
    <3> QED BY <3>1 DEF PartialError
  <2>2. truth \in Retentions
    BY DEF Retentions
  <2>3. e.retention \in {truth, "silent"}
    BY <1>6, <2>1, <2>2, HintsAreTrue
  <2>4. e.retention \in Retentions
    BY <2>2, <2>3 DEF Retentions
  <2>5. Chunks \ net[signer.up] \in SUBSET Chunks
    OBVIOUS
  <2>6. /\ signer' \in Signer /\ signer'.up = signer.up /\ signer'.told = e.retention
        /\ signer'.unanswered = signer.unanswered /\ signer'.task = None
        /\ signer'.phase = IF e.retention = "dropped" THEN "restart" ELSE "ready"
    BY <1>1, <1>6, <2>4, <2>5, HearsPartialType
  <2>7. signer'.phase = "restart" => uploads'[signer.up] = None
    BY <2>1, <2>3, <2>6
  <2>8. uploads'[signer.up] = None => fate'[signer.up] \notin {"unused", "live"}
    BY <1>1, <1>3, <1>6, LastStore
  <2> QED BY <1>6, <2>1, <2>3, <2>6, <2>7, <2>8 DEF Ended
<1> QED BY <1>1, <1>4, <1>5, <1>6 DEF Answers, SignerHears, Turning

LEMMA KeepsHearing ==
    ASSUME SInv, NEW t \in Tasks, SignerHears(t) PROVE SignerKnows'
<1>1. /\ SignerNext /\ covered' = covered /\ signer \in Signer /\ TypeOK'
      /\ Step(t) /\ Works
  <2>1. SignerNext
    BY DEF SignerNext
  <2> QED
    BY <2>1, DaemonStays DEF SignerHears, SInv, SignerTypeOK, DaemonOK, Works
<1>2. \A t2 \in Tasks : job'[t2].up \in {job[t2].up, None}
  BY <1>1, UpMoves DEF SInv, DaemonOK
<1>3. CASE signer' = signer /\ ~Answers(t)
  <2>1. PaidBefore'
    BY <1>1, <1>3, PaidBeforeStays
  <2>2. KnowsItsFinalizes'
    BY <1>1, <1>2, <1>3, EndedStays, NoneAssumption DEF SInv, KnowsItsFinalizes
  <2>3. WaitsForItsOwn'
    <3>1. CASE signer.phase = "waiting"
      <4>1. signer.task \in Tasks /\ job[signer.task].up = signer.up
        BY <3>1 DEF SInv, WaitsForItsOwn
      <4>2. signer.task # t => job'[signer.task] = job[signer.task]
        BY <1>1, <4>1, StepUp DEF SInv, DaemonOK
      <4>3. signer.task = t => job'[t].pc # "idle"
        BY <1>3 DEF Answers, SignerHears
      <4>4. signer.task = t => job'[t].up # None
        BY <1>1, <4>1, <4>3 DEF TypeOK, Job
      <4>5. job'[signer.task].up = signer.up
        BY <1>2, <4>1, <4>2, <4>4
      <4> QED BY <1>3, <3>1, <4>1, <4>5 DEF SInv, WaitsForItsOwn
    <3> QED BY <1>3, <3>1 DEF SInv, WaitsForItsOwn
  <2> QED BY <1>1, <1>3, <2>1, <2>2, <2>3 DEF SInv, SignerKnows, SignerTypeOK
<1>4. CASE Answers(t)
  <2>1. /\ signer.up \in Uploads /\ fate'[signer.up] # "unused" /\ signer.phase = "waiting"
        /\ job'[t].pc = "idle" /\ signer.task = t
    BY <1>1, <1>4, AnsweredOwn, EndedStays DEF Answers
  <2>2. /\ signer' \in Signer /\ signer'.up = signer.up /\ signer'.task = None
        /\ signer'.unanswered = signer.unanswered
        /\ signer'.phase \in {"done", "stopped", "ready", "restart"}
        /\ signer'.phase = "restart" => Ended(signer.up)'
    BY <1>4, AnswerIsTrue
  <2>3. ASSUME NEW t2 \in Tasks, job'[t2].up = signer.up PROVE t2 \in signer.unanswered
    <3>1. job[t2].up = signer.up
      BY <1>2, <2>1, <2>3, NoneAssumption
    <3>2. t2 # t
      BY <1>1, <2>1, <2>3, NoneAssumption DEF TypeOK, Job
    <3> QED BY <2>1, <3>1, <3>2 DEF SInv, KnowsItsFinalizes
  <2>4. PaidBefore'
    BY <1>1, <2>2, PaidBeforeStays
  <2> QED
    BY <1>1, <2>1, <2>2, <2>3, <2>4
       DEF SInv, SignerKnows, SignerTypeOK, WaitsForItsOwn, KnowsItsFinalizes
<1>5. Answers(t) \/ signer' = signer
  BY DEF Answers, SignerHears
<1> QED BY <1>3, <1>4, <1>5

LEMMA NextKnows ==
    SInv /\ [SignerNext]_<<vars, signer, covered>> => SInv'
<1> SUFFICES ASSUME SInv, [SignerNext]_<<vars, signer, covered>> PROVE SInv'
  OBVIOUS
<1>1. CASE SignerNext
  <2>1. SignerKnows'
    BY <1>1, KeepsPreparing, KeepsPaying, KeepsAsking, KeepsHearing, KeepsOnNotFound,
       KeepsTimingOut, KeepsWhileDaemonWorks DEF SignerNext
  <2> QED BY <1>1, <2>1, DaemonStays, AskedStays DEF SInv, SignerKnows
<1>2. CASE UNCHANGED <<vars, signer, covered>>
  <2>1. DaemonOK'
    BY <1>2, DaemonStays
  <2> QED
    BY <1>2, <2>1 DEF vars, SInv, SignerTypeOK, DaemonOK, AskedIsPrepared, WaitsForItsOwn,
       KnowsItsFinalizes, PaidBefore, Ended, Gone
<1> QED BY <1>1, <1>2

LEMMA InitKnows == SignerInit => SInv
<1> SUFFICES ASSUME SignerInit PROVE SInv
  OBVIOUS
<1>1. Init /\ \A t \in Tasks : job[t] = IdleJob
  BY DEF SignerInit, Init
<1>2. DaemonOK
  BY <1>1, InitType, IdleType DEF DaemonOK, Init, LiveIsKept, Holders, DoneIsStored,
     MappedIsStored, Drains, CanDrain
<1>3. signer \in Signer
  BY DEF SignerInit, Signer, Phases, Retentions, Counts
<1>4. signer.phase = "start" /\ signer.task = None /\ signer.up = None
  BY DEF SignerInit
<1>5. AskedIsPrepared
  BY <1>1, NoneAssumption DEF AskedIsPrepared, IdleJob
<1> QED
  BY <1>2, <1>3, <1>4, <1>5 DEF SignerInit, SInv, SignerTypeOK, DaemonOK, WaitsForItsOwn,
     KnowsItsFinalizes, PaidBefore

LEMMA SignerInvariance == SignerSpec => []SInv
BY InitKnows, NextKnows, PTL DEF SignerSpec

-----------------------------------------------------------------------------
(* The payments and the flags.                                             *)

LEMMA NextPaysOnce ==
    SInv /\ NeverPaysTwice /\ [SignerNext]_<<vars, signer, covered>> => NeverPaysTwice'
<1> SUFFICES ASSUME SInv, NeverPaysTwice, [SignerNext]_<<vars, signer, covered>>,
                    NEW u1 \in Uploads, NEW u2 \in Uploads,
                    u1 # u2, covered'[u1] \cap covered'[u2] # {}
             PROVE  Gone(u1)' \/ Gone(u2)'
  BY DEF NeverPaysTwice
<1>1. ASSUME NEW u \in Uploads PROVE Gone(u) => Gone(u)'
  BY EndedStays DEF Gone, vars
<1>2. CASE covered' = covered
  BY <1>1, <1>2 DEF NeverPaysTwice
<1>3. CASE SignerPays
  <2>1. /\ covered' = [covered EXCEPT ![signer.up] = Chunks \ net[signer.up]]
        /\ signer.phase = "prepared" /\ covered \in [Uploads -> SUBSET Chunks]
    BY <1>3 DEF SignerPays, SInv, SignerTypeOK
  <2>2. ASSUME NEW u \in Uploads, u # signer.up, covered[u] # {}, ~Gone(u)
        PROVE  Chunks \ net[signer.up] = {}
    BY <2>1, <2>2 DEF SInv, PaidBefore
  <2>3. CASE u1 # signer.up /\ u2 # signer.up
    BY <1>1, <2>1, <2>3 DEF NeverPaysTwice
  <2>4. CASE u1 = signer.up
    BY <1>1, <2>1, <2>2, <2>4
  <2>5. CASE u2 = signer.up
    BY <1>1, <2>1, <2>2, <2>5
  <2> QED BY <2>3, <2>4, <2>5
<1> QED
  BY <1>2, <1>3 DEF SignerNext, SignerPrepares, SignerFinalizes, SignerHears, SignerNotFound,
     SignerTimesOut, Daemon

\* docs/external-signer-flow.md section 6: whatever is stored in part, times out, is
\* swept or restarted, and whatever an answer loses on its way, a chunk is paid for
\* again only when the attempt that covered it is gone.
THEOREM NoDoublePayment == SignerSpec => []NeverPaysTwice
<1>1. SignerInit => NeverPaysTwice
  BY DEF SignerInit, NeverPaysTwice
<1> QED BY <1>1, NextPaysOnce, SignerInvariance, PTL DEF SignerSpec

FlagsTrue ==
    signer.phase = "waiting" /\ signer'.phase # "waiting" =>
       LET s == uploads'[signer.up] IN
       /\ signer'.told = "kept" => s # None /\ s.resume /\ s.paid = Chunks
       /\ signer'.told = "dropped" => s = None

LEMMA NextFlags == SInv /\ [SignerNext]_<<vars, signer, covered>> => FlagsTrue
<1> SUFFICES ASSUME SInv, [SignerNext]_<<vars, signer, covered>>,
                    signer.phase = "waiting", signer'.phase # "waiting"
             PROVE  /\ signer'.told = "kept" => /\ uploads'[signer.up] # None
                                                /\ uploads'[signer.up].resume
                                                /\ uploads'[signer.up].paid = Chunks
                    /\ signer'.told = "dropped" => uploads'[signer.up] = None
  BY DEF FlagsTrue
<1>1. /\ signer \in Signer /\ signer.told = "silent" /\ signer.task \in Tasks
      /\ signer.up \in Uploads
  BY DEF SInv, SignerTypeOK, WaitsForItsOwn, KnowsItsFinalizes
<1>2. ASSUME NEW t \in Tasks, Answers(t)
      PROVE  /\ signer'.told = "kept" => /\ uploads'[signer.up] # None
                                         /\ uploads'[signer.up].resume
                                         /\ uploads'[signer.up].paid = Chunks
             /\ signer'.told = "dropped" => uploads'[signer.up] = None
  <2>1. /\ signer'.told = "kept" => job[t].pc = "storing" /\ uploads'[signer.up] # None
        /\ signer'.told = "dropped" => uploads'[signer.up] = None
    BY <1>2, AnswerIsTrue
  <2>2. job[t].up = signer.up /\ Step(t)
    BY <1>2, AnsweredOwn
  <2>3. [Next]_vars /\ Drains' /\ signer'.up = signer.up
    <3>1. SignerNext
      BY <1>2 DEF Answers, SignerNext
    <3> QED BY <1>2, <2>2, <3>1, DaemonStays, AnswerIsTrue DEF Next, DaemonOK
  <2>4. ASSUME signer'.told = "kept"
        PROVE  uploads'[signer.up].resume /\ uploads'[signer.up].paid = Chunks
    <3>1. uploads'[signer.up].resume
      BY <1>1, <2>1, <2>2, <2>3, <2>4, OnlyHandlesComeBack DEF SInv, DaemonOK
    <3> QED BY <1>1, <2>1, <2>3, <2>4, <3>1 DEF Drains, CanDrain
  <2> QED BY <2>1, <2>4
<1>3. CASE SignerTimesOut
  <2>1. signer' = Parting(signer)
    BY <1>3 DEF SignerTimesOut, Parting
  <2> QED BY <1>1, <2>1, TimingOut
<1>4. CASE Daemon
  <2>1. signer' = Turning(signer, "ready", None)
    BY <1>4 DEF Daemon, Turning
  <2>2. "ready" \in Phases
    BY DEF Phases
  <2>3. signer'.told = signer.told
    BY <1>1, <2>1, <2>2, Ending
  <2> QED BY <1>1, <2>3
<1>5. ASSUME NEW t \in Tasks, SignerHears(t) PROVE Answers(t)
  BY <1>5 DEF SignerHears, Answers
<1> QED
  BY <1>2, <1>3, <1>4, <1>5 DEF SignerNext, SignerPrepares, SignerPays, SignerFinalizes,
     SignerNotFound

\* The retryable and retention_known flags of both SDK transports: told "kept", the
\* daemon holds the attempt with proofs for every chunk, and told "dropped" it holds
\* nothing, also when the message arrives damaged.
THEOREM RetentionIsTrue == SignerSpec => FlagsAreTrue
<1>1. SInv /\ [SignerNext]_<<vars, signer, covered>> => [FlagsTrue]_<<vars, signer, covered>>
  BY NextFlags
<1> QED BY <1>1, SignerInvariance, PTL DEF SignerSpec, FlagsAreTrue, FlagsTrue

-----------------------------------------------------------------------------
(* What the daemon promises of an upload holds under the signer too, whose *)
(* attempts share their content on the network.                            *)

\* The prepare of one attempt leaves the sessions of every other where they are, and
\* there was none of its own.
LEMMA PrepareAlone ==
    ASSUME DaemonOK, NEW v \in Uploads, NEW kind \in Kinds, SignerPrepares(v, kind)
    PROVE  /\ SessionsOf(v) = {} /\ \A t \in Tasks : job[t].up = v => job[t].held = None
           /\ \A u \in Uploads \ {v} :
                 SessionsOf(u)' = SessionsOf(u) /\ uploads'[u] = uploads[u]
           /\ \A s \in SessionsOf(v)' : s.age = 0
           /\ fate' = [fate EXCEPT ![v] = "live"] /\ UNCHANGED <<job, quiet>>
<1> DEFINE born == [kind |-> kind, resume |-> FALSE, paid |-> {}, stored |-> Known, age |-> 0]
<1>1. /\ fate[v] = "unused" /\ uploads' = [uploads EXCEPT ![v] = born]
      /\ fate' = [fate EXCEPT ![v] = "live"] /\ UNCHANGED <<job, quiet>>
  BY DEF SignerPrepares
<1>2. uploads[v] = None /\ \A t \in Tasks : job[t].up = v => job[t].held = None
  BY <1>1 DEF DaemonOK, LiveIsKept, Holders
<1>3. born.age = 0
  OBVIOUS
<1> HIDE DEF born
<1>4. /\ uploads'[v] = born
      /\ \A u \in Uploads \ {v} : uploads'[u] = uploads[u]
  BY <1>1 DEF DaemonOK, TypeOK
<1>5. SessionsOf(v) = {} /\ SessionsOf(v)' \subseteq {born}
  BY <1>1, <1>2, <1>4 DEF SessionsOf, Holders
<1>6. \A u \in Uploads \ {v} : SessionsOf(u)' = SessionsOf(u)
  BY <1>1, <1>4 DEF SessionsOf, Holders
<1> QED BY <1>1, <1>2, <1>3, <1>4, <1>5, <1>6

\* A step of the system is the signer's prepare or a step of the daemon.
LEMMA SignerSteps ==
    ASSUME SInv, [SignerNext]_<<vars, signer, covered>>
    PROVE  \/ \E v \in Uploads, kind \in Kinds : SignerPrepares(v, kind)
           \/ [Next]_vars
BY StepsOfDaemon DEF SInv

\* A session is in the map or with one finalize, and what is kept for a retry is paid
\* for, whatever the signer does.
THEOREM PromisesCompose == SignerSpec => [](LiveIsKept /\ ResumeCanDrain)
<1>1. SInv => LiveIsKept
  BY DEF SInv, DaemonOK
<1>2. SInv => ResumeCanDrain
  BY DEF SInv, DaemonOK, Drains, CanDrain, ResumeCanDrain, SessionsOf, Holders
<1> QED BY <1>1, <1>2, SignerInvariance, PTL

LEMMA SignerAdvances == SInv /\ [SignerNext]_<<vars, signer, covered>> => Advances
<1> SUFFICES ASSUME SInv, [SignerNext]_<<vars, signer, covered>> PROVE Advances
  OBVIOUS
<1>1. DaemonOK /\ TypeOK /\ LiveIsKept
  BY DEF SInv, DaemonOK
<1>2. ASSUME NEW v \in Uploads, NEW kind \in Kinds, SignerPrepares(v, kind) PROVE Advances
  <2> SUFFICES ASSUME NEW u \in Uploads
               PROVE  /\ \A s \in SessionsOf(u) : \A s2 \in SessionsOf(u)' :
                            s.resume => s2.resume /\ s.stored \subseteq s2.stored
                      /\ \A t \in Tasks :
                            job[t].up = u /\ job[t].pc = "storing" /\ uploads'[u] # None
                               => uploads'[u].resume
    BY DEF Advances
  <2>1. CASE u = v
    BY <1>1, <1>2, <2>1, PrepareAlone, Holding
  <2>2. CASE u # v
    <3>1. SessionsOf(u)' = SessionsOf(u) /\ uploads'[u] = uploads[u]
      BY <1>1, <1>2, <2>2, PrepareAlone
    <3>2. \A s \in SessionsOf(u) : \A s2 \in SessionsOf(u) : s = s2
      BY <1>1, OneSession
    <3>3. ASSUME NEW t \in Tasks, job[t].up = u, job[t].pc = "storing" PROVE uploads[u] = None
      <4>1. t \in Holders(u)
        BY <1>1, <3>3, Holding DEF Holders
      <4> QED BY <1>1, <4>1 DEF LiveIsKept
    <3> QED BY <3>1, <3>2, <3>3
  <2> QED BY <2>1, <2>2
<1> QED BY <1>1, <1>2, SignerSteps, NextAdvances

\* A session that comes back from a store asks for no payment again, and one that was
\* retained forgets no stored chunk, also while the signer prepares the same content
\* anew.
THEOREM PaymentsStayKept == SignerSpec => ResumeNeverRegresses
<1>1. SInv /\ [SignerNext]_<<vars, signer, covered>> => [Advances]_vars
  BY SignerAdvances
<1> QED BY <1>1, SignerInvariance, PTL DEF SignerSpec, ResumeNeverRegresses, Advances

LEMMA SignerFresh ==
    SInv /\ SInv' /\ Fresh /\ [SignerNext]_<<vars, signer, covered>> => Fresh' /\ SweptLate
<1> SUFFICES ASSUME SInv, SInv', Fresh, [SignerNext]_<<vars, signer, covered>>
             PROVE  Fresh' /\ SweptLate
  OBVIOUS
<1>1. DaemonOK /\ TypeOK /\ LiveIsKept /\ TypeOK'
  BY DEF SInv, DaemonOK
<1>2. ASSUME NEW v \in Uploads, NEW kind \in Kinds, SignerPrepares(v, kind)
      PROVE  Fresh' /\ SweptLate
  <2>1. \A u \in Uploads : quiet'[u] = quiet[u] /\ quiet[u] >= 0
    BY <1>1, <1>2, PrepareAlone, ConstantsAssumption DEF TypeOK
  <2>2. ASSUME NEW u \in Uploads, NEW s \in SessionsOf(u)' PROVE s.age <= quiet'[u]
    <3>1. CASE u = v
      BY <1>1, <1>2, <2>1, <2>2, <3>1, PrepareAlone
    <3>2. CASE u # v
      BY <1>1, <1>2, <2>1, <2>2, <3>2, PrepareAlone DEF Fresh
    <3> QED BY <3>1, <3>2
  <2>3. \A u \in Uploads : fate[u] = "live" => fate'[u] # "expired"
    BY <1>1, <1>2, PrepareAlone DEF TypeOK
  <2> QED BY <2>2, <2>3 DEF Fresh, SweptLate
<1> QED BY <1>1, <1>2, SignerSteps, NextFresh, NextSweptLate

\* The sweep takes no session of the signer before a whole TTL has gone by since it was
\* prepared or its last shortfall was reported.
THEOREM RetryWindowStays == SignerSpec => FullRetryWindow
<1>1. SignerInit => Fresh
  BY IdleType DEF SignerInit, Init, Fresh, SessionsOf, Holders
<1>2. SInv /\ SInv' /\ Fresh /\ [SignerNext]_<<vars, signer, covered>> => [SweptLate]_vars
  BY SignerFresh
<1>3. SInv /\ SInv' /\ Fresh /\ [SignerNext]_<<vars, signer, covered>> => Fresh'
  BY SignerFresh
<1> QED BY <1>1, <1>2, <1>3, SignerInvariance, PTL DEF SignerSpec, FullRetryWindow, SweptLate

-----------------------------------------------------------------------------
(* Sessions of single chunks: types.                                       *)

\* What a request ends as.
LEMMA ChunkIdleType ==
    IdleCall \in Call /\ IdleCall.pc = "idle" /\ IdleCall.id = NoChunk
BY NoChunkAssumption DEF IdleCall, Call

\* A call that starts has a chunk and no session.
LEMMA ChunkStarts ==
    ASSUME NEW t \in Calls, NEW c \in Contents, StartPrepare(t, c) \/ StartPut(t, c)
    PROVE  \E j \in Call : /\ j.id = NoChunk /\ call[t].pc = "idle"
                           /\ call' = [call EXCEPT ![t] = j]
                           /\ UNCHANGED <<pending, paidIds, network, standing>>
<1>1. CASE StartPrepare(t, c)
  <2> DEFINE j == [IdleCall EXCEPT !.pc = "quote", !.chunk = c]
  <2>1. j \in Call /\ j.id = NoChunk
    BY NoChunkAssumption DEF IdleCall, Call
  <2>2. call' = [call EXCEPT ![t] = j]
    BY <1>1 DEF StartPrepare, Begin
  <2> HIDE DEF j
  <2> QED BY <1>1, <2>1, <2>2 DEF StartPrepare, Begin
<1>2. CASE StartPut(t, c)
  <2> DEFINE j == [IdleCall EXCEPT !.pc = "put", !.chunk = c]
  <2>1. j \in Call /\ j.id = NoChunk
    BY NoChunkAssumption DEF IdleCall, Call
  <2>2. call' = [call EXCEPT ![t] = j]
    BY <1>2 DEF StartPut, Begin
  <2> HIDE DEF j
  <2> QED BY <1>2, <2>1, <2>2 DEF StartPut, Begin
<1> QED BY <1>1, <1>2

\* A session only grows older.
LEMMA ChunkOlderKeeps ==
    ASSUME NEW s \in ChunkSession \cup {NoChunk}
    PROVE  /\ ChunkOlder(s) \in ChunkSession \cup {NoChunk}
           /\ ChunkOlder(s) = NoChunk <=> s = NoChunk
<1>1. CASE s = NoChunk
  BY <1>1 DEF ChunkOlder
<1>2. CASE s \in ChunkSession
  <2>1. s # NoChunk
    BY <1>2, NoChunkAssumption
  <2>2. s.age < ChunkTTL => [s EXCEPT !.age = s.age + 1] \in ChunkSession
    BY <1>2, ChunkTTLAssumption DEF ChunkSession
  <2> QED BY <1>2, <2>1, <2>2, NoChunkAssumption DEF ChunkOlder
<1> QED BY <1>1, <1>2

\* The session a finalize finds gives it a chunk to store.
LEMMA ChunkSessionChunk ==
    ASSUME ChunkTypeOK, NEW i \in Ids, pending[i] # NoChunk
    PROVE  pending[i].chunk \in Contents
BY DEF ChunkTypeOK, ChunkSession

LEMMA ChunkInitType == ChunkInit => ChunkTypeOK
BY ChunkIdleType DEF ChunkInit, ChunkTypeOK, Standings

LEMMA ChunkInsertType ==
    ASSUME ChunkTypeOK, NEW t \in Calls, NEW i \in Ids, Insert(t, i)
    PROVE  ChunkTypeOK'
<1>1. call[t].chunk \in Contents
  BY DEF ChunkTypeOK, Insert, Call
<1>2. [chunk |-> call[t].chunk, age |-> 0] \in ChunkSession
  BY <1>1, ChunkTTLAssumption DEF ChunkSession
<1> QED BY <1>2, ChunkIdleType DEF Insert, EndCall, ChunkTypeOK, Standings

LEMMA ChunkNextType == ChunkTypeOK /\ [ChunkNext]_chunkVars => ChunkTypeOK'
<1> SUFFICES ASSUME ChunkTypeOK, [ChunkNext]_chunkVars PROVE ChunkTypeOK'
  OBVIOUS
<1>1. ASSUME NEW t \in Calls, NEW c \in Contents, StartPrepare(t, c) \/ StartPut(t, c)
      PROVE  ChunkTypeOK'
  BY <1>1, ChunkStarts DEF ChunkTypeOK
<1>2. ASSUME NEW t \in Calls, NEW i \in Ids, NEW wellFormed \in BOOLEAN,
             StartFinalize(t, i, wellFormed)
      PROVE  ChunkTypeOK'
  <2>1. pending[i].chunk \in Contents
    BY <1>2, ChunkSessionChunk DEF StartFinalize
  <2>2. CASE wellFormed
    <3> DEFINE j == [IdleCall EXCEPT !.pc = "store", !.id = i, !.chunk = pending[i].chunk]
    <3>1. j \in Call
      BY <2>1, NoChunkAssumption DEF IdleCall, Call
    <3>2. call' = [call EXCEPT ![t] = j]
      BY <1>2, <2>2 DEF StartFinalize
    <3>3. /\ pending' = [pending EXCEPT ![i] = NoChunk]
          /\ UNCHANGED <<standing, paidIds, network>>
      BY <1>2, <2>2 DEF StartFinalize
    <3> HIDE DEF j
    <3> QED BY <3>1, <3>2, <3>3 DEF ChunkTypeOK
  <2> QED BY <1>2, <2>2 DEF StartFinalize, ChunkTypeOK, Standings
<1>3. ASSUME NEW t \in Calls, ChunkStep(t) PROVE ChunkTypeOK'
  <2>1. CASE Quote(t)
    <3>1. [call[t] EXCEPT !.pc = "insert"] \in Call
      BY <2>1 DEF Quote, ChunkTypeOK, Call
    <3> QED BY <2>1, <3>1, ChunkIdleType DEF Quote, EndCall, ChunkTypeOK
  <2>2. CASE FinalizeReturns(t)
    BY <2>2, ChunkIdleType DEF FinalizeReturns, EndCall, ChunkTypeOK, Standings
  <2>3. CASE PutReturns(t)
    BY <2>3, ChunkIdleType DEF PutReturns, EndCall, ChunkTypeOK
  <2> QED BY <1>3, <2>1, <2>2, <2>3, ChunkInsertType DEF ChunkStep
<1>4. ASSUME NEW t \in Calls, Land(t) PROVE ChunkTypeOK'
  <2>1. call[t].chunk \in Contents
    BY <1>4 DEF Land, ChunkTypeOK, Call
  <2> QED BY <1>4, <2>1 DEF Land, ChunkTypeOK
<1>5. ASSUME NEW t \in Calls, ChunkCallerLeaves(t) PROVE ChunkTypeOK'
  <2>1. [call[t] EXCEPT !.left = TRUE] \in Call
    BY DEF ChunkTypeOK, Call
  <2> QED BY <1>5, <2>1, ChunkIdleType DEF ChunkCallerLeaves, EndCall, ChunkTypeOK
<1>6. ASSUME NEW i \in Ids, Pay(i) PROVE ChunkTypeOK'
  BY <1>6 DEF Pay, ChunkTypeOK
<1>7. CASE ChunkTick
  BY <1>7, ChunkOlderKeeps DEF ChunkTick, ChunkTypeOK
<1>8. CASE ChunkSweep
  BY <1>8 DEF ChunkSweep, ChunkTypeOK, Standings
<1>9. CASE ChunkRestart
  BY <1>9, ChunkIdleType DEF ChunkRestart, ChunkTypeOK, Standings
<1>10. CASE UNCHANGED chunkVars
  BY <1>10 DEF chunkVars, ChunkTypeOK
<1> QED BY <1>1, <1>2, <1>3, <1>4, <1>5, <1>6, <1>7, <1>8, <1>9, <1>10 DEF ChunkNext

\* Every state of every behaviour is well typed.
THEOREM ChunkTyping == ChunkSpec => []ChunkTypeOK
<1> QED BY ChunkInitType, ChunkNextType, PTL DEF ChunkSpec

-----------------------------------------------------------------------------
(* A prepared chunk keeps its session.                                     *)

\* A request that is not storing holds no session.
LEMMA ChunkHoldsWhileStoring ==
    ASSUME ChunkTypeOK, NEW t \in Calls
    PROVE  call[t].pc # "store" => \A i \in Ids : t \notin Storing(i)
BY NoChunkAssumption DEF ChunkTypeOK, Call, Storing

\* What leaves a request's id alone leaves every session where it is.
LEMMA ChunkSameIds ==
    ASSUME ChunkLiveIsKept, \A t \in Calls : call'[t].id = call[t].id, standing' = standing,
           \A i \in Ids : pending'[i] = NoChunk <=> pending[i] = NoChunk
    PROVE  ChunkLiveIsKept'
<1>1. \A i \in Ids : Storing(i)' = Storing(i)
  BY DEF Storing
<1> QED BY <1>1 DEF ChunkLiveIsKept

\* A request that holds no session before or after a change of its own.
LEMMA ChunkIdleRequest ==
    ASSUME ChunkTypeOK, ChunkLiveIsKept, NEW t \in Calls, call[t].pc # "store", NEW j,
           j.id = NoChunk,
           call' = [call EXCEPT ![t] = j], UNCHANGED <<pending, standing>>
    PROVE  ChunkLiveIsKept'
<1>1. \A u \in Calls : call'[u].id = call[u].id
  BY DEF ChunkTypeOK, Call
<1> QED BY <1>1, ChunkSameIds

LEMMA ChunkInsertKeeps ==
    ASSUME ChunkTypeOK, ChunkLiveIsKept, NEW t \in Calls, NEW i \in Ids, Insert(t, i)
    PROVE  ChunkLiveIsKept'
<1>1. pending[i] = NoChunk /\ Storing(i) = {}
  BY DEF Insert, ChunkLiveIsKept
<1>2. \A u \in Calls : call'[u].id = call[u].id
  BY ChunkIdleType DEF Insert, EndCall, ChunkTypeOK, Call
<1>3. \A k \in Ids : Storing(k)' = Storing(k)
  BY <1>2 DEF Storing
<1>4. pending'[i] # NoChunk /\ standing'[i] = "live"
  <2>1. call[t].chunk \in Contents
    BY DEF Insert, ChunkTypeOK, Call
  <2>2. [chunk |-> call[t].chunk, age |-> 0] \in ChunkSession
    BY <2>1, ChunkTTLAssumption DEF ChunkSession
  <2> QED BY <2>2, NoChunkAssumption DEF Insert, ChunkTypeOK
<1>5. \A k \in Ids \ {i} : pending'[k] = pending[k] /\ standing'[k] = standing[k]
  BY DEF Insert, ChunkTypeOK
<1> QED BY <1>1, <1>3, <1>4, <1>5 DEF ChunkLiveIsKept

LEMMA ChunkFinalizeTakes ==
    ASSUME ChunkTypeOK, ChunkLiveIsKept, NEW t \in Calls, NEW i \in Ids,
           NEW wellFormed \in BOOLEAN,
           StartFinalize(t, i, wellFormed)
    PROVE  ChunkLiveIsKept'
<1>1. /\ Storing(i) = {} /\ standing[i] = "live"
      /\ \A k \in Ids : t \notin Storing(k)
  BY ChunkHoldsWhileStoring DEF StartFinalize, ChunkLiveIsKept
<1>2. /\ pending'[i] = NoChunk
      /\ \A k \in Ids \ {i} : pending'[k] = pending[k]
  BY DEF StartFinalize, ChunkTypeOK
<1>3. CASE wellFormed
  <2>1. call'[t].id = i /\ \A u \in Calls \ {t} : call'[u] = call[u]
    <3> DEFINE j == [IdleCall EXCEPT !.pc = "store", !.id = i, !.chunk = pending[i].chunk]
    <3>1. j.id = i
      BY DEF IdleCall
    <3>2. call' = [call EXCEPT ![t] = j]
      BY <1>3 DEF StartFinalize
    <3> HIDE DEF j
    <3> QED BY <3>1, <3>2 DEF ChunkTypeOK
  <2>2. Storing(i)' = {t} /\ \A k \in Ids \ {i} : Storing(k)' = Storing(k)
    BY <1>1, <2>1 DEF Storing
  <2> QED BY <1>1, <1>2, <1>3, <2>2 DEF ChunkLiveIsKept, StartFinalize
<1>4. CASE ~wellFormed
  <2>1. \A k \in Ids : Storing(k)' = Storing(k)
    BY <1>4 DEF StartFinalize, Storing
  <2>2. standing'[i] = "malformed" /\ \A k \in Ids \ {i} : standing'[k] = standing[k]
    BY <1>4 DEF StartFinalize, ChunkTypeOK
  <2> QED BY <1>1, <1>2, <2>1, <2>2 DEF ChunkLiveIsKept
<1> QED BY <1>3, <1>4

LEMMA ChunkFinalizeEnds ==
    ASSUME ChunkTypeOK, ChunkLiveIsKept, NEW t \in Calls, FinalizeReturns(t)
    PROVE  ChunkLiveIsKept'
<1>1. PICK i \in Ids : i = call[t].id
  BY DEF FinalizeReturns, ChunkTypeOK, Call
<1>2. Storing(i) = {t} /\ pending[i] = NoChunk
  BY <1>1 DEF ChunkLiveIsKept, Storing
<1>3. call'[t].id = NoChunk /\ \A u \in Calls \ {t} : call'[u] = call[u]
  BY ChunkIdleType DEF FinalizeReturns, EndCall, ChunkTypeOK
<1>4. Storing(i)' = {} /\ \A k \in Ids \ {i} : Storing(k)' = Storing(k)
  <2>1. \A k \in Ids : k # NoChunk
    BY NoChunkAssumption
  <2> QED BY <1>1, <1>2, <1>3, <2>1 DEF Storing
<1>5. standing'[i] # "live" /\ \A k \in Ids \ {i} : standing'[k] = standing[k]
  BY <1>1 DEF FinalizeReturns, ChunkTypeOK
<1> QED BY <1>1, <1>2, <1>4, <1>5 DEF ChunkLiveIsKept, FinalizeReturns

LEMMA ChunkNextKeeps ==
    ChunkTypeOK /\ ChunkLiveIsKept /\ [ChunkNext]_chunkVars => ChunkLiveIsKept'
<1> SUFFICES ASSUME ChunkTypeOK, ChunkLiveIsKept, [ChunkNext]_chunkVars
             PROVE  ChunkLiveIsKept'
  OBVIOUS
<1>1. ASSUME NEW t \in Calls, NEW c \in Contents, StartPrepare(t, c) \/ StartPut(t, c)
      PROVE  ChunkLiveIsKept'
  BY <1>1, ChunkStarts, ChunkIdleRequest
<1>2. ASSUME NEW t \in Calls, ChunkStep(t) PROVE ChunkLiveIsKept'
  <2>1. CASE Quote(t)
    <3>1. [call[t] EXCEPT !.pc = "insert"].id = NoChunk
      BY <2>1 DEF Quote, ChunkTypeOK, Call
    <3> QED BY <2>1, <3>1, ChunkIdleRequest, ChunkIdleType DEF Quote, EndCall
  <2>2. CASE PutReturns(t)
    BY <2>2, ChunkIdleRequest, ChunkIdleType DEF PutReturns, EndCall
  <2> QED BY <1>2, <2>1, <2>2, ChunkInsertKeeps, ChunkFinalizeEnds DEF ChunkStep
<1>3. ASSUME NEW t \in Calls, Land(t) PROVE ChunkLiveIsKept'
  BY <1>3, ChunkSameIds DEF Land
<1>4. ASSUME NEW t \in Calls, ChunkCallerLeaves(t) PROVE ChunkLiveIsKept'
  <2>1. CASE ChunkDetached(call[t].pc)
    <3>1. \A u \in Calls : call'[u].id = call[u].id
      BY <1>4, <2>1 DEF ChunkCallerLeaves, ChunkTypeOK, Call
    <3> QED BY <1>4, <3>1, ChunkSameIds DEF ChunkCallerLeaves
  <2>2. CASE ~ChunkDetached(call[t].pc)
    BY <1>4, <2>2, ChunkIdleRequest, ChunkIdleType
       DEF ChunkCallerLeaves, EndCall, ChunkDetached
  <2> QED BY <2>1, <2>2
<1>5. ASSUME NEW i \in Ids, Pay(i) PROVE ChunkLiveIsKept'
  BY <1>5, ChunkSameIds DEF Pay
<1>6. CASE ChunkTick
  <2>1. \A i \in Ids : pending'[i] = NoChunk <=> pending[i] = NoChunk
    BY <1>6, ChunkOlderKeeps DEF ChunkTick, ChunkTypeOK
  <2> QED BY <1>6, <2>1, ChunkSameIds DEF ChunkTick
<1>7. CASE ChunkSweep
  <2>1. \A i \in Ids : Storing(i)' = Storing(i)
    BY <1>7 DEF ChunkSweep, Storing
  <2> QED BY <1>7, <2>1 DEF ChunkSweep, ChunkStale, ChunkLiveIsKept
<1>8. CASE ChunkRestart
  <2>1. \A i \in Ids : Storing(i)' = {}
    BY <1>8, ChunkIdleType, NoChunkAssumption DEF ChunkRestart, Storing
  <2> QED BY <1>8, <2>1 DEF ChunkRestart, ChunkLiveIsKept
<1>9. CASE UNCHANGED chunkVars
  BY <1>9, ChunkSameIds DEF chunkVars
<1> QED
  BY <1>1, <1>2, <1>3, <1>4, <1>5, <1>6, <1>7, <1>8, <1>9, ChunkFinalizeTakes DEF ChunkNext

\* chunk_prepare, chunk_finalize and the sweep: a prepared chunk's session is in
\* the map or with exactly one finalize until it is stored, refused, swept or lost
\* to a restart, whoever leaves meanwhile.
THEOREM ChunkSessionsKept == ChunkSpec => []ChunkLiveIsKept
<1>1. ChunkInit => ChunkLiveIsKept
  BY NoChunkAssumption DEF ChunkInit, ChunkLiveIsKept, Storing, IdleCall
<1> QED BY <1>1, ChunkInitType, ChunkNextType, ChunkNextKeeps, PTL DEF ChunkSpec

=============================================================================
