------------------------ MODULE PointerWrites_proofs ------------------------
(***************************************************************************)
(* Theorems about PointerWrites, for every set of pointers, tasks and      *)
(* upload ids, every counter bound and every TTL, with or without rivals:  *)
(* who holds a pointer or a session, which states land, in which order and *)
(* on whose behalf, and that paid writes keep the promise of PointerSlot.  *)
(***************************************************************************)
EXTENDS PointerWrites, TLAPS

-----------------------------------------------------------------------------
(* Types.                                                                  *)

LEMMA IdleJobType == IdleJob \in Job
  BY ConstantsAssumption DEF IdleJob, Job, Steps, Ops, State, NoState

LEMMA JobField ==
  ASSUME NEW j \in Job
  PROVE  /\ \A pc \in Steps : [j EXCEPT !.pc = pc] \in Job
         /\ \A s \in Session \cup {None} : [j EXCEPT !.held = s] \in Job
         /\ \A r \in State : [j EXCEPT !.rec = r] \in Job
         /\ \A retry \in BOOLEAN : [j EXCEPT !.retry = retry] \in Job
         /\ \A kind \in {"write", "prepare", "finalize"} : [j EXCEPT !.kind = kind] \in Job
         /\ \A op \in Ops : [j EXCEPT !.op = op] \in Job
         /\ \A p \in Pointers : [j EXCEPT !.ptr = p] \in Job
         /\ \A u \in Uploads : [j EXCEPT !.up = u] \in Job
  BY DEF Job

\* An answer leaves an idle task and a lock map of the right type.
LEMMA FinishType ==
  ASSUME TypeOK, NEW t \in Tasks, Finish(t)
  PROVE  job' \in [Tasks -> Job] /\ writing' \in [Pointers -> Tasks \cup {None}]
  BY IdleJobType DEF TypeOK, Finish

\* Ageing changes nothing but the age.
LEMMA OlderKeeps ==
  ASSUME NEW s \in Session \cup {None}
  PROVE  /\ Older(s) \in Session \cup {None}
         /\ Older(s) = None <=> s = None
         /\ s # None => /\ Older(s).ptr = s.ptr
                       /\ Older(s).rec = s.rec
                       /\ Older(s).proof = s.proof
<1>1. CASE s = None
  BY <1>1 DEF Older
<1>2. CASE s \in Session
  <2>1. s # None
    BY <1>2, NoneAssumption
  <2>2. CASE ~(s.age < TTL)
    BY <1>2, <2>1, <2>2 DEF Older
  <2>3. CASE s.age < TTL
    <3>1. Older(s) = [s EXCEPT !.age = s.age + 1]
      BY <2>1, <2>3 DEF Older
    <3>2. s.age + 1 \in 0 .. TTL
      BY <1>2, <2>3, ConstantsAssumption DEF Session
    <3>3. Older(s) \in Session
      BY <1>2, <3>1, <3>2 DEF Session
    <3>4. Older(s) # None
      BY <3>3, NoneAssumption
    <3> QED BY <1>2, <2>1, <3>1, <3>3, <3>4 DEF Session
  <2> QED BY <2>2, <2>3
<1> QED BY <1>1, <1>2

LEMMA InitType == Init => TypeOK
  BY IdleJobType, ConstantsAssumption DEF Init, TypeOK, NoState, State, Fates

\* What the reinsertions of a finalize put back is a session.
LEMMA KeptType ==
  ASSUME TypeOK, Control, NEW t \in Tasks,
         job[t].kind = "finalize", job[t].pc \in {"proof", "store", "finality"}
  PROVE  /\ job[t].up \in Uploads
         /\ job[t].held \in Session
         /\ \A proof \in BOOLEAN, age \in 0 .. TTL :
               [job[t].held EXCEPT !.proof = proof, !.age = age] \in Session
<1>1. job[t].up \in Uploads /\ job[t].held \in Session
  BY DEF TypeOK, Control, Job
<1> QED BY <1>1 DEF Session

LEMMA NextType == TypeOK /\ Control /\ [Next]_vars => TypeOK'
<1> SUFFICES ASSUME TypeOK, Control, [Next]_vars PROVE TypeOK'
  OBVIOUS
<1> USE DEF TypeOK
<1>1. ASSUME NEW t \in Tasks, NEW p \in Pointers, NEW op \in Ops,
             StartWrite(t, p, op) \/ StartPrepare(t, p, op)
      PROVE  TypeOK'
  <2> DEFINE w == [[[IdleJob EXCEPT !.pc = "lock"] EXCEPT !.op = op] EXCEPT !.ptr = p]
  <2>1. w \in Job /\ [w EXCEPT !.kind = "prepare"] \in Job
    BY IdleJobType, JobField DEF Steps
  <2>2. job' = [job EXCEPT ![t] = w]
        \/ job' = [job EXCEPT ![t] = [w EXCEPT !.kind = "prepare"]]
    BY <1>1 DEF StartWrite, StartPrepare, IdleJob
  <2>3. UNCHANGED <<writing, pending, net, own, fate>>
    BY <1>1 DEF StartWrite, StartPrepare
  <2> QED BY <2>1, <2>2, <2>3
<1>2. ASSUME NEW t \in Tasks, NEW u \in Uploads, StartFinalize(t, u)
      PROVE  TypeOK'
  <2> DEFINE f == [[[[[IdleJob EXCEPT !.pc = "lock"] EXCEPT !.kind = "finalize"]
                      EXCEPT !.op = pending[u].op] EXCEPT !.ptr = pending[u].ptr]
                      EXCEPT !.up = u]
  <2>1. pending[u].op \in Ops /\ pending[u].ptr \in Pointers
    BY <1>2 DEF StartFinalize, Session
  <2>2. f \in Job
    BY <2>1, IdleJobType, JobField DEF Steps
  <2>3. job' = [job EXCEPT ![t] = f]
    BY <1>2 DEF StartFinalize, IdleJob
  <2> QED BY <1>2, <2>2, <2>3 DEF StartFinalize
<1>3. ASSUME NEW t \in Tasks, TakeLock(t) PROVE TypeOK'
  BY <1>3, JobField DEF TakeLock, Goto, Steps
<1>4. ASSUME NEW t \in Tasks, RefuseIfPending(t) PROVE TypeOK'
  <2>1. CASE Finish(t)
    BY <1>4, <2>1, FinishType DEF RefuseIfPending
  <2>2. CASE Goto(t, "sign") /\ UNCHANGED writing
    BY <1>4, <2>2, JobField DEF RefuseIfPending, Goto, Steps
  <2> QED BY <1>4, <2>1, <2>2 DEF RefuseIfPending
<1>5. ASSUME NEW t \in Tasks, SignWrite(t) PROVE TypeOK'
  <2> DEFINE r == [counter |-> net[job[t].ptr].counter + 1,
                   final |-> job[t].op = "transfer", by |-> t]
  <2>1. r \in State
    <3>1. job[t].ptr \in Pointers
      BY <1>5 DEF SignWrite, Control
    <3>2. net[job[t].ptr].counter \in 0 .. MaxCounter
      BY <3>1 DEF State
    <3>3. net[job[t].ptr].counter + 1 \in 0 .. MaxCounter
      BY <1>5, <3>2, ConstantsAssumption DEF SignWrite
    <3> QED BY <3>3 DEF State
  <2>2. [[job[t] EXCEPT !.rec = r] EXCEPT
           !.pc = IF job[t].kind = "prepare" THEN "quote" ELSE "store"] \in Job
    BY <2>1, JobField DEF Steps
  <2> QED BY <1>5, <2>2 DEF SignWrite
<1>6. ASSUME NEW t \in Tasks, SignFails(t) PROVE TypeOK'
  BY <1>6, FinishType DEF SignFails
<1>7. ASSUME NEW t \in Tasks, NEW u \in Uploads, InsertPrepared(t, u) PROVE TypeOK'
  <2> DEFINE s == [ptr |-> job[t].ptr, op |-> job[t].op, proof |-> FALSE, age |-> 0,
                   rec |-> [job[t].rec EXCEPT !.by = u]]
  <2>1. job[t].ptr \in Pointers /\ job[t].op \in Ops /\ job[t].rec \in State
    BY <1>7 DEF InsertPrepared, Control, Job
  <2>2. s.rec \in State
    BY <2>1 DEF State
  <2>3. s \in Session
    BY <2>1, <2>2, ConstantsAssumption DEF Session
  <2>4. pending' = [pending EXCEPT ![u] = s] /\ fate' = [fate EXCEPT ![u] = "live"]
        /\ Finish(t) /\ UNCHANGED <<net, own>>
    BY <1>7 DEF InsertPrepared
  <2> QED BY <2>3, <2>4, FinishType DEF Fates
<1>8. ASSUME NEW t \in Tasks, WriteReturns(t) PROVE TypeOK'
  BY <1>8, FinishType DEF WriteReturns
<1>9. ASSUME NEW t \in Tasks, TakeSession(t) PROVE TypeOK'
  <2> DEFINE u == job[t].up
             taken == [[[job[t] EXCEPT !.pc = "proof"] EXCEPT !.held = pending[u]]
                         EXCEPT !.rec = pending[u].rec]
  <2>1. CASE pending[u] = None
    BY <1>9, <2>1, FinishType DEF TakeSession
  <2>2. CASE pending[u] # None
    <3>1. pending[u] \in Session /\ pending[u].rec \in State
      BY <1>9, <2>2 DEF TakeSession, Control, Session
    <3>2. taken \in Job
      BY <3>1, JobField DEF Steps
    <3>3. job' = [job EXCEPT ![t] = taken] /\ pending' = [pending EXCEPT ![u] = None]
          /\ UNCHANGED <<writing, net, own, fate>>
      BY <1>9, <2>2 DEF TakeSession
    <3> QED BY <3>2, <3>3
  <2> QED BY <2>1, <2>2
<1>10. ASSUME NEW t \in Tasks, BuildProof(t) PROVE TypeOK'
  BY <1>10, JobField DEF BuildProof, Goto, Steps
<1>11. ASSUME NEW t \in Tasks, BadHashes(t) PROVE TypeOK'
  BY <1>11, FinishType, KeptType DEF BadHashes, Control
<1>12. ASSUME NEW t \in Tasks, NEW outcome \in {"stored", "refused"}, Settle(t, outcome)
       PROVE  TypeOK'
  BY <1>12, FinishType DEF Settle, Fates
<1>13. ASSUME NEW t \in Tasks, Retain(t), job[t].kind = "finalize",
              job[t].pc \in {"store", "finality"}
       PROVE  TypeOK'
  <2>1. [job[t].held EXCEPT !.proof = TRUE, !.age = 0] \in Session
    <3>1. TRUE \in BOOLEAN /\ 0 \in 0 .. TTL
      BY ConstantsAssumption
    <3> QED BY <1>13, <3>1, KeptType
  <2> QED BY <1>13, <2>1, FinishType DEF Retain
<1>14. ASSUME NEW t \in Tasks, PutPaidOk(t) PROVE TypeOK'
  BY <1>14, <1>12 DEF PutPaidOk, Stored
<1>15. ASSUME NEW t \in Tasks, PutPaidFails(t) PROVE TypeOK'
  <2>1. PICK retry \in BOOLEAN :
          IF job[t].op = "transfer"
          THEN /\ job' = [job EXCEPT ![t].pc = "finality", ![t].retry = retry]
               /\ UNCHANGED <<writing, pending, net, own, fate>>
          ELSE RetainOrEnd(t, retry)
    BY <1>15 DEF PutPaidFails
  <2>2. CASE RetainOrEnd(t, retry)
    BY <1>15, <2>2, <1>12, <1>13 DEF PutPaidFails, RetainOrEnd
  <2>3. CASE /\ job' = [job EXCEPT ![t].pc = "finality", ![t].retry = retry]
             /\ UNCHANGED <<writing, pending, net, own, fate>>
    <3>1. [[job[t] EXCEPT !.pc = "finality"] EXCEPT !.retry = retry] \in Job
      BY JobField DEF Steps
    <3> QED BY <2>3, <3>1
  <2> QED BY <2>1, <2>2, <2>3
<1>16. ASSUME NEW t \in Tasks, LandedTransfer(t) PROVE TypeOK'
  BY <1>16, <1>12, <1>13 DEF LandedTransfer, Stored, RetainOrEnd, Control
<1>17. ASSUME NEW t \in Tasks, Land(t) PROVE TypeOK'
  BY <1>17 DEF Land, Job
<1>18. ASSUME NEW t \in Tasks, CallerLeaves(t) PROVE TypeOK'
  BY <1>18, FinishType DEF CallerLeaves
<1>19. ASSUME NEW p \in Pointers, RivalWrite(p) PROVE TypeOK'
  BY <1>19, ConstantsAssumption DEF RivalWrite, State
<1>20. ASSUME Tick PROVE TypeOK'
  <2>1. \A u \in Uploads : Older(pending[u]) \in Session \cup {None}
    BY OlderKeeps
  <2>2. \A t \in Tasks : [job[t] EXCEPT !.held = Older(job[t].held)] \in Job
    <3>1. \A t \in Tasks : job[t].held \in Session \cup {None}
      BY DEF Job
    <3> QED BY <3>1, OlderKeeps, JobField
  <2> QED BY <1>20, <2>1, <2>2 DEF Tick
<1>21. ASSUME Sweep PROVE TypeOK'
  BY <1>21 DEF Sweep, Fates
<1>22. ASSUME Restart PROVE TypeOK'
  BY <1>22, IdleJobType DEF Restart, Fates
<1>23. ASSUME UNCHANGED vars PROVE TypeOK'
  BY <1>23 DEF vars
<1> QED
  BY <1>1, <1>2, <1>3, <1>4, <1>5, <1>6, <1>7, <1>8, <1>9, <1>10, <1>11,
     <1>14, <1>15, <1>16, <1>17, <1>18, <1>19, <1>20, <1>21, <1>22, <1>23
     DEF Next, Step

-----------------------------------------------------------------------------
(* The inductive invariant, one part at a time.                            *)

LEMMA NextControl == TypeOK /\ Control /\ [Next]_vars => Control'
<1> SUFFICES ASSUME TypeOK, Control, [Next]_vars PROVE Control'
  OBVIOUS
<1>0. ASSUME NEW t \in Tasks, Finish(t) PROVE Control'
  BY <1>0 DEF TypeOK, Control, Finish, IdleJob
<1>1. ASSUME NEW t \in Tasks, NEW p \in Pointers, NEW op \in Ops,
             StartWrite(t, p, op) \/ StartPrepare(t, p, op)
      PROVE  Control'
  <2>1. /\ job' = [job EXCEPT ![t] = job'[t]]
        /\ job'[t].kind \in {"write", "prepare"} /\ job'[t].pc = "lock"
        /\ job'[t].ptr = p /\ job'[t].held = None
    <3>1. CASE StartWrite(t, p, op)
      BY <3>1 DEF TypeOK, StartWrite, IdleJob
    <3>2. CASE StartPrepare(t, p, op)
      BY <3>2 DEF TypeOK, StartPrepare, IdleJob
    <3> QED BY <1>1, <3>1, <3>2
  <2> QED BY <2>1 DEF TypeOK, Control
<1>2. ASSUME NEW t \in Tasks, NEW u \in Uploads, StartFinalize(t, u)
      PROVE  Control'
  BY <1>2 DEF TypeOK, Control, StartFinalize, IdleJob, Session
<1>3. ASSUME NEW t \in Tasks, TakeLock(t) PROVE Control'
  BY <1>3 DEF TypeOK, Control, TakeLock, Goto, Job
<1>4. ASSUME NEW t \in Tasks, RefuseIfPending(t) PROVE Control'
  BY <1>4, <1>0 DEF TypeOK, Control, RefuseIfPending, Goto, Job
<1>5. ASSUME NEW t \in Tasks, SignWrite(t) PROVE Control'
  BY <1>5 DEF TypeOK, Control, SignWrite, Job
<1>6. ASSUME NEW t \in Tasks,
             SignFails(t) \/ WriteReturns(t) \/ BadHashes(t) \/ PutPaidOk(t)
               \/ CallerLeaves(t) \/ (\E u \in Uploads : InsertPrepared(t, u))
               \/ LandedTransfer(t)
      PROVE  Control'
  BY <1>6, <1>0 DEF SignFails, WriteReturns, BadHashes, PutPaidOk, CallerLeaves,
                    InsertPrepared, LandedTransfer, Stored, Settle, RetainOrEnd, Retain
<1>7. ASSUME NEW t \in Tasks, TakeSession(t) PROVE Control'
  <2>1. CASE pending[job[t].up] = None
    BY <1>7, <2>1, <1>0 DEF TakeSession
  <2>2. CASE pending[job[t].up] # None
    BY <1>7, <2>2 DEF TypeOK, Control, TakeSession, Job
  <2> QED BY <2>1, <2>2
<1>8. ASSUME NEW t \in Tasks, BuildProof(t) PROVE Control'
  BY <1>8 DEF TypeOK, Control, BuildProof, Goto, Job
<1>9. ASSUME NEW t \in Tasks, PutPaidFails(t) PROVE Control'
  <2>1. CASE Finish(t)
    BY <2>1, <1>0
  <2>2. CASE \E retry \in BOOLEAN :
               job' = [job EXCEPT ![t].pc = "finality", ![t].retry = retry]
    BY <1>9, <2>2 DEF TypeOK, Control, PutPaidFails, Job
  <2> QED BY <1>9, <2>1, <2>2 DEF PutPaidFails, RetainOrEnd, Retain, Settle
<1>10. ASSUME Tick PROVE Control'
  <2> SUFFICES ASSUME NEW t \in Tasks
               PROVE  /\ job'[t].pc = job[t].pc /\ job'[t].kind = job[t].kind
                      /\ job'[t].ptr = job[t].ptr /\ job'[t].up = job[t].up
                      /\ job'[t].held = None <=> job[t].held = None
    BY DEF Control
  <2>1. job'[t] = [job[t] EXCEPT !.held = Older(job[t].held)]
    BY <1>10 DEF Tick
  <2>2. job[t] \in Job /\ job[t].held \in Session \cup {None}
    BY DEF TypeOK, Job
  <2>3. Older(job[t].held) = None <=> job[t].held = None
    BY <2>2, OlderKeeps
  <2> QED BY <2>1, <2>2, <2>3 DEF Job
<1>11. ASSUME Restart PROVE Control'
  BY <1>11 DEF Control, Restart, IdleJob
<1>12. ASSUME UNCHANGED job PROVE Control'
  BY <1>12 DEF Control
<1> QED
  BY <1>1, <1>2, <1>3, <1>4, <1>5, <1>6, <1>7, <1>8, <1>9, <1>10, <1>11, <1>12
     DEF Next, Step, Land, RivalWrite, Sweep, vars

\* Every reachable state of the daemon has its type: no step of a request writes
\* a malformed session, job or lock.
THEOREM Typing == Spec => []TypeOK
<1>1. Init => TypeOK /\ Control
  BY InitType DEF Init, Control, IdleJob
<1>2. TypeOK /\ Control /\ [Next]_vars => (TypeOK /\ Control)'
  BY NextType, NextControl
<1> QED BY <1>1, <1>2, PTL DEF Spec

-----------------------------------------------------------------------------
(* What a step does to locks, sessions and tasks, in the few shapes that   *)
(* rest of the invariant tells apart.                                       *)

\* A request is accepted.
Accepted(t) ==
    /\ job[t].pc = "idle"
    /\ job' = [job EXCEPT ![t] = job'[t]]
    /\ job'[t].pc = "lock"
    /\ job'[t].held = None
    /\ UNCHANGED <<writing, pending, fate>>

AcceptsWrite(t) == Accepted(t) /\ job'[t].kind # "finalize"

AcceptsFinalize(t, u) ==
    /\ Accepted(t)
    /\ job'[t].kind = "finalize"
    /\ job'[t].up = u
    /\ pending[u] # None
    /\ job'[t].ptr = pending[u].ptr

\* The task goes on with the request it has.
SameRequest(t) ==
    /\ job' = [job EXCEPT ![t] = job'[t]]
    /\ job'[t].kind = job[t].kind
    /\ job'[t].ptr = job[t].ptr
    /\ job'[t].up = job[t].up
    /\ UNCHANGED fate

Locks(t) ==
    /\ SameRequest(t)
    /\ job'[t].pc \notin {"idle", "lock"}
    /\ job'[t].pc \notin {"quote", "store", "finality"}
    /\ job'[t].held = job[t].held
    /\ job'[t].rec = job[t].rec
    /\ ~PastCheck(t)'
    /\ writing[job[t].ptr] = None
    /\ writing' = [writing EXCEPT ![job[t].ptr] = t]
    /\ UNCHANGED pending

Moves(t) ==
    /\ SameRequest(t)
    /\ job[t].pc \notin {"idle", "lock"}
    /\ job'[t].pc \notin {"idle", "lock"}
    /\ UNCHANGED writing

\* It has the pointer to itself already, or finds nothing pending there.  A
\* state is signed once; an error of the store is final only if that state is
\* not served.
GoesOn(t) ==
    /\ Moves(t)
    /\ job'[t].held = job[t].held
    /\ PastCheck(t)' => PastCheck(t) \/ ~AwaitsPayment(job[t].ptr)
    /\ PastCheck(t) => PastCheck(t)'
    /\ \/ SignWrite(t)
       \/ /\ job'[t].rec = job[t].rec
          /\ job'[t].pc # "quote"
          /\ PastCheck(t)' => job'[t].pc = "sign"
          /\ job[t].pc \in {"store", "finality"} => job'[t].pc = "finality"
          /\ job'[t].pc = "finality" /\ ~job'[t].retry => net[job[t].ptr] # job[t].rec
    /\ UNCHANGED pending

Takes(t) ==
    /\ Moves(t)
    /\ job[t].kind = "finalize"
    /\ pending[job[t].up] # None
    /\ job'[t].pc = "proof"
    /\ job'[t].held = pending[job[t].up]
    /\ job'[t].rec = pending[job[t].up].rec
    /\ pending' = [pending EXCEPT ![job[t].up] = None]
    /\ ~PastCheck(t)'

\* It answers, with the session it may have in hand ended, put back or, for an
\* insertion, new.
Answers(t) == Finish(t) /\ job[t].held = None /\ UNCHANGED <<pending, fate>>

Ends(t) ==
    /\ Finish(t)
    /\ job[t].held # None
    /\ \E outcome \in {"stored", "refused"} :
          /\ fate' = [fate EXCEPT ![job[t].up] = outcome]
          /\ outcome = "stored" => \/ job[t].rec \in own[job[t].ptr]
                                   \/ net[job[t].ptr] = job[t].rec
          /\ outcome = "refused" => \/ net[job[t].ptr] # job[t].rec
                                    \/ job[t].pc = "finality" /\ ~job[t].retry
    /\ UNCHANGED pending

PutsBack(t) ==
    /\ Finish(t)
    /\ job[t].held # None
    /\ \E s \in Session :
          /\ s.ptr = job[t].held.ptr
          /\ s.rec = job[t].held.rec
          /\ job[t].held.proof \/ job[t].pc # "proof" => s.proof
          /\ pending' = [pending EXCEPT ![job[t].up] = s]
    /\ UNCHANGED fate

Inserts(t, u) ==
    /\ Finish(t)
    /\ PastCheck(t) /\ job[t].held = None
    /\ job[t].pc = "quote"
    /\ fate[u] = "unused"
    /\ \E s \in Session : /\ s.ptr = job[t].ptr
                          /\ s.rec = [job[t].rec EXCEPT !.by = u]
                          /\ pending' = [pending EXCEPT ![u] = s]
    /\ fate' = [fate EXCEPT ![u] = "live"]

\* s2 is s, perhaps some time later.
SameSession(s, s2) ==
    /\ s2 = None <=> s = None
    /\ s # None => s2.ptr = s.ptr /\ s2.rec = s.rec /\ s2.proof = s.proof

\* Sessions grow older, in the map and in hand.
Ages ==
    /\ \A u \in Uploads : SameSession(pending[u], pending'[u])
    /\ \A t \in Tasks :
          /\ job'[t].pc = job[t].pc /\ job'[t].kind = job[t].kind
          /\ job'[t].ptr = job[t].ptr /\ job'[t].up = job[t].up
          /\ job'[t].rec = job[t].rec /\ job'[t].retry = job[t].retry
          /\ SameSession(job[t].held, job'[t].held)
    /\ UNCHANGED <<writing, net, own, fate>>

OfTask(t) ==
    /\ \/ AcceptsWrite(t)
       \/ \E u \in Uploads : AcceptsFinalize(t, u)
       \/ Locks(t)
       \/ GoesOn(t)
       \/ Takes(t)
       \/ Answers(t)
       \/ Ends(t)
       \/ PutsBack(t)
       \/ \E u \in Uploads : Inserts(t, u)
    /\ UNCHANGED <<net, own>>

\* Only the network changes, or nothing.
Outside ==
    /\ \/ \E t \in Tasks : Land(t)
       \/ \E p \in Pointers : RivalWrite(p)
       \/ UNCHANGED <<net, own>>
    /\ UNCHANGED <<writing, pending, job, fate>>

\* A finalize past its take has a session of the pointer it names.
LEMMA InHand ==
  ASSUME TypeOK, Control, NEW t \in Tasks
  PROVE  /\ job[t].held # None <=> /\ job[t].kind = "finalize"
                                  /\ job[t].pc \in {"proof", "store", "finality"}
         /\ job[t].held # None => job[t].up \in Uploads /\ job[t].held \in Session
  BY DEF TypeOK, Control, Job

LEMMA Shapes ==
  ASSUME TypeOK, Control, [Next]_vars
  PROVE  \/ \E t \in Tasks : OfTask(t)
         \/ Ages \/ Sweep \/ Restart
         \/ Outside
<1> USE DEF TypeOK
<1>1. ASSUME NEW t \in Tasks, NEW p \in Pointers, NEW op \in Ops,
             StartWrite(t, p, op) \/ StartPrepare(t, p, op)
      PROVE  AcceptsWrite(t)
  <2>1. CASE StartWrite(t, p, op)
    BY <2>1 DEF StartWrite, AcceptsWrite, Accepted, IdleJob
  <2>2. CASE StartPrepare(t, p, op)
    BY <2>2 DEF StartPrepare, AcceptsWrite, Accepted, IdleJob
  <2> QED BY <1>1, <2>1, <2>2
<1>2. ASSUME NEW t \in Tasks, NEW u \in Uploads, StartFinalize(t, u)
      PROVE  AcceptsFinalize(t, u)
  BY <1>2 DEF StartFinalize, AcceptsFinalize, Accepted, IdleJob
<1>3. ASSUME NEW t \in Tasks, TakeLock(t) PROVE Locks(t)
  BY <1>3 DEF TakeLock, Goto, Locks, SameRequest, PastCheck, Job
<1>4. ASSUME NEW t \in Tasks, RefuseIfPending(t) PROVE Answers(t) \/ GoesOn(t)
  <2>1. CASE AwaitsPayment(job[t].ptr)
    BY <1>4, <2>1, InHand DEF RefuseIfPending, Answers
  <2>2. CASE ~AwaitsPayment(job[t].ptr)
    BY <1>4, <2>2 DEF RefuseIfPending, Goto, GoesOn, Moves, SameRequest, PastCheck, Control, Job
  <2> QED BY <2>1, <2>2
<1>5. ASSUME NEW t \in Tasks, SignWrite(t) PROVE GoesOn(t)
  BY <1>5 DEF SignWrite, GoesOn, Moves, SameRequest, PastCheck, Control, Job
<1>6. ASSUME NEW t \in Tasks, SignFails(t) \/ CallerLeaves(t) PROVE Answers(t)
  BY <1>6, InHand DEF SignFails, CallerLeaves, Detached, Answers, Control
<1>7. ASSUME NEW t \in Tasks, NEW u \in Uploads, InsertPrepared(t, u)
      PROVE  Inserts(t, u)
  <2> DEFINE s == [ptr |-> job[t].ptr, op |-> job[t].op, proof |-> FALSE, age |-> 0,
                   rec |-> [job[t].rec EXCEPT !.by = u]]
  <2>1. job[t].ptr \in Pointers /\ job[t].op \in Ops /\ job[t].rec \in State
    BY <1>7 DEF InsertPrepared, Control, Job
  <2>2. s.rec \in State
    BY <2>1 DEF State
  <2>3. s \in Session
    BY <2>1, <2>2, ConstantsAssumption DEF Session
  <2>4. /\ s.ptr = job[t].ptr /\ s.rec = [job[t].rec EXCEPT !.by = u]
        /\ pending' = [pending EXCEPT ![u] = s]
    BY <1>7 DEF InsertPrepared
  <2>5. PastCheck(t) /\ job[t].held = None
    BY <1>7, InHand DEF InsertPrepared, PastCheck, Control
  <2> HIDE DEF s
  <2> QED BY <1>7, <2>3, <2>4, <2>5 DEF InsertPrepared, Inserts
<1>8. ASSUME NEW t \in Tasks, WriteReturns(t) PROVE Answers(t)
  BY <1>8, InHand DEF WriteReturns, Answers
<1>9. ASSUME NEW t \in Tasks, TakeSession(t) PROVE Answers(t) \/ Takes(t)
  <2>1. CASE pending[job[t].up] = None
    BY <1>9, <2>1, InHand DEF TakeSession, Answers
  <2>2. CASE pending[job[t].up] # None
    BY <1>9, <2>2 DEF TakeSession, Takes, Moves, SameRequest, PastCheck, Control, Job
  <2> QED BY <2>1, <2>2
<1>10. ASSUME NEW t \in Tasks, BuildProof(t) PROVE GoesOn(t)
  BY <1>10 DEF BuildProof, Goto, GoesOn, Moves, SameRequest, PastCheck, Control, Job
<1>11. ASSUME NEW t \in Tasks, BadHashes(t) PROVE PutsBack(t)
  <2>1. job[t].held \in Session /\ job[t].held # None
    BY <1>11, InHand DEF BadHashes, Control
  <2> QED BY <1>11, <2>1 DEF BadHashes, PutsBack
<1>12. ASSUME NEW t \in Tasks, NEW outcome \in {"stored", "refused"},
              Settle(t, outcome), job[t].held # None,
              outcome = "stored" => \/ job[t].rec \in own[job[t].ptr]
                                    \/ net[job[t].ptr] = job[t].rec,
              outcome = "refused" => \/ net[job[t].ptr] # job[t].rec
                                     \/ job[t].pc = "finality" /\ ~job[t].retry
       PROVE  Ends(t)
  <2>1. Finish(t) /\ UNCHANGED pending /\ fate' = [fate EXCEPT ![job[t].up] = outcome]
    BY <1>12 DEF Settle
  <2>2. \E o \in {"stored", "refused"} :
          /\ fate' = [fate EXCEPT ![job[t].up] = o]
          /\ o = "stored" => \/ job[t].rec \in own[job[t].ptr]
                             \/ net[job[t].ptr] = job[t].rec
          /\ o = "refused" => \/ net[job[t].ptr] # job[t].rec
                              \/ job[t].pc = "finality" /\ ~job[t].retry
    <3> WITNESS outcome \in {"stored", "refused"}
    <3>1. fate' = [fate EXCEPT ![job[t].up] = outcome]
      BY <2>1
    <3>2. outcome = "stored" => \/ job[t].rec \in own[job[t].ptr]
                                \/ net[job[t].ptr] = job[t].rec
      BY <1>12
    <3>3. outcome = "refused" => \/ net[job[t].ptr] # job[t].rec
                                 \/ job[t].pc = "finality" /\ ~job[t].retry
      BY <1>12
    <3> QED BY <3>1, <3>2, <3>3
  <2> QED BY <1>12, <2>1, <2>2 DEF Ends
<1>13. ASSUME NEW t \in Tasks, Retain(t), job[t].kind = "finalize",
              job[t].pc \in {"store", "finality"}
       PROVE  PutsBack(t)
  <2> DEFINE s == [job[t].held EXCEPT !.proof = TRUE, !.age = 0]
  <2>1. TRUE \in BOOLEAN /\ 0 \in 0 .. TTL
    BY ConstantsAssumption
  <2>2. /\ s \in Session /\ s.ptr = job[t].held.ptr
        /\ s.rec = job[t].held.rec /\ s.proof
    BY <1>13, <2>1, KeptType DEF Session
  <2>3. pending' = [pending EXCEPT ![job[t].up] = s]
    BY <1>13 DEF Retain
  <2>4. job[t].held # None
    BY <1>13, InHand
  <2> HIDE DEF s
  <2> QED BY <1>13, <2>2, <2>3, <2>4 DEF Retain, PutsBack
<1>14. ASSUME NEW t \in Tasks, PutPaidOk(t) PROVE Ends(t)
  BY <1>14, <1>12, InHand DEF PutPaidOk, Stored
<1>15. ASSUME NEW t \in Tasks, PutPaidFails(t)
       PROVE  Ends(t) \/ PutsBack(t) \/ GoesOn(t)
  <2>1. PICK retry \in BOOLEAN :
          /\ ~retry => net[job[t].ptr] # job[t].rec
          /\ IF job[t].op = "transfer"
             THEN /\ job' = [job EXCEPT ![t].pc = "finality", ![t].retry = retry]
                  /\ UNCHANGED <<writing, pending, net, own, fate>>
             ELSE RetainOrEnd(t, retry)
    BY <1>15 DEF PutPaidFails
  <2>2. CASE RetainOrEnd(t, retry)
    BY <1>15, <2>1, <2>2, <1>12, <1>13, InHand DEF PutPaidFails, RetainOrEnd
  <2>3. CASE /\ job' = [job EXCEPT ![t].pc = "finality", ![t].retry = retry]
             /\ UNCHANGED <<writing, pending, net, own, fate>>
    BY <1>15, <2>1, <2>3 DEF PutPaidFails, GoesOn, Moves, SameRequest, PastCheck, Job
  <2> QED BY <2>1, <2>2, <2>3
<1>16. ASSUME NEW t \in Tasks, LandedTransfer(t) PROVE Ends(t) \/ PutsBack(t)
  BY <1>16, <1>12, <1>13, InHand DEF LandedTransfer, Stored, RetainOrEnd, Control
<1>17. ASSUME Tick PROVE Ages
  <2>1. ASSUME NEW u \in Uploads
        PROVE  SameSession(pending[u], pending'[u])
    <3>1. pending'[u] = Older(pending[u]) /\ pending[u] \in Session \cup {None}
      BY <1>17 DEF Tick
    <3> QED BY <3>1, OlderKeeps DEF SameSession
  <2>2. ASSUME NEW t \in Tasks
        PROVE  /\ job'[t].pc = job[t].pc /\ job'[t].kind = job[t].kind
               /\ job'[t].ptr = job[t].ptr /\ job'[t].up = job[t].up
               /\ job'[t].rec = job[t].rec /\ job'[t].retry = job[t].retry
               /\ SameSession(job[t].held, job'[t].held)
    <3>1. job'[t] = [job[t] EXCEPT !.held = Older(job[t].held)]
      BY <1>17 DEF Tick
    <3>2. job[t] \in Job /\ job[t].held \in Session \cup {None}
      BY DEF Job
    <3>3. job'[t].held = Older(job[t].held)
      BY <3>1, <3>2 DEF Job
    <3>4. /\ job'[t].pc = job[t].pc /\ job'[t].kind = job[t].kind
          /\ job'[t].ptr = job[t].ptr /\ job'[t].up = job[t].up
          /\ job'[t].rec = job[t].rec /\ job'[t].retry = job[t].retry
      BY <3>1, <3>2 DEF Job
    <3> QED BY <3>2, <3>3, <3>4, OlderKeeps DEF SameSession
  <2> QED BY <1>17, <2>1, <2>2 DEF Tick, Ages
<1>18. ASSUME NEW t \in Tasks, Land(t) PROVE Outside
  BY <1>18 DEF Land, Outside
<1>19. ASSUME NEW p \in Pointers, RivalWrite(p) PROVE Outside
  BY <1>19 DEF RivalWrite, Outside
<1>20. ASSUME UNCHANGED vars PROVE Outside
  BY <1>20 DEF Outside, vars
<1>21. ASSUME NEW t \in Tasks, TakeLock(t) \/ Step(t) \/ CallerLeaves(t)
       PROVE  OfTask(t)
  <2>1. UNCHANGED <<net, own>>
    BY <1>21 DEF TakeLock, Step, CallerLeaves, RefuseIfPending, SignWrite, SignFails,
                 InsertPrepared, WriteReturns, TakeSession, BuildProof, BadHashes, PutPaidOk,
                 PutPaidFails, LandedTransfer, Stored, Settle, RetainOrEnd, Retain
  <2> QED BY <1>21, <2>1, <1>3, <1>4, <1>5, <1>6, <1>7, <1>8, <1>9, <1>10, <1>11, <1>14,
             <1>15, <1>16 DEF Step, OfTask
<1>22. ASSUME NEW t \in Tasks, NEW p \in Pointers, NEW op \in Ops,
              StartWrite(t, p, op) \/ StartPrepare(t, p, op)
       PROVE  OfTask(t)
  BY <1>1, <1>22 DEF OfTask, StartWrite, StartPrepare
<1>23. ASSUME NEW t \in Tasks, NEW u \in Uploads, StartFinalize(t, u) PROVE OfTask(t)
  BY <1>2, <1>23 DEF OfTask, StartFinalize
<1> QED
  BY <1>17, <1>18, <1>19, <1>20, <1>21, <1>22, <1>23 DEF Next

-----------------------------------------------------------------------------
(* The other parts of the inductive invariant, one lemma each.             *)

LEMMA NextLockHeld ==
  TypeOK /\ Control /\ LockHeld /\ [Next]_vars => LockHeld'
<1> SUFFICES ASSUME TypeOK, Control, LockHeld, [Next]_vars PROVE LockHeld'
  OBVIOUS
<1> USE NoneAssumption DEF TypeOK, LockHeld
<1>1. ASSUME NEW t \in Tasks, Accepted(t) PROVE LockHeld'
  BY <1>1 DEF Accepted
<1>2. ASSUME NEW t \in Tasks, Locks(t) PROVE LockHeld'
  BY <1>2, NextType DEF Locks, SameRequest
<1>3. ASSUME NEW t \in Tasks, Moves(t) PROVE LockHeld'
  BY <1>3 DEF Moves, SameRequest
<1>4. ASSUME NEW t \in Tasks, Finish(t) PROVE LockHeld'
  <2>1. ASSUME NEW t2 \in Tasks, t2 # t, job[t2].pc \notin {"idle", "lock"}
        PROVE  writing'[job[t2].ptr] = t2
    BY <1>4, <2>1 DEF Finish, Control
  <2>2. job'[t].pc = "idle" /\ \A t2 \in Tasks \ {t} : job'[t2] = job[t2]
    BY <1>4 DEF Finish, IdleJob
  <2> QED BY <2>1, <2>2
<1>5. CASE Ages
  BY <1>5 DEF Ages, SameSession
<1>6. CASE Restart
  BY <1>6 DEF Restart, IdleJob
<1>7. CASE UNCHANGED <<writing, job>>
  BY <1>7
<1> QED
  BY <1>1, <1>2, <1>3, <1>4, <1>5, <1>6, <1>7, Shapes
     DEF OfTask, AcceptsWrite, AcceptsFinalize, GoesOn, Takes, Answers, Ends, PutsBack,
         Inserts, Sweep, Outside

LEMMA NextSameTarget ==
  TypeOK /\ Control /\ SameTarget /\ [Next]_vars => SameTarget'
<1> SUFFICES ASSUME TypeOK, Control, SameTarget, [Next]_vars PROVE SameTarget'
  OBVIOUS
<1> USE NoneAssumption DEF TypeOK, SameTarget
<1>0. \A t \in Tasks : job[t].kind = "finalize" => job[t].up \in Uploads
  BY DEF Control
<1>1. ASSUME NEW t \in Tasks, AcceptsWrite(t) PROVE SameTarget'
  BY <1>1 DEF AcceptsWrite, Accepted
<1>2. ASSUME NEW t \in Tasks, NEW u \in Uploads, AcceptsFinalize(t, u)
      PROVE  SameTarget'
  BY <1>2 DEF AcceptsFinalize, Accepted
<1>3. ASSUME NEW t \in Tasks, SameRequest(t), job'[t].held = job[t].held,
             UNCHANGED pending
      PROVE  SameTarget'
  BY <1>3 DEF SameRequest
<1>4. ASSUME NEW t \in Tasks, Takes(t) PROVE SameTarget'
  BY <1>0, <1>4 DEF Takes, Moves, SameRequest
<1>5. ASSUME NEW t \in Tasks, Finish(t)
      PROVE  /\ job'[t].kind # "finalize"
             /\ \A t2 \in Tasks \ {t} : job'[t2] = job[t2]
  BY <1>5 DEF Finish, IdleJob
<1>6. ASSUME NEW t \in Tasks, Answers(t) PROVE SameTarget'
  BY <1>5, <1>6 DEF Answers
<1>7. ASSUME NEW t \in Tasks, Ends(t) PROVE SameTarget'
  BY <1>0, <1>5, <1>7 DEF Ends
<1>8. ASSUME NEW t \in Tasks, PutsBack(t) PROVE SameTarget'
  <2>1. PICK s \in Session : /\ s.ptr = job[t].held.ptr
                             /\ pending' = [pending EXCEPT ![job[t].up] = s]
    BY <1>8 DEF PutsBack
  <2>2. job[t].kind = "finalize" /\ s.ptr = job[t].ptr
    BY <1>8, <2>1, InHand DEF PutsBack
  <2> QED BY <1>0, <1>5, <1>8, <2>1, <2>2 DEF PutsBack
<1>9. ASSUME NEW t \in Tasks, NEW u \in Uploads, Inserts(t, u) PROVE SameTarget'
  BY <1>0, <1>5, <1>9 DEF Inserts
<1>10. CASE Ages
  BY <1>0, <1>10 DEF Ages, SameSession
<1>11. CASE Sweep
  BY <1>0, <1>11 DEF Sweep
<1>12. CASE Restart
  BY <1>12 DEF Restart, IdleJob
<1>13. CASE UNCHANGED <<writing, pending, job, fate>>
  BY <1>13
<1> QED
  BY <1>1, <1>2, <1>3, <1>4, <1>6, <1>7, <1>8, <1>9, <1>10, <1>11, <1>12, <1>13, Shapes
     DEF OfTask, Locks, GoesOn, Moves, Outside

\* Two tasks past the lock are past it for different pointers.
LEMMA LockExcludes ==
  ASSUME LockHeld, NEW t1 \in Tasks, NEW t2 \in Tasks,
         job[t1].pc \notin {"idle", "lock"}, job[t2].pc \notin {"idle", "lock"},
         job[t1].ptr = job[t2].ptr
  PROVE  t1 = t2
  BY DEF LockHeld

LEMMA NextPendingExcludes == IInv /\ [Next]_vars => PendingExcludes'
<1> SUFFICES ASSUME IInv, [Next]_vars PROVE PendingExcludes'
  OBVIOUS
<1> USE NoneAssumption DEF IInv, TypeOK, PendingExcludes
<1>0. \A t \in Tasks : job[t].held # None \/ PastCheck(t)
        => job[t].pc \notin {"idle", "lock"}
  BY InHand DEF PastCheck
<1>1. ASSUME NEW t \in Tasks, Accepted(t) PROVE PendingExcludes'
  BY <1>1 DEF Accepted, PastCheck
<1>2. ASSUME NEW t \in Tasks, Locks(t) PROVE PendingExcludes'
  BY <1>2 DEF Locks, SameRequest, PastCheck
<1>3. ASSUME NEW t \in Tasks, GoesOn(t) PROVE PendingExcludes'
  BY <1>3 DEF GoesOn, Moves, SameRequest, PastCheck, AwaitsPayment
<1>4. ASSUME NEW t \in Tasks, Takes(t) PROVE PendingExcludes'
  <2>1. job[t].up \in Uploads /\ pending[job[t].up].ptr = job[t].ptr
    BY <1>4 DEF Takes, Control, SameTarget
  <2>2. \A u2 \in Uploads : pending'[u2] # None
          => pending'[u2] = pending[u2] /\ pending[u2].ptr # job[t].ptr
    BY <1>4, <2>1 DEF Takes
  <2> QED BY <1>4, <2>1, <2>2 DEF Takes, Moves, SameRequest, PastCheck
<1>5. ASSUME NEW t \in Tasks, Finish(t)
      PROVE  /\ job'[t].held = None /\ ~PastCheck(t)'
             /\ \A t2 \in Tasks \ {t} : job'[t2] = job[t2]
  BY <1>5 DEF Finish, IdleJob, PastCheck
<1>6. ASSUME NEW t \in Tasks, Finish(t), UNCHANGED pending PROVE PendingExcludes'
  BY <1>5, <1>6 DEF PastCheck
<1>7. ASSUME NEW t \in Tasks, Finish(t), job[t].held # None \/ PastCheck(t),
             NEW u \in Uploads, NEW s \in Session, s.ptr = job[t].ptr,
             pending' = [pending EXCEPT ![u] = s]
      PROVE  PendingExcludes'
  <2>1. \A u2 \in Uploads : pending[u2] # None => pending[u2].ptr # s.ptr
    BY <1>7
  <2>2. \A t2 \in Tasks \ {t} :
          job[t2].held # None \/ PastCheck(t2) => job[t2].ptr # s.ptr
    BY <1>0, <1>7, LockExcludes
  <2> QED BY <1>5, <1>7, <2>1, <2>2 DEF PastCheck
<1>8. ASSUME NEW t \in Tasks, PutsBack(t) PROVE PendingExcludes'
  <2>1. PICK s \in Session : /\ s.ptr = job[t].held.ptr
                             /\ pending' = [pending EXCEPT ![job[t].up] = s]
    BY <1>8 DEF PutsBack
  <2>2. job[t].up \in Uploads /\ job[t].held.ptr = job[t].ptr
    BY <1>8, InHand DEF PutsBack, SameTarget
  <2>3. Finish(t) /\ job[t].held # None
    BY <1>8 DEF PutsBack
  <2> QED BY <1>7, <2>1, <2>2, <2>3
<1>9. ASSUME NEW t \in Tasks, NEW u \in Uploads, Inserts(t, u)
      PROVE  PendingExcludes'
  <2>1. PICK s \in Session : s.ptr = job[t].ptr /\ pending' = [pending EXCEPT ![u] = s]
    BY <1>9 DEF Inserts
  <2>2. Finish(t) /\ PastCheck(t)
    BY <1>9 DEF Inserts
  <2> QED BY <1>7, <2>1, <2>2
<1>10. CASE Ages
  BY <1>10 DEF Ages, SameSession, PastCheck
<1>11. CASE Sweep
  BY <1>11 DEF Sweep, PastCheck
<1>12. CASE Restart
  BY <1>12 DEF Restart
<1>13. CASE UNCHANGED <<writing, pending, job, fate>>
  BY <1>13 DEF PastCheck
<1> QED
  BY <1>1, <1>2, <1>3, <1>4, <1>6, <1>8, <1>9, <1>10, <1>11, <1>12, <1>13, Shapes
     DEF OfTask, AcceptsWrite, AcceptsFinalize, Answers, Ends, Outside

LEMMA Invariance == Spec => []IInv
<1>1. Init => IInv
  BY InitType, NoneAssumption
     DEF Init, IInv, Control, LockHeld, SameTarget, PendingExcludes, PastCheck, IdleJob
<1>2. IInv /\ [Next]_vars => IInv'
  BY NextType, NextControl, NextLockHeld, NextSameTarget, NextPendingExcludes DEF IInv
<1> QED BY <1>1, <1>2, PTL DEF Spec

LEMMA IInvExcludes == IInv => OneWriteInFlight
<1> SUFFICES ASSUME IInv, NEW p \in Pointers, NEW x \in InFlight(p), NEW y \in InFlight(p)
             PROVE  x = y
  BY DEF OneWriteInFlight
<1> DEFINE Waiting(u) == u \in Uploads /\ pending[u] # None /\ pending[u].ptr = p
           Busy(t) == t \in Tasks /\ job[t].ptr = p /\ (job[t].held # None \/ PastCheck(t))
<1>1. (Waiting(x) \/ Busy(x)) /\ (Waiting(y) \/ Busy(y))
  BY DEF InFlight
<1>2. \A u, t : ~(Waiting(u) /\ Busy(t))
  BY DEF IInv, PendingExcludes
<1>3. CASE Waiting(x) /\ Waiting(y)
  BY <1>3 DEF IInv, PendingExcludes
<1>4. CASE Busy(x) /\ Busy(y)
  <2>1. job[x].pc \notin {"idle", "lock"} /\ job[y].pc \notin {"idle", "lock"}
    BY <1>4, InHand DEF IInv, PastCheck
  <2> QED BY <1>4, <2>1, LockExcludes DEF IInv
<1> QED BY <1>1, <1>2, <1>3, <1>4

\* refuse_if_pending under the write lock: on every pointer at most one paid
\* write of this daemon is under way, whatever prepares, writes, finalizes,
\* sweeps, disconnections and restarts interleave.
THEOREM WriteExclusion == Spec => []OneWriteInFlight
  BY Invariance, IInvExcludes, PTL

-----------------------------------------------------------------------------
(* Sessions are neither lost nor duplicated.                               *)

\* A session is in the map or in hand exactly as long as its fate is open.
Accounted ==
    \A u \in Uploads :
        fate[u] = "live" <=> \/ pending[u] # None
                            \/ \E t \in Tasks : job[t].held # None /\ job[t].up = u

LEMMA AccountedIsKept == IInv /\ Accounted => LiveIsKept
<1> SUFFICES ASSUME IInv, Accounted, NEW u \in Uploads
             PROVE  LET holders == {t \in Tasks : job[t].held # None /\ job[t].up = u} IN
                    /\ fate[u] = "live" <=> (pending[u] # None \/ holders # {})
                    /\ \A t1, t2 \in holders : t1 = t2
                    /\ holders # {} => pending[u] = None
  BY DEF LiveIsKept
<1> DEFINE holders == {t \in Tasks : job[t].held # None /\ job[t].up = u}
<1>1. \A t \in holders : job[t].kind = "finalize" /\ job[t].pc \notin {"idle", "lock"}
  BY InHand DEF IInv
<1>2. ASSUME NEW t1 \in holders, NEW t2 \in holders PROVE t1 = t2
  <2>1. job[t1].ptr = job[t2].ptr
    BY <1>1 DEF IInv, SameTarget
  <2> QED BY <1>1, <2>1, LockExcludes DEF IInv
<1>3. ASSUME NEW t \in holders PROVE pending[u] = None
  BY <1>1 DEF IInv, SameTarget, PendingExcludes
<1> QED BY <1>2, <1>3 DEF Accounted

LEMMA NextAccounted == IInv /\ Accounted /\ [Next]_vars => Accounted'
<1> SUFFICES ASSUME IInv, Accounted, [Next]_vars PROVE Accounted'
  OBVIOUS
<1> USE NoneAssumption DEF IInv, TypeOK, Accounted
<1>0. LiveIsKept
  BY AccountedIsKept
<1>1. ASSUME NEW t \in Tasks, Accepted(t) PROVE Accounted'
  <2>1. job[t].held = None
    BY <1>1, InHand DEF Accepted
  <2> QED BY <1>1, <2>1 DEF Accepted
<1>2. ASSUME NEW t \in Tasks, SameRequest(t), job'[t].held = job[t].held,
             UNCHANGED pending
      PROVE  Accounted'
  BY <1>2 DEF SameRequest
<1>3. ASSUME NEW t \in Tasks, Takes(t) PROVE Accounted'
  <2>1. job[t].up \in Uploads
    BY <1>3 DEF Takes, Control
  <2>2. job[t].held = None
    BY <1>0, <1>3, <2>1 DEF LiveIsKept, Takes
  <2> QED BY <1>3, <2>1, <2>2 DEF Takes, Moves, SameRequest
<1>4. ASSUME NEW t \in Tasks, Finish(t)
      PROVE  job'[t].held = None /\ \A t2 \in Tasks \ {t} : job'[t2] = job[t2]
  BY <1>4 DEF Finish, IdleJob
<1>5. ASSUME NEW t \in Tasks, Answers(t) PROVE Accounted'
  BY <1>4, <1>5 DEF Answers
<1>6. ASSUME NEW t \in Tasks, job[t].held # None
      PROVE  /\ job[t].up \in Uploads
             /\ fate[job[t].up] = "live" /\ pending[job[t].up] = None
             /\ \A t2 \in Tasks \ {t} : job[t2].held = None \/ job[t2].up # job[t].up
  BY <1>0, <1>6, InHand DEF LiveIsKept
<1>7. ASSUME NEW t \in Tasks, Ends(t) PROVE Accounted'
  BY <1>4, <1>6, <1>7 DEF Ends
<1>8. ASSUME NEW t \in Tasks, PutsBack(t) PROVE Accounted'
  <2>1. PICK s \in Session : pending' = [pending EXCEPT ![job[t].up] = s]
    BY <1>8 DEF PutsBack
  <2> QED BY <1>4, <1>6, <1>8, <2>1 DEF PutsBack
<1>9. ASSUME NEW t \in Tasks, NEW u \in Uploads, Inserts(t, u) PROVE Accounted'
  <2>1. PICK s \in Session : pending' = [pending EXCEPT ![u] = s]
    BY <1>9 DEF Inserts
  <2> QED BY <1>4, <1>9, <2>1 DEF Inserts
<1>10. CASE Ages
  BY <1>10 DEF Ages, SameSession
<1>11. CASE Sweep
  <2>1. \A u \in Uploads : pending[u] # None =>
          \A t \in Tasks : job[t].held = None \/ job[t].up # u
    BY <1>6
  <2> QED BY <1>11, <2>1 DEF Sweep, Stale
<1>12. CASE Restart
  BY <1>12 DEF Restart, IdleJob
<1>13. CASE UNCHANGED <<writing, pending, job, fate>>
  BY <1>13
<1> QED
  BY <1>1, <1>2, <1>3, <1>5, <1>7, <1>8, <1>9, <1>10, <1>11, <1>12, <1>13, Shapes
     DEF OfTask, AcceptsWrite, AcceptsFinalize, Locks, GoesOn, Moves, Outside

\* to_completion and the reinsertions of finalize_paid: a paid or payable
\* session leaves the daemon only by being stored, refused, swept or lost to a
\* restart, and until then it is in exactly one place.
THEOREM SessionsKept == Spec => []LiveIsKept
<1>1. Init => Accounted
  BY DEF Init, Accounted, IdleJob
<1> QED BY <1>1, NextAccounted, AccountedIsKept, Invariance, PTL DEF Spec

-----------------------------------------------------------------------------
(* The parts of the invariant about signed states.                         *)

\* r is the state that the session of u has for p, in the map or in hand.
Keeps(u, p, r) ==
    \/ pending[u] # None /\ pending[u].ptr = p /\ pending[u].rec = r
    \/ \E t \in Tasks : /\ job[t].held # None /\ job[t].up = u
                        /\ job[t].ptr = p /\ job[t].rec = r

\* A finalize stores the state of the session it took out.
InHandAsSigned == \A t \in Tasks : job[t].held # None => job[t].rec = job[t].held.rec

\* A signed state names whoever writes it: the request, or the upload id.
Signed ==
    /\ \A t \in Tasks : PastCheck(t) /\ job[t].pc # "sign" => job[t].rec.by = t
    /\ \A u \in Uploads, p \in Pointers, r \in State : Keeps(u, p, r) => r.by = u

\* The close group never falls behind a state of this daemon that landed.
Served ==
    \A p \in Pointers :
        /\ net[p].by # Rival => net[p] \in own[p]
        /\ ~net[p].final => \A r \in own[p] : ~r.final /\ r.counter <= net[p].counter

Past(r, p) == \A r2 \in own[p] : ~r2.final /\ r2.counter < r.counter

PastOthers(r, p) == \A r2 \in own[p] : r2 = r \/ (~r2.final /\ r2.counter < r.counter)

\* From its signature to the end of its write, a state is past every other
\* state of this daemon.
Current ==
    /\ \A t \in Tasks : job[t].pc = "quote" => Past(job[t].rec, job[t].ptr)
    /\ \A u \in Uploads, p \in Pointers, r \in State : Keeps(u, p, r) => PastOthers(r, p)

LInv == IInv /\ InHandAsSigned /\ Signed /\ Served /\ Current

-----------------------------------------------------------------------------
(* How sessions come and go, and who lands.                                *)

\* An answer leaves nothing in hand and touches no other task.
LEMMA Finished ==
  ASSUME TypeOK, NEW t \in Tasks, Finish(t)
  PROVE  /\ job' = [job EXCEPT ![t] = job'[t]]
         /\ job'[t].pc = "idle" /\ job'[t].held = None /\ ~PastCheck(t)'
  BY DEF TypeOK, Finish, IdleJob, PastCheck

LEMMA NextInHandAsSigned ==
  ASSUME IInv, InHandAsSigned, [Next]_vars
  PROVE  InHandAsSigned'
<1> USE DEF InHandAsSigned, IInv, TypeOK
<1>1. ASSUME NEW t \in Tasks, OfTask(t) PROVE InHandAsSigned'
  <2>1. CASE Accepted(t)
    BY <2>1 DEF Accepted
  <2>2. CASE Locks(t) \/ Takes(t)
    BY <2>2 DEF Locks, Takes, Moves, SameRequest
  <2>3. CASE GoesOn(t)
    <3>1. CASE SignWrite(t)
      <4>1. job[t].held = None /\ job'[t].held = None
        BY <2>3, <3>1, InHand DEF GoesOn, SignWrite
      <4> QED BY <2>3, <4>1 DEF GoesOn, Moves, SameRequest
    <3>2. CASE ~SignWrite(t)
      BY <2>3, <3>2 DEF GoesOn, Moves, SameRequest
    <3> QED BY <3>1, <3>2
  <2>4. CASE Finish(t)
    BY <2>4, Finished
  <2> QED
    BY <1>1, <2>1, <2>2, <2>3, <2>4
       DEF OfTask, AcceptsWrite, AcceptsFinalize, Answers, Ends, PutsBack, Inserts
<1>2. CASE Ages
  BY <1>2 DEF Ages, SameSession
<1>3. CASE Restart
  BY <1>3 DEF Restart, IdleJob
<1>4. CASE UNCHANGED job
  BY <1>4
<1> QED BY <1>1, <1>2, <1>3, <1>4, Shapes DEF Sweep, Outside

\* A session has the state it was inserted with until it ends.
LEMMA NextKeeps ==
  ASSUME IInv, InHandAsSigned, [Next]_vars,
         NEW u \in Uploads, NEW p \in Pointers, NEW r \in State, Keeps(u, p, r)'
  PROVE  \/ Keeps(u, p, r)
         \/ \E t \in Tasks : /\ Inserts(t, u)
                             /\ p = job[t].ptr
                             /\ r = [job[t].rec EXCEPT !.by = u]
                             /\ UNCHANGED <<net, own>>
<1> USE NoneAssumption DEF Keeps, IInv, TypeOK
<1>1. ASSUME NEW t \in Tasks, Accepted(t) PROVE Keeps(u, p, r)
  BY <1>1 DEF Accepted
<1>2. ASSUME NEW t \in Tasks, Locks(t) PROVE Keeps(u, p, r)
  BY <1>2 DEF Locks, SameRequest
<1>3. ASSUME NEW t \in Tasks, GoesOn(t) PROVE Keeps(u, p, r)
  <2>1. CASE SignWrite(t)
    <3>1. job[t].held = None /\ job'[t].held = None
      BY <1>3, <2>1, InHand DEF GoesOn, SignWrite
    <3> QED BY <1>3, <3>1 DEF GoesOn, Moves, SameRequest
  <2>2. CASE ~SignWrite(t)
    BY <1>3, <2>2 DEF GoesOn, Moves, SameRequest
  <2> QED BY <2>1, <2>2
<1>4. ASSUME NEW t \in Tasks, Takes(t) PROVE Keeps(u, p, r)
  <2>1. job[t].up \in Uploads /\ pending[job[t].up].ptr = job[t].ptr
    BY <1>4 DEF Takes, Control, SameTarget
  <2> QED BY <1>4, <2>1 DEF Takes, Moves, SameRequest
<1>5. ASSUME NEW t \in Tasks, Answers(t) \/ Ends(t) PROVE Keeps(u, p, r)
  BY <1>5, Finished DEF Answers, Ends
<1>6. ASSUME NEW t \in Tasks, PutsBack(t) PROVE Keeps(u, p, r)
  <2>1. PICK s \in Session : /\ s.ptr = job[t].held.ptr
                             /\ s.rec = job[t].held.rec
                             /\ pending' = [pending EXCEPT ![job[t].up] = s]
    BY <1>6 DEF PutsBack
  <2>2. /\ job[t].held # None /\ job[t].up \in Uploads
        /\ s.ptr = job[t].ptr /\ s.rec = job[t].rec
    BY <1>6, <2>1, InHand DEF PutsBack, SameTarget, InHandAsSigned
  <2> QED BY <1>6, <2>1, <2>2, Finished DEF PutsBack
<1>7. ASSUME NEW t \in Tasks, NEW u2 \in Uploads, Inserts(t, u2), UNCHANGED <<net, own>>
      PROVE  \/ Keeps(u, p, r)
             \/ /\ u2 = u
                /\ p = job[t].ptr
                /\ r = [job[t].rec EXCEPT !.by = u]
  <2>1. PICK s \in Session : /\ s.ptr = job[t].ptr
                             /\ s.rec = [job[t].rec EXCEPT !.by = u2]
                             /\ pending' = [pending EXCEPT ![u2] = s]
    BY <1>7 DEF Inserts
  <2> QED BY <1>7, <2>1, Finished DEF Inserts
<1>8. CASE Ages
  BY <1>8 DEF Ages, SameSession
<1>9. CASE Sweep
  BY <1>9 DEF Sweep
<1>10. CASE Restart
  BY <1>10 DEF Restart, IdleJob
<1>11. CASE Outside
  BY <1>11 DEF Outside
<1> QED
  BY <1>1, <1>2, <1>3, <1>4, <1>5, <1>6, <1>7, <1>8, <1>9, <1>10, <1>11, Shapes
     DEF OfTask, AcceptsWrite, AcceptsFinalize

\* Whoever lands has its pointer to itself: a write past its pending check, or
\* the finalize of the only session there.
LEMMA LandsAlone ==
  ASSUME IInv, NEW t \in Tasks, Land(t)
  PROVE  /\ job[t].ptr \in Pointers
         /\ job[t].rec \in State
         /\ PastCheck(t) \/ (job[t].held # None /\ job[t].up \in Uploads
                               /\ Keeps(job[t].up, job[t].ptr, job[t].rec))
         /\ \A t2 \in Tasks : job[t2].pc = "quote" => job[t2].ptr # job[t].ptr
         /\ \A u \in Uploads, r \in State :
               Keeps(u, job[t].ptr, r) => /\ job[t].held # None
                                          /\ job[t].up = u /\ job[t].rec = r
<1> USE DEF IInv, Land
<1>1. job[t].ptr \in Pointers /\ job[t].rec \in State
  BY DEF TypeOK, Control, Job
<1>2. PastCheck(t) \/ (job[t].held # None /\ job[t].up \in Uploads)
  BY InHand DEF PastCheck
<1>3. job[t].held # None => Keeps(job[t].up, job[t].ptr, job[t].rec)
  BY DEF Keeps
<1>4. \A t2 \in Tasks : job[t2].pc = "quote" => job[t2].ptr # job[t].ptr
  BY LockExcludes
<1>5. ASSUME NEW u \in Uploads, NEW r \in State, Keeps(u, job[t].ptr, r)
      PROVE  job[t].held # None /\ job[t].up = u /\ job[t].rec = r
  <2>1. pending[u] = None \/ pending[u].ptr # job[t].ptr
    BY <1>2 DEF PendingExcludes
  <2>2. PICK t2 \in Tasks : /\ job[t2].held # None /\ job[t2].up = u
                            /\ job[t2].ptr = job[t].ptr /\ job[t2].rec = r
    BY <1>5, <2>1 DEF Keeps
  <2>3. job[t2].pc \notin {"idle", "lock"}
    BY <2>2, InHand
  <2>4. t2 = t
    BY <2>2, <2>3, LockExcludes
  <2> QED BY <2>2, <2>4
<1> QED BY <1>1, <1>2, <1>3, <1>4, <1>5

-----------------------------------------------------------------------------
(* The parts of the invariant, one lemma each.                             *)

\* What a task signs, it signs as itself, one past what is served.
LEMMA SignsNext ==
  ASSUME TypeOK, Control, NEW t \in Tasks, SignWrite(t)
  PROVE  /\ job[t].ptr \in Pointers
         /\ ~net[job[t].ptr].final
         /\ job' = [job EXCEPT ![t] = job'[t]]
         /\ job'[t].ptr = job[t].ptr
         /\ job'[t].rec.by = t
         /\ job'[t].rec.counter = net[job[t].ptr].counter + 1
  BY DEF TypeOK, Control, SignWrite, Refuses, Job

LEMMA NextSigned ==
  ASSUME IInv, InHandAsSigned, Signed, [Next]_vars
  PROVE  Signed'
<1> USE DEF IInv, TypeOK
<1>1. ASSUME NEW t2 \in Tasks, PastCheck(t2)', job'[t2].pc # "sign"
      PROVE  job'[t2].rec.by = t2
  <2>1. job[t2].rec.by = t2 \/ ~PastCheck(t2) \/ job[t2].pc = "sign"
    BY DEF Signed
  <2>2. ASSUME NEW t \in Tasks, OfTask(t) PROVE job'[t2].rec.by = t2
    <3>1. CASE Accepted(t)
      BY <1>1, <2>1, <3>1 DEF Accepted, PastCheck
    <3>2. CASE Locks(t) \/ Takes(t)
      BY <1>1, <2>1, <3>2 DEF Locks, Takes, Moves, SameRequest, PastCheck
    <3>3. CASE GoesOn(t)
      <4>1. CASE SignWrite(t)
        BY <1>1, <2>1, <4>1, SignsNext DEF PastCheck
      <4>2. CASE ~SignWrite(t)
        BY <1>1, <2>1, <3>3, <4>2 DEF GoesOn, Moves, SameRequest, PastCheck
      <4> QED BY <4>1, <4>2
    <3>4. CASE Finish(t)
      BY <1>1, <2>1, <3>4, Finished DEF PastCheck
    <3> QED
      BY <2>2, <3>1, <3>2, <3>3, <3>4
         DEF OfTask, AcceptsWrite, AcceptsFinalize, Answers, Ends, PutsBack, Inserts
  <2>3. CASE Ages
    BY <1>1, <2>1, <2>3 DEF Ages, PastCheck
  <2>4. CASE Restart
    BY <1>1, <2>4 DEF Restart, IdleJob, PastCheck
  <2>5. CASE UNCHANGED job
    BY <1>1, <2>1, <2>5 DEF PastCheck
  <2> QED BY <2>2, <2>3, <2>4, <2>5, Shapes DEF Sweep, Outside
<1>2. ASSUME NEW u \in Uploads, NEW p \in Pointers, NEW r \in State, Keeps(u, p, r)'
      PROVE  r.by = u
  <2>1. CASE Keeps(u, p, r)
    BY <2>1 DEF Signed
  <2>2. ASSUME NEW t \in Tasks, r = [job[t].rec EXCEPT !.by = u] PROVE r.by = u
    <3>1. job[t].rec \in State
      BY DEF Job
    <3> QED BY <2>2, <3>1 DEF State
  <2> QED BY <1>2, <2>1, <2>2, NextKeeps
<1> QED BY <1>1, <1>2 DEF Signed

\* Nothing else changes what is served or has landed.
LEMMA NextNet ==
  ASSUME IInv, [Next]_vars
  PROVE  \/ \E t \in Tasks : Land(t)
         \/ \E p \in Pointers : RivalWrite(p)
         \/ UNCHANGED <<net, own>>
  BY Shapes DEF IInv, OfTask, Ages, Sweep, Restart, Outside

LEMMA NextServed ==
  ASSUME IInv, Served, [Next]_vars
  PROVE  Served'
<1> USE DEF IInv, TypeOK, Served
<1>1. ASSUME NEW t \in Tasks, Land(t) PROVE Served'
  <2> DEFINE p0 == job[t].ptr
             r0 == job[t].rec
  <2>1. /\ p0 \in Pointers /\ r0 \in State
        /\ CanLand(r0, net[p0])
        /\ net' = [net EXCEPT ![p0] = r0]
        /\ own' = [own EXCEPT ![p0] = own[p0] \cup {r0}]
    BY <1>1, LandsAlone DEF Land
  <2>2. ~net[p0].final /\ net[p0].counter \in Nat /\ r0.counter \in Nat
    BY <2>1 DEF CanLand, State
  <2>3. ~r0.final => r0.counter >= net[p0].counter
    BY <2>1 DEF CanLand
  <2>4. \A r \in own[p0] : r.counter \in Nat
    BY <2>1 DEF State
  <2> HIDE DEF p0, r0
  <2>5. ASSUME ~r0.final, NEW r \in own'[p0] PROVE ~r.final /\ r.counter <= r0.counter
    BY <2>1, <2>2, <2>3, <2>4, <2>5
  <2> QED BY <2>1, <2>5
<1>2. ASSUME NEW p0 \in Pointers, RivalWrite(p0) PROVE Served'
  <2>1. PICK final \in BOOLEAN :
          net' = [net EXCEPT ![p0] = [counter |-> net[p0].counter + 1,
                                      final |-> final, by |-> Rival]]
    BY <1>2 DEF RivalWrite
  <2>2. ~net[p0].final /\ net[p0].counter \in Nat /\ own' = own
    BY <1>2 DEF RivalWrite, State
  <2>3. \A r \in own[p0] : ~r.final /\ r.counter \in Nat /\ r.counter <= net[p0].counter
    BY <2>2 DEF State
  <2>4. /\ net'[p0].by = Rival
        /\ net'[p0].counter = net[p0].counter + 1
        /\ \A p \in Pointers \ {p0} : net'[p] = net[p]
    BY <2>1
  <2>5. \A r \in own[p0] : r.counter <= net'[p0].counter
    BY <2>2, <2>3, <2>4
  <2> QED BY <2>2, <2>3, <2>4, <2>5
<1>3. CASE UNCHANGED <<net, own>>
  BY <1>3
<1> QED BY <1>1, <1>2, <1>3, NextNet

LEMMA NextCurrent ==
  ASSUME IInv, InHandAsSigned, Served, Current, [Next]_vars
  PROVE  Current'
<1> USE DEF IInv, TypeOK, Past, PastOthers
<1>1. ASSUME NEW t \in Tasks, Land(t) PROVE Current'
  <2>1. /\ own' = [own EXCEPT ![job[t].ptr] = own[job[t].ptr] \cup {job[t].rec}]
        /\ UNCHANGED <<pending, job>>
    BY <1>1 DEF Land
  <2>2. \A t2 \in Tasks : job[t2].pc = "quote" => job[t2].ptr \in Pointers
    BY DEF Control
  <2>3. \A t2 \in Tasks : job[t2].pc = "quote" => Past(job[t2].rec, job[t2].ptr)'
    BY <1>1, <2>1, <2>2, LandsAlone DEF Current
  <2>4. \A u \in Uploads, p \in Pointers, r \in State : Keeps(u, p, r)' => Keeps(u, p, r)
    BY <2>1 DEF Keeps
  <2>5. \A u \in Uploads, p \in Pointers, r \in State :
          Keeps(u, p, r) => PastOthers(r, p)'
    BY <1>1, <2>1, LandsAlone DEF Current
  <2> QED BY <2>1, <2>3, <2>4, <2>5 DEF Current
<1>2. ASSUME UNCHANGED own PROVE Current'
  <2>1. ASSUME NEW t2 \in Tasks, job'[t2].pc = "quote"
        PROVE  Past(job[t2].rec, job[t2].ptr)'
    <3>0. job[t2].pc = "quote" => Past(job[t2].rec, job[t2].ptr)
      BY DEF Current
    <3>1. ASSUME NEW t \in Tasks, OfTask(t)
          PROVE  Past(job[t2].rec, job[t2].ptr)'
      <4>1. CASE Accepted(t)
        BY <1>2, <2>1, <3>0, <4>1 DEF Accepted
      <4>2. CASE Locks(t) \/ Takes(t)
        BY <1>2, <2>1, <3>0, <4>2 DEF Locks, Takes, Moves, SameRequest
      <4>3. CASE GoesOn(t) /\ ~SignWrite(t)
        BY <1>2, <2>1, <3>0, <4>3 DEF GoesOn, Moves, SameRequest
      <4>4. CASE SignWrite(t)
        <5>1. CASE t2 = t
          <6> DEFINE p == job[t].ptr
          <6>1. /\ p \in Pointers /\ ~net[p].final
                /\ job'[t].rec.counter = net[p].counter + 1
                /\ job'[t].ptr = p
            BY <4>4, SignsNext
          <6>2. net[p].counter \in Nat /\ \A r \in own[p] : r.counter \in Nat
            BY <6>1 DEF State
          <6>3. \A r \in own[p] : ~r.final /\ r.counter <= net[p].counter
            BY <6>1 DEF Served
          <6> QED BY <1>2, <5>1, <6>1, <6>2, <6>3
        <5>2. CASE t2 # t
          BY <1>2, <2>1, <3>0, <4>4, <5>2, SignsNext
        <5> QED BY <5>1, <5>2
      <4>5. CASE Finish(t)
        BY <1>2, <2>1, <3>0, <4>5, Finished
      <4> QED
        BY <3>1, <4>1, <4>2, <4>3, <4>4, <4>5
           DEF OfTask, AcceptsWrite, AcceptsFinalize, Answers, Ends, PutsBack, Inserts
    <3>2. CASE Ages
      BY <1>2, <2>1, <3>0, <3>2 DEF Ages
    <3>3. CASE Restart
      BY <2>1, <3>3 DEF Restart, IdleJob
    <3>4. CASE UNCHANGED job
      BY <1>2, <2>1, <3>0, <3>4
    <3> QED BY <3>1, <3>2, <3>3, <3>4, Shapes DEF Sweep, Outside
  <2>2. ASSUME NEW u \in Uploads, NEW p \in Pointers, NEW r \in State, Keeps(u, p, r)'
        PROVE  PastOthers(r, p)'
    <3>1. CASE Keeps(u, p, r)
      BY <1>2, <3>1 DEF Current
    <3>2. ASSUME NEW t \in Tasks, Inserts(t, u), p = job[t].ptr,
                 r = [job[t].rec EXCEPT !.by = u]
          PROVE  PastOthers(r, p)'
      <4>1. Past(job[t].rec, p)
        BY <3>2 DEF Inserts, Current
      <4>2. r.counter = job[t].rec.counter
        BY <3>2 DEF Job, State
      <4> QED BY <1>2, <4>1, <4>2
    <3> QED BY <2>2, <3>1, <3>2, NextKeeps
  <2> QED BY <2>1, <2>2 DEF Current
<1> QED BY <1>1, <1>2, NextNet DEF RivalWrite

LEMMA LandingInvariance == Spec => []LInv
<1>1. Init => InHandAsSigned /\ Signed /\ Served /\ Current
  BY DEF Init, InHandAsSigned, Signed, Served, Current, Keeps, PastCheck, IdleJob, NoState
<1>2. IInv /\ InHandAsSigned /\ Signed /\ Served /\ Current /\ [Next]_vars
        => (InHandAsSigned /\ Signed /\ Served /\ Current)'
  BY NextInHandAsSigned, NextSigned, NextServed, NextCurrent
<1> QED BY <1>1, <1>2, Invariance, PTL DEF Spec, LInv

-----------------------------------------------------------------------------
(* Nothing of this daemon overtakes a session.                             *)

\* The kept sessions of PointerWrites, told by their state.
KeptAreKeeps ==
    \A u \in Uploads : \A s \in KeptSessions(u) :
        s.ptr \in Pointers /\ s.rec \in State /\ Keeps(u, s.ptr, s.rec)

LEMMA KeptIsKeeps == IInv /\ InHandAsSigned => KeptAreKeeps
<1> SUFFICES ASSUME IInv, InHandAsSigned, NEW u \in Uploads, NEW s \in KeptSessions(u)
             PROVE  s.ptr \in Pointers /\ s.rec \in State /\ Keeps(u, s.ptr, s.rec)
  BY DEF KeptAreKeeps
<1>1. CASE s = pending[u] /\ s # None
  <2>1. s \in Session
    BY <1>1 DEF IInv, TypeOK
  <2> QED BY <1>1, <2>1 DEF Keeps, Session
<1>2. ASSUME NEW t \in Tasks, job[t].up = u, s = job[t].held, s # None
      PROVE  s \in Session /\ Keeps(u, s.ptr, s.rec)
  <2>1. s \in Session /\ job[t].kind = "finalize"
    BY <1>2, InHand DEF IInv
  <2>2. s.ptr = job[t].ptr /\ s.rec = job[t].rec
    BY <1>2, <2>1 DEF IInv, SameTarget, InHandAsSigned
  <2> QED BY <1>2, <2>1, <2>2 DEF Keeps
<1> QED BY <1>1, <1>2 DEF KeptSessions, Kept, Session

\* refuse_if_pending and the lock order of finalize_paid: from the signature of
\* a prepared write to its end, no state of this daemon lands at or past its
\* counter, so what the signer pays for is never stale by this daemon's doing.
THEOREM SessionsAreCurrent == Spec => []NotOvertaken
<1>1. ASSUME LInv PROVE NotOvertaken
  <2> SUFFICES ASSUME NEW u \in Uploads, NEW s \in KeptSessions(u), NEW r \in own[s.ptr]
               PROVE  r = s.rec \/ (~r.final /\ r.counter < s.rec.counter)
    BY DEF NotOvertaken
  <2>1. PastOthers(s.rec, s.ptr)
    BY <1>1, KeptIsKeeps DEF KeptAreKeeps, LInv, Current
  <2> QED BY <2>1 DEF PastOthers
<1> QED BY <1>1, LandingInvariance, PTL

-----------------------------------------------------------------------------
(* What the answers of a finalize say about the network.                   *)

\* A state that a finalize answers success for was signed for its upload id and
\* is among the states that landed.
LEMMA NextStored ==
  ASSUME LInv, StoredHasLanded, [Next]_vars
  PROVE  StoredHasLanded'
<1> USE DEF LInv, IInv, TypeOK, StoredHasLanded
<1>1. ASSUME NEW u \in Uploads, fate[u] = "stored"
      PROVE  \E p \in Pointers : \E r \in own'[p] : r.by = u
  <2>1. PICK p \in Pointers : \E r \in own[p] : r.by = u
    BY <1>1
  <2>2. own[p] \subseteq own'[p]
    BY NextNet DEF Land, RivalWrite
  <2> QED BY <2>1, <2>2
<1>2. ASSUME NEW u \in Uploads, NEW t \in Tasks, Ends(t), UNCHANGED <<net, own>>,
             job[t].up = u, fate'[u] = "stored"
      PROVE  \E p \in Pointers : \E r \in own'[p] : r.by = u
  <2>1. job[t].ptr \in Pointers /\ job[t].rec \in State
    BY <1>2, InHand DEF Ends, Control, Job
  <2>2. Keeps(u, job[t].ptr, job[t].rec)
    BY <1>2 DEF Ends, Keeps
  <2>3. job[t].rec.by = u
    BY <2>1, <2>2 DEF Signed
  <2>4. job[t].rec \in own[job[t].ptr]
    <3>1. CASE job[t].rec \in own[job[t].ptr]
      BY <3>1
    <3>2. CASE net[job[t].ptr] = job[t].rec
      BY <2>1, <2>3, <3>2, ConstantsAssumption DEF Served
    <3> QED BY <1>2, <3>1, <3>2 DEF Ends
  <2> QED BY <1>2, <2>1, <2>3, <2>4
<1>3. ASSUME NEW u \in Uploads, fate'[u] = "stored"
      PROVE  \/ fate[u] = "stored"
             \/ \E t \in Tasks : Ends(t) /\ UNCHANGED <<net, own>> /\ job[t].up = u
  <2>1. ASSUME NEW t \in Tasks, OfTask(t), fate[u] # "stored"
        PROVE  Ends(t) /\ UNCHANGED <<net, own>> /\ job[t].up = u
    BY <1>3, <2>1
       DEF OfTask, AcceptsWrite, AcceptsFinalize, Accepted, Locks, GoesOn, Takes, Moves,
           SameRequest, Answers, PutsBack, Inserts, Ends
  <2>2. CASE Ages \/ Sweep \/ Restart \/ Outside
    BY <1>3, <2>2 DEF Ages, Sweep, Restart, Outside
  <2> QED BY <2>1, <2>2, Shapes
<1> QED BY <1>1, <1>2, <1>3

\* A finalize answers success only for a state that has landed, also when it
\* heard of it by asking the close group after a failed acknowledgement.
THEOREM SuccessHasLanded == Spec => []StoredHasLanded
<1>1. Init => StoredHasLanded
  BY DEF Init, StoredHasLanded
<1>2. LInv /\ StoredHasLanded /\ [Next]_vars => StoredHasLanded'
  BY NextStored
<1> QED BY <1>1, <1>2, LandingInvariance, PTL DEF Spec

-----------------------------------------------------------------------------
(* What a final error says: without rivals the pointer is as it was.       *)

\* What landed for an upload id is the state of its session.
LandedForSession ==
    \A p \in Pointers : \A r \in own[p] : r.by \in Uploads =>
        /\ fate[r.by] # "unused"
        /\ \A p2 \in Pointers, r2 \in State : Keeps(r.by, p2, r2) => p2 = p /\ r2 = r

\* A session's state is served from the moment it lands, and an error of the
\* store is final only if it is not served.
ServedWhileKept ==
    /\ \A u \in Uploads, p \in Pointers, r \in State :
          Keeps(u, p, r) /\ r \in own[p] => net[p] = r
    /\ \A t \in Tasks :
          job[t].pc = "finality" /\ ~job[t].retry => net[job[t].ptr] # job[t].rec

LEMMA KeepsOne ==
  ASSUME IInv, NEW u \in Uploads, NEW p \in Pointers, NEW r \in State, Keeps(u, p, r),
         NEW p2 \in Pointers, NEW r2 \in State, Keeps(u, p2, r2)
  PROVE  p = p2 /\ r = r2
<1> USE DEF IInv
<1>1. ASSUME NEW t \in Tasks, job[t].held # None, job[t].up = u
      PROVE  /\ pending[u] = None
             /\ job[t].kind = "finalize" /\ job[t].pc \notin {"idle", "lock"}
  <2>1. job[t].kind = "finalize" /\ job[t].pc \notin {"idle", "lock"}
    BY <1>1, InHand
  <2> QED BY <1>1, <2>1 DEF SameTarget, PendingExcludes
<1>2. ASSUME NEW t \in Tasks, job[t].held # None, job[t].up = u,
             NEW t2 \in Tasks, job[t2].held # None, job[t2].up = u
      PROVE  t = t2
  <2>1. job[t].ptr = job[t2].ptr
    BY <1>1, <1>2 DEF SameTarget
  <2> QED BY <1>1, <1>2, <2>1, LockExcludes
<1> QED BY <1>1, <1>2 DEF Keeps

LEMMA NextLandedForSession ==
  ASSUME LInv, LandedForSession, [Next]_vars
  PROVE  LandedForSession'
<1> USE DEF LInv, IInv, TypeOK
<1>1. ASSUME NEW t \in Tasks, Land(t) PROVE LandedForSession'
  <2>1. /\ own' = [own EXCEPT ![job[t].ptr] = own[job[t].ptr] \cup {job[t].rec}]
        /\ UNCHANGED <<pending, job, fate>>
    BY <1>1 DEF Land
  <2>2. \A u \in Uploads, p \in Pointers, r \in State : Keeps(u, p, r)' <=> Keeps(u, p, r)
    BY <2>1 DEF Keeps
  <2>3. /\ job[t].ptr \in Pointers /\ job[t].rec \in State
        /\ PastCheck(t) \/ (job[t].held # None /\ job[t].up \in Uploads
                              /\ Keeps(job[t].up, job[t].ptr, job[t].rec))
    BY <1>1, LandsAlone
  <2>4. ASSUME job[t].rec.by \in Uploads
        PROVE  /\ fate[job[t].rec.by] # "unused"
               /\ Keeps(job[t].rec.by, job[t].ptr, job[t].rec)
    <3>1. ~PastCheck(t)
      BY <1>1, <2>4, ConstantsAssumption DEF Signed, Land
    <3>2. job[t].rec.by = job[t].up /\ job[t].kind = "finalize"
      BY <2>3, <3>1, InHand DEF Signed
    <3> QED BY <2>3, <3>1, <3>2 DEF SameTarget
  <2>5. ASSUME NEW p \in Pointers, NEW r \in own'[p], r.by \in Uploads
        PROVE  /\ fate'[r.by] # "unused"
               /\ \A p2 \in Pointers, r2 \in State :
                     Keeps(r.by, p2, r2) => p2 = p /\ r2 = r
    <3>1. CASE r \in own[p]
      BY <2>1, <2>5, <3>1 DEF LandedForSession
    <3>2. CASE r = job[t].rec /\ p = job[t].ptr
      BY <2>1, <2>3, <2>4, <2>5, <3>2, KeepsOne
    <3> QED BY <2>1, <2>5, <3>1, <3>2
  <2> QED BY <2>2, <2>5 DEF LandedForSession
<1>2. ASSUME UNCHANGED own PROVE LandedForSession'
  <2> SUFFICES ASSUME NEW p \in Pointers, NEW r \in own[p], r.by \in Uploads
               PROVE  /\ fate'[r.by] # "unused"
                      /\ \A p2 \in Pointers, r2 \in State :
                            Keeps(r.by, p2, r2)' => p2 = p /\ r2 = r
    BY <1>2 DEF LandedForSession
  <2>1. fate[r.by] # "unused"
    BY DEF LandedForSession
  <2>2. fate'[r.by] # "unused"
    BY <2>1, Shapes
       DEF OfTask, AcceptsWrite, AcceptsFinalize, Accepted, Locks, GoesOn, Takes, Moves,
           SameRequest, Answers, Ends, PutsBack, Inserts, Ages, Sweep, Restart, Outside
  <2>3. ASSUME NEW p2 \in Pointers, NEW r2 \in State, Keeps(r.by, p2, r2)'
        PROVE  p2 = p /\ r2 = r
    <3>1. Keeps(r.by, p2, r2)
      BY <2>1, <2>3, NextKeeps DEF Inserts
    <3> QED BY <3>1 DEF LandedForSession
  <2> QED BY <2>2, <2>3
<1> QED BY <1>1, <1>2, NextNet DEF RivalWrite

LEMMA NextServedWhileKept ==
  ASSUME ~Rivals, LInv, LandedForSession, ServedWhileKept, [Next]_vars
  PROVE  ServedWhileKept'
<1> USE DEF LInv, IInv, TypeOK
<1>1. ASSUME NEW t \in Tasks, Land(t) PROVE ServedWhileKept'
  <2>1. /\ own' = [own EXCEPT ![job[t].ptr] = own[job[t].ptr] \cup {job[t].rec}]
        /\ net' = [net EXCEPT ![job[t].ptr] = job[t].rec]
        /\ UNCHANGED <<pending, job>>
    BY <1>1 DEF Land
  <2>2. \A u \in Uploads, p \in Pointers, r \in State : Keeps(u, p, r)' <=> Keeps(u, p, r)
    BY <2>1 DEF Keeps
  <2>3. ASSUME NEW u \in Uploads, NEW p \in Pointers, NEW r \in State,
               Keeps(u, p, r), r \in own'[p]
        PROVE  net'[p] = r
    <3>1. CASE p = job[t].ptr
      BY <1>1, <2>1, <2>3, <3>1, LandsAlone
    <3>2. CASE p # job[t].ptr
      BY <2>1, <2>3, <3>2 DEF ServedWhileKept
    <3> QED BY <3>1, <3>2
  <2>4. ASSUME NEW t2 \in Tasks, job[t2].pc = "finality", ~job[t2].retry
        PROVE  net'[job[t2].ptr] # job[t2].rec
    <3>1. job[t2].ptr # job[t].ptr
      BY <1>1, <2>4, LockExcludes DEF Land
    <3> QED BY <2>1, <2>4, <3>1, LandsAlone DEF ServedWhileKept, Control
  <2> QED BY <2>1, <2>2, <2>3, <2>4 DEF ServedWhileKept
<1>2. ASSUME UNCHANGED <<net, own>> PROVE ServedWhileKept'
  <2>1. ASSUME NEW u \in Uploads, NEW p \in Pointers, NEW r \in State,
               Keeps(u, p, r)', r \in own[p]
        PROVE  net[p] = r
    <3>1. CASE Keeps(u, p, r)
      BY <2>1, <3>1 DEF ServedWhileKept
    <3>2. CASE ~Keeps(u, p, r)
      <4>1. PICK t \in Tasks : Inserts(t, u) /\ r = [job[t].rec EXCEPT !.by = u]
        BY <2>1, <3>2, NextKeeps
      <4>2. fate[u] = "unused" /\ r.by = u
        BY <4>1 DEF Inserts, Job, State
      <4> QED BY <2>1, <4>2 DEF LandedForSession
    <3> QED BY <3>1, <3>2
  <2>2. ASSUME NEW t2 \in Tasks, job'[t2].pc = "finality", ~job'[t2].retry
        PROVE  net[job'[t2].ptr] # job'[t2].rec
    <3>0. job[t2].pc = "finality" /\ ~job[t2].retry => net[job[t2].ptr] # job[t2].rec
      BY DEF ServedWhileKept
    <3>1. ASSUME NEW t \in Tasks, OfTask(t) PROVE net[job'[t2].ptr] # job'[t2].rec
      <4>1. CASE Accepted(t)
        BY <2>2, <3>0, <4>1 DEF Accepted
      <4>2. CASE Locks(t) \/ Takes(t)
        BY <2>2, <3>0, <4>2 DEF Locks, Takes, Moves, SameRequest
      <4>3. CASE GoesOn(t)
        <5>1. CASE SignWrite(t)
          <6>1. job'[t].pc # "finality" /\ job' = [job EXCEPT ![t] = job'[t]]
            BY <5>1 DEF SignWrite, Job
          <6> QED BY <2>2, <3>0, <6>1
        <5>2. CASE ~SignWrite(t)
          BY <2>2, <3>0, <4>3, <5>2 DEF GoesOn, Moves, SameRequest
        <5> QED BY <5>1, <5>2
      <4>4. CASE Finish(t)
        BY <2>2, <3>0, <4>4, Finished
      <4> QED
        BY <3>1, <4>1, <4>2, <4>3, <4>4
           DEF OfTask, AcceptsWrite, AcceptsFinalize, Answers, Ends, PutsBack, Inserts
    <3>2. CASE Ages
      BY <2>2, <3>0, <3>2 DEF Ages
    <3>3. CASE Restart
      BY <2>2, <3>3 DEF Restart, IdleJob
    <3>4. CASE UNCHANGED job
      BY <2>2, <3>0, <3>4
    <3> QED BY <3>1, <3>2, <3>3, <3>4, Shapes DEF Sweep, Outside
  <2> QED BY <1>2, <2>1, <2>2 DEF ServedWhileKept
<1> QED BY <1>1, <1>2, NextNet DEF RivalWrite

LEMMA NextRefused ==
  ASSUME ~Rivals, LInv, LiveIsKept, LandedForSession, ServedWhileKept, RefusedNeverLanded,
         [Next]_vars
  PROVE  RefusedNeverLanded'
<1> USE DEF LInv, IInv, TypeOK
<1> SUFFICES ASSUME NEW u \in Uploads, fate'[u] = "refused",
                    NEW p \in Pointers, NEW r \in own'[p], r.by = u
             PROVE  FALSE
  BY DEF RefusedNeverLanded
<1>1. ASSUME NEW t \in Tasks, Land(t) PROVE FALSE
  <2>1. /\ own' = [own EXCEPT ![job[t].ptr] = own[job[t].ptr] \cup {job[t].rec}]
        /\ fate[u] = "refused"
    BY <1>1 DEF Land
  <2>2. r = job[t].rec
    BY <2>1 DEF RefusedNeverLanded
  <2>3. ~PastCheck(t)
    BY <1>1, <2>2, ConstantsAssumption DEF Signed, Land
  <2>4. job[t].held # None /\ job[t].up = u
    BY <1>1, <2>2, <2>3, LandsAlone DEF Signed
  <2> QED BY <2>1, <2>4 DEF LiveIsKept
<1>2. ASSUME NEW t \in Tasks, Ends(t), UNCHANGED <<net, own>>, job[t].up = u PROVE FALSE
  <2>1. /\ job[t].ptr \in Pointers /\ job[t].rec \in State
        /\ Keeps(u, job[t].ptr, job[t].rec)
    BY <1>2, InHand DEF Ends, Control, Job, Keeps
  <2>2. p = job[t].ptr /\ r = job[t].rec
    BY <1>2, <2>1 DEF LandedForSession
  <2>3. net[job[t].ptr] = job[t].rec
    BY <1>2, <2>1, <2>2 DEF ServedWhileKept
  <2>4. net[job[t].ptr] # job[t].rec
    BY <1>2 DEF Ends, ServedWhileKept
  <2> QED BY <2>3, <2>4
<1>3. ASSUME NEW t \in Tasks, OfTask(t), ~(Ends(t) /\ job[t].up = u) PROVE FALSE
  <2>1. fate[u] = "refused" /\ UNCHANGED own
    BY <1>3
       DEF OfTask, AcceptsWrite, AcceptsFinalize, Accepted, Locks, GoesOn, Takes, Moves,
           SameRequest, Answers, Ends, PutsBack, Inserts
  <2> QED BY <2>1 DEF RefusedNeverLanded
<1>4. ASSUME Ages \/ Sweep \/ Restart \/ UNCHANGED <<own, fate>> PROVE FALSE
  <2>1. fate[u] = "refused" /\ UNCHANGED own
    BY <1>4 DEF Ages, Sweep, Restart
  <2> QED BY <2>1 DEF RefusedNeverLanded
<1> QED BY <1>1, <1>2, <1>3, <1>4, Shapes DEF OfTask, Outside, RivalWrite

\* Where nobody else writes with the daemon's keys, a finalize that answers a
\* final error has not changed its pointer, and never will.
THEOREM RefusalIsTrue ==
  ASSUME Rivals = FALSE
  PROVE  Spec => []RefusedNeverLanded
<1>1. Init => LandedForSession /\ ServedWhileKept /\ RefusedNeverLanded
  BY DEF Init, LandedForSession, ServedWhileKept, RefusedNeverLanded, Keeps, IdleJob
<1>2. LInv /\ LiveIsKept /\ LandedForSession /\ ServedWhileKept /\ RefusedNeverLanded
        /\ [Next]_vars
        => (LandedForSession /\ ServedWhileKept /\ RefusedNeverLanded)'
  BY NextLandedForSession, NextServedWhileKept, NextRefused
<1> QED BY <1>1, <1>2, LandingInvariance, SessionsKept, PTL DEF Spec

-----------------------------------------------------------------------------
(* A payment that has been proved is never asked for again.                *)

\* Proved, session by session.
Paid(u) ==
    \/ pending[u] # None /\ pending[u].proof
    \/ \E t \in Tasks : /\ job[t].held # None /\ job[t].up = u
                        /\ job[t].held.proof \/ job[t].pc \in {"store", "finality"}

LEMMA ProvedIsPaid ==
  ASSUME NEW u \in Uploads
  PROVE  Proved(u) <=> Paid(u)
  BY DEF Proved, Paid, KeptSessions, Kept

LEMMA NextPaid ==
  ASSUME IInv, LiveIsKept, [Next]_vars, NEW u \in Uploads, Paid(u)
  PROVE  Paid(u)' \/ KeptSessions(u)' = {}
<1> USE NoneAssumption DEF IInv, TypeOK, Paid
<1>0. /\ fate[u] = "live"
      /\ \A t \in Tasks : job[t].held # None /\ job[t].up = u
            => /\ pending[u] = None
               /\ \A t2 \in Tasks \ {t} : job[t2].held = None \/ job[t2].up # u
  BY DEF LiveIsKept
<1>1. ASSUME NEW t \in Tasks, job' = [job EXCEPT ![t] = job'[t]],
             job[t].held = None, pending'[u] = pending[u]
      PROVE  Paid(u)'
  BY <1>1
<1>2. ASSUME NEW t \in Tasks, Accepted(t) PROVE Paid(u)'
  BY <1>1, <1>2, InHand DEF Accepted
<1>3. ASSUME NEW t \in Tasks, Locks(t) PROVE Paid(u)'
  <2>1. job[t].held = None
    BY <1>3, InHand DEF Locks, LockHeld
  <2> QED BY <1>1, <1>3, <2>1 DEF Locks, SameRequest
<1>4. ASSUME NEW t \in Tasks, GoesOn(t) PROVE Paid(u)'
  <2>1. CASE job[t].held = None
    BY <1>1, <1>4, <2>1 DEF GoesOn, Moves, SameRequest
  <2>2. CASE job[t].held # None
    <3>1. ~SignWrite(t)
      BY <2>2, InHand DEF SignWrite
    <3> QED BY <1>4, <2>2, <3>1 DEF GoesOn, Moves, SameRequest
  <2> QED BY <2>1, <2>2
<1>5. ASSUME NEW t \in Tasks, Takes(t) PROVE Paid(u)'
  <2>1. job[t].up \in Uploads /\ job[t].held = None
    BY <1>5 DEF Takes, Control, LiveIsKept
  <2>2. CASE job[t].up = u
    BY <1>0, <1>5, <2>2 DEF Takes, Moves, SameRequest
  <2>3. CASE job[t].up # u
    BY <1>1, <1>5, <2>1, <2>3 DEF Takes, Moves, SameRequest
  <2> QED BY <2>2, <2>3
<1>6. ASSUME NEW t \in Tasks, Answers(t) PROVE Paid(u)'
  BY <1>1, <1>6, Finished DEF Answers
<1>7. ASSUME NEW t \in Tasks, Ends(t) PROVE Paid(u)' \/ KeptSessions(u)' = {}
  <2>1. CASE job[t].up = u
    <3>1. pending'[u] = None /\ \A t2 \in Tasks : job'[t2].held = None \/ job'[t2].up # u
      BY <1>0, <1>7, <2>1, Finished DEF Ends
    <3> QED BY <3>1 DEF KeptSessions, Kept
  <2>2. CASE job[t].up # u
    BY <1>7, <2>2, Finished DEF Ends
  <2> QED BY <2>1, <2>2
<1>8. ASSUME NEW t \in Tasks, PutsBack(t) PROVE Paid(u)'
  <2>1. PICK s \in Session : /\ job[t].held.proof \/ job[t].pc # "proof" => s.proof
                             /\ pending' = [pending EXCEPT ![job[t].up] = s]
    BY <1>8 DEF PutsBack
  <2>2. job[t].up \in Uploads /\ job[t].held # None
        /\ job[t].pc \in {"proof", "store", "finality"}
    BY <1>8, InHand DEF PutsBack
  <2>3. CASE job[t].up = u
    <3>1. s.proof
      BY <1>0, <2>1, <2>2, <2>3
    <3>2. pending'[u] = s /\ s # None
      BY <2>1, <2>2, <2>3
    <3> QED BY <3>1, <3>2
  <2>4. CASE job[t].up # u
    BY <1>8, <2>1, <2>4, Finished DEF PutsBack
  <2> QED BY <2>3, <2>4
<1>9. ASSUME NEW t \in Tasks, NEW u2 \in Uploads, Inserts(t, u2) PROVE Paid(u)'
  <2>1. u2 # u
    BY <1>0, <1>9 DEF Inserts
  <2> QED BY <1>1, <1>9, <2>1, Finished DEF Inserts
<1>10. CASE Ages
  BY <1>10 DEF Ages, SameSession
<1>11. CASE Sweep
  <2>1. CASE Stale(pending[u])
    <3>1. pending'[u] = None /\ \A t2 \in Tasks : job'[t2].held = None \/ job'[t2].up # u
      BY <1>0, <1>11, <2>1 DEF Sweep, Stale
    <3> QED BY <3>1 DEF KeptSessions, Kept
  <2>2. CASE ~Stale(pending[u])
    BY <1>11, <2>2 DEF Sweep
  <2> QED BY <2>1, <2>2
<1>12. CASE Restart
  <2>1. pending'[u] = None /\ \A t2 \in Tasks : job'[t2].held = None
    BY <1>12 DEF Restart, IdleJob
  <2> QED BY <2>1 DEF KeptSessions, Kept
<1>13. CASE Outside
  BY <1>13 DEF Outside
<1> QED
  BY <1>2, <1>3, <1>4, <1>5, <1>6, <1>7, <1>8, <1>9, <1>10, <1>11, <1>12, <1>13, Shapes
     DEF OfTask, AcceptsWrite, AcceptsFinalize

\* finalize_paid's retries: a session whose payment was proved once is kept with
\* that proof, and for the same signed state, through every later attempt.
THEOREM RetriesArePaid == Spec => PaidOnce
<1>1. ASSUME LInv, LiveIsKept, [Next]_vars, KeptAreKeeps',
             NEW u \in Uploads, Proved(u), KeptSessions(u)' # {}
      PROVE  /\ Proved(u)'
             /\ \A s \in KeptSessions(u) : \A s2 \in KeptSessions(u)' : s2.rec = s.rec
  <2>1. Proved(u)'
    <3>1. Paid(u)'
      BY <1>1, ProvedIsPaid, NextPaid DEF LInv
    <3> QED BY <3>1 DEF Proved, Paid, KeptSessions, Kept
  <2>2. ASSUME NEW s \in KeptSessions(u), NEW s2 \in KeptSessions(u)'
        PROVE  s2.rec = s.rec
    <3>1. s.ptr \in Pointers /\ s.rec \in State /\ Keeps(u, s.ptr, s.rec)
      BY <1>1, KeptIsKeeps DEF KeptAreKeeps, LInv
    <3>2. s2.ptr \in Pointers /\ s2.rec \in State /\ Keeps(u, s2.ptr, s2.rec)'
      BY <1>1 DEF KeptAreKeeps
    <3>3. fate[u] = "live"
      BY <1>1, ProvedIsPaid DEF LiveIsKept, Paid
    <3>4. Keeps(u, s2.ptr, s2.rec)
      BY <1>1, <3>2, <3>3, NextKeeps DEF LInv, Inserts
    <3> QED BY <1>1, <3>1, <3>2, <3>4, KeepsOne DEF LInv
  <2> QED BY <2>1, <2>2
<1>2. LInv /\ LiveIsKept /\ [Next]_vars /\ KeptAreKeeps' =>
        [\A u \in Uploads :
           Proved(u) /\ KeptSessions(u)' # {} =>
              /\ Proved(u)'
              /\ \A s \in KeptSessions(u) : \A s2 \in KeptSessions(u)' : s2.rec = s.rec]_vars
  BY <1>1
<1>3. LInv => KeptAreKeeps
  BY KeptIsKeeps DEF LInv
<1> QED BY <1>2, <1>3, LandingInvariance, SessionsKept, PTL DEF Spec, PaidOnce

-----------------------------------------------------------------------------
(* The refinement: paid writes take, hand over and give up the one slot of *)
(* their pointer as PointerSlot says.                                      *)

HolderOf(p) == IF SlotHolders(p) = {} THEN None ELSE CHOOSE w \in SlotHolders(p) : TRUE

Used == {u \in Uploads : fate[u] # "unused"}

\* At most one paid write has a pointer's slot.
SlotIsOne == \A p \in Pointers : \A x, y \in SlotHolders(p) : x = y

LEMMA ExclusionIsOfSlots == IInv /\ OneWriteInFlight => SlotIsOne
<1> SUFFICES ASSUME IInv, OneWriteInFlight, NEW p \in Pointers,
                    NEW x \in SlotHolders(p), NEW y \in SlotHolders(p)
             PROVE  x = y
  BY DEF SlotIsOne
\* w has the slot by what i does: the session itself, its finalize, or the write.
<1> DEFINE By(w, i) ==
             /\ i \in InFlight(p)
             /\ \/ w \in Uploads /\ i = w
                \/ i \in Tasks /\ job[i].held # None /\ job[i].up = w
                \/ w \in Tasks /\ i = w /\ PastCheck(w)
<1>1. ASSUME NEW w \in SlotHolders(p) PROVE \E i : By(w, i)
  <2>1. CASE w \in Uploads /\ pending[w] # None /\ pending[w].ptr = p
    BY <2>1 DEF InFlight
  <2>2. ASSUME NEW t \in Tasks, job[t].held # None, job[t].up = w, job[t].ptr = p
        PROVE  \E i : By(w, i)
    <3>1. By(w, t)
      BY <2>2 DEF InFlight
    <3> QED BY <3>1
  <2>3. CASE w \in Tasks /\ job[w].ptr = p /\ PastCheck(w)
    BY <2>3 DEF InFlight
  <2> QED BY <2>1, <2>2, <2>3 DEF SlotHolders
<1>2. PICK i : By(x, i)
  BY <1>1
<1>3. PICK j : By(y, j)
  BY <1>1
<1>4. i = j
  BY <1>2, <1>3 DEF OneWriteInFlight
<1>5. \A t \in Tasks : job[t].held # None => ~PastCheck(t)
  BY InHand DEF IInv, PastCheck
<1>6. \A t \in Tasks : t \notin Uploads
  BY ConstantsAssumption
<1> QED BY <1>2, <1>3, <1>4, <1>5, <1>6

LEMMA HolderIs ==
  ASSUME NEW p \in Pointers, NEW w \in SlotHolders(p), \A x \in SlotHolders(p) : x = w
  PROVE  HolderOf(p) = w
  BY DEF HolderOf

\* No paid write is called None.
LEMMA HolderIsSomebody ==
  ASSUME NEW p \in Pointers
  PROVE  HolderOf(p) = None <=> SlotHolders(p) = {}
<1>1. None \notin SlotHolders(p)
  BY NoneAssumption DEF SlotHolders
<1>2. SlotHolders(p) # {} => HolderOf(p) \in SlotHolders(p)
  BY DEF HolderOf
<1> QED BY <1>1, <1>2 DEF HolderOf

\* A write past its pending check claims a slot that nobody has.
Claims(t, p0) ==
    /\ SlotHolders(p0) = {}
    /\ SlotHolders(p0)' = {t}
    /\ \A p \in Pointers \ {p0} : SlotHolders(p)' = SlotHolders(p)
    /\ UNCHANGED <<net, own, fate>>

\* A prepare hands its slot to the session it inserts.
HandsOver(t, u, p0) ==
    /\ fate[u] = "unused"
    /\ t \in SlotHolders(p0)
    /\ SlotHolders(p0)' = {u}
    /\ \A p \in Pointers \ {p0} : SlotHolders(p)' = SlotHolders(p)
    /\ fate' = [fate EXCEPT ![u] = "live"]
    /\ UNCHANGED <<net, own>>

\* Whoever has a slot keeps it or gives it up.
Yields ==
    /\ \A p \in Pointers : SlotHolders(p)' \subseteq SlotHolders(p)
    /\ Used' = Used
    /\ UNCHANGED <<net, own>>

LEMMA TaskSlots ==
  ASSUME IInv, SlotIsOne, NEW t \in Tasks, OfTask(t)
  PROVE  \/ Yields
         \/ \E p0 \in Pointers : \/ Claims(t, p0)
                                 \/ \E u \in Uploads : HandsOver(t, u, p0)
<1> USE NoneAssumption DEF IInv, TypeOK
<1>0. UNCHANGED <<net, own>>
  BY DEF OfTask
<1>1. ASSUME Accepted(t) PROVE Yields
  BY <1>0, <1>1 DEF Accepted, Yields, SlotHolders, Used, PastCheck
<1>2. ASSUME Locks(t) PROVE Yields
  BY <1>0, <1>2 DEF Locks, SameRequest, Yields, SlotHolders, Used, PastCheck
<1>3. ASSUME GoesOn(t) PROVE Yields \/ \E p0 \in Pointers : Claims(t, p0)
  <2>1. CASE PastCheck(t) \/ ~PastCheck(t)'
    <3>1. \A p \in Pointers : SlotHolders(p)' \subseteq SlotHolders(p)
      BY <1>3, <2>1 DEF GoesOn, Moves, SameRequest, SlotHolders, PastCheck
    <3>2. Used' = Used
      BY <1>3 DEF GoesOn, Moves, SameRequest, Used
    <3> QED BY <1>0, <3>1, <3>2 DEF Yields
  <2>2. CASE ~PastCheck(t) /\ PastCheck(t)'
    <3>0. PICK p0 \in Pointers : p0 = job[t].ptr
      BY <2>2, <1>3 DEF GoesOn, Moves, Control
    <3>1. /\ job[t].held = None /\ job'[t].held = None
          /\ job[t].pc \notin {"idle", "lock"}
          /\ ~AwaitsPayment(p0)
      BY <1>3, <2>2, <3>0, InHand DEF GoesOn, Moves, SameRequest, PastCheck
    <3>2. \A t2 \in Tasks \ {t} :
            job[t2].held # None \/ PastCheck(t2) => job[t2].ptr # p0
      BY <3>0, <3>1, InHand, LockExcludes DEF PastCheck
    <3>3. SlotHolders(p0) = {}
      BY <2>2, <3>0, <3>1, <3>2 DEF SlotHolders, AwaitsPayment
    <3>4. /\ job'[t].ptr = p0 /\ UNCHANGED <<pending, fate>>
          /\ job'[t].held = None /\ PastCheck(t)'
          /\ \A t2 \in Tasks \ {t} : job'[t2] = job[t2]
      BY <1>3, <2>2, <3>0, <3>1 DEF GoesOn, Moves, SameRequest
    <3>5. \A t2 \in Tasks \ {t} : PastCheck(t2)' = PastCheck(t2)
      BY <3>4 DEF PastCheck
    <3>6. SlotHolders(p0)' = {t}
      BY <3>1, <3>2, <3>4, <3>5 DEF SlotHolders, AwaitsPayment
    <3>7. \A p \in Pointers \ {p0} : SlotHolders(p)' = SlotHolders(p)
      BY <2>2, <3>0, <3>1, <3>4, <3>5 DEF SlotHolders
    <3> QED BY <1>0, <3>3, <3>4, <3>6, <3>7 DEF Claims
  <2> QED BY <2>1, <2>2
<1>4. ASSUME Takes(t) PROVE Yields
  <2>1. job[t].up \in Uploads /\ pending[job[t].up].ptr = job[t].ptr
    BY <1>4 DEF Takes, Control, SameTarget
  <2>2. \A p \in Pointers : SlotHolders(p)' \subseteq SlotHolders(p)
    BY <1>4, <2>1 DEF Takes, Moves, SameRequest, SlotHolders, PastCheck
  <2> QED BY <1>0, <1>4, <2>2 DEF Takes, Moves, SameRequest, Yields, Used
<1>5. ASSUME Answers(t) \/ Ends(t) PROVE Yields
  <2>1. \A p \in Pointers : SlotHolders(p)' \subseteq SlotHolders(p)
    BY <1>5, Finished DEF Answers, Ends, SlotHolders, PastCheck
  <2>2. Used' = Used
    BY <1>5, InHand DEF Answers, Ends, Used, SameTarget
  <2> QED BY <1>0, <2>1, <2>2 DEF Yields
<1>6. ASSUME PutsBack(t) PROVE Yields
  <2>1. PICK s \in Session : /\ s.ptr = job[t].held.ptr
                             /\ pending' = [pending EXCEPT ![job[t].up] = s]
    BY <1>6 DEF PutsBack
  <2>2. job[t].held # None /\ job[t].up \in Uploads /\ s.ptr = job[t].ptr
    BY <1>6, <2>1, InHand DEF PutsBack, SameTarget
  <2>3. \A p \in Pointers : SlotHolders(p)' \subseteq SlotHolders(p)
    BY <1>6, <2>1, <2>2, Finished DEF PutsBack, SlotHolders, PastCheck
  <2> QED BY <1>0, <1>6, <2>3 DEF PutsBack, Yields, Used
<1>7. ASSUME NEW u \in Uploads, Inserts(t, u)
      PROVE  \E p0 \in Pointers : HandsOver(t, u, p0)
  <2>0. PICK p0 \in Pointers : p0 = job[t].ptr
    BY <1>7 DEF Inserts, PastCheck, Control
  <2>1. PICK s \in Session : s.ptr = p0 /\ pending' = [pending EXCEPT ![u] = s]
    BY <1>7, <2>0 DEF Inserts
  <2>2. /\ fate[u] = "unused" /\ job[t].held = None /\ PastCheck(t)
        /\ pending[u] = None
    BY <1>7 DEF Inserts, PastCheck, Control, SameTarget
  <2>3. t \in SlotHolders(p0)
    BY <2>0, <2>2 DEF SlotHolders
  <2>4. /\ \A t2 \in Tasks \ {t} : job'[t2] = job[t2]
        /\ job'[t].held = None /\ ~PastCheck(t)'
    BY <1>7, Finished DEF Inserts
  <2>5. \A t2 \in Tasks \ {t} : PastCheck(t2)' = PastCheck(t2)
    BY <2>4 DEF PastCheck
  <2>6. \A p \in Pointers \ {p0} : SlotHolders(p)' = SlotHolders(p)
    BY <2>0, <2>1, <2>2, <2>4, <2>5 DEF SlotHolders
  <2>7. SlotHolders(p0)' = {u}
    <3>1. u \in SlotHolders(p0)'
      BY <2>1 DEF SlotHolders
    <3>2. ASSUME NEW w \in SlotHolders(p0)', w # u PROVE FALSE
      <4>1. w \in SlotHolders(p0) /\ w # t
        BY <2>1, <2>2, <2>4, <2>5, <3>2, ConstantsAssumption DEF SlotHolders
      <4> QED BY <2>2, <2>3, <4>1 DEF SlotIsOne
    <3> QED BY <3>1, <3>2
  <2> QED BY <1>0, <1>7, <2>2, <2>3, <2>6, <2>7 DEF Inserts, HandsOver
<1> QED
  BY <1>1, <1>2, <1>3, <1>4, <1>5, <1>6, <1>7 DEF OfTask, AcceptsWrite, AcceptsFinalize

LEMMA NextSlots ==
  ASSUME IInv, SlotIsOne, [Next]_vars
  PROVE  \/ Yields
         \/ \E p0 \in Pointers, t \in Tasks :
               \/ Claims(t, p0)
               \/ \E u \in Uploads : HandsOver(t, u, p0)
         \/ Outside
<1>1. CASE Ages
  <2>1. \A p \in Pointers : SlotHolders(p)' \subseteq SlotHolders(p)
    BY <1>1 DEF Ages, SameSession, SlotHolders, PastCheck
  <2> QED BY <1>1, <2>1 DEF Ages, Yields, Used
<1>2. CASE Sweep
  <2>1. \A p \in Pointers : SlotHolders(p)' \subseteq SlotHolders(p)
    BY <1>2 DEF Sweep, SlotHolders, PastCheck
  <2>2. Used' = Used
    BY <1>2 DEF Sweep, Stale, Used, IInv, TypeOK, SameTarget
  <2> QED BY <1>2, <2>1, <2>2 DEF Sweep, Yields
<1>3. CASE Restart
  <2>1. \A p \in Pointers : SlotHolders(p)' \subseteq SlotHolders(p)
    BY <1>3 DEF Restart, SlotHolders, PastCheck, IdleJob
  <2>2. Used' = Used
    BY <1>3 DEF Restart, Used, IInv, TypeOK
  <2> QED BY <1>3, <2>1, <2>2 DEF Restart, Yields
<1> QED BY <1>1, <1>2, <1>3, Shapes, TaskSlots DEF IInv

\* Every initial state is one of PointerSlot.
LEMMA SlotInit == Init => Slot!Init
<1> SUFFICES ASSUME Init PROVE Slot!Init
  OBVIOUS
<1>1. \A p \in Pointers : SlotHolders(p) = {}
  BY DEF Init, SlotHolders, PastCheck, IdleJob
<1> QED BY <1>1 DEF Init, NoState, Slot!Init

\* Every step is one of PointerSlot, or changes nothing there.
LEMMA SlotStep ==
  ASSUME LInv, SlotIsOne, SlotIsOne', [Next]_vars
  PROVE  [Slot!Next]_(Slot!vars)
<1> USE DEF LInv
<1> DEFINE holder == [p \in Pointers |-> HolderOf(p)]
           author == [p \in Pointers |-> net[p].by]
<1>0. \A p \in Pointers : HolderOf(p) = None <=> SlotHolders(p) = {}
  BY HolderIsSomebody
<1>1. CASE Yields
  <2> DEFINE S == {p \in Pointers : SlotHolders(p)' = {}}
  <2>1. ASSUME NEW p \in Pointers
        PROVE  HolderOf(p)' = IF p \in S THEN None ELSE HolderOf(p)
    <3>1. CASE SlotHolders(p)' = {}
      BY <3>1 DEF HolderOf
    <3>2. CASE SlotHolders(p)' # {}
      <4>1. SlotHolders(p)' = SlotHolders(p)
        BY <1>1, <3>2 DEF Yields, SlotIsOne
      <4> QED BY <3>2, <4>1 DEF HolderOf
    <3> QED BY <3>1, <3>2
  <2>2. /\ holder' = [p \in Pointers |-> IF p \in S THEN None ELSE holder[p]]
        /\ author' = author /\ Used' = Used
    BY <1>1, <2>1 DEF Yields
  <2>3. Slot!Release(S)
    BY <2>2 DEF Slot!Release, HolderOf, Used
  <2> QED BY <2>3 DEF Slot!Next
<1>2. ASSUME NEW p0 \in Pointers, NEW t \in Tasks, Claims(t, p0)
      PROVE  Slot!Claim(p0, t)
  <2>1. HolderOf(p0) = None /\ HolderOf(p0)' = t
    BY <1>2 DEF Claims, HolderOf
  <2>2. ASSUME NEW p \in Pointers \ {p0} PROVE HolderOf(p)' = HolderOf(p)
    <3>1. SlotHolders(p)' = SlotHolders(p)
      BY <1>2 DEF Claims
    <3> QED BY <3>1 DEF HolderOf
  <2>3. holder' = [holder EXCEPT ![p0] = t] /\ author' = author /\ Used' = Used
    BY <1>2, <2>1, <2>2 DEF Claims, Used
  <2> QED BY <2>1, <2>3 DEF Slot!Claim, HolderOf, Used
<1>3. ASSUME NEW p0 \in Pointers, NEW t \in Tasks, NEW u \in Uploads, HandsOver(t, u, p0)
      PROVE  Slot!HandOver(p0, u)
  <2>1. HolderOf(p0) = t /\ HolderOf(p0)' = u
    BY <1>3, HolderIs DEF HandsOver, SlotIsOne, HolderOf
  <2>2. ASSUME NEW p \in Pointers \ {p0} PROVE HolderOf(p)' = HolderOf(p)
    <3>1. SlotHolders(p)' = SlotHolders(p)
      BY <1>3 DEF HandsOver
    <3> QED BY <3>1 DEF HolderOf
  <2>3. /\ holder' = [holder EXCEPT ![p0] = u] /\ author' = author
        /\ u \notin Used /\ Used' = Used \cup {u}
    BY <1>3, <2>1, <2>2 DEF HandsOver, Used, IInv, TypeOK
  <2> QED BY <2>1, <2>3 DEF Slot!HandOver, HolderOf, Used
<1>4. ASSUME Outside
      PROVE  /\ \A p \in Pointers : HolderOf(p)' = HolderOf(p)
             /\ holder' = holder /\ Used' = Used
  BY <1>4 DEF Outside, HolderOf, SlotHolders, PastCheck, Used
<1>5. ASSUME NEW t \in Tasks, Land(t), Outside PROVE \E p0 \in Pointers : Slot!Land(p0)
  <2>1. PICK p0 \in Pointers : p0 = job[t].ptr
    BY <1>5, LandsAlone
  <2>2. SlotHolders(p0) # {} /\ HolderOf(p0) = job[t].rec.by
    <3>1. CASE PastCheck(t)
      <4>1. t \in SlotHolders(p0)
        BY <2>1, <3>1 DEF SlotHolders
      <4>2. job[t].rec.by = t
        BY <1>5, <3>1 DEF Signed, Land
      <4> QED BY <4>1, <4>2, HolderIs DEF SlotIsOne
    <3>2. CASE ~PastCheck(t)
      <4>1. /\ job[t].held # None /\ job[t].up \in Uploads
            /\ job[t].rec \in State
            /\ Keeps(job[t].up, job[t].ptr, job[t].rec)
        BY <1>5, <3>2, LandsAlone
      <4>2. job[t].up \in SlotHolders(p0)
        BY <2>1, <4>1 DEF SlotHolders
      <4>3. job[t].rec.by = job[t].up
        BY <2>1, <4>1 DEF Signed
      <4> QED BY <4>2, <4>3, HolderIs DEF SlotIsOne
    <3> QED BY <3>1, <3>2
  <2>3. net' = [net EXCEPT ![p0] = job[t].rec]
    BY <1>5, <2>1 DEF Land
  <2>4. author' = [author EXCEPT ![p0] = HolderOf(p0)]
    BY <2>2, <2>3 DEF IInv, TypeOK
  <2>5. holder[p0] # None /\ holder[p0] = HolderOf(p0)
    BY <1>0, <2>2
  <2>6. Slot!Land(p0)
    BY <1>4, <1>5, <2>4, <2>5 DEF Slot!Land, HolderOf, Used
  <2> QED BY <2>6
<1>6. ASSUME NEW p0 \in Pointers, RivalWrite(p0), Outside PROVE Slot!RivalLands(p0)
  <2>1. PICK final \in BOOLEAN :
          net' = [net EXCEPT ![p0] = [counter |-> net[p0].counter + 1,
                                      final |-> final, by |-> Rival]]
    BY <1>6 DEF RivalWrite
  <2>2. \A p \in Pointers : net'[p].by = IF p = p0 THEN Rival ELSE net[p].by
    BY <2>1 DEF IInv, TypeOK
  <2>3. author' = [author EXCEPT ![p0] = Rival]
    BY <2>2
  <2> QED BY <1>4, <1>6, <2>3 DEF Slot!RivalLands, HolderOf, Used
<1>7. ASSUME UNCHANGED <<net, own>>, Outside PROVE UNCHANGED Slot!vars
  BY <1>4, <1>7 DEF Slot!vars, HolderOf, Used
<1> QED
  <2>1. CASE Outside
    BY <1>5, <1>6, <1>7, <2>1 DEF Outside, Slot!Next
  <2>2. CASE Yields \/ ~Outside
    BY <1>1, <1>2, <1>3, <2>2, NextSlots DEF Slot!Next
  <2> QED BY <2>1, <2>2

\* Paid pointer writes implement PointerSlot: one slot per pointer, claimed when
\* nothing is pending, handed over to the prepared session, given up once and
\* for all, and no state of this daemon lands for anybody but its holder.
THEOREM Refinement == Spec => SlotSpec
<1>1. Init => Slot!Init
  BY SlotInit
<1>2. LInv /\ SlotIsOne /\ SlotIsOne' /\ [Next]_vars => [Slot!Next]_(Slot!vars)
  BY SlotStep
<1>3. LInv /\ OneWriteInFlight => SlotIsOne
  BY ExclusionIsOfSlots DEF LInv
<1> QED
  BY <1>1, <1>2, <1>3, LandingInvariance, WriteExclusion, PTL DEF Spec, SlotSpec, Slot!Spec

=============================================================================
