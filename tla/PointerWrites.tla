---------------------------- MODULE PointerWrites ----------------------------
(***************************************************************************)
(* Paid pointer writes of one antd daemon: antd/src/pointers.rs with the   *)
(* per-key write locks of pointer_keys.rs and the sweep of state.rs.       *)
(*                                                                         *)
(* Each request runs in a task.  A write paid by the daemon wallet and a   *)
(* finalize run detached from their caller; a prepare dies with its caller.*)
(* `pending` is AppState::pending_pointers and `writing` the write lock of *)
(* each loaded key.  The network's side of a pointer (external: ant-core)  *)
(* is the state its close group serves, `net`.  Other holders of the same  *)
(* owner key may write too, when Rivals is TRUE.                           *)
(***************************************************************************)
EXTENDS Naturals, FiniteSets

CONSTANTS
    Pointers,     \* the pointers whose owner keys are loaded
    Tasks,        \* request tasks the daemon runs at once (bound)
    Uploads,      \* upload ids, each issued at most once (bound)
    MaxCounter,   \* largest counter an open state takes (bound)
    TTL,          \* ticks after which a pending session is stale
    Rivals,       \* whether somebody else also writes with these owner keys
    Rival,        \* the author of every state this daemon did not sign
    None

ASSUME ConstantsAssumption ==
    /\ MaxCounter \in Nat
    /\ TTL \in Nat \ {0}
    /\ Rivals \in BOOLEAN
    /\ Tasks \cap Uploads = {}
    /\ Rival \notin Tasks \cup Uploads

Ops == {"create", "update", "transfer"}

\* A pointer state: its counter, whether it is terminal, and who signed it.
\* Counter 0 is the pointer that does not exist.
State == [counter: 0 .. MaxCounter, final: BOOLEAN,
          by: Tasks \cup Uploads \cup {Rival}]

NoState == [counter |-> 0, final |-> FALSE, by |-> Rival]

\* PendingPointer.  The quote is left out; `age` is created_at.elapsed().
Session == [ptr: Pointers, op: Ops, rec: State, proof: BOOLEAN, age: 0 .. TTL]

\* Where a task is: idle, waiting for the write lock, about to check for a
\* pending session, about to sign, quoting, about to take its session out,
\* about to build the proof, storing, or asking whether a transfer landed.
Steps == {"idle", "lock", "check", "sign", "quote", "take", "proof", "store",
          "finality"}

Job == [pc: Steps, kind: {"write", "prepare", "finalize"}, op: Ops,
        ptr: Pointers \cup {None}, up: Uploads \cup {None},
        rec: State, held: Session \cup {None}, retry: BOOLEAN]

IdleJob == [pc |-> "idle", kind |-> "write", op |-> "create", ptr |-> None,
            up |-> None, rec |-> NoState, held |-> None, retry |-> FALSE]

ASSUME NoneAssumption ==
    None \notin Pointers \cup Tasks \cup Uploads \cup Session

VARIABLES
    writing,   \* [Pointers -> task holding the key's write_lock, or None]
    pending,   \* [Uploads -> session kept under that id, or None]
    job,       \* [Tasks -> what the task is doing]
    net,       \* [Pointers -> the state the close group serves]
    own,       \* history: [Pointers -> the states of this daemon that landed]
    fate       \* history: [Uploads -> how the upload id's session stands]

vars == <<writing, pending, job, net, own, fate>>

Fates == {"unused", "live", "stored", "refused", "expired", "lost"}

Init ==
    /\ writing = [p \in Pointers |-> None]
    /\ pending = [u \in Uploads |-> None]
    /\ job = [t \in Tasks |-> IdleJob]
    /\ net = [p \in Pointers |-> NoState]
    /\ own = [p \in Pointers |-> {}]
    /\ fate = [u \in Uploads |-> "unused"]

-----------------------------------------------------------------------------
(* The network (external).  A terminal state beats every open one; between *)
(* open states the larger counter wins, and a tie goes either way.         *)

Exists(p) == net[p].counter > 0

CanLand(r, n) == /\ ~n.final
                 /\ \/ r.final
                    \/ r.counter >= n.counter

\* pointer_put, pointer_put_paid or pointer_transfer reaches a majority: from
\* here on the state is served, whatever the daemon comes to hear of it.
Land(t) ==
    LET p == job[t].ptr
        r == job[t].rec
    IN /\ job[t].pc = "store"
       /\ net[p] # r
       /\ CanLand(r, net[p])
       /\ net' = [net EXCEPT ![p] = r]
       /\ own' = [own EXCEPT ![p] = @ \cup {r}]
       /\ UNCHANGED <<writing, pending, job, fate>>

\* Another holder of the owner key writes, or hands the pointer over.
RivalWrite(p) ==
    /\ Rivals
    /\ ~net[p].final
    /\ net[p].counter < MaxCounter
    /\ \E final \in BOOLEAN :
          net' = [net EXCEPT ![p] = [counter |-> net[p].counter + 1,
                                     final |-> final, by |-> Rival]]
    /\ UNCHANGED <<writing, pending, job, own, fate>>

-----------------------------------------------------------------------------
(* Steps every operation shares.                                           *)

\* Fault: a path that answers without dropping its guard.
LeakLock(t) ==
    /\ job' = [job EXCEPT ![t] = IdleJob]
    /\ UNCHANGED writing

\* The task answers its caller and its guard on the write lock is dropped.
Finish(t) ==
    /\ job' = [job EXCEPT ![t] = IdleJob]
    /\ writing' = [p \in Pointers |-> IF writing[p] = t THEN None ELSE writing[p]]

Goto(t, step) == job' = [job EXCEPT ![t].pc = step]

\* create, update and transfer, paid by the daemon wallet.
StartWrite(t, p, op) ==
    /\ job[t].pc = "idle"
    /\ job' = [job EXCEPT ![t] = [IdleJob EXCEPT !.pc = "lock", !.op = op,
                                                 !.ptr = p]]
    /\ UNCHANGED <<writing, pending, net, own, fate>>

\* prepare, paid by an external signer.
StartPrepare(t, p, op) ==
    /\ job[t].pc = "idle"
    /\ job' = [job EXCEPT ![t] = [IdleJob EXCEPT !.pc = "lock", !.kind = "prepare",
                                                 !.op = op, !.ptr = p]]
    /\ UNCHANGED <<writing, pending, net, own, fate>>

\* Fault: a finalize that does not wait for the write lock.
TakeLockUnlessFinalizing(t) ==
    /\ job[t].pc = "lock"
    /\ \/ job[t].kind = "finalize" /\ UNCHANGED writing
       \/ /\ writing[job[t].ptr] = None
          /\ writing' = [writing EXCEPT ![job[t].ptr] = t]
    /\ Goto(t, IF job[t].kind = "finalize" THEN "take" ELSE "check")
    /\ UNCHANGED <<pending, net, own, fate>>

\* key.write_lock.lock().await: tokio's mutex hands itself over in FIFO order.
TakeLock(t) ==
    /\ job[t].pc = "lock"
    /\ writing[job[t].ptr] = None
    /\ writing' = [writing EXCEPT ![job[t].ptr] = t]
    /\ Goto(t, IF job[t].kind = "finalize" THEN "take" ELSE "check")
    /\ UNCHANGED <<pending, net, own, fate>>

AwaitsPayment(p) == \E u \in Uploads : pending[u] # None /\ pending[u].ptr = p

\* Fault: only a prepare looks for a pending session.
RefuseOnlyPrepares(t) ==
    /\ job[t].pc = "check"
    /\ IF job[t].kind = "prepare" /\ AwaitsPayment(job[t].ptr)
       THEN Finish(t)
       ELSE Goto(t, "sign") /\ UNCHANGED writing
    /\ UNCHANGED <<pending, net, own, fate>>

\* refuse_if_pending: CONFLICT, or on to the signature.
RefuseIfPending(t) ==
    /\ job[t].pc = "check"
    /\ IF AwaitsPayment(job[t].ptr)
       THEN Finish(t)
       ELSE Goto(t, "sign") /\ UNCHANGED writing
    /\ UNCHANGED <<pending, net, own, fate>>

\* pointer_sign_create, pointer_sign_update and pointer_sign_transfer read the
\* network first (external): a create is refused if the pointer exists, and
\* every write if it is final.  Reading may fail as well.
Refuses(p, op) == net[p].final \/ (op = "create" /\ Exists(p))

\* Fault: signs two past the served counter.
SignTwoPast(t) ==
    LET p == job[t].ptr IN
    /\ job[t].pc = "sign"
    /\ ~Refuses(p, job[t].op)
    /\ net[p].counter < MaxCounter
    /\ job' = [job EXCEPT
                 ![t].rec = [counter |-> net[p].counter + 2,
                             final |-> job[t].op = "transfer", by |-> t],
                 ![t].pc = IF job[t].kind = "prepare" THEN "quote" ELSE "store"]
    /\ UNCHANGED <<writing, pending, net, own, fate>>

\* One past the served counter.
SignWrite(t) ==
    LET p == job[t].ptr IN
    /\ job[t].pc = "sign"
    /\ ~Refuses(p, job[t].op)
    /\ net[p].counter < MaxCounter
    /\ job' = [job EXCEPT
                 ![t].rec = [counter |-> net[p].counter + 1,
                             final |-> job[t].op = "transfer", by |-> t],
                 ![t].pc = IF job[t].kind = "prepare" THEN "quote" ELSE "store"]
    /\ UNCHANGED <<writing, pending, net, own, fate>>

\* Refused, or no answer from the network, while signing or quoting.
SignFails(t) ==
    /\ job[t].pc \in {"sign", "quote"}
    /\ Finish(t)
    /\ UNCHANGED <<pending, net, own, fate>>

\* The quote arrived: the session goes under a fresh random upload_id.
InsertPrepared(t, u) ==
    /\ job[t].pc = "quote"
    /\ fate[u] = "unused"
    /\ pending' = [pending EXCEPT ![u] =
         [ptr |-> job[t].ptr, op |-> job[t].op, proof |-> FALSE, age |-> 0,
          rec |-> [job[t].rec EXCEPT !.by = u]]]
    /\ fate' = [fate EXCEPT ![u] = "live"]
    /\ Finish(t)
    /\ UNCHANGED <<net, own>>

\* pointer_put or pointer_transfer, paid by the daemon wallet, returned.
WriteReturns(t) ==
    /\ job[t].pc = "store"
    /\ job[t].kind = "write"
    /\ Finish(t)
    /\ UNCHANGED <<pending, net, own, fate>>

-----------------------------------------------------------------------------
(* finalize_paid.                                                          *)

\* The pointer is looked up without consuming the session.  An id that is not
\* pending is answered NOT_FOUND, which changes nothing.
StartFinalize(t, u) ==
    /\ job[t].pc = "idle"
    /\ pending[u] # None
    /\ job' = [job EXCEPT ![t] = [IdleJob EXCEPT !.pc = "lock", !.kind = "finalize",
                                                 !.op = pending[u].op,
                                                 !.ptr = pending[u].ptr, !.up = u]]
    /\ UNCHANGED <<writing, pending, net, own, fate>>

\* The write lock is held: take the session out, unless a concurrent finalize
\* or the sweep has taken it meanwhile.
TakeSession(t) ==
    LET u == job[t].up IN
    /\ job[t].pc = "take"
    /\ IF pending[u] = None
       THEN Finish(t) /\ UNCHANGED pending
       ELSE /\ pending' = [pending EXCEPT ![u] = None]
            /\ job' = [job EXCEPT ![t].pc = "proof", ![t].held = pending[u],
                                  ![t].rec = pending[u].rec]
            /\ UNCHANGED writing
    /\ UNCHANGED <<net, own, fate>>

\* A session that was paid before already has its proof; otherwise the hashes
\* the caller sent must parse and cover the quote.
BuildProof(t) ==
    /\ job[t].pc = "proof"
    /\ Goto(t, "store")
    /\ UNCHANGED <<writing, pending, net, own, fate>>

\* They do not: the session goes back as it was.
BadHashes(t) ==
    /\ job[t].pc = "proof"
    /\ ~job[t].held.proof
    /\ pending' = [pending EXCEPT ![job[t].up] = job[t].held]
    /\ Finish(t)
    /\ UNCHANGED <<net, own, fate>>

Settle(t, outcome) ==
    /\ fate' = [fate EXCEPT ![job[t].up] = outcome]
    /\ Finish(t)
    /\ UNCHANGED <<pending, net, own>>

Stored(t) == Settle(t, "stored")

\* Fault: the session goes back as it was before the payment was proved.
RetainWithoutProof(t) ==
    /\ pending' = [pending EXCEPT ![job[t].up] = [job[t].held EXCEPT !.age = 0]]
    /\ Finish(t)
    /\ UNCHANGED <<net, own, fate>>

\* After a failed store: kept for a retry against the same proof if the error
\* is worth one, with its TTL started over, and otherwise ended.
Retain(t) ==
    /\ pending' = [pending EXCEPT ![job[t].up] =
                      [job[t].held EXCEPT !.proof = TRUE, !.age = 0]]
    /\ Finish(t)
    /\ UNCHANGED <<net, own, fate>>

RetainOrEnd(t, retry) == IF retry THEN Retain(t) ELSE Settle(t, "refused")

\* pointer_put_paid acknowledged: a majority holds the state.
PutPaidOk(t) ==
    /\ job[t].pc = "store"
    /\ job[t].kind = "finalize"
    /\ job[t].rec \in own[job[t].ptr]
    /\ Stored(t)

\* pointer_put_paid failed: worth retrying (a shortfall or an unreachable peer,
\* in which case the state may have landed all the same), or the record was
\* refused.  A transfer asks the close group first.
PutPaidFails(t) ==
    /\ job[t].pc = "store"
    /\ job[t].kind = "finalize"
    /\ \E retry \in BOOLEAN :
          /\ ~retry => net[job[t].ptr] # job[t].rec
          /\ IF job[t].op = "transfer"
             THEN /\ job' = [job EXCEPT ![t].pc = "finality", ![t].retry = retry]
                  /\ UNCHANGED <<writing, pending, net, own, fate>>
             ELSE RetainOrEnd(t, retry)

\* Fault: any final state is taken for ours.
AnyFinalIsOurs(t) ==
    /\ job[t].pc = "finality"
    /\ \/ net[job[t].ptr].final /\ Stored(t)
       \/ RetainOrEnd(t, job[t].retry)

\* Fault: a final state is a rival's, whichever it is.
AnyFinalIsRival(t) ==
    /\ job[t].pc = "finality"
    /\ \/ net[job[t].ptr].final /\ Settle(t, "refused")
       \/ RetainOrEnd(t, job[t].retry)

\* landed_transfer: ours is final after all; a rival is final, or the group is
\* forked; or nothing can be told (the read failed, the pointer is open, or
\* ours is still settling).
LandedTransfer(t) ==
    LET n == net[job[t].ptr]
        r == job[t].rec
    IN /\ job[t].pc = "finality"
       /\ \/ n = r /\ Stored(t)
          \/ n.final /\ n # r /\ Settle(t, "refused")
          \/ RetainOrEnd(t, job[t].retry)

-----------------------------------------------------------------------------
(* Callers, time, the sweep and restarts.                                  *)

\* Fault: a finalize runs in its caller's task.
DetachedWrites(kind) == kind = "write"

\* to_completion: everything that pays runs in a task of its own.
Detached(kind) == kind \in {"write", "finalize"}

\* A caller disconnects: a prepare is dropped where it stands.
CallerLeaves(t) ==
    /\ job[t].pc # "idle"
    /\ ~Detached(job[t].kind)
    /\ Finish(t)
    /\ UNCHANGED <<pending, net, own, fate>>

Older(s) == IF s # None /\ s.age < TTL THEN [s EXCEPT !.age = @ + 1] ELSE s

Tick ==
    /\ pending' = [u \in Uploads |-> Older(pending[u])]
    /\ job' = [t \in Tasks |-> [job[t] EXCEPT !.held = Older(@)]]
    /\ pending' # pending \/ job' # job
    /\ UNCHANGED <<writing, net, own, fate>>

\* Fault: sessions that were paid for are never swept.
StaleUnpaid(s) == s # None /\ s.age >= TTL /\ ~s.proof

\* cleanup_stale_pointers.
Stale(s) == s # None /\ s.age >= TTL

Sweep ==
    LET stale == {u \in Uploads : Stale(pending[u])} IN
    /\ stale # {}
    /\ pending' = [u \in Uploads |-> IF u \in stale THEN None ELSE pending[u]]
    /\ fate' = [u \in Uploads |-> IF u \in stale THEN "expired" ELSE fate[u]]
    /\ UNCHANGED <<writing, job, net, own>>

\* The daemon stops, or dies, and starts again: everything but the network was
\* in memory.
Restart ==
    /\ \E t \in Tasks : job[t].pc # "idle" \/ \E u \in Uploads : pending[u] # None
    /\ writing' = [p \in Pointers |-> None]
    /\ pending' = [u \in Uploads |-> None]
    /\ job' = [t \in Tasks |-> IdleJob]
    /\ fate' = [u \in Uploads |-> IF fate[u] = "live" THEN "lost" ELSE fate[u]]
    /\ UNCHANGED <<net, own>>

-----------------------------------------------------------------------------
\* What a task does by itself once its request is accepted.
Step(t) ==
    \/ RefuseIfPending(t)
    \/ SignWrite(t)
    \/ SignFails(t)
    \/ \E u \in Uploads : InsertPrepared(t, u)
    \/ WriteReturns(t)
    \/ TakeSession(t)
    \/ BuildProof(t)
    \/ BadHashes(t)
    \/ PutPaidOk(t)
    \/ PutPaidFails(t)
    \/ LandedTransfer(t)

Next ==
    \/ \E t \in Tasks, p \in Pointers, op \in Ops :
          StartWrite(t, p, op) \/ StartPrepare(t, p, op)
    \/ \E t \in Tasks, u \in Uploads : StartFinalize(t, u)
    \/ \E t \in Tasks : TakeLock(t) \/ Step(t) \/ Land(t) \/ CallerLeaves(t)
    \/ \E p \in Pointers : RivalWrite(p)
    \/ Tick
    \/ Sweep
    \/ Restart

Spec == Init /\ [][Next]_vars

\* Fairness: the runtime polls every spawned task, ant-core's calls return (they
\* have timeouts), tokio's mutex is FIFO, and the sweep runs on an interval.
\* Nothing is assumed of callers, of the network or of rivals.
Fairness ==
    /\ \A t \in Tasks : WF_vars(Step(t)) /\ SF_vars(TakeLock(t))
    /\ WF_vars(Tick)
    /\ WF_vars(Sweep)

FairSpec == Spec /\ Fairness

-----------------------------------------------------------------------------
(* Properties.                                                             *)

\* Every variable has its type.
TypeOK ==
    /\ writing \in [Pointers -> Tasks \cup {None}]
    /\ pending \in [Uploads -> Session \cup {None}]
    /\ job \in [Tasks -> Job]
    /\ net \in [Pointers -> State]
    /\ own \in [Pointers -> SUBSET State]
    /\ fate \in [Uploads -> Fates]

\* The paid writes under way on a pointer: sessions awaiting payment, sessions a
\* finalize has taken out, and writes and prepares past their pending check.
PastCheck(t) == job[t].kind # "finalize" /\ job[t].pc \in {"sign", "quote", "store"}

InFlight(p) ==
    {u \in Uploads : pending[u] # None /\ pending[u].ptr = p}
    \cup {t \in Tasks : job[t].ptr = p /\ (job[t].held # None \/ PastCheck(t))}

\* pointers.rs's "one write per pointer at a time in this daemon": never two of
\* them at once, so no two are signed, and paid for, against the same counter.
OneWriteInFlight == \A p \in Pointers : \A x, y \in InFlight(p) : x = y

\* The session an upload id stands for, in the map or taken out by a finalize.
Kept(u, s) == \/ s = pending[u]
              \/ \E t \in Tasks : job[t].up = u /\ s = job[t].held

KeptSessions(u) == {s \in {pending[u]} \cup {job[t].held : t \in Tasks} :
                      s # None /\ Kept(u, s)}

\* refuse_if_pending and the lock order of finalize_paid: no write of this
\* daemon lands at or past the counter a kept session was signed at, so the
\* signer's payment never buys a state this daemon itself made stale.
NotOvertaken ==
    \A u \in Uploads : \A s \in KeptSessions(u) : \A r \in own[s.ptr] :
        r = s.rec \/ (~r.final /\ r.counter < s.rec.counter)

\* to_completion and the reinsertions: a session that was neither stored,
\* refused, swept nor lost to a restart is always in the map or in the hands of
\* exactly one finalize, however many race and whoever disconnects.
LiveIsKept ==
    \A u \in Uploads :
        LET holders == {t \in Tasks : job[t].held # None /\ job[t].up = u} IN
        /\ fate[u] = "live" <=> (pending[u] # None \/ holders # {})
        /\ \A t1, t2 \in holders : t1 = t2
        /\ holders # {} => pending[u] = None

\* A finalize that answers success has landed its state, the transfers whose
\* acknowledgements were lost included.
StoredHasLanded ==
    \A u \in Uploads : fate[u] = "stored" => \E p \in Pointers : \E r \in own[p] : r.by = u

\* Without rivals, a finalize answered with a final error has not changed the
\* pointer: the paid state never lands behind its caller's back.
RefusedNeverLanded ==
    \A u \in Uploads : fate[u] = "refused" => \A p \in Pointers : \A r \in own[p] : r.by # u

\* The payment of a session has been proved: it is kept with its proof, or a
\* finalize is storing with it.
Proved(u) ==
    \/ \E s \in KeptSessions(u) : s.proof
    \/ \E t \in Tasks : /\ job[t].up = u /\ job[t].held # None
                        /\ job[t].pc \in {"store", "finality"}

\* A retry costs nothing: once a session's payment is proved it stays so, for the
\* same state, through every later attempt until the session ends.
PaidOnce ==
    [][\A u \in Uploads :
         Proved(u) /\ KeptSessions(u)' # {} =>
            /\ Proved(u)'
            /\ \A s \in KeptSessions(u) : \A s2 \in KeptSessions(u)' : s2.rec = s.rec]_vars

\* Every request that is accepted is answered, contended lock or not.
EveryRequestAnswered == \A t \in Tasks : job[t].pc # "idle" ~> job[t].pc = "idle"

\* A prepared write nobody finalizes frees its pointer: a session stays in the
\* map for ever only if callers keep finalizing it.
AbandonedIsSwept ==
    \A u \in Uploads :
        []<>(pending[u] = None) \/ []<>(\E t \in Tasks : job[t].up = u)

-----------------------------------------------------------------------------
(* Why they hold: the parts of the inductive invariant.                    *)

\* Each kind of request has steps of its own, a session is in hand from its
\* removal to the answer, and only a finalize has one.
Control ==
    \A t \in Tasks :
        /\ job[t].pc # "idle" => job[t].ptr \in Pointers
        /\ job[t].pc \in {"check", "sign", "quote"} => job[t].kind # "finalize"
        /\ job[t].pc \in {"take", "proof", "finality"} => job[t].kind = "finalize"
        /\ job[t].kind = "finalize" => job[t].up \in Uploads
        /\ job[t].held # None <=> /\ job[t].kind = "finalize"
                                  /\ job[t].pc \in {"proof", "store", "finality"}

\* The write lock is held from its acquisition to the answer.
LockHeld ==
    \A t \in Tasks : job[t].pc \notin {"idle", "lock"} => writing[job[t].ptr] = t

\* An upload id means one pointer, to the map and to every finalize of it, and
\* is never issued again.
SameTarget ==
    /\ \A u \in Uploads : pending[u] # None => fate[u] # "unused"
    /\ \A t \in Tasks : job[t].kind = "finalize" =>
          /\ fate[job[t].up] # "unused"
          /\ pending[job[t].up] # None => pending[job[t].up].ptr = job[t].ptr
          /\ \A t2 \in Tasks : job[t2].kind = "finalize" /\ job[t2].up = job[t].up
                                  => job[t2].ptr = job[t].ptr
          /\ job[t].held # None => job[t].held.ptr = job[t].ptr

\* A pointer whose session awaits payment has no other session and no paid write
\* under way.
PendingExcludes ==
    \A u \in Uploads : pending[u] # None =>
        /\ \A u2 \in Uploads :
              pending[u2] # None /\ pending[u2].ptr = pending[u].ptr => u2 = u
        /\ \A t \in Tasks :
              job[t].held # None \/ PastCheck(t) => job[t].ptr # pending[u].ptr

IInv == TypeOK /\ Control /\ LockHeld /\ SameTarget /\ PendingExcludes

-----------------------------------------------------------------------------
(* The promise this implements: who has each pointer's slot.  A session has *)
(* it from its insertion on, also while a finalize has taken it out.       *)

SlotHolders(p) ==
    {u \in Uploads : \/ pending[u] # None /\ pending[u].ptr = p
                     \/ \E t \in Tasks : /\ job[t].held # None
                                         /\ job[t].up = u
                                         /\ job[t].ptr = p}
    \cup {t \in Tasks : job[t].ptr = p /\ PastCheck(t)}

Slot == INSTANCE PointerSlot WITH
    Requests <- Tasks,
    Prepared <- Uploads,
    holder <- [p \in Pointers |-> IF SlotHolders(p) = {} THEN None
                                  ELSE CHOOSE w \in SlotHolders(p) : TRUE],
    author <- [p \in Pointers |-> net[p].by],
    used <- {u \in Uploads : fate[u] # "unused"}

\* Paid writes of this daemon keep the promise of PointerSlot.
SlotSpec == Slot!Spec

=============================================================================
