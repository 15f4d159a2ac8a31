-------------------------- MODULE FfiClient_proofs --------------------------
(***************************************************************************)
(* Theorems about the embedded client's uploads, for any number of         *)
(* uploads, calls and quotes, any limit on a transaction's transfers and   *)
(* any listener: no session is lost or stored from twice, no finalize      *)
(* reaches the store without its hashes, and a bill is of what is due.     *)
(***************************************************************************)
EXTENDS FfiClient, FiniteSetTheorems, TLAPS

-----------------------------------------------------------------------------
(* Types.                                                                  *)

TypeOK ==
    /\ nextId \in Nat \ {0}
    /\ sessions \in [Ids -> Session \cup {None}]
    /\ job \in [Calls -> Job]
    /\ billed \in [Ids -> SUBSET SUBSET Quotes]
    /\ mined \in [Ids -> SUBSET Quotes]
    /\ fate \in [Ids -> Fates]

\* A call has a session from its take to the end of its flush, and knows the id.
HeldWhere ==
    \A c \in Calls :
        /\ job[c].held # None <=> job[c].pc \in {"store", "flush"}
        /\ job[c].pc \in {"peeked", "store", "flush"} => job[c].id \in Ids
        /\ job[c].pc = "idle" => job[c] = IdleJob

Typed == TypeOK /\ HeldWhere

LEMMA IdleType ==
    /\ IdleJob \in Job
    /\ IdleJob.pc = "idle" /\ IdleJob.held = None /\ IdleJob.id = None
BY SizesAssumption, NoneAssumption DEF IdleJob, Job, Kinds

LEMMA Holding ==
    ASSUME Typed, NEW c \in Calls, job[c].held # None
    PROVE  /\ job[c].id \in Ids /\ job[c].held \in Session
           /\ c \in Holders(job[c].id)
BY DEF Typed, TypeOK, HeldWhere, Job, Holders

\* How a call's own step changes its job, and nothing else of the jobs.
Becomes(c, j) == job' = [job EXCEPT ![c] = j]

LEMMA Becoming ==
    ASSUME Typed, NEW c \in Calls, NEW j \in Job, Becomes(c, j),
           j.held # None <=> j.pc \in {"store", "flush"},
           j.pc \in {"peeked", "store", "flush"} => j.id \in Ids,
           j.pc = "idle" => j = IdleJob
    PROVE  /\ job' \in [Calls -> Job] /\ HeldWhere'
           /\ job'[c] = j /\ \A c2 \in Calls \ {c} : job'[c2] = job[c2]
BY DEF Typed, TypeOK, HeldWhere, Becomes

LEMMA Finishing ==
    ASSUME Typed, NEW c \in Calls, Finish(c)
    PROVE  /\ job' \in [Calls -> Job] /\ HeldWhere'
           /\ job'[c] = IdleJob /\ \A c2 \in Calls \ {c} : job'[c2] = job[c2]
BY IdleType, Becoming DEF Finish, Becomes

\* Calls that neither look at a session nor have one.
Apart(j) == j.held = None /\ j.pc \in {"prepare", "receipt", "idle"}

LEMMA AsideSteps ==
    ASSUME Typed, NEW c \in Calls
    PROVE  /\ StartPrepare(c) => \E j \in Job : Becomes(c, j) /\ Apart(j) /\ j.pc # "idle"
           /\ PollReceipt(c) => \/ Finish(c)
                                \/ \E j \in Job : Becomes(c, j) /\ Apart(j) /\ j.pc # "idle"
           /\ \A i \in Ids : StartWait(c, i) =>
                \E j \in Job : Becomes(c, j) /\ Apart(j) /\ j.pc # "idle"
<1>1. ASSUME StartPrepare(c)
      PROVE  \E j \in Job : Becomes(c, j) /\ Apart(j) /\ j.pc # "idle"
  <2> DEFINE j == [job[c] EXCEPT !.pc = "prepare"]
  <2>1. job[c] \in Job /\ job[c].held = None
    BY <1>1 DEF Typed, TypeOK, HeldWhere, StartPrepare
  <2>2. j \in Job /\ Apart(j) /\ j.pc # "idle"
    BY <2>1 DEF Job, Apart
  <2>3. Becomes(c, j)
    BY <1>1 DEF Becomes, StartPrepare, Typed, TypeOK
  <2> QED BY <2>2, <2>3
<1>2. ASSUME PollReceipt(c), ~Finish(c)
      PROVE  \E j \in Job : Becomes(c, j) /\ Apart(j) /\ j.pc # "idle"
  <2> DEFINE j == [job[c] EXCEPT !.polls = job[c].polls + 1]
  <2>1. job[c] \in Job /\ job[c].held = None /\ job[c].pc = "receipt"
    BY <1>2 DEF Typed, TypeOK, HeldWhere, PollReceipt
  <2>2. job[c].polls + 1 \in 0 .. MaxPolls
    BY <1>2, <2>1, SizesAssumption DEF PollReceipt, Job
  <2>3. j \in Job /\ Apart(j) /\ j.pc # "idle"
    BY <2>1, <2>2 DEF Job, Apart
  <2>4. Becomes(c, j)
    BY <1>2 DEF Becomes, PollReceipt, Typed, TypeOK
  <2> QED BY <2>3, <2>4
<1>3. ASSUME NEW i \in Ids, StartWait(c, i)
      PROVE  \E j \in Job : Becomes(c, j) /\ Apart(j) /\ j.pc # "idle"
  <2> DEFINE j1 == [job[c] EXCEPT !.pc = "receipt"]
             j == [j1 EXCEPT !.id = i]
  <2>1. job[c] \in Job /\ job[c].held = None
    BY <1>3 DEF Typed, TypeOK, HeldWhere, StartWait
  <2>2. j1 \in Job /\ Apart(j1) /\ j1.pc # "idle"
    BY <2>1 DEF Job, Apart
  <2>3. Becomes(c, j)
    BY <1>3 DEF Becomes, StartWait, Typed, TypeOK
  <2> HIDE DEF j1
  <2>4. j \in Job /\ Apart(j) /\ j.pc # "idle"
    BY <2>2 DEF Job, Apart
  <2> QED BY <2>3, <2>4
<1> QED BY <1>1, <1>2, <1>3

\* A finalize that has validated its request.
LEMMA StartsFinalize ==
    ASSUME Typed, NEW c \in Calls, NEW i \in Ids, NEW kind \in Kinds,
           NEW given \in SUBSET Quotes, NEW listens \in BOOLEAN,
           StartFinalize(c, i, kind, given, listens)
    PROVE  \E j \in Job : /\ Becomes(c, j) /\ j.held = None /\ j.pc = "peeked"
                          /\ j.id = i /\ j.kind = kind /\ j.given = given
<1> DEFINE j1 == [IdleJob EXCEPT !.pc = "peeked"]
           j2 == [j1 EXCEPT !.id = i]
           j3 == [j2 EXCEPT !.kind = kind]
           j4 == [j3 EXCEPT !.given = given]
           j5 == [j4 EXCEPT !.listens = listens]
<1>1. Becomes(c, j5)
  BY DEF Becomes, StartFinalize
<1>2. j1 \in Job /\ j1.held = None /\ j1.pc = "peeked"
  BY IdleType DEF Job
<1> HIDE DEF j1
<1>3. j2 \in Job /\ j2.held = None /\ j2.pc = "peeked" /\ j2.id = i
  BY <1>2 DEF Job
<1> HIDE DEF j2
<1>4. j3 \in Job /\ j3.held = None /\ j3.pc = "peeked" /\ j3.id = i /\ j3.kind = kind
  BY <1>3 DEF Job
<1> HIDE DEF j3
<1>5. /\ j4 \in Job /\ j4.held = None /\ j4.pc = "peeked" /\ j4.id = i /\ j4.kind = kind
      /\ j4.given = given
  BY <1>4 DEF Job
<1> HIDE DEF j4
<1>6. /\ j5 \in Job /\ j5.held = None /\ j5.pc = "peeked" /\ j5.id = i /\ j5.kind = kind
      /\ j5.given = given
  BY <1>5 DEF Job
<1> HIDE DEF j5
<1> QED BY <1>1, <1>6

\* SessionStore::take that finds its session.
LEMMA Takes ==
    ASSUME Typed, NEW c \in Calls, Take(c), NEW s, s = sessions[job[c].id],
           s # None, s.kind = job[c].kind
    PROVE  /\ job[c].id \in Ids /\ s \in Session
           /\ sessions' = [sessions EXCEPT ![job[c].id] = None]
           /\ fate' = [fate EXCEPT ![job[c].id] = "begun"]
           /\ \E j \in Job : /\ Becomes(c, j) /\ j.held = s /\ j.pc = "store"
                             /\ j.id = job[c].id /\ j.kind = job[c].kind
                             /\ j.given = job[c].given
<1>1. job[c] \in Job /\ job[c].id \in Ids /\ s \in Session
  BY DEF Take, Typed, TypeOK, HeldWhere
<1> DEFINE j1 == [job[c] EXCEPT !.pc = "store"]
           j2 == [j1 EXCEPT !.held = s]
<1>2. Becomes(c, j2)
  BY DEF Becomes, Take, Typed, TypeOK
<1>3. /\ j1 \in Job /\ j1.pc = "store" /\ j1.id = job[c].id /\ j1.kind = job[c].kind
      /\ j1.given = job[c].given
  BY <1>1 DEF Job
<1> HIDE DEF j1
<1>4. /\ j2 \in Job /\ j2.pc = "store" /\ j2.id = job[c].id /\ j2.kind = job[c].kind
      /\ j2.given = job[c].given /\ j2.held = s
  BY <1>1, <1>3 DEF Job
<1> HIDE DEF j2
<1> QED BY <1>1, <1>2, <1>4 DEF Take

\* A store that returns leaves the session with its call, as it was but for the
\* quotes that are stored.
LEMMA Returns ==
    ASSUME Typed, NEW c \in Calls, StoreReturns(c)
    PROVE  /\ job[c].id \in Ids /\ job[c].held \in Session
           /\ \E j \in Job : /\ Becomes(c, j) /\ j.pc = "flush" /\ j.id = job[c].id
                             /\ j.kind = job[c].kind /\ j.given = job[c].given
                             /\ j.held \in Session /\ j.held.resume = job[c].held.resume
                             /\ j.held.due = job[c].held.due
                             /\ j.held.kind = job[c].held.kind
<1>1. job[c] \in Job /\ job[c].id \in Ids /\ job[c].held \in Session /\ job[c].pc = "store"
  BY DEF StoreReturns, Typed, TypeOK, HeldWhere, Job
<1>2. ASSUME NEW o \in {"complete", "partial", "error"}, NEW s \in Session,
             s.resume = job[c].held.resume, s.due = job[c].held.due,
             s.kind = job[c].held.kind,
             NEW j, j = [[[job[c] EXCEPT !.pc = "flush"] EXCEPT !.outcome = o] EXCEPT !.held = s]
      PROVE  /\ j \in Job /\ j.pc = "flush" /\ j.id = job[c].id
             /\ j.kind = job[c].kind /\ j.given = job[c].given /\ j.held = s
  <2> DEFINE j1 == [job[c] EXCEPT !.pc = "flush"]
             j2 == [j1 EXCEPT !.outcome = o]
  <2>1. /\ j1 \in Job /\ j1.pc = "flush" /\ j1.id = job[c].id /\ j1.kind = job[c].kind
        /\ j1.given = job[c].given
    BY <1>1 DEF Job
  <2>2. j = [j2 EXCEPT !.held = s]
    BY <1>2
  <2> HIDE DEF j1
  <2>3. /\ j2 \in Job /\ j2.pc = "flush" /\ j2.id = job[c].id /\ j2.kind = job[c].kind
        /\ j2.given = job[c].given
    BY <2>1 DEF Job
  <2> HIDE DEF j2
  <2> QED BY <2>2, <2>3 DEF Job
<1>3. ASSUME NEW o \in {"complete", "error"},
             job' = [job EXCEPT ![c].pc = "flush", ![c].outcome = o]
      PROVE  \E j \in Job : /\ Becomes(c, j) /\ j.pc = "flush" /\ j.id = job[c].id
                            /\ j.kind = job[c].kind /\ j.given = job[c].given
                            /\ j.held \in Session /\ j.held.resume = job[c].held.resume
                            /\ j.held.due = job[c].held.due
                            /\ j.held.kind = job[c].held.kind
  <2> DEFINE j1 == [job[c] EXCEPT !.pc = "flush"]
             j2 == [j1 EXCEPT !.outcome = o]
  <2>1. Becomes(c, j2)
    BY <1>3 DEF Becomes, Typed, TypeOK
  <2>2. /\ j1 \in Job /\ j1.pc = "flush" /\ j1.id = job[c].id /\ j1.kind = job[c].kind
        /\ j1.given = job[c].given /\ j1.held = job[c].held
    BY <1>1 DEF Job
  <2> HIDE DEF j1
  <2>3. /\ j2 \in Job /\ j2.pc = "flush" /\ j2.id = job[c].id /\ j2.kind = job[c].kind
        /\ j2.given = job[c].given /\ j2.held = job[c].held
    BY <2>2 DEF Job
  <2> HIDE DEF j2
  <2> QED BY <1>1, <2>1, <2>3
<1>4. ASSUME NEW stored \in SUBSET Quotes,
             job' = [job EXCEPT ![c].pc = "flush", ![c].outcome = "partial",
                                ![c].held.stored = stored]
      PROVE  \E j \in Job : /\ Becomes(c, j) /\ j.pc = "flush" /\ j.id = job[c].id
                            /\ j.kind = job[c].kind /\ j.given = job[c].given
                            /\ j.held \in Session /\ j.held.resume = job[c].held.resume
                            /\ j.held.due = job[c].held.due
                            /\ j.held.kind = job[c].held.kind
  <2> DEFINE s == [job[c].held EXCEPT !.stored = stored]
             j1 == [job[c] EXCEPT !.pc = "flush"]
             j2 == [j1 EXCEPT !.outcome = "partial"]
             j == [j2 EXCEPT !.held = s]
  <2>1. /\ s \in Session /\ s.resume = job[c].held.resume /\ s.due = job[c].held.due
        /\ s.kind = job[c].held.kind
    BY <1>1 DEF Session
  <2>2. Becomes(c, j)
    BY <1>4, <1>1 DEF Becomes, Typed, TypeOK, Job
  <2> HIDE DEF s
  <2>3. /\ j \in Job /\ j.pc = "flush" /\ j.id = job[c].id
        /\ j.kind = job[c].kind /\ j.given = job[c].given /\ j.held = s
    BY <1>2, <2>1
  <2> HIDE DEF j
  <2> QED BY <2>1, <2>2, <2>3
<1>5. job[c].held.stored \cup (job[c].held.due \cap mined[job[c].id]) \in SUBSET Quotes
  BY <1>1 DEF Session
<1> QED BY <1>1, <1>3, <1>4, <1>5 DEF StoreReturns
-----------------------------------------------------------------------------
(* The shapes of a step.                                                   *)

\* A call that has no session goes on without one.
Aside(c) ==
    /\ job[c].held = None
    /\ \E j \in Job : Becomes(c, j) /\ Apart(j) /\ (j.pc = "idle" => j = IdleJob)
    /\ UNCHANGED <<sessions, fate, nextId, billed>>

Finds(c) == LET s == sessions[job[c].id] IN s # None /\ s.kind = job[c].kind

LEMMA Shapes ==
    ASSUME Typed, [Next]_vars
    PROVE  \/ UNCHANGED <<sessions, job, fate, nextId, billed>>
           \/ \E i \in Ids : PaymentTransactions(i) \/ Cancel(i)
           \/ \E c \in Calls :
                \/ Aside(c)
                \/ Stash(c)
                \/ \E i \in Ids, kind \in Kinds, given \in SUBSET Quotes, listens \in BOOLEAN :
                      StartFinalize(c, i, kind, given, listens)
                \/ Take(c) /\ Finds(c)
                \/ StoreReturns(c)
                \/ Settle(c)
                \/ Drop(c) /\ job[c].held # None
<1>1. ASSUME NEW c \in Calls, Finish(c), job[c].held = None,
             UNCHANGED <<sessions, fate, nextId, billed>>
      PROVE  Aside(c)
  BY <1>1, IdleType DEF Aside, Apart, Finish, Becomes
<1>2. ASSUME NEW c \in Calls, StartPrepare(c) PROVE Aside(c)
  <2>1. job[c].held = None
    BY <1>2 DEF StartPrepare, Typed, HeldWhere
  <2> QED BY <1>2, <2>1, AsideSteps DEF Aside, StartPrepare
<1>3. ASSUME NEW c \in Calls, NEW i \in Ids, StartWait(c, i) PROVE Aside(c)
  <2>1. job[c].held = None
    BY <1>3 DEF StartWait, Typed, HeldWhere
  <2> QED BY <1>3, <2>1, AsideSteps DEF Aside, StartWait
<1>4. ASSUME NEW c \in Calls, PollReceipt(c) PROVE Aside(c)
  <2>1. job[c].held = None
    BY <1>4 DEF PollReceipt, Typed, HeldWhere
  <2>2. UNCHANGED <<sessions, fate, nextId, billed>>
    BY <1>4 DEF PollReceipt
  <2> QED BY <1>1, <1>4, <2>1, <2>2, AsideSteps DEF Aside
<1>5. ASSUME NEW c \in Calls, PrepareFails(c) PROVE Aside(c)
  BY <1>1, <1>5 DEF PrepareFails, Typed, HeldWhere
<1>6. ASSUME NEW c \in Calls, Take(c), ~Finds(c) PROVE Aside(c)
  BY <1>1, <1>6 DEF Take, Finds, Typed, HeldWhere
<1>7. ASSUME NEW c \in Calls, Drop(c), job[c].held = None PROVE Aside(c)
  BY <1>1, <1>7 DEF Drop
<1>8. ASSUME NEW i \in Ids, Mine(i) PROVE UNCHANGED <<sessions, job, fate, nextId, billed>>
  BY <1>8 DEF Mine
<1>9. Connect \/ UNCHANGED vars => UNCHANGED <<sessions, job, fate, nextId, billed>>
  BY DEF Connect, vars
<1> QED
  BY <1>2, <1>3, <1>4, <1>5, <1>6, <1>7, <1>8, <1>9 DEF Next, Step

LEMMA PayTransactionsType ==
    ASSUME NEW s \in Session PROVE PayTransactions(s) \in SUBSET SUBSET Quotes
<1>1. s.due \in SUBSET Quotes
  BY DEF Session
<1>2. Batches(s.due) \in SUBSET SUBSET Quotes
  BY <1>1 DEF Batches
<1> QED BY <1>1, <1>2 DEF PayTransactions

LEMMA NextTyped == Typed /\ [Next]_vars => Typed'
<1> SUFFICES ASSUME Typed, [Next]_vars PROVE Typed'
  OBVIOUS
<1>0. /\ billed' \in [Ids -> SUBSET SUBSET Quotes] /\ mined' \in [Ids -> SUBSET Quotes]
  <2>1. ASSUME NEW i \in Ids, PaymentTransactions(i)
        PROVE  billed' \in [Ids -> SUBSET SUBSET Quotes]
    <3>1. PayTransactions(sessions[i]) \in SUBSET SUBSET Quotes
      BY <2>1, PayTransactionsType DEF PaymentTransactions, Typed, TypeOK
    <3> QED BY <2>1, <3>1 DEF PaymentTransactions, Typed, TypeOK
  <2>2. ASSUME NEW i \in Ids, Mine(i) PROVE mined' \in [Ids -> SUBSET Quotes]
    BY <2>2 DEF Mine, Typed, TypeOK
  <2>3. billed' = billed \/ \E i \in Ids : PaymentTransactions(i)
    BY DEF Next, vars, Connect, StartPrepare, StartWait, StartFinalize, Step, PrepareFails,
       Stash, PollReceipt, Take, StoreReturns, Settle, Drop, Mine, Cancel
  <2>4. mined' = mined \/ \E i \in Ids : Mine(i)
    BY DEF Next, vars, Connect, StartPrepare, StartWait, StartFinalize, Step, PrepareFails,
       Stash, PollReceipt, Take, StoreReturns, Settle, Drop, PaymentTransactions, Cancel
  <2> QED BY <2>1, <2>2, <2>3, <2>4 DEF Typed, TypeOK
<1>1. ASSUME UNCHANGED <<sessions, fate, nextId>>, job' \in [Calls -> Job], HeldWhere'
      PROVE  Typed'
  BY <1>0, <1>1 DEF Typed, TypeOK
<1>2. CASE UNCHANGED <<sessions, job, fate, nextId, billed>>
  BY <1>1, <1>2 DEF Typed, TypeOK, HeldWhere
<1>3. ASSUME NEW i \in Ids, PaymentTransactions(i) PROVE Typed'
  BY <1>1, <1>3 DEF PaymentTransactions, Typed, TypeOK, HeldWhere
<1>4. ASSUME NEW i \in Ids, Cancel(i) PROVE Typed'
  BY <1>0, <1>4 DEF Cancel, Typed, TypeOK, HeldWhere, Fates
<1>5. ASSUME NEW c \in Calls, Aside(c) PROVE Typed'
  <2>1. PICK j \in Job : Becomes(c, j) /\ Apart(j) /\ (j.pc = "idle" => j = IdleJob)
    BY <1>5 DEF Aside
  <2>2. job' \in [Calls -> Job] /\ HeldWhere'
    BY <2>1, Becoming DEF Apart
  <2> QED BY <1>1, <1>5, <2>2 DEF Aside
<1>6. ASSUME NEW c \in Calls, Stash(c) PROVE Typed'
  <2>1. job' \in [Calls -> Job] /\ HeldWhere'
    BY <1>6, Finishing DEF Stash
  <2>2. PICK kind \in Kinds, due \in SUBSET Quotes :
          sessions' = [sessions EXCEPT ![nextId] = [kind |-> kind, resume |-> FALSE,
                                                    due |-> due, stored |-> {}]]
    BY <1>6 DEF Stash
  <2>3. [kind |-> kind, resume |-> FALSE, due |-> due, stored |-> {}] \in Session
    BY DEF Session
  <2>4. sessions' \in [Ids -> Session \cup {None}]
    BY <2>2, <2>3 DEF Typed, TypeOK
  <2> QED BY <1>0, <1>6, <2>1, <2>4 DEF Stash, Typed, TypeOK, Fates
<1>7. ASSUME NEW c \in Calls, NEW i \in Ids, NEW kind \in Kinds, NEW given \in SUBSET Quotes,
             NEW listens \in BOOLEAN, StartFinalize(c, i, kind, given, listens)
      PROVE  Typed'
  <2>1. PICK j \in Job : Becomes(c, j) /\ j.held = None /\ j.pc = "peeked" /\ j.id = i
    BY <1>7, StartsFinalize
  <2>2. job' \in [Calls -> Job] /\ HeldWhere'
    BY <2>1, Becoming
  <2> QED BY <1>1, <1>7, <2>2 DEF StartFinalize
<1>8. ASSUME NEW c \in Calls, Take(c), Finds(c) PROVE Typed'
  <2>1. /\ job[c].id \in Ids /\ sessions[job[c].id] \in Session
        /\ sessions' = [sessions EXCEPT ![job[c].id] = None]
        /\ fate' = [fate EXCEPT ![job[c].id] = "begun"]
        /\ \E j \in Job : /\ Becomes(c, j) /\ j.held = sessions[job[c].id] /\ j.pc = "store"
                          /\ j.id = job[c].id
    BY <1>8, Takes DEF Finds
  <2>2. job' \in [Calls -> Job] /\ HeldWhere'
    BY <2>1, Becoming, NoneAssumption
  <2> QED BY <1>0, <1>8, <2>1, <2>2 DEF Take, Typed, TypeOK, Fates
<1>9. ASSUME NEW c \in Calls, StoreReturns(c) PROVE Typed'
  <2>1. PICK j \in Job : Becomes(c, j) /\ j.pc = "flush" /\ j.id \in Ids /\ j.held \in Session
    BY <1>9, Returns
  <2>2. job' \in [Calls -> Job] /\ HeldWhere'
    BY <2>1, Becoming, NoneAssumption
  <2> QED BY <1>1, <1>9, <2>2 DEF StoreReturns
<1>10. ASSUME NEW c \in Calls, Settle(c) PROVE Typed'
  <2>1. job' \in [Calls -> Job] /\ HeldWhere'
    BY <1>10, Finishing DEF Settle
  <2>2. job[c].held \in Session /\ job[c].id \in Ids
    BY <1>10 DEF Settle, Typed, TypeOK, HeldWhere, Job
  <2>3. RetainResume(job[c].held) \in Session
    BY <2>2 DEF RetainResume, Session
  <2>4. sessions' \in [Ids -> Session \cup {None}]
    BY <1>10, <2>2, <2>3 DEF Settle, Typed, TypeOK
  <2>5. fate' \in [Ids -> Fates]
    BY <1>10, <2>2 DEF Settle, Typed, TypeOK, Fates
  <2> QED BY <1>0, <1>10, <2>1, <2>4, <2>5 DEF Settle, Typed, TypeOK
<1>11. ASSUME NEW c \in Calls, Drop(c) PROVE Typed'
  <2>1. job' \in [Calls -> Job] /\ HeldWhere'
    BY <1>11, Finishing DEF Drop
  <2>2. fate' \in [Ids -> Fates]
    BY <1>11, Holding DEF Drop, Typed, TypeOK, Fates
  <2> QED BY <1>0, <1>11, <2>1, <2>2 DEF Drop, Typed, TypeOK
<1> QED
  BY <1>2, <1>3, <1>4, <1>5, <1>6, <1>7, <1>8, <1>9, <1>10, <1>11, Shapes

LEMMA InitTyped == Init => Typed
BY IdleType DEF Init, Typed, TypeOK, HeldWhere, Fates
-----------------------------------------------------------------------------
(* Nobody loses a session.                                                 *)

\* Ids are issued in order.
Unissued == \A i \in Ids : i >= nextId => fate[i] = "unused" /\ billed[i] = {}

LEMMA NextUnissued ==
    Typed /\ LiveIsKept /\ Unissued /\ [Next]_vars => Unissued'
<1> SUFFICES ASSUME Typed, LiveIsKept, Unissued, [Next]_vars PROVE Unissued'
  OBVIOUS
<1>1. ASSUME NEW c \in Calls, Stash(c) PROVE Unissued'
  BY <1>1 DEF Stash, Unissued, Typed, TypeOK, Ids
<1>2. CASE UNCHANGED <<sessions, job, fate, nextId, billed>>
  BY <1>2 DEF Unissued
<1>3. ASSUME NEW i \in Ids, PaymentTransactions(i) \/ Cancel(i) PROVE Unissued'
  <2>1. fate[i] # "unused" /\ i < nextId
    BY <1>3 DEF PaymentTransactions, Cancel, LiveIsKept, Unissued, Typed, TypeOK, Ids
  <2> QED BY <1>3, <2>1 DEF PaymentTransactions, Cancel, Unissued, Typed, TypeOK, Ids
<1>4. ASSUME NEW c \in Calls, Aside(c) \/ StoreReturns(c) PROVE Unissued'
  BY <1>4 DEF Aside, StoreReturns, Unissued
<1>5. ASSUME NEW c \in Calls, NEW i \in Ids, NEW kind \in Kinds, NEW given \in SUBSET Quotes,
             NEW listens \in BOOLEAN, StartFinalize(c, i, kind, given, listens)
      PROVE  Unissued'
  BY <1>5 DEF StartFinalize, Unissued
<1>6. ASSUME NEW c \in Calls, Take(c), Finds(c) PROVE Unissued'
  <2>1. PICK i \in Ids : i = job[c].id
    BY <1>6, Takes DEF Finds
  <2>2. fate[i] # "unused" /\ i < nextId
    BY <1>6, <2>1 DEF Finds, LiveIsKept, Unissued, Typed, TypeOK, Ids
  <2>3. fate' = [fate EXCEPT ![i] = "begun"] /\ UNCHANGED <<nextId, billed>>
    BY <1>6, <2>1 DEF Take, Finds
  <2> QED BY <2>2, <2>3 DEF Unissued, Typed, TypeOK, Ids
<1>7. ASSUME NEW c \in Calls, Settle(c) \/ (Drop(c) /\ job[c].held # None)
      PROVE  Unissued'
  <2>1. job[c].held # None
    BY <1>7 DEF Settle, Typed, HeldWhere
  <2>2. PICK i \in Ids : i = job[c].id /\ c \in Holders(i)
    BY <2>1, Holding
  <2>3. fate[i] # "unused" /\ i < nextId
    BY <2>2 DEF LiveIsKept, Unissued, Typed, TypeOK, Ids
  <2>4. /\ \A k \in Ids \ {i} : fate'[k] = fate[k]
        /\ UNCHANGED <<nextId, billed>>
    BY <1>7, <2>1, <2>2 DEF Settle, Drop, Typed, TypeOK
  <2> QED BY <2>3, <2>4 DEF Unissued, Typed, TypeOK, Ids
<1> QED BY <1>1, <1>2, <1>3, <1>4, <1>5, <1>6, <1>7, Shapes

LEMMA SamePlaces ==
    ASSUME LiveIsKept, UNCHANGED <<sessions, fate>>,
           \A i \in Ids : Holders(i)' = Holders(i)
    PROVE  LiveIsKept'
BY DEF LiveIsKept

LEMMA NextKept ==
    Typed /\ LiveIsKept /\ Unissued /\ [Next]_vars => LiveIsKept'
<1> SUFFICES ASSUME Typed, LiveIsKept, Unissued, [Next]_vars PROVE LiveIsKept'
  OBVIOUS
<1>1. ASSUME NEW c \in Calls, NEW j \in Job, Becomes(c, j), job[c].held = None,
             j.held = None, UNCHANGED <<sessions, fate>>
      PROVE  LiveIsKept'
  <2>1. \A i \in Ids : Holders(i)' = Holders(i)
    BY <1>1 DEF Becomes, Holders, Typed, TypeOK
  <2> QED BY <1>1, <2>1, SamePlaces
<1>2. CASE UNCHANGED <<sessions, job, fate, nextId, billed>>
  BY <1>2, SamePlaces DEF Holders
<1>3. ASSUME NEW i \in Ids, PaymentTransactions(i) PROVE LiveIsKept'
  BY <1>3, SamePlaces DEF PaymentTransactions, Holders
<1>4. ASSUME NEW i \in Ids, Cancel(i) PROVE LiveIsKept'
  <2>1. \A k \in Ids : Holders(k)' = Holders(k)
    BY <1>4 DEF Cancel, Holders
  <2> QED BY <1>4, <2>1 DEF Cancel, LiveIsKept, Typed, TypeOK
<1>5. ASSUME NEW c \in Calls, Aside(c) PROVE LiveIsKept'
  BY <1>1, <1>5 DEF Aside, Apart
<1>6. ASSUME NEW c \in Calls, Stash(c) PROVE LiveIsKept'
  <2>1. PICK kind \in Kinds, due \in SUBSET Quotes :
          sessions' = [sessions EXCEPT ![nextId] = [kind |-> kind, resume |-> FALSE,
                                                    due |-> due, stored |-> {}]]
    BY <1>6 DEF Stash
  <2>2. [kind |-> kind, resume |-> FALSE, due |-> due, stored |-> {}] # None
    <3>1. [kind |-> kind, resume |-> FALSE, due |-> due, stored |-> {}] \in Session
      BY DEF Session
    <3> QED BY <3>1, NoneAssumption
  <2>3. nextId \in Ids /\ fate' = [fate EXCEPT ![nextId] = "live"]
    BY <1>6 DEF Stash
  <2>4. fate[nextId] = "unused"
    BY <2>3 DEF Unissued, Typed, TypeOK, Ids
  <2>5. job[c].held = None /\ \A c2 \in Calls \ {c} : job'[c2] = job[c2]
    BY <1>6, Finishing DEF Stash, Typed, HeldWhere
  <2>6. \A k \in Ids : Holders(k)' = Holders(k)
    BY <1>6, <2>5, Finishing, IdleType DEF Stash, Holders
  <2> QED BY <2>1, <2>2, <2>3, <2>4, <2>6 DEF LiveIsKept, Typed, TypeOK
<1>7. ASSUME NEW c \in Calls, NEW i \in Ids, NEW kind \in Kinds, NEW given \in SUBSET Quotes,
             NEW listens \in BOOLEAN, StartFinalize(c, i, kind, given, listens)
      PROVE  LiveIsKept'
  <2>1. PICK j \in Job : Becomes(c, j) /\ j.held = None
    BY <1>7, StartsFinalize
  <2>2. job[c].held = None /\ UNCHANGED <<sessions, fate>>
    BY <1>7 DEF StartFinalize, Typed, HeldWhere
  <2> QED BY <1>1, <2>1, <2>2
<1>8. ASSUME NEW c \in Calls, Take(c), Finds(c) PROVE LiveIsKept'
  <2>1. PICK i \in Ids : i = job[c].id
    BY <1>8, Takes DEF Finds
  <2>2. /\ sessions[i] \in Session /\ sessions[i] # None
        /\ sessions' = [sessions EXCEPT ![i] = None]
        /\ fate' = [fate EXCEPT ![i] = "begun"]
    BY <1>8, <2>1, Takes DEF Finds
  <2>3. PICK j \in Job : Becomes(c, j) /\ j.held = sessions[i] /\ j.id = i
    BY <1>8, <2>1, Takes DEF Finds
  <2>4. job[c].held = None
    BY <1>8 DEF Take, Typed, HeldWhere
  <2>5. job'[c] = j /\ \A c2 \in Calls \ {c} : job'[c2] = job[c2]
    BY <2>3 DEF Becomes, Typed, TypeOK
  <2>6. \A k \in Ids : Holders(k)' = IF k = i THEN Holders(k) \cup {c} ELSE Holders(k)
    BY <2>2, <2>3, <2>4, <2>5 DEF Holders
  <2> QED BY <2>2, <2>6 DEF LiveIsKept, Typed, TypeOK
<1>9. ASSUME NEW c \in Calls, StoreReturns(c) PROVE LiveIsKept'
  <2>1. PICK j \in Job : Becomes(c, j) /\ j.id = job[c].id /\ j.held \in Session
    BY <1>9, Returns
  <2>2. job[c].held # None /\ j.held # None
    BY <1>9, <2>1, NoneAssumption DEF StoreReturns, Typed, HeldWhere
  <2>3. job'[c] = j /\ \A c2 \in Calls \ {c} : job'[c2] = job[c2]
    BY <2>1 DEF Becomes, Typed, TypeOK
  <2>4. \A k \in Ids : Holders(k)' = Holders(k)
    BY <2>1, <2>2, <2>3 DEF Holders
  <2> QED BY <1>9, <2>4, SamePlaces DEF StoreReturns
<1>10. ASSUME NEW c \in Calls, Settle(c) \/ (Drop(c) /\ job[c].held # None) PROVE LiveIsKept'
  <2>1. job[c].held # None
    BY <1>10 DEF Settle, Typed, HeldWhere
  <2>2. PICK i \in Ids : i = job[c].id /\ c \in Holders(i) /\ job[c].held \in Session
    BY <2>1, Holding
  <2>3. job'[c] = IdleJob /\ \A c2 \in Calls \ {c} : job'[c2] = job[c2]
    BY <1>10, Finishing DEF Settle, Drop
  <2>4. \A k \in Ids : Holders(k)' = IF k = i THEN {} ELSE Holders(k)
    BY <2>2, <2>3, IdleType DEF Holders, LiveIsKept
  <2>5. fate[i] \in {"live", "begun"} /\ sessions[i] = None
    BY <2>2 DEF LiveIsKept
  <2>6. \A k \in Ids \ {i} : sessions'[k] = sessions[k] /\ fate'[k] = fate[k]
    BY <1>10, <2>1, <2>2 DEF Settle, Drop, Typed, TypeOK
  <2>7. fate'[i] \in {"live", "begun"} <=> sessions'[i] # None
    <3>1. CASE Drop(c)
      BY <2>1, <2>2, <2>5, <3>1 DEF Drop, Typed, TypeOK
    <3>2. CASE Settle(c) /\ job[c].outcome = "partial"
      <4>1. RetainResume(job[c].held) # None
        BY <2>2, NoneAssumption DEF RetainResume, Session
      <4> QED BY <2>2, <2>5, <3>2, <4>1 DEF Settle, Typed, TypeOK
    <3>3. CASE Settle(c) /\ job[c].outcome # "partial"
      BY <2>2, <2>5, <3>3 DEF Settle, Typed, TypeOK
    <3> QED BY <1>10, <3>1, <3>2, <3>3
  <2> QED BY <2>4, <2>6, <2>7 DEF LiveIsKept
<1> QED
  BY <1>2, <1>3, <1>4, <1>5, <1>6, <1>7, <1>8, <1>9, <1>10, Shapes

LEMMA InitKept == Init => LiveIsKept /\ Unissued
BY IdleType DEF Init, LiveIsKept, Unissued, Holders

\* The retry and failure contract of finalize_upload: a session is in the store or
\* with exactly one call until it is complete, cancelled, failed or dropped with
\* its call.
THEOREM SessionsKept == Spec => []LiveIsKept
BY InitTyped, InitKept, NextTyped, NextUnissued, NextKept, PTL DEF Spec

-----------------------------------------------------------------------------
(* No finalize reaches the store without its hashes.                       *)

\* Hashes that suffice for a session, wherever it is: in the store or with a call.
Suffice(i, given) ==
    /\ fate[i] # "unused"
    /\ sessions[i] # None => HashesComplete(sessions[i], given)
    /\ \A c \in Holders(i) : HashesComplete(job[c].held, given)

LEMMA StillSuffice ==
    ASSUME Typed, LiveIsKept, Unissued, [Next]_vars,
           NEW i \in Ids, NEW given \in SUBSET Quotes, Suffice(i, given)
    PROVE  Suffice(i, given)'
<1>1. ASSUME NEW c \in Calls, NEW j \in Job, Becomes(c, j), job[c].held = None,
             j.held = None, UNCHANGED <<sessions, fate>>
      PROVE  Suffice(i, given)'
  BY <1>1 DEF Becomes, Suffice, Holders, Typed, TypeOK
<1>2. CASE UNCHANGED <<sessions, job, fate, nextId, billed>>
  BY <1>2 DEF Suffice, Holders
<1>3. ASSUME NEW k \in Ids, PaymentTransactions(k) PROVE Suffice(i, given)'
  BY <1>3 DEF PaymentTransactions, Suffice, Holders
<1>4. ASSUME NEW k \in Ids, Cancel(k) PROVE Suffice(i, given)'
  BY <1>4 DEF Cancel, Suffice, Holders, Typed, TypeOK
<1>5. ASSUME NEW c \in Calls, Aside(c) PROVE Suffice(i, given)'
  BY <1>1, <1>5 DEF Aside, Apart
<1>6. ASSUME NEW c \in Calls, Stash(c) PROVE Suffice(i, given)'
  <2>1. nextId # i
    BY DEF Unissued, Suffice, Typed, TypeOK, Ids
  <2>2. sessions'[i] = sessions[i] /\ fate'[i] = fate[i]
    BY <1>6, <2>1 DEF Stash, Typed, TypeOK
  <2>3. job'[c] = IdleJob /\ \A c2 \in Calls \ {c} : job'[c2] = job[c2]
    BY <1>6, Finishing DEF Stash
  <2> QED BY <2>2, <2>3, IdleType DEF Suffice, Holders
<1>7. ASSUME NEW c \in Calls, NEW k \in Ids, NEW kind \in Kinds, NEW g \in SUBSET Quotes,
             NEW listens \in BOOLEAN, StartFinalize(c, k, kind, g, listens)
      PROVE  Suffice(i, given)'
  <2>1. PICK j \in Job : Becomes(c, j) /\ j.held = None
    BY <1>7, StartsFinalize
  <2>2. job[c].held = None /\ UNCHANGED <<sessions, fate>>
    BY <1>7 DEF StartFinalize, Typed, HeldWhere
  <2> QED BY <1>1, <2>1, <2>2
<1>8. ASSUME NEW c \in Calls, Take(c), Finds(c) PROVE Suffice(i, given)'
  <2>1. PICK k \in Ids : k = job[c].id
    BY <1>8, Takes DEF Finds
  <2>2. /\ sessions[k] # None
        /\ sessions' = [sessions EXCEPT ![k] = None]
        /\ fate' = [fate EXCEPT ![k] = "begun"]
    BY <1>8, <2>1, Takes DEF Finds
  <2>3. PICK j \in Job : Becomes(c, j) /\ j.held = sessions[k] /\ j.id = k
    BY <1>8, <2>1, Takes DEF Finds
  <2>4. job'[c] = j /\ \A c2 \in Calls \ {c} : job'[c2] = job[c2]
    BY <2>3 DEF Becomes, Typed, TypeOK
  <2> QED BY <2>2, <2>3, <2>4 DEF Suffice, Holders, Typed, TypeOK
<1>9. ASSUME NEW c \in Calls, StoreReturns(c) PROVE Suffice(i, given)'
  <2>1. PICK j \in Job : /\ Becomes(c, j) /\ j.id = job[c].id /\ j.held \in Session
                         /\ j.held.resume = job[c].held.resume
                         /\ j.held.due = job[c].held.due
                         /\ j.held.kind = job[c].held.kind
    BY <1>9, Returns
  <2>2. job[c].held # None /\ UNCHANGED <<sessions, fate>>
    BY <1>9 DEF StoreReturns, Typed, HeldWhere
  <2>3. job'[c] = j /\ \A c2 \in Calls \ {c} : job'[c2] = job[c2]
    BY <2>1 DEF Becomes, Typed, TypeOK
  <2>4. HashesComplete(job[c].held, given) => HashesComplete(j.held, given)
    BY <2>1 DEF HashesComplete
  <2> QED BY <2>1, <2>2, <2>3, <2>4 DEF Suffice, Holders
<1>10. ASSUME NEW c \in Calls, Settle(c) \/ (Drop(c) /\ job[c].held # None)
       PROVE  Suffice(i, given)'
  <2>1. job[c].held # None
    BY <1>10 DEF Settle, Typed, HeldWhere
  <2>2. PICK k \in Ids : k = job[c].id /\ c \in Holders(k) /\ job[c].held \in Session
    BY <2>1, Holding
  <2>3. job'[c] = IdleJob /\ \A c2 \in Calls \ {c} : job'[c2] = job[c2]
    BY <1>10, Finishing DEF Settle, Drop
  <2>4. fate'[i] # "unused"
    BY <1>10, <2>2 DEF Settle, Drop, Suffice, Typed, TypeOK
  <2>5. RetainResume(job[c].held).resume
    BY <2>2 DEF RetainResume, Session
  <2>6. sessions'[i] = sessions[i] \/ sessions'[i] = RetainResume(job[c].held)
    BY <1>10, <2>2 DEF Settle, Drop, Typed, TypeOK
  <2>7. sessions'[i] # None => HashesComplete(sessions'[i], given)
    BY <2>5, <2>6 DEF Suffice, HashesComplete
  <2> QED BY <2>3, <2>4, <2>7, IdleType DEF Suffice, Holders
<1> QED
  BY <1>2, <1>3, <1>4, <1>5, <1>6, <1>7, <1>8, <1>9, <1>10, Shapes

Peeks(c) == job[c].pc = "peeked" /\ job[c].kind = "wave"

\* What the peek of a wave's finalize saw stays true until its take.
Hashed == \A c \in Calls : Peeks(c) => Suffice(job[c].id, job[c].given)

\* A call peeks since an earlier step, or since this one.
LEMMA PeeksSince ==
    ASSUME Typed, [Next]_vars, NEW c \in Calls, Peeks(c)'
    PROVE  \/ Peeks(c) /\ job'[c].id = job[c].id /\ job'[c].given = job[c].given
           \/ /\ job'[c].id \in Ids /\ job'[c].given \in SUBSET Quotes
              /\ sessions[job'[c].id] # None
              /\ HashesComplete(sessions[job'[c].id], job'[c].given)
<1>1. ASSUME NEW d \in Calls, NEW j \in Job, Becomes(d, j), ~(j.pc = "peeked")
      PROVE  d # c /\ job'[c] = job[c]
  BY <1>1 DEF Becomes, Peeks, Typed, TypeOK
<1>2. CASE job'[c] = job[c]
  BY <1>2 DEF Peeks
<1>3. ASSUME NEW d \in Calls, Aside(d) \/ StoreReturns(d) \/ (Take(d) /\ Finds(d))
      PROVE  job'[c] = job[c]
  <2>1. \E j \in Job : Becomes(d, j) /\ ~(j.pc = "peeked")
    BY <1>3, Returns, Takes DEF Aside, Apart, Finds
  <2> QED BY <1>1, <2>1
<1>4. ASSUME NEW d \in Calls, Stash(d) \/ Settle(d) \/ Drop(d) PROVE job'[c] = job[c]
  BY <1>4, <1>1, IdleType DEF Stash, Settle, Drop, Finish, Becomes
<1>5. ASSUME NEW d \in Calls, NEW i \in Ids, NEW kind \in Kinds, NEW given \in SUBSET Quotes,
             NEW listens \in BOOLEAN, StartFinalize(d, i, kind, given, listens)
      PROVE  \/ job'[c] = job[c]
             \/ /\ job'[c].id = i /\ job'[c].given = given /\ sessions[i] # None
                /\ HashesComplete(sessions[i], given)
  <2>1. PICK j \in Job : /\ Becomes(d, j) /\ j.id = i /\ j.kind = kind /\ j.given = given
    BY <1>5, StartsFinalize
  <2>2. CASE d = c
    BY <1>5, <2>1, <2>2 DEF Becomes, StartFinalize, Peeks, Typed, TypeOK
  <2>3. CASE d # c
    BY <2>1, <2>3 DEF Becomes, Typed, TypeOK
  <2> QED BY <2>2, <2>3
<1>6. ASSUME NEW i \in Ids, PaymentTransactions(i) \/ Cancel(i) PROVE job'[c] = job[c]
  BY <1>6 DEF PaymentTransactions, Cancel
<1> QED BY <1>2, <1>3, <1>4, <1>5, <1>6, Shapes

LEMMA NextHashed ==
    Typed /\ LiveIsKept /\ Unissued /\ Hashed /\ [Next]_vars => Hashed'
<1> SUFFICES ASSUME Typed, LiveIsKept, Unissued, Hashed, [Next]_vars,
                    NEW c \in Calls, Peeks(c)'
             PROVE  Suffice(job[c].id, job[c].given)'
  BY DEF Hashed
<1>1. CASE Peeks(c) /\ job'[c].id = job[c].id /\ job'[c].given = job[c].given
  <2>1. job[c].id \in Ids /\ job[c].given \in SUBSET Quotes
    BY <1>1 DEF Peeks, Typed, TypeOK, HeldWhere, Job
  <2>2. PICK i \in Ids, given \in SUBSET Quotes : i = job[c].id /\ given = job[c].given
    BY <2>1
  <2>3. Suffice(i, given)'
    BY <1>1, <2>2, StillSuffice DEF Hashed
  <2> QED BY <1>1, <2>2, <2>3 DEF Suffice, Holders
<1>2. CASE /\ job'[c].id \in Ids /\ job'[c].given \in SUBSET Quotes
           /\ sessions[job'[c].id] # None
           /\ HashesComplete(sessions[job'[c].id], job'[c].given)
  <2>1. PICK i \in Ids, given \in SUBSET Quotes : i = job'[c].id /\ given = job'[c].given
    BY <1>2
  <2>2. fate[i] \in {"live", "begun"} /\ Holders(i) = {}
    BY <1>2, <2>1 DEF LiveIsKept
  <2>3. Suffice(i, given)
    BY <1>2, <2>1, <2>2 DEF Suffice
  <2>4. Suffice(i, given)'
    BY <2>3, StillSuffice
  <2> QED BY <2>1, <2>4 DEF Suffice, Holders
<1> QED BY <1>1, <1>2, PeeksSince

LEMMA NextHaveHashes ==
    Typed /\ Hashed /\ StoresHaveHashes /\ [Next]_vars => StoresHaveHashes'
<1> SUFFICES ASSUME Typed, Hashed, StoresHaveHashes, [Next]_vars PROVE StoresHaveHashes'
  OBVIOUS
<1>1. ASSUME NEW d \in Calls, NEW j \in Job, Becomes(d, j),
             j.held # None /\ ~j.held.resume /\ j.kind = "wave" => j.held.due \subseteq j.given
      PROVE  StoresHaveHashes'
  BY <1>1 DEF Becomes, StoresHaveHashes, Typed, TypeOK
<1>2. ASSUME job' = job PROVE StoresHaveHashes'
  BY <1>2 DEF StoresHaveHashes
<1>3. ASSUME NEW d \in Calls, Aside(d) \/ Stash(d) \/ Settle(d) \/ Drop(d)
      PROVE  StoresHaveHashes'
  <2>1. \E j \in Job : Becomes(d, j) /\ j.held = None
    BY <1>3, IdleType DEF Aside, Apart, Stash, Settle, Drop, Finish, Becomes
  <2> QED BY <1>1, <2>1
<1>4. ASSUME NEW d \in Calls, NEW i \in Ids, NEW kind \in Kinds, NEW given \in SUBSET Quotes,
             NEW listens \in BOOLEAN, StartFinalize(d, i, kind, given, listens)
      PROVE  StoresHaveHashes'
  <2>1. \E j \in Job : Becomes(d, j) /\ j.held = None
    BY <1>4, StartsFinalize
  <2> QED BY <1>1, <2>1
<1>5. ASSUME NEW d \in Calls, Take(d), Finds(d) PROVE StoresHaveHashes'
  <2>1. PICK i \in Ids : i = job[d].id
    BY <1>5, Takes DEF Finds
  <2>2. PICK j \in Job : /\ Becomes(d, j) /\ j.held = sessions[i] /\ j.kind = job[d].kind
                         /\ j.given = job[d].given
    BY <1>5, <2>1, Takes DEF Finds
  <2>3. sessions[i] # None /\ sessions[i].kind = job[d].kind /\ job[d].pc = "peeked"
    BY <1>5, <2>1 DEF Finds, Take
  <2>4. j.kind = "wave" => HashesComplete(j.held, j.given)
    BY <2>1, <2>2, <2>3 DEF Hashed, Peeks, Suffice
  <2> QED BY <1>1, <2>2, <2>3, <2>4 DEF HashesComplete
<1>6. ASSUME NEW d \in Calls, StoreReturns(d) PROVE StoresHaveHashes'
  <2>1. PICK j \in Job : /\ Becomes(d, j) /\ j.kind = job[d].kind /\ j.given = job[d].given
                         /\ j.held.resume = job[d].held.resume
                         /\ j.held.due = job[d].held.due
    BY <1>6, Returns
  <2>2. job[d].held # None
    BY <1>6 DEF StoreReturns, Typed, HeldWhere
  <2> QED BY <1>1, <2>1, <2>2 DEF StoresHaveHashes
<1>7. ASSUME NEW i \in Ids, PaymentTransactions(i) \/ Cancel(i) PROVE job' = job
  BY <1>7 DEF PaymentTransactions, Cancel
<1> QED BY <1>2, <1>3, <1>4, <1>5, <1>6, <1>7, Shapes

LEMMA InitHashed == Init => Hashed /\ StoresHaveHashes
BY IdleType DEF Init, Hashed, Peeks, StoresHaveHashes

\* check_tx_hashes_complete before the take is enough: no finalize stores from a
\* prepared wave that misses a hash.
THEOREM HashesAreThere == Spec => []StoresHaveHashes
BY InitTyped, InitKept, InitHashed, NextTyped, NextUnissued, NextKept, NextHashed,
   NextHaveHashes, PTL DEF Spec

-----------------------------------------------------------------------------
(* What a bill consists of.                                                *)

\* How many of a set's quotes come before one.
Rank(quotes, q) == Cardinality({r \in quotes : r < q})

LEMMA QuotesFinite == ASSUME NEW quotes \in SUBSET Quotes PROVE IsFiniteSet(quotes)
<1>1. IsFiniteSet(Quotes)
  BY FS_Interval, SizesAssumption DEF Quotes
<1> QED BY <1>1, FS_Subset

LEMMA RankType ==
    ASSUME NEW quotes \in SUBSET Quotes, NEW q \in quotes
    PROVE  Rank(quotes, q) \in Nat /\ Rank(quotes, q) \div MaxTransfers \in Nat
<1>1. {r \in quotes : r < q} \in SUBSET Quotes
  OBVIOUS
<1>2. Rank(quotes, q) \in Nat
  BY <1>1, QuotesFinite, FS_CardinalityType DEF Rank
<1> QED BY <1>2, SizesAssumption

\* Two quotes of a set differ in rank.
LEMMA RankOrders ==
    ASSUME NEW quotes \in SUBSET Quotes, NEW p \in quotes, NEW q \in quotes, p < q
    PROVE  Rank(quotes, p) < Rank(quotes, q)
<1> DEFINE P == {r \in quotes : r < p}
           Q == {r \in quotes : r < q}
<1>0. \A r \in quotes : r \in Int
  BY SizesAssumption DEF Quotes
<1>1. P \in SUBSET Q /\ p \in Q /\ p \notin P
  BY <1>0
<1>2. Q \in SUBSET Quotes /\ P \in SUBSET Quotes
  OBVIOUS
<1>3. /\ IsFiniteSet(Q) /\ Cardinality(Q) \in Nat /\ Cardinality(P) \in Nat
  BY <1>2, QuotesFinite, FS_CardinalityType
<1>4. Cardinality(P) <= Cardinality(Q) /\ (Cardinality(Q) = Cardinality(P) => Q = P)
  BY <1>1, <1>3, FS_Subset
<1>5. Cardinality(P) # Cardinality(Q)
  BY <1>1, <1>4
<1>6. Cardinality(P) < Cardinality(Q)
  <2> HIDE DEF P, Q
  <2> QED BY <1>3, <1>4, <1>5
<1> QED BY <1>6 DEF Rank

LEMMA BatchShape ==
    ASSUME NEW quotes \in SUBSET Quotes
    PROVE  Batches(quotes) =
               {{q \in quotes : Rank(quotes, q) \div MaxTransfers = k} :
                   k \in {Rank(quotes, q) \div MaxTransfers : q \in quotes}}
BY DEF Batches, Rank

\* Each quote is in one transaction, and none is left out.
LEMMA BatchesPartition ==
    ASSUME NEW quotes \in SUBSET Quotes
    PROVE  /\ UNION Batches(quotes) = quotes
           /\ \A b1, b2 \in Batches(quotes) : b1 # b2 => b1 \cap b2 = {}
<1> DEFINE part(q) == Rank(quotes, q) \div MaxTransfers
           batch(k) == {q \in quotes : part(q) = k}
<1>1. Batches(quotes) = {batch(k) : k \in {part(q) : q \in quotes}}
  BY BatchShape
<1> HIDE DEF part
<1>2. ASSUME NEW q \in quotes PROVE q \in batch(part(q)) /\ batch(part(q)) \in Batches(quotes)
  BY <1>1
<1>3. \A b \in Batches(quotes) : b \subseteq quotes
  BY <1>1
<1>4. ASSUME NEW b1 \in Batches(quotes), NEW b2 \in Batches(quotes),
             NEW q \in b1 \cap b2
      PROVE  b1 = b2
  BY <1>1, <1>4
<1> HIDE DEF batch
<1>5. UNION Batches(quotes) = quotes
  BY <1>2, <1>3
<1>6. ASSUME NEW b1 \in Batches(quotes), NEW b2 \in Batches(quotes), b1 # b2
      PROVE  b1 \cap b2 = {}
  BY <1>4, <1>6
<1> QED BY <1>5, <1>6

\* payments.chunks never makes a chunk above the limit.
LEMMA BatchesFit ==
    ASSUME NEW quotes \in SUBSET Quotes, NEW b \in Batches(quotes)
    PROVE  Cardinality(b) <= MaxTransfers
<1>1. PICK k : /\ k \in {Rank(quotes, q) \div MaxTransfers : q \in quotes}
               /\ b = {q \in quotes : Rank(quotes, q) \div MaxTransfers = k}
  BY BatchShape
<1>2. k \in Nat
  BY <1>1, RankType
<1> DEFINE low == MaxTransfers * k
           room == low .. (low + (MaxTransfers - 1))
           place == [q \in b |-> Rank(quotes, q)]
<1>3. low \in Nat /\ MaxTransfers \in Nat \ {0}
  BY <1>2, SizesAssumption
<1>4. ASSUME NEW q \in b PROVE Rank(quotes, q) \in room
  <2>1. q \in quotes /\ Rank(quotes, q) \in Nat /\ Rank(quotes, q) \div MaxTransfers = k
    BY <1>1, RankType
  <2> QED BY <1>2, <1>3, <2>1
<1>5. IsFiniteSet(room) /\ Cardinality(room) = MaxTransfers
  <2> HIDE DEF low
  <2>1. IsFiniteSet(room) /\ Cardinality(room) =
            IF low > low + (MaxTransfers - 1) THEN 0 ELSE low + (MaxTransfers - 1) - low + 1
    BY <1>3, FS_Interval
  <2> QED BY <1>3, <2>1
<1>6. IsFiniteSet(b) /\ Cardinality(b) \in Nat
  BY <1>1, QuotesFinite, FS_CardinalityType
<1>7. ASSUME NEW p \in b, NEW q \in b, p # q PROVE place[p] # place[q]
  <2>1. p \in quotes /\ q \in quotes /\ (p < q \/ q < p)
    BY <1>1, <1>7, SizesAssumption DEF Quotes
  <2>2. Rank(quotes, p) < Rank(quotes, q) \/ Rank(quotes, q) < Rank(quotes, p)
    BY <2>1, RankOrders
  <2>3. Rank(quotes, p) \in Nat /\ Rank(quotes, q) \in Nat
    BY <2>1, RankType
  <2>4. place[p] = Rank(quotes, p) /\ place[q] = Rank(quotes, q)
    OBVIOUS
  <2> QED BY <2>2, <2>3, <2>4
<1>8. place \in [b -> room]
  BY <1>4
<1> HIDE DEF place, room
<1>9. ~(Cardinality(room) < Cardinality(b))
  BY <1>5, <1>6, <1>7, <1>8, FS_PigeonHole
<1> QED BY <1>3, <1>5, <1>6, <1>9

\* A bill has what is due, each quote in one transaction, and respects the limit.
FairBill(s, bill) ==
    /\ UNION bill = s.due
    /\ \A b1, b2 \in bill : b1 # b2 => b1 \cap b2 = {}
    /\ s.kind = "wave" => \A b \in bill : Cardinality(b) <= MaxTransfers

LEMMA BillsAreFair ==
    ASSUME NEW s \in Session PROVE FairBill(s, PayTransactions(s))
<1>1. s.due \in SUBSET Quotes /\ s.kind \in Kinds
  BY DEF Session
<1>2. CASE s.due = {} \/ s.kind = "merkle"
  BY <1>2 DEF FairBill, PayTransactions
<1>3. CASE s.due # {} /\ s.kind # "merkle"
  <2>1. PayTransactions(s) = Batches(s.due)
    BY <1>3 DEF PayTransactions
  <2> QED BY <1>1, <2>1, BatchesPartition, BatchesFit DEF FairBill
<1> QED BY <1>2, <1>3

\* A session that no finalize has begun is live, and the app has its whole bill or
\* none of it.
Unbegun ==
    \A i \in Ids :
        sessions[i] # None /\ ~sessions[i].resume =>
            fate[i] = "live" /\ billed[i] \in {{}, PayTransactions(sessions[i])}

LEMMA NextUnbegun ==
    Typed /\ LiveIsKept /\ Unissued /\ Unbegun /\ [Next]_vars => Unbegun'
<1> SUFFICES ASSUME Typed, LiveIsKept, Unissued, Unbegun, [Next]_vars PROVE Unbegun'
  OBVIOUS
<1>1. ASSUME UNCHANGED <<sessions, fate, billed>> PROVE Unbegun'
  BY <1>1 DEF Unbegun
<1>2. ASSUME NEW k \in Ids, sessions'[k] = None \/ sessions'[k].resume,
             UNCHANGED billed,
             \A i \in Ids \ {k} : sessions'[i] = sessions[i] /\ fate'[i] = fate[i]
      PROVE  Unbegun'
  BY <1>2 DEF Unbegun
<1>3. ASSUME NEW k \in Ids, PaymentTransactions(k) PROVE Unbegun'
  <2>1. billed[k] \cup PayTransactions(sessions[k]) = PayTransactions(sessions[k])
    BY <1>3 DEF PaymentTransactions, Unbegun
  <2>2. billed'[k] = PayTransactions(sessions[k])
    BY <1>3, <2>1 DEF PaymentTransactions, Typed, TypeOK
  <2>3. \A i \in Ids \ {k} : billed'[i] = billed[i]
    BY <1>3 DEF PaymentTransactions, Typed, TypeOK
  <2> QED BY <1>3, <2>2, <2>3 DEF PaymentTransactions, Unbegun
<1>4. ASSUME NEW k \in Ids, Cancel(k) PROVE Unbegun'
  BY <1>2, <1>4 DEF Cancel, Typed, TypeOK
<1>5. ASSUME NEW c \in Calls, Stash(c) PROVE Unbegun'
  <2>1. nextId \in Ids /\ fate' = [fate EXCEPT ![nextId] = "live"] /\ UNCHANGED billed
        /\ \A i \in Ids \ {nextId} : sessions'[i] = sessions[i]
    BY <1>5 DEF Stash, Typed, TypeOK
  <2>2. billed[nextId] = {}
    BY <2>1 DEF Unissued, Typed, TypeOK, Ids
  <2> QED BY <2>1, <2>2 DEF Unbegun, Typed, TypeOK
<1>6. ASSUME NEW c \in Calls, Take(c), Finds(c) PROVE Unbegun'
  <2>1. PICK k \in Ids : k = job[c].id
    BY <1>6, Takes DEF Finds
  <2>2. /\ sessions' = [sessions EXCEPT ![k] = None] /\ fate' = [fate EXCEPT ![k] = "begun"]
        /\ UNCHANGED billed
    BY <1>6, <2>1, Takes DEF Finds, Take
  <2> QED BY <1>2, <2>2 DEF Typed, TypeOK
<1>7. ASSUME NEW c \in Calls, Settle(c) \/ (Drop(c) /\ job[c].held # None) PROVE Unbegun'
  <2>1. job[c].held # None
    BY <1>7 DEF Settle, Typed, HeldWhere
  <2>2. PICK k \in Ids : k = job[c].id /\ c \in Holders(k) /\ job[c].held \in Session
    BY <2>1, Holding
  <2>3. sessions[k] = None
    BY <2>2 DEF LiveIsKept
  <2>4. RetainResume(job[c].held).resume
    BY <2>2 DEF RetainResume, Session
  <2>5. sessions'[k] = None \/ sessions'[k].resume
    BY <1>7, <2>2, <2>3, <2>4 DEF Settle, Drop, Typed, TypeOK
  <2>6. /\ \A i \in Ids \ {k} : sessions'[i] = sessions[i] /\ fate'[i] = fate[i]
        /\ UNCHANGED billed
    BY <1>7, <2>1, <2>2 DEF Settle, Drop, Typed, TypeOK
  <2> QED BY <1>2, <2>5, <2>6
<1>8. ASSUME NEW c \in Calls, Aside(c) \/ StoreReturns(c) PROVE Unbegun'
  BY <1>1, <1>8 DEF Aside, StoreReturns
<1>9. ASSUME NEW c \in Calls, NEW i \in Ids, NEW kind \in Kinds, NEW given \in SUBSET Quotes,
             NEW listens \in BOOLEAN, StartFinalize(c, i, kind, given, listens)
      PROVE  Unbegun'
  BY <1>1, <1>9 DEF StartFinalize
<1> QED
  BY <1>1, <1>3, <1>4, <1>5, <1>6, <1>7, <1>8, <1>9, Shapes

\* What a step may do to the bills, as the action property states it.
Billing ==
    \A i \in Ids : billed'[i] # billed[i] =>
        /\ fate[i] = "live" /\ ~sessions[i].resume
        /\ UNION billed'[i] = sessions[i].due
        /\ \A b1, b2 \in billed'[i] : b1 # b2 => b1 \cap b2 = {}
        /\ sessions[i].kind = "wave" =>
              \A b \in billed'[i] : Cardinality(b) <= MaxTransfers

LEMMA NextBills == Typed /\ Unbegun /\ [Next]_vars => [Billing]_vars
<1> SUFFICES ASSUME Typed, Unbegun, [Next]_vars, NEW i \in Ids, billed'[i] # billed[i]
             PROVE  /\ fate[i] = "live" /\ ~sessions[i].resume
                    /\ FairBill(sessions[i], billed'[i])
  BY DEF Billing, FairBill
<1>1. billed' = billed \/ \E k \in Ids : PaymentTransactions(k)
  BY DEF Next, vars, Connect, StartPrepare, StartWait, StartFinalize, Step, PrepareFails,
     Stash, PollReceipt, Take, StoreReturns, Settle, Drop, Mine, Cancel
<1>2. PICK k \in Ids : PaymentTransactions(k)
  BY <1>1
<1>3. k = i
  BY <1>2 DEF PaymentTransactions, Typed, TypeOK
<1>4. sessions[i] \in Session /\ sessions[i] # None /\ ~sessions[i].resume
  BY <1>2, <1>3 DEF PaymentTransactions, Typed, TypeOK
<1>5. billed[i] \cup PayTransactions(sessions[i]) = PayTransactions(sessions[i])
  BY <1>4 DEF Unbegun
<1>6. billed'[i] = PayTransactions(sessions[i])
  BY <1>2, <1>3, <1>5 DEF PaymentTransactions, Typed, TypeOK
<1> QED BY <1>4, <1>6, BillsAreFair DEF Unbegun

LEMMA InitUnbegun == Init => Unbegun
BY DEF Init, Unbegun

\* "No double payment": a bill is only of a session no finalize has begun, with each
\* quote that is due in exactly one transaction within the contract's limit, and
\* asking again gives the same transactions.
THEOREM NoDoubleBilling == Spec => BillsAreDue
<1>1. Spec => [][Billing]_vars
  BY InitTyped, InitKept, InitUnbegun, NextTyped, NextUnissued, NextKept, NextUnbegun,
     NextBills, PTL DEF Spec
<1> QED BY <1>1, PTL DEF BillsAreDue, Billing

=============================================================================
