------------------------------ MODULE FfiClient ------------------------------
(***************************************************************************)
(* External-signer uploads of the embedded client (ffi/rust/ant-ffi: the   *)
(* session store, payments and the finalizes of client.rs; the Node        *)
(* binding only delegates).  An app connects, prepares, has its wallet     *)
(* sign the payment transactions, waits for their receipts and finalizes.  *)
(*                                                                         *)
(* Calls run on the app's behalf and may be dropped at any await (Kotlin   *)
(* and Swift cancel the future), may overlap, and hand progress to a       *)
(* listener that a finalize flushes before it settles.                     *)
(***************************************************************************)
EXTENDS Naturals, Sequences, FiniteSets

CONSTANTS
    MaxIds,        \* uploads prepared in a client's life (bound)
    Calls,         \* calls in flight at once (bound)
    MaxQuotes,     \* payable quotes of an upload's chunks (bound)
    MaxTransfers,  \* MAX_TRANSFERS_PER_TRANSACTION
    MaxPolls,      \* receipt polls until wait_for_receipt times out
    Drops,         \* whether the app drops futures
    None

ASSUME SizesAssumption ==
    /\ MaxIds \in Nat /\ MaxPolls \in Nat /\ MaxQuotes \in Nat
    /\ MaxTransfers \in Nat \ {0}
    /\ Drops \in BOOLEAN

Ids == 1 .. MaxIds
Quotes == 1 .. MaxQuotes

Kinds == {"wave", "merkle"}   \* PaymentKind

\* Session: prepared with the quotes still due, or the resume handle of a paid
\* attempt with what it has stored.
Session == [kind: Kinds, resume: BOOLEAN, due: SUBSET Quotes, stored: SUBSET Quotes]

ASSUME NoneAssumption == None \notin Ids \cup Session

\* A call: `given` has the quotes whose hashes came with a finalize, `lost` is
\* the outcome of a store that still waits for the listener.
Job == [pc: {"idle", "prepare", "receipt", "peeked", "store", "flush"},
        id: Ids \cup {None}, kind: Kinds, given: SUBSET Quotes, listens: BOOLEAN,
        held: Session \cup {None}, outcome: {"none", "complete", "partial", "error"},
        polls: 0 .. MaxPolls]

IdleJob == [pc |-> "idle", id |-> None, kind |-> "wave", given |-> {}, listens |-> FALSE,
            held |-> None, outcome |-> "none", polls |-> 0]

\* What the constructors leave in the client: a wallet of its own, the network
\* an external signer pays on, or neither.
Constructors ==
    [connect_local                                |-> [wallet |-> FALSE, evm |-> FALSE],
     connect                                      |-> [wallet |-> FALSE, evm |-> FALSE],
     connect_default                              |-> [wallet |-> FALSE, evm |-> FALSE],
     connect_with_wallet                          |-> [wallet |-> TRUE,  evm |-> FALSE],
     connect_default_with_wallet                  |-> [wallet |-> TRUE,  evm |-> FALSE],
     connect_from_devnet_manifest                 |-> [wallet |-> TRUE,  evm |-> FALSE],
     connect_for_external_signer                  |-> [wallet |-> FALSE, evm |-> TRUE],
     connect_default_for_external_signer          |-> [wallet |-> FALSE, evm |-> TRUE],
     connect_from_devnet_manifest_external_signer |-> [wallet |-> FALSE, evm |-> TRUE]]

VARIABLES
    client,    \* what the constructor left, or None
    nextId,
    sessions,  \* SessionStore.entries: [Ids -> Session or None]
    job,       \* [Calls -> Job]
    billed,    \* [Ids -> the payment transactions the app got, each a set of quotes]
    mined,     \* [Ids -> quotes whose payment is on chain]
    fate       \* history: [Ids -> how the session stands]

vars == <<client, nextId, sessions, job, billed, mined, fate>>

Fates == {"unused", "live", "begun", "complete", "cancelled", "failed", "dropped"}

Init ==
    /\ client = None
    /\ nextId = 1
    /\ sessions = [i \in Ids |-> None]
    /\ job = [c \in Calls |-> IdleJob]
    /\ billed = [i \in Ids |-> {}]
    /\ mined = [i \in Ids |-> {}]
    /\ fate = [i \in Ids |-> "unused"]

Finish(c) == job' = [job EXCEPT ![c] = IdleJob]

\* A constructor that starts its node; one that fails leaves nothing.
Connect ==
    /\ client = None
    /\ \E k \in DOMAIN Constructors : client' = Constructors[k]
    /\ UNCHANGED <<nextId, sessions, job, billed, mined, fate>>

-----------------------------------------------------------------------------
\* prepare_data_upload, prepare_file_upload and its variant with progress.
StartPrepare(c) ==
    /\ client # None
    /\ job[c].pc = "idle"
    /\ job' = [job EXCEPT ![c].pc = "prepare"]
    /\ UNCHANGED <<client, nextId, sessions, billed, mined, fate>>

\* ant-core has quoted.  A merkle upload of several batches is refused, and
\* quoting may fail; nothing is stashed then.
PrepareFails(c) ==
    /\ job[c].pc = "prepare"
    /\ Finish(c)
    /\ UNCHANGED <<client, nextId, sessions, billed, mined, fate>>

\* stash_prepared: chunks the network has already are not due.
Stash(c) ==
    /\ job[c].pc = "prepare"
    /\ nextId \in Ids
    /\ \E kind \in Kinds, due \in SUBSET Quotes :
          sessions' = [sessions EXCEPT ![nextId] = [kind |-> kind, resume |-> FALSE,
                                                    due |-> due, stored |-> {}]]
    /\ nextId' = nextId + 1
    /\ fate' = [fate EXCEPT ![nextId] = "live"]
    /\ Finish(c)
    /\ UNCHANGED <<client, billed, mined>>

\* payment_intent.payments.chunks(MAX_TRANSFERS_PER_TRANSACTION), in the order of
\* the quotes.
Batches(quotes) ==
    LET Rank(q) == Cardinality({r \in quotes : r < q}) IN
    {{q \in quotes : Rank(q) \div MaxTransfers = k} :
        k \in {Rank(q) \div MaxTransfers : q \in quotes}}

\* The payment transactions of a session, each with the quotes it pays: none if
\* nothing is due, one for a merkle batch.
PayTransactions(s) ==
    IF s.due = {} THEN {}
    ELSE IF s.kind = "merkle" THEN {s.due}
    ELSE Batches(s.due)

\* payment_transactions, through with_prepared: a paid session has no bill.
PaymentTransactions(i) ==
    /\ client # None /\ client.evm
    /\ sessions[i] # None
    /\ ~sessions[i].resume
    /\ billed' = [billed EXCEPT ![i] = @ \cup PayTransactions(sessions[i])]
    /\ UNCHANGED <<client, nextId, sessions, job, mined, fate>>

\* The wallet sends a transaction of the bill and it is mined without reverting.
Mine(i) ==
    /\ \E quotes \in billed[i] : mined' = [mined EXCEPT ![i] = @ \cup quotes]
    /\ mined' # mined
    /\ UNCHANGED <<client, nextId, sessions, job, billed, fate>>

\* wait_for_receipt, and one poll of it: the node knows the receipt or answers
\* null or an error; the time is up, or the poll interval passes.
StartWait(c, i) ==
    /\ client # None
    /\ job[c].pc = "idle"
    /\ billed[i] # {}
    /\ job' = [job EXCEPT ![c].pc = "receipt", ![c].id = i]
    /\ UNCHANGED <<client, nextId, sessions, billed, mined, fate>>

PollReceipt(c) ==
    /\ job[c].pc = "receipt"
    /\ \/ Finish(c)
       \/ job[c].polls < MaxPolls /\ job' = [job EXCEPT ![c].polls = @ + 1]
    /\ UNCHANGED <<client, nextId, sessions, billed, mined, fate>>

-----------------------------------------------------------------------------
\* Fault: the completeness check is left to ant-core.
NothingMissing(s, given) == TRUE

\* check_tx_hashes_complete: a hash for every paid quote of a wave that is not a
\* resume yet.
HashesComplete(s, given) == s.resume \/ s.kind = "merkle" \/ s.due \subseteq given

\* finalize_inner and finalize_merkle_inner up to take: malformed hashes change
\* nothing, and a wave's hashes are checked by a peek that leaves the session.
StartFinalize(c, i, kind, given, listens) ==
    /\ client # None
    /\ job[c].pc = "idle"
    /\ sessions[i] # None
    /\ kind = "wave" => HashesComplete(sessions[i], given)
    /\ job' = [job EXCEPT ![c] = [IdleJob EXCEPT !.pc = "peeked", !.id = i, !.kind = kind,
                                                 !.given = given, !.listens = listens]]
    /\ UNCHANGED <<client, nextId, sessions, billed, mined, fate>>

\* Fault: a finalize of the other kind removes the session before it refuses it.
TakeThenCheck(c) ==
    LET i == job[c].id
        s == sessions[i]
    IN /\ job[c].pc = "peeked"
       /\ sessions' = [sessions EXCEPT ![i] = None]
       /\ IF s # None /\ s.kind = job[c].kind
          THEN /\ job' = [job EXCEPT ![c].pc = "store", ![c].held = s]
               /\ fate' = [fate EXCEPT ![i] = "begun"]
          ELSE Finish(c) /\ UNCHANGED fate
       /\ UNCHANGED <<client, nextId, billed, mined>>

\* SessionStore::take: an unknown id or another kind removes nothing.
Take(c) ==
    LET i == job[c].id
        s == sessions[i]
    IN /\ job[c].pc = "peeked"
       /\ IF s # None /\ s.kind = job[c].kind
          THEN /\ sessions' = [sessions EXCEPT ![i] = None]
               /\ job' = [job EXCEPT ![c].pc = "store", ![c].held = s]
               /\ fate' = [fate EXCEPT ![i] = "begun"]
          ELSE Finish(c) /\ UNCHANGED <<sessions, fate>>
       /\ UNCHANGED <<client, nextId, billed, mined>>

\* ant-core's resumable finalize: it stores what is paid for (none of it stays
\* unstored, or some), or ends in another error.
StoreReturns(c) ==
    LET s == job[c].held
        can == s.stored \cup (s.due \cap mined[job[c].id])
    IN /\ job[c].pc = "store"
       /\ \/ /\ s.due \subseteq can
             /\ job' = [job EXCEPT ![c].pc = "flush", ![c].outcome = "complete"]
          \/ \E stored \in SUBSET can :
                /\ s.stored \subseteq stored /\ stored # s.due
                /\ job' = [job EXCEPT ![c].pc = "flush", ![c].outcome = "partial",
                                      ![c].held.stored = stored]
          \/ job' = [job EXCEPT ![c].pc = "flush", ![c].outcome = "error"]
       /\ UNCHANGED <<client, nextId, sessions, billed, mined, fate>>

\* Fault: the remainder goes back as a prepared upload.
RetainPrepared(s) == [s EXCEPT !.due = s.due \ s.stored, !.stored = {}]

\* retain_resume.
RetainResume(s) == [s EXCEPT !.resume = TRUE]

\* Once the listener has drained the events, settle_finalize keeps the resume
\* handle of a partial store; an error ends the session.
Settle(c) ==
    LET i == job[c].id
        o == job[c].outcome
    IN /\ job[c].pc = "flush"
       /\ sessions' = IF o = "partial"
                      THEN [sessions EXCEPT ![i] = RetainResume(job[c].held)]
                      ELSE sessions
       /\ fate' = [fate EXCEPT ![i] = CASE o = "partial" -> @
                                        [] o = "complete" -> "complete"
                                        [] OTHER -> "failed"]
       /\ Finish(c)
       /\ UNCHANGED <<client, nextId, billed, mined>>

\* cancel_upload that answers true; it answers false while a finalize has the
\* session, whatever becomes of it.
Cancel(i) ==
    /\ sessions[i] # None
    /\ sessions' = [sessions EXCEPT ![i] = None]
    /\ fate' = [fate EXCEPT ![i] = "cancelled"]
    /\ UNCHANGED <<client, nextId, job, billed, mined>>

\* Where a call awaits: a listener's flush is no await without a listener.
Awaits(c) ==
    \/ job[c].pc \in {"prepare", "receipt", "store"}
    \/ job[c].pc = "flush" /\ job[c].listens

\* The app drops the call's future; a session it had taken goes with it.
Drop(c) ==
    /\ Drops
    /\ Awaits(c)
    /\ fate' = IF job[c].held # None
               THEN [fate EXCEPT ![job[c].id] = "dropped"] ELSE fate
    /\ Finish(c)
    /\ UNCHANGED <<client, nextId, sessions, billed, mined>>

-----------------------------------------------------------------------------
Step(c) ==
    \/ PrepareFails(c)
    \/ Stash(c)
    \/ PollReceipt(c)
    \/ Take(c)
    \/ StoreReturns(c)
    \/ Settle(c)

Next ==
    \/ Connect
    \/ \E c \in Calls :
          \/ StartPrepare(c)
          \/ \E i \in Ids : StartWait(c, i)
          \/ \E i \in Ids, kind \in Kinds, given \in SUBSET Quotes, listens \in BOOLEAN :
                StartFinalize(c, i, kind, given, listens)
          \/ Step(c)
          \/ Drop(c)
    \/ \E i \in Ids : PaymentTransactions(i) \/ Mine(i) \/ Cancel(i)

Spec == Init /\ [][Next]_vars

-----------------------------------------------------------------------------
(* Properties.                                                             *)

Holders(i) == {c \in Calls : job[c].id = i /\ job[c].held # None}

\* The contract of finalize_upload (client.rs, "Retry / failure contract"): a
\* session stays, in the store or with exactly one call, until it is complete,
\* cancelled, ended by an error of ant-core or dropped with its call.  Malformed
\* or missing hashes, the other finalize method, a cancel that came too late or a
\* second finalize lose nothing and let nobody store it twice.
LiveIsKept ==
    \A i \in Ids :
        /\ fate[i] \in {"live", "begun"} <=> (sessions[i] # None \/ Holders(i) # {})
        /\ sessions[i] # None => Holders(i) = {}
        /\ \A c1, c2 \in Holders(i) : c1 = c2

\* ant-core's finalize consumes the upload and fails at the first quote without
\* a hash: no finalize reaches it with a prepared wave that misses one, also when
\* the session changed between the check and the take.
StoresHaveHashes ==
    \A c \in Calls :
        job[c].held # None /\ ~job[c].held.resume /\ job[c].kind = "wave"
        => job[c].held.due \subseteq job[c].given

\* "No double payment": the app is billed only for a prepared upload that no
\* finalize has begun to store, whatever finalizes, cancels and dropped calls have
\* done meanwhile.  The bill has each quote that is due in exactly one transaction,
\* none above the contract's limit, and asking again gives the same transactions.
BillsAreDue ==
    [][\A i \in Ids : billed'[i] # billed[i] =>
         /\ fate[i] = "live" /\ ~sessions[i].resume
         /\ UNION billed'[i] = sessions[i].due
         /\ \A b1, b2 \in billed'[i] : b1 # b2 => b1 \cap b2 = {}
         /\ sessions[i].kind = "wave" =>
               \A b \in billed'[i] : Cardinality(b) <= MaxTransfers]_vars

=============================================================================
