-------------------------- MODULE Surfaces_proofs --------------------------
(***************************************************************************)
(* Theorems about the surfaces, for every call a client can make, whatever *)
(* is wrong with it, and any errors of ant-core: an answer is deserved, a  *)
(* refusal leaves nothing behind, what is paid is not cut, and the two     *)
(* transports agree.                                                       *)
(*                                                                         *)
(* The tables of the surfaces are read once.  The first half follows every *)
(* call to its handler's steps and shows that these are fit; the second    *)
(* takes fitness alone and follows one call through them.                  *)
(***************************************************************************)
EXTENDS Surfaces, WellFoundedInduction, TLAPS

-----------------------------------------------------------------------------
(* What the steps of a handler have to be.                                 *)

\* A sequence with the domain of one.
IsList(s) == Len(s) \in Nat /\ DOMAIN s = 1 .. Len(s)

CallsOf(step) == {step.calls[k] : k \in DOMAIN step.calls}
AllCalls(s)   == UNION {CallsOf(s[i]) : i \in DOMAIN s}

Paying == WalletCalls \cup PaidStores
Opens  == {Stage, Bridge}
Closes == {Unstage, Flush, FlushIfDone}

\* A guard calls nothing, an effect is one, a call is one or more.
WellFormed(x) ==
    /\ IsList(x.calls)
    /\ x.do \in {"need", "check", "ends"} => Len(x.calls) = 0
    /\ x.do \in {"spawn", "await"} => Len(x.calls) > 0
    /\ x.do \in {"effect", "cleanup"} => Len(x.calls) = 1

Shaped(s) == IsList(s) /\ \A i \in DOMAIN s : WellFormed(s[i])

\* Nothing that lasts is done before the handler has refused what it refuses.
Ordered(s) ==
    \A j \in DOMAIN s : s[j].do = "need" =>
        \A i \in 1 .. j - 1 : CallsOf(s[i]) \cap Lasting \subseteq {"take_chunk"}

\* What is opened is closed right after the next call.
Nested(s) ==
    \A i \in DOMAIN s : s[i] \in Opens => /\ i + 2 \in DOMAIN s
                                          /\ s[i + 1].do \in {"spawn", "await"}
                                          /\ s[i + 2] \in Closes

Orderly(s) == Shaped(s) /\ Ordered(s) /\ Nested(s)

\* No early success, and no closing that a failed call skips.
Runs(s) == \A i \in DOMAIN s : s[i].do # "ends" /\ s[i] # FlushIfDone

\* No call that pays, or stores what was paid, is awaited in the handler itself.
Detaches(s) ==
    \A i \in DOMAIN s : s[i].do = "await" => CallsOf(s[i]) \cap Paying \subseteq {"chunk_put"}

\* A handler of the daemon, and a method of the embedded client.
Serves(s, calls)   == Orderly(s) /\ Runs(s) /\ Detaches(s) /\ AllCalls(s) = calls
Performs(s, calls) == Orderly(s) /\ Runs(s) /\ AllCalls(s) = calls

-----------------------------------------------------------------------------
(* The steps' constructors.                                                *)

\* What each kind of step is, so that the tables can be read without opening the
\* steps themselves.
Is(x, do, calls) == WellFormed(x) /\ x.do = do /\ CallsOf(x) = calls
Plain(x) == x \notin Opens /\ x # FlushIfDone

USE DEF Is, Plain, WellFormed, IsList, CallsOf, Step, Opens, Stage, Bridge, Unstage, Flush,
        FlushIfDone, Cleanup

LEMMA GuardIs ==
    /\ \A fact, error : Is(Need(fact, error), "need", {}) /\ Plain(Need(fact, error))
    /\ \A fact, error : Is(Check(fact, error), "check", {}) /\ Plain(Check(fact, error))
    /\ \A fact : Is(EndsUnless(fact), "ends", {}) /\ Plain(EndsUnless(fact))
BY DEF Need, Check, EndsUnless, Effect

LEMMA EffectIs ==
    \A c : c \notin {"stage", "bridge", "flush"}
             => Is(Effect(c), "effect", {c}) /\ Plain(Effect(c))
BY DEF Effect

LEMMA StageIs ==
    /\ Is(Stage, "effect", {"stage"}) /\ Stage \in Opens /\ Stage # FlushIfDone
    /\ Is(Unstage, "cleanup", {"unstage"}) /\ Plain(Unstage) /\ Unstage \in Closes
BY DEF Effect, Closes

LEMMA BridgeIs ==
    /\ Is(Bridge, "effect", {"bridge"}) /\ Bridge \in Opens /\ Bridge # FlushIfDone
    /\ Is(Flush, "cleanup", {"flush"}) /\ Plain(Flush) /\ Flush \in Closes
    /\ Is(FlushIfDone, "effect", {"flush"}) /\ FlushIfDone \notin Opens
    /\ FlushIfDone \in Closes
BY DEF Effect, Closes

LEMMA SpawnIs ==
    /\ \A c : Is(Spawn(<<c>>), "spawn", {c}) /\ Plain(Spawn(<<c>>))
    /\ \A c, d : Is(Spawn(<<c, d>>), "spawn", {c, d}) /\ Plain(Spawn(<<c, d>>))
    /\ \A c, e : Is(SpawnOr(<<c>>, e), "spawn", {c}) /\ Plain(SpawnOr(<<c>>, e))
BY DEF Effect, Spawn, SpawnOr

LEMMA AwaitIs ==
    /\ \A c : Is(Await(<<c>>), "await", {c}) /\ Plain(Await(<<c>>))
    /\ \A c, d : Is(Await(<<c, d>>), "await", {c, d}) /\ Plain(Await(<<c, d>>))
    /\ \A c, e : Is(AwaitOr(<<c>>, e), "await", {c}) /\ Plain(AwaitOr(<<c>>, e))
BY DEF Effect, Await, AwaitOr

HIDE DEF Is, Plain, WellFormed, IsList, CallsOf, Step, Opens, Stage, Bridge, Unstage, Flush,
         FlushIfDone, Cleanup

-----------------------------------------------------------------------------
(* The handlers, table by table: of REST, of gRPC and of the embedded      *)
(* client.                                                                 *)

LEMMA StreamsSteps ==
    /\ Serves(Streams.data_stream, {"open_stream", "resolve_root"})
    /\ Serves(Streams.data_stream_public, {"data_map_fetch", "open_stream", "resolve_root"})
    /\ Serves(Streams.data_stream_range, {"open_range", "resolve_root"})
    /\ Serves(Streams.data_stream_public_range,
              {"data_map_fetch", "open_range", "resolve_root"})
<1>1. Serves(Streams.data_stream, {"open_stream", "resolve_root"})
  <2>1. Shaped(Streams.data_stream)
    BY AwaitIs, EffectIs, GuardIs DEF Shaped, Is, IsList, Streams, ApiJson, DataMapGuards,
       Bad, WholeObject, RangeOfObject
  <2>2. Ordered(Streams.data_stream)
    BY AwaitIs, EffectIs, GuardIs DEF Ordered, Is, Lasting, WalletCalls, PaidStores,
       Streams, ApiJson, DataMapGuards, Bad, WholeObject, RangeOfObject
  <2>3. Nested(Streams.data_stream)
    BY AwaitIs, EffectIs, GuardIs DEF Nested, Is, Plain, Streams, ApiJson, DataMapGuards,
       Bad, WholeObject, RangeOfObject
  <2>4. Runs(Streams.data_stream)
    BY AwaitIs, EffectIs, GuardIs DEF Runs, Is, Plain, Streams, ApiJson, DataMapGuards, Bad,
       WholeObject, RangeOfObject
  <2>5. Detaches(Streams.data_stream)
    BY AwaitIs, EffectIs, GuardIs DEF Detaches, Is, Paying, WalletCalls, PaidStores,
       Streams, ApiJson, DataMapGuards, Bad, WholeObject, RangeOfObject
  <2>6. AllCalls(Streams.data_stream) = {"open_stream", "resolve_root"}
    BY AwaitIs, EffectIs, GuardIs DEF AllCalls, Is, Streams, ApiJson, DataMapGuards, Bad,
       WholeObject, RangeOfObject
  <2> QED BY <2>1, <2>2, <2>3, <2>4, <2>5, <2>6 DEF Serves, Orderly
<1>2. Serves(Streams.data_stream_public, {"data_map_fetch", "open_stream", "resolve_root"})
  <2>1. Shaped(Streams.data_stream_public)
    BY AwaitIs, EffectIs, GuardIs DEF Shaped, Is, IsList, Streams, ApiJson, DataMapGuards,
       Bad, WholeObject, RangeOfObject
  <2>2. Ordered(Streams.data_stream_public)
    BY AwaitIs, EffectIs, GuardIs DEF Ordered, Is, Lasting, WalletCalls, PaidStores,
       Streams, ApiJson, DataMapGuards, Bad, WholeObject, RangeOfObject
  <2>3. Nested(Streams.data_stream_public)
    BY AwaitIs, EffectIs, GuardIs DEF Nested, Is, Plain, Streams, ApiJson, DataMapGuards,
       Bad, WholeObject, RangeOfObject
  <2>4. Runs(Streams.data_stream_public)
    BY AwaitIs, EffectIs, GuardIs DEF Runs, Is, Plain, Streams, ApiJson, DataMapGuards, Bad,
       WholeObject, RangeOfObject
  <2>5. Detaches(Streams.data_stream_public)
    BY AwaitIs, EffectIs, GuardIs DEF Detaches, Is, Paying, WalletCalls, PaidStores,
       Streams, ApiJson, DataMapGuards, Bad, WholeObject, RangeOfObject
  <2>6. AllCalls(Streams.data_stream_public)
            = {"data_map_fetch", "open_stream", "resolve_root"}
    BY AwaitIs, EffectIs, GuardIs DEF AllCalls, Is, Streams, ApiJson, DataMapGuards, Bad,
       WholeObject, RangeOfObject
  <2> QED BY <2>1, <2>2, <2>3, <2>4, <2>5, <2>6 DEF Serves, Orderly
<1>3. Serves(Streams.data_stream_range, {"open_range", "resolve_root"})
  <2>1. Shaped(Streams.data_stream_range)
    BY AwaitIs, EffectIs, GuardIs DEF Shaped, Is, IsList, Streams, ApiJson, DataMapGuards,
       Bad, WholeObject, RangeOfObject
  <2>2. Ordered(Streams.data_stream_range)
    BY AwaitIs, EffectIs, GuardIs DEF Ordered, Is, Lasting, WalletCalls, PaidStores,
       Streams, ApiJson, DataMapGuards, Bad, WholeObject, RangeOfObject
  <2>3. Nested(Streams.data_stream_range)
    BY AwaitIs, EffectIs, GuardIs DEF Nested, Is, Plain, Streams, ApiJson, DataMapGuards,
       Bad, WholeObject, RangeOfObject
  <2>4. Runs(Streams.data_stream_range)
    BY AwaitIs, EffectIs, GuardIs DEF Runs, Is, Plain, Streams, ApiJson, DataMapGuards, Bad,
       WholeObject, RangeOfObject
  <2>5. Detaches(Streams.data_stream_range)
    BY AwaitIs, EffectIs, GuardIs DEF Detaches, Is, Paying, WalletCalls, PaidStores,
       Streams, ApiJson, DataMapGuards, Bad, WholeObject, RangeOfObject
  <2>6. AllCalls(Streams.data_stream_range) = {"open_range", "resolve_root"}
    BY AwaitIs, EffectIs, GuardIs DEF AllCalls, Is, Streams, ApiJson, DataMapGuards, Bad,
       WholeObject, RangeOfObject
  <2> QED BY <2>1, <2>2, <2>3, <2>4, <2>5, <2>6 DEF Serves, Orderly
<1>4. Serves(Streams.data_stream_public_range,
             {"data_map_fetch", "open_range", "resolve_root"})
  <2>1. Shaped(Streams.data_stream_public_range)
    BY AwaitIs, EffectIs, GuardIs DEF Shaped, Is, IsList, Streams, ApiJson, DataMapGuards,
       Bad, WholeObject, RangeOfObject
  <2>2. Ordered(Streams.data_stream_public_range)
    BY AwaitIs, EffectIs, GuardIs DEF Ordered, Is, Lasting, WalletCalls, PaidStores,
       Streams, ApiJson, DataMapGuards, Bad, WholeObject, RangeOfObject
  <2>3. Nested(Streams.data_stream_public_range)
    BY AwaitIs, EffectIs, GuardIs DEF Nested, Is, Plain, Streams, ApiJson, DataMapGuards,
       Bad, WholeObject, RangeOfObject
  <2>4. Runs(Streams.data_stream_public_range)
    BY AwaitIs, EffectIs, GuardIs DEF Runs, Is, Plain, Streams, ApiJson, DataMapGuards, Bad,
       WholeObject, RangeOfObject
  <2>5. Detaches(Streams.data_stream_public_range)
    BY AwaitIs, EffectIs, GuardIs DEF Detaches, Is, Paying, WalletCalls, PaidStores,
       Streams, ApiJson, DataMapGuards, Bad, WholeObject, RangeOfObject
  <2>6. AllCalls(Streams.data_stream_public_range)
            = {"data_map_fetch", "open_range", "resolve_root"}
    BY AwaitIs, EffectIs, GuardIs DEF AllCalls, Is, Streams, ApiJson, DataMapGuards, Bad,
       WholeObject, RangeOfObject
  <2> QED BY <2>1, <2>2, <2>3, <2>4, <2>5, <2>6 DEF Serves, Orderly
<1> QED BY <1>1, <1>2, <1>3, <1>4

LEMMA PublicDataSteps ==
    /\ Serves(PublicData.data_put_public, {"data_map_store", "data_upload", "mark_store_ok"})
    /\ Serves(PublicData.data_get_public, {"data_download", "data_map_fetch"})
<1>1. Serves(PublicData.data_put_public, {"data_map_store", "data_upload", "mark_store_ok"})
  <2>1. Shaped(PublicData.data_put_public)
    BY EffectIs, GuardIs, SpawnIs DEF Shaped, Is, IsList, PublicData, ApiJson, NeedsWallet,
       Bad, MarkStored
  <2>2. Ordered(PublicData.data_put_public)
    BY EffectIs, GuardIs, SpawnIs DEF Ordered, Is, Lasting, WalletCalls, PaidStores,
       PublicData, ApiJson, NeedsWallet, Bad, MarkStored
  <2>3. Nested(PublicData.data_put_public)
    BY EffectIs, GuardIs, SpawnIs DEF Nested, Is, Plain, PublicData, ApiJson, NeedsWallet,
       Bad, MarkStored
  <2>4. Runs(PublicData.data_put_public)
    BY EffectIs, GuardIs, SpawnIs DEF Runs, Is, Plain, PublicData, ApiJson, NeedsWallet,
       Bad, MarkStored
  <2>5. Detaches(PublicData.data_put_public)
    BY EffectIs, GuardIs, SpawnIs DEF Detaches, Is, Paying, WalletCalls, PaidStores,
       PublicData, ApiJson, NeedsWallet, Bad, MarkStored
  <2>6. AllCalls(PublicData.data_put_public)
            = {"data_map_store", "data_upload", "mark_store_ok"}
    BY EffectIs, GuardIs, SpawnIs DEF AllCalls, Is, PublicData, ApiJson, NeedsWallet, Bad,
       MarkStored
  <2> QED BY <2>1, <2>2, <2>3, <2>4, <2>5, <2>6 DEF Serves, Orderly
<1>2. Serves(PublicData.data_get_public, {"data_download", "data_map_fetch"})
  BY EffectIs, GuardIs, SpawnIs DEF Serves, Orderly, Shaped, Ordered, Nested, Runs,
     Detaches, Paying, Is, Plain, IsList, AllCalls, Lasting, WalletCalls, PaidStores,
     PublicData, ApiJson, NeedsWallet, Bad, MarkStored
<1> QED BY <1>1, <1>2

LEMMA PrivateDataSteps ==
    /\ Serves(PrivateData.data_put, {"data_upload", "mark_store_ok"})
    /\ Serves(PrivateData.data_get, {"data_download"})
<1>1. Serves(PrivateData.data_put, {"data_upload", "mark_store_ok"})
  <2>1. Shaped(PrivateData.data_put)
    BY EffectIs, GuardIs, SpawnIs DEF Shaped, Is, IsList, PrivateData, ApiJson, NeedsWallet,
       Bad, MarkStored, DataMapGuards
  <2>2. Ordered(PrivateData.data_put)
    BY EffectIs, GuardIs, SpawnIs DEF Ordered, Is, Lasting, WalletCalls, PaidStores,
       PrivateData, ApiJson, NeedsWallet, Bad, MarkStored, DataMapGuards
  <2>3. Nested(PrivateData.data_put)
    BY EffectIs, GuardIs, SpawnIs DEF Nested, Is, Plain, PrivateData, ApiJson, NeedsWallet,
       Bad, MarkStored, DataMapGuards
  <2>4. Runs(PrivateData.data_put)
    BY EffectIs, GuardIs, SpawnIs DEF Runs, Is, Plain, PrivateData, ApiJson, NeedsWallet,
       Bad, MarkStored, DataMapGuards
  <2>5. Detaches(PrivateData.data_put)
    BY EffectIs, GuardIs, SpawnIs DEF Detaches, Is, Paying, WalletCalls, PaidStores,
       PrivateData, ApiJson, NeedsWallet, Bad, MarkStored, DataMapGuards
  <2>6. AllCalls(PrivateData.data_put) = {"data_upload", "mark_store_ok"}
    BY EffectIs, GuardIs, SpawnIs DEF AllCalls, Is, PrivateData, ApiJson, NeedsWallet, Bad,
       MarkStored, DataMapGuards
  <2> QED BY <2>1, <2>2, <2>3, <2>4, <2>5, <2>6 DEF Serves, Orderly
<1>2. Serves(PrivateData.data_get, {"data_download"})
  BY EffectIs, GuardIs, SpawnIs DEF Serves, Orderly, Shaped, Ordered, Nested, Runs,
     Detaches, Paying, Is, Plain, IsList, AllCalls, Lasting, WalletCalls, PaidStores,
     PrivateData, ApiJson, NeedsWallet, Bad, MarkStored, DataMapGuards
<1> QED BY <1>1, <1>2

LEMMA DataCostSteps ==
    Serves(DataCost.data_cost, {"estimate", "stage", "unstage"})
<1>1. Serves(DataCost.data_cost, {"estimate", "stage", "unstage"})
  <2>1. Shaped(DataCost.data_cost)
    BY GuardIs, SpawnIs, StageIs DEF Shaped, Is, IsList, DataCost, ApiJson, Bad
  <2>2. Ordered(DataCost.data_cost)
    BY GuardIs, SpawnIs, StageIs DEF Ordered, Is, Lasting, WalletCalls, PaidStores,
       DataCost, ApiJson, Bad
  <2>3. Nested(DataCost.data_cost)
    BY GuardIs, SpawnIs, StageIs DEF Nested, Is, Plain, DataCost, ApiJson, Bad
  <2>4. Runs(DataCost.data_cost)
    BY GuardIs, SpawnIs, StageIs DEF Runs, Is, Plain, DataCost, ApiJson, Bad
  <2>5. Detaches(DataCost.data_cost)
    BY GuardIs, SpawnIs, StageIs DEF Detaches, Is, Paying, WalletCalls, PaidStores,
       DataCost, ApiJson, Bad
  <2>6. AllCalls(DataCost.data_cost) = {"estimate", "stage", "unstage"}
    BY GuardIs, SpawnIs, StageIs DEF AllCalls, Is, DataCost, ApiJson, Bad
  <2> QED BY <2>1, <2>2, <2>3, <2>4, <2>5, <2>6 DEF Serves, Orderly
<1> QED BY <1>1

LEMMA FilePutsSteps ==
    /\ Serves(FilePuts.file_put, {"file_upload", "mark_store_ok"})
    /\ Serves(FilePuts.file_put_public, {"file_upload_public", "mark_store_ok"})
<1>1. Serves(FilePuts.file_put, {"file_upload", "mark_store_ok"})
  <2>1. Shaped(FilePuts.file_put)
    BY EffectIs, GuardIs, SpawnIs DEF Shaped, Is, IsList, FilePuts, ApiJson, NeedsWallet,
       Bad, MarkStored
  <2>2. Ordered(FilePuts.file_put)
    BY EffectIs, GuardIs, SpawnIs DEF Ordered, Is, Lasting, WalletCalls, PaidStores,
       FilePuts, ApiJson, NeedsWallet, Bad, MarkStored
  <2>3. Nested(FilePuts.file_put)
    BY EffectIs, GuardIs, SpawnIs DEF Nested, Is, Plain, FilePuts, ApiJson, NeedsWallet,
       Bad, MarkStored
  <2>4. Runs(FilePuts.file_put)
    BY EffectIs, GuardIs, SpawnIs DEF Runs, Is, Plain, FilePuts, ApiJson, NeedsWallet, Bad,
       MarkStored
  <2>5. Detaches(FilePuts.file_put)
    BY EffectIs, GuardIs, SpawnIs DEF Detaches, Is, Paying, WalletCalls, PaidStores,
       FilePuts, ApiJson, NeedsWallet, Bad, MarkStored
  <2>6. AllCalls(FilePuts.file_put) = {"file_upload", "mark_store_ok"}
    BY EffectIs, GuardIs, SpawnIs DEF AllCalls, Is, FilePuts, ApiJson, NeedsWallet, Bad,
       MarkStored
  <2> QED BY <2>1, <2>2, <2>3, <2>4, <2>5, <2>6 DEF Serves, Orderly
<1>2. Serves(FilePuts.file_put_public, {"file_upload_public", "mark_store_ok"})
  <2>1. Shaped(FilePuts.file_put_public)
    BY EffectIs, GuardIs, SpawnIs DEF Shaped, Is, IsList, FilePuts, ApiJson, NeedsWallet,
       Bad, MarkStored
  <2>2. Ordered(FilePuts.file_put_public)
    BY EffectIs, GuardIs, SpawnIs DEF Ordered, Is, Lasting, WalletCalls, PaidStores,
       FilePuts, ApiJson, NeedsWallet, Bad, MarkStored
  <2>3. Nested(FilePuts.file_put_public)
    BY EffectIs, GuardIs, SpawnIs DEF Nested, Is, Plain, FilePuts, ApiJson, NeedsWallet,
       Bad, MarkStored
  <2>4. Runs(FilePuts.file_put_public)
    BY EffectIs, GuardIs, SpawnIs DEF Runs, Is, Plain, FilePuts, ApiJson, NeedsWallet, Bad,
       MarkStored
  <2>5. Detaches(FilePuts.file_put_public)
    BY EffectIs, GuardIs, SpawnIs DEF Detaches, Is, Paying, WalletCalls, PaidStores,
       FilePuts, ApiJson, NeedsWallet, Bad, MarkStored
  <2>6. AllCalls(FilePuts.file_put_public) = {"file_upload_public", "mark_store_ok"}
    BY EffectIs, GuardIs, SpawnIs DEF AllCalls, Is, FilePuts, ApiJson, NeedsWallet, Bad,
       MarkStored
  <2> QED BY <2>1, <2>2, <2>3, <2>4, <2>5, <2>6 DEF Serves, Orderly
<1> QED BY <1>1, <1>2

LEMMA FileGetsSteps ==
    /\ Serves(FileGets.file_get, {"file_download"})
    /\ Serves(FileGets.file_get_public, {"data_map_fetch", "file_download"})
<1>1. Serves(FileGets.file_get, {"file_download"})
  <2>1. Shaped(FileGets.file_get)
    BY GuardIs, SpawnIs DEF Shaped, Is, IsList, FileGets, ApiJson, DataMapGuards, DestGuard,
       Bad
  <2>2. Ordered(FileGets.file_get)
    BY GuardIs, SpawnIs DEF Ordered, Is, Lasting, WalletCalls, PaidStores, FileGets,
       ApiJson, DataMapGuards, DestGuard, Bad
  <2>3. Nested(FileGets.file_get)
    BY GuardIs, SpawnIs DEF Nested, Is, Plain, FileGets, ApiJson, DataMapGuards, DestGuard,
       Bad
  <2>4. Runs(FileGets.file_get)
    BY GuardIs, SpawnIs DEF Runs, Is, Plain, FileGets, ApiJson, DataMapGuards, DestGuard,
       Bad
  <2>5. Detaches(FileGets.file_get)
    BY GuardIs, SpawnIs DEF Detaches, Is, Paying, WalletCalls, PaidStores, FileGets,
       ApiJson, DataMapGuards, DestGuard, Bad
  <2>6. AllCalls(FileGets.file_get) = {"file_download"}
    BY GuardIs, SpawnIs DEF AllCalls, Is, FileGets, ApiJson, DataMapGuards, DestGuard, Bad
  <2> QED BY <2>1, <2>2, <2>3, <2>4, <2>5, <2>6 DEF Serves, Orderly
<1>2. Serves(FileGets.file_get_public, {"data_map_fetch", "file_download"})
  <2>1. Shaped(FileGets.file_get_public)
    BY GuardIs, SpawnIs DEF Shaped, Is, IsList, FileGets, ApiJson, DataMapGuards, DestGuard,
       Bad
  <2>2. Ordered(FileGets.file_get_public)
    BY GuardIs, SpawnIs DEF Ordered, Is, Lasting, WalletCalls, PaidStores, FileGets,
       ApiJson, DataMapGuards, DestGuard, Bad
  <2>3. Nested(FileGets.file_get_public)
    BY GuardIs, SpawnIs DEF Nested, Is, Plain, FileGets, ApiJson, DataMapGuards, DestGuard,
       Bad
  <2>4. Runs(FileGets.file_get_public)
    BY GuardIs, SpawnIs DEF Runs, Is, Plain, FileGets, ApiJson, DataMapGuards, DestGuard,
       Bad
  <2>5. Detaches(FileGets.file_get_public)
    BY GuardIs, SpawnIs DEF Detaches, Is, Paying, WalletCalls, PaidStores, FileGets,
       ApiJson, DataMapGuards, DestGuard, Bad
  <2>6. AllCalls(FileGets.file_get_public) = {"data_map_fetch", "file_download"}
    BY GuardIs, SpawnIs DEF AllCalls, Is, FileGets, ApiJson, DataMapGuards, DestGuard, Bad
  <2> QED BY <2>1, <2>2, <2>3, <2>4, <2>5, <2>6 DEF Serves, Orderly
<1> QED BY <1>1, <1>2

LEMMA FileCostSteps ==
    Serves(FileCost.file_cost, {"estimate"})
<1>1. Serves(FileCost.file_cost, {"estimate"})
  <2>1. Shaped(FileCost.file_cost)
    BY GuardIs, SpawnIs DEF Shaped, Is, IsList, FileCost, ApiJson, Bad
  <2>2. Ordered(FileCost.file_cost)
    BY GuardIs, SpawnIs DEF Ordered, Is, Lasting, WalletCalls, PaidStores, FileCost,
       ApiJson, Bad
  <2>3. Nested(FileCost.file_cost)
    BY GuardIs, SpawnIs DEF Nested, Is, Plain, FileCost, ApiJson, Bad
  <2>4. Runs(FileCost.file_cost)
    BY GuardIs, SpawnIs DEF Runs, Is, Plain, FileCost, ApiJson, Bad
  <2>5. Detaches(FileCost.file_cost)
    BY GuardIs, SpawnIs DEF Detaches, Is, Paying, WalletCalls, PaidStores, FileCost,
       ApiJson, Bad
  <2>6. AllCalls(FileCost.file_cost) = {"estimate"}
    BY GuardIs, SpawnIs DEF AllCalls, Is, FileCost, ApiJson, Bad
  <2> QED BY <2>1, <2>2, <2>3, <2>4, <2>5, <2>6 DEF Serves, Orderly
<1> QED BY <1>1

LEMMA ChunksSteps ==
    /\ Serves(Chunks.chunk_get, {"chunk_get"})
    /\ Serves(Chunks.chunk_put, {"chunk_put", "mark_store_ok"})
<1>1. Serves(Chunks.chunk_get, {"chunk_get"})
  BY AwaitIs, EffectIs, GuardIs DEF Serves, Orderly, Shaped, Ordered, Nested, Runs,
     Detaches, Paying, Is, Plain, IsList, AllCalls, Lasting, WalletCalls, PaidStores,
     Chunks, Bad, ApiJson, NeedsWallet, MarkStored
<1>2. Serves(Chunks.chunk_put, {"chunk_put", "mark_store_ok"})
  BY AwaitIs, EffectIs, GuardIs DEF Serves, Orderly, Shaped, Ordered, Nested, Runs,
     Detaches, Paying, Is, Plain, IsList, AllCalls, Lasting, WalletCalls, PaidStores,
     Chunks, Bad, ApiJson, NeedsWallet, MarkStored
<1> QED BY <1>1, <1>2

LEMMA UploadPreparesSteps ==
    /\ Serves(UploadPrepares.prepare_upload, {"file_prepare", "insert_upload"})
    /\ Serves(UploadPrepares.prepare_data_upload, {"data_prepare", "insert_upload"})
<1>1. Serves(UploadPrepares.prepare_upload, {"file_prepare", "insert_upload"})
  BY EffectIs, GuardIs, SpawnIs DEF Serves, Orderly, Shaped, Ordered, Nested, Runs,
     Detaches, Paying, Is, Plain, IsList, AllCalls, Lasting, WalletCalls, PaidStores,
     UploadPrepares, ApiJson, Bad
<1>2. Serves(UploadPrepares.prepare_data_upload, {"data_prepare", "insert_upload"})
  BY EffectIs, GuardIs, SpawnIs DEF Serves, Orderly, Shaped, Ordered, Nested, Runs,
     Detaches, Paying, Is, Plain, IsList, AllCalls, Lasting, WalletCalls, PaidStores,
     UploadPrepares, ApiJson, Bad
<1> QED BY <1>1, <1>2

LEMMA UploadFinalizeSteps ==
    Serves(UploadFinalize.finalize_upload, {"finalize_pending"})
BY GuardIs, SpawnIs DEF Serves, Orderly, Shaped, Ordered, Nested, Runs, Detaches, Paying,
   Is, Plain, IsList, AllCalls, Lasting, WalletCalls, PaidStores, UploadFinalize, ApiJson,
   Bad

LEMMA PointerWriteHandlersSteps ==
    /\ Serves(PointerWriteHandlers.pointer_keys, {})
    /\ Serves(PointerWriteHandlers.pointer_create, {"pointer_create"})
    /\ Serves(PointerWriteHandlers.pointer_update, {"pointer_update"})
    /\ Serves(PointerWriteHandlers.pointer_transfer, {"pointer_transfer"})
<1>1. Serves(PointerWriteHandlers.pointer_keys, {})
  BY GuardIs, SpawnIs DEF Serves, Orderly, Shaped, Ordered, Nested, Runs, Detaches, Paying,
     Is, Plain, IsList, AllCalls, Lasting, WalletCalls, PaidStores, PointerWriteHandlers,
     ApiJson, Bad
<1>2. Serves(PointerWriteHandlers.pointer_create, {"pointer_create"})
  BY GuardIs, SpawnIs DEF Serves, Orderly, Shaped, Ordered, Nested, Runs, Detaches, Paying,
     Is, Plain, IsList, AllCalls, Lasting, WalletCalls, PaidStores, PointerWriteHandlers,
     ApiJson, Bad
<1>3. Serves(PointerWriteHandlers.pointer_update, {"pointer_update"})
  BY GuardIs, SpawnIs DEF Serves, Orderly, Shaped, Ordered, Nested, Runs, Detaches, Paying,
     Is, Plain, IsList, AllCalls, Lasting, WalletCalls, PaidStores, PointerWriteHandlers,
     ApiJson, Bad
<1>4. Serves(PointerWriteHandlers.pointer_transfer, {"pointer_transfer"})
  BY GuardIs, SpawnIs DEF Serves, Orderly, Shaped, Ordered, Nested, Runs, Detaches, Paying,
     Is, Plain, IsList, AllCalls, Lasting, WalletCalls, PaidStores, PointerWriteHandlers,
     ApiJson, Bad
<1> QED BY <1>1, <1>2, <1>3, <1>4

LEMMA PointerReadHandlersSteps ==
    /\ Serves(PointerReadHandlers.pointer_get, {"pointer_get"})
    /\ Serves(PointerReadHandlers.pointer_resolve, {"pointer_resolve"})
    /\ Serves(PointerReadHandlers.pointer_finality, {"pointer_finality"})
    /\ Serves(PointerReadHandlers.pointer_controller, {"pointer_controller"})
<1>1. Serves(PointerReadHandlers.pointer_get, {"pointer_get"})
  BY AwaitIs, GuardIs DEF Serves, Orderly, Shaped, Ordered, Nested, Runs, Detaches, Paying,
     Is, Plain, IsList, AllCalls, Lasting, WalletCalls, PaidStores, PointerReadHandlers, Bad
<1>2. Serves(PointerReadHandlers.pointer_resolve, {"pointer_resolve"})
  BY AwaitIs, GuardIs DEF Serves, Orderly, Shaped, Ordered, Nested, Runs, Detaches, Paying,
     Is, Plain, IsList, AllCalls, Lasting, WalletCalls, PaidStores, PointerReadHandlers, Bad
<1>3. Serves(PointerReadHandlers.pointer_finality, {"pointer_finality"})
  BY AwaitIs, GuardIs DEF Serves, Orderly, Shaped, Ordered, Nested, Runs, Detaches, Paying,
     Is, Plain, IsList, AllCalls, Lasting, WalletCalls, PaidStores, PointerReadHandlers, Bad
<1>4. Serves(PointerReadHandlers.pointer_controller, {"pointer_controller"})
  BY AwaitIs, GuardIs DEF Serves, Orderly, Shaped, Ordered, Nested, Runs, Detaches, Paying,
     Is, Plain, IsList, AllCalls, Lasting, WalletCalls, PaidStores, PointerReadHandlers, Bad
<1> QED BY <1>1, <1>2, <1>3, <1>4

LEMMA PointerSessionHandlersSteps ==
    /\ Serves(PointerSessionHandlers.pointer_prepare, {"pointer_prepare"})
    /\ Serves(PointerSessionHandlers.pointer_finalize, {"pointer_finalize"})
<1>1. Serves(PointerSessionHandlers.pointer_prepare, {"pointer_prepare"})
  BY AwaitIs, GuardIs, SpawnIs DEF Serves, Orderly, Shaped, Ordered, Nested, Runs, Detaches,
     Paying, Is, Plain, IsList, AllCalls, Lasting, WalletCalls, PaidStores,
     PointerSessionHandlers, ApiJson, Bad
<1>2. Serves(PointerSessionHandlers.pointer_finalize, {"pointer_finalize"})
  BY AwaitIs, GuardIs, SpawnIs DEF Serves, Orderly, Shaped, Ordered, Nested, Runs, Detaches,
     Paying, Is, Plain, IsList, AllCalls, Lasting, WalletCalls, PaidStores,
     PointerSessionHandlers, ApiJson, Bad
<1> QED BY <1>1, <1>2

LEMMA VerifySteps ==
    Serves(Verify.verify_quotes, {"verify"})
BY GuardIs, SpawnIs DEF Serves, Orderly, Shaped, Ordered, Nested, Runs, Detaches, Paying,
   Is, Plain, IsList, AllCalls, Lasting, WalletCalls, PaidStores, Verify, ApiJson, Bad

LEMMA WalletSteps ==
    /\ Serves(Wallet.wallet_address, {})
    /\ Serves(Wallet.wallet_balance, {"gas_balance", "token_balance"})
    /\ Serves(Wallet.wallet_approve, {"approve"})
<1>1. Serves(Wallet.wallet_address, {})
  BY AwaitIs, GuardIs, SpawnIs DEF Serves, Orderly, Shaped, Ordered, Nested, Runs, Detaches,
     Paying, Is, Plain, IsList, AllCalls, Lasting, WalletCalls, PaidStores, Wallet,
     NeedsWallet
<1>2. Serves(Wallet.wallet_balance, {"gas_balance", "token_balance"})
  BY AwaitIs, GuardIs, SpawnIs DEF Serves, Orderly, Shaped, Ordered, Nested, Runs, Detaches,
     Paying, Is, Plain, IsList, AllCalls, Lasting, WalletCalls, PaidStores, Wallet,
     NeedsWallet
<1>3. Serves(Wallet.wallet_approve, {"approve"})
  BY AwaitIs, GuardIs, SpawnIs DEF Serves, Orderly, Shaped, Ordered, Nested, Runs, Detaches,
     Paying, Is, Plain, IsList, AllCalls, Lasting, WalletCalls, PaidStores, Wallet,
     NeedsWallet
<1> QED BY <1>1, <1>2, <1>3

LEMMA HealthSteps ==
    Serves(Health.health, {})
BY DEF Serves, Orderly, Shaped, Ordered, Nested, Runs, Detaches, Paying, Is, Plain, IsList,
       AllCalls, Lasting, WalletCalls, PaidStores, Health

LEMMA ChunkFinalizeSteps ==
    /\ Serves(ChunkFinalize.chunk_finalize,
              {"finalize_chunk", "mark_store_ok", "take_chunk"})
<1>1. Serves(ChunkFinalize.chunk_finalize,
             {"finalize_chunk", "mark_store_ok", "take_chunk"})
  <2>1. Shaped(ChunkFinalize.chunk_finalize)
    BY EffectIs, GuardIs, SpawnIs DEF Shaped, Is, IsList, ChunkFinalize, ApiJson, Bad,
       MarkStored
  <2>2. Ordered(ChunkFinalize.chunk_finalize)
    BY EffectIs, GuardIs, SpawnIs DEF Ordered, Is, Lasting, WalletCalls, PaidStores,
       ChunkFinalize, ApiJson, Bad, MarkStored
  <2>3. Nested(ChunkFinalize.chunk_finalize)
    BY EffectIs, GuardIs, SpawnIs DEF Nested, Is, Plain, ChunkFinalize, ApiJson, Bad,
       MarkStored
  <2>4. Runs(ChunkFinalize.chunk_finalize)
    BY EffectIs, GuardIs, SpawnIs DEF Runs, Is, Plain, ChunkFinalize, ApiJson, Bad,
       MarkStored
  <2>5. Detaches(ChunkFinalize.chunk_finalize)
    BY EffectIs, GuardIs, SpawnIs DEF Detaches, Is, Paying, WalletCalls, PaidStores,
       ChunkFinalize, ApiJson, Bad, MarkStored
  <2>6. AllCalls(ChunkFinalize.chunk_finalize)
            = {"finalize_chunk", "mark_store_ok", "take_chunk"}
    BY EffectIs, GuardIs, SpawnIs DEF AllCalls, Is, ChunkFinalize, ApiJson, Bad, MarkStored
  <2> QED BY <2>1, <2>2, <2>3, <2>4, <2>5, <2>6 DEF Serves, Orderly
<1> QED BY <1>1

LEMMA ManifestsSteps ==
    /\ Serves(Manifests.manifest_build, {"build"})
    /\ Serves(Manifests.manifest_decode, {"decode"})
<1>1. Serves(Manifests.manifest_build, {"build"})
  BY AwaitIs, GuardIs DEF Serves, Orderly, Shaped, Ordered, Nested, Runs, Detaches, Paying,
     Is, Plain, IsList, AllCalls, Lasting, WalletCalls, PaidStores, Manifests, ApiJson, Bad
<1>2. Serves(Manifests.manifest_decode, {"decode"})
  BY AwaitIs, GuardIs DEF Serves, Orderly, Shaped, Ordered, Nested, Runs, Detaches, Paying,
     Is, Plain, IsList, AllCalls, Lasting, WalletCalls, PaidStores, Manifests, ApiJson, Bad
<1> QED BY <1>1, <1>2

LEMMA DataStreamHandlersSteps ==
    /\ Serves(DataStreamHandlers.stream, {"open_stream", "resolve_root"})
    /\ Serves(DataStreamHandlers.stream_public,
              {"data_map_fetch", "open_stream", "resolve_root"})
    /\ Serves(DataStreamHandlers.stream_range, {"open_range", "resolve_root"})
    /\ Serves(DataStreamHandlers.stream_public_range,
              {"data_map_fetch", "open_range", "resolve_root"})
<1>1. Serves(DataStreamHandlers.stream, {"open_stream", "resolve_root"})
  BY AwaitIs, EffectIs, GuardIs DEF Serves, Orderly, Shaped, Ordered, Nested, Runs,
     Detaches, Paying, Is, Plain, IsList, AllCalls, Lasting, WalletCalls, PaidStores,
     DataStreamHandlers, Invalid, MapGuards, GrpcStream, WantsRange, GrpcRange
<1>2. Serves(DataStreamHandlers.stream_public,
             {"data_map_fetch", "open_stream", "resolve_root"})
  BY AwaitIs, EffectIs, GuardIs DEF Serves, Orderly, Shaped, Ordered, Nested, Runs,
     Detaches, Paying, Is, Plain, IsList, AllCalls, Lasting, WalletCalls, PaidStores,
     DataStreamHandlers, Invalid, MapGuards, GrpcStream, WantsRange, GrpcRange
<1>3. Serves(DataStreamHandlers.stream_range, {"open_range", "resolve_root"})
  <2>1. Shaped(DataStreamHandlers.stream_range)
    BY AwaitIs, EffectIs, GuardIs DEF Shaped, Is, IsList, DataStreamHandlers, Invalid,
       MapGuards, GrpcStream, WantsRange, GrpcRange
  <2>2. Ordered(DataStreamHandlers.stream_range)
    BY AwaitIs, EffectIs, GuardIs DEF Ordered, Is, Lasting, WalletCalls, PaidStores,
       DataStreamHandlers, Invalid, MapGuards, GrpcStream, WantsRange, GrpcRange
  <2>3. Nested(DataStreamHandlers.stream_range)
    BY AwaitIs, EffectIs, GuardIs DEF Nested, Is, Plain, DataStreamHandlers, Invalid,
       MapGuards, GrpcStream, WantsRange, GrpcRange
  <2>4. Runs(DataStreamHandlers.stream_range)
    BY AwaitIs, EffectIs, GuardIs DEF Runs, Is, Plain, DataStreamHandlers, Invalid,
       MapGuards, GrpcStream, WantsRange, GrpcRange
  <2>5. Detaches(DataStreamHandlers.stream_range)
    BY AwaitIs, EffectIs, GuardIs DEF Detaches, Is, Paying, WalletCalls, PaidStores,
       DataStreamHandlers, Invalid, MapGuards, GrpcStream, WantsRange, GrpcRange
  <2>6. AllCalls(DataStreamHandlers.stream_range) = {"open_range", "resolve_root"}
    BY AwaitIs, EffectIs, GuardIs DEF AllCalls, Is, DataStreamHandlers, Invalid, MapGuards,
       GrpcStream, WantsRange, GrpcRange
  <2> QED BY <2>1, <2>2, <2>3, <2>4, <2>5, <2>6 DEF Serves, Orderly
<1>4. Serves(DataStreamHandlers.stream_public_range,
             {"data_map_fetch", "open_range", "resolve_root"})
  <2>1. Shaped(DataStreamHandlers.stream_public_range)
    BY AwaitIs, EffectIs, GuardIs DEF Shaped, Is, IsList, DataStreamHandlers, Invalid,
       MapGuards, GrpcStream, WantsRange, GrpcRange
  <2>2. Ordered(DataStreamHandlers.stream_public_range)
    BY AwaitIs, EffectIs, GuardIs DEF Ordered, Is, Lasting, WalletCalls, PaidStores,
       DataStreamHandlers, Invalid, MapGuards, GrpcStream, WantsRange, GrpcRange
  <2>3. Nested(DataStreamHandlers.stream_public_range)
    BY AwaitIs, EffectIs, GuardIs DEF Nested, Is, Plain, DataStreamHandlers, Invalid,
       MapGuards, GrpcStream, WantsRange, GrpcRange
  <2>4. Runs(DataStreamHandlers.stream_public_range)
    BY AwaitIs, EffectIs, GuardIs DEF Runs, Is, Plain, DataStreamHandlers, Invalid,
       MapGuards, GrpcStream, WantsRange, GrpcRange
  <2>5. Detaches(DataStreamHandlers.stream_public_range)
    BY AwaitIs, EffectIs, GuardIs DEF Detaches, Is, Paying, WalletCalls, PaidStores,
       DataStreamHandlers, Invalid, MapGuards, GrpcStream, WantsRange, GrpcRange
  <2>6. AllCalls(DataStreamHandlers.stream_public_range)
            = {"data_map_fetch", "open_range", "resolve_root"}
    BY AwaitIs, EffectIs, GuardIs DEF AllCalls, Is, DataStreamHandlers, Invalid, MapGuards,
       GrpcStream, WantsRange, GrpcRange
  <2> QED BY <2>1, <2>2, <2>3, <2>4, <2>5, <2>6 DEF Serves, Orderly
<1> QED BY <1>1, <1>2, <1>3, <1>4

LEMMA DataPublicHandlersSteps ==
    /\ Serves(DataPublicHandlers.put_public,
              {"data_map_store", "data_upload", "mark_store_ok"})
    /\ Serves(DataPublicHandlers.get_public, {"data_download", "data_map_fetch"})
<1>1. Serves(DataPublicHandlers.put_public,
             {"data_map_store", "data_upload", "mark_store_ok"})
  BY EffectIs, GuardIs, SpawnIs DEF Serves, Orderly, Shaped, Ordered, Nested, Runs,
     Detaches, Paying, Is, Plain, IsList, AllCalls, Lasting, WalletCalls, PaidStores,
     DataPublicHandlers, Invalid, WalletGuard, GrpcMode, MarkStored
<1>2. Serves(DataPublicHandlers.get_public, {"data_download", "data_map_fetch"})
  BY EffectIs, GuardIs, SpawnIs DEF Serves, Orderly, Shaped, Ordered, Nested, Runs,
     Detaches, Paying, Is, Plain, IsList, AllCalls, Lasting, WalletCalls, PaidStores,
     DataPublicHandlers, Invalid, WalletGuard, GrpcMode, MarkStored
<1> QED BY <1>1, <1>2

LEMMA DataPrivateHandlersSteps ==
    /\ Serves(DataPrivateHandlers.put, {"data_upload", "mark_store_ok"})
    /\ Serves(DataPrivateHandlers.get, {"data_download"})
<1>1. Serves(DataPrivateHandlers.put, {"data_upload", "mark_store_ok"})
  BY EffectIs, GuardIs, SpawnIs DEF Serves, Orderly, Shaped, Ordered, Nested, Runs,
     Detaches, Paying, Is, Plain, IsList, AllCalls, Lasting, WalletCalls, PaidStores,
     DataPrivateHandlers, MapGuards, WalletGuard, GrpcMode, MarkStored, Invalid
<1>2. Serves(DataPrivateHandlers.get, {"data_download"})
  BY EffectIs, GuardIs, SpawnIs DEF Serves, Orderly, Shaped, Ordered, Nested, Runs,
     Detaches, Paying, Is, Plain, IsList, AllCalls, Lasting, WalletCalls, PaidStores,
     DataPrivateHandlers, MapGuards, WalletGuard, GrpcMode, MarkStored, Invalid
<1> QED BY <1>1, <1>2

LEMMA DataCostHandlerSteps ==
    Serves(DataCostHandler.cost, {"estimate", "stage", "unstage"})
BY GuardIs, SpawnIs, StageIs DEF Serves, Orderly, Shaped, Ordered, Nested, Runs, Detaches,
   Paying, Is, Plain, IsList, AllCalls, Lasting, WalletCalls, PaidStores, DataCostHandler,
   GrpcMode, Invalid

LEMMA FilePutHandlersSteps ==
    /\ Serves(FilePutHandlers.put, {"file_upload", "mark_store_ok"})
    /\ Serves(FilePutHandlers.put_public, {"file_upload_public", "mark_store_ok"})
<1>1. Serves(FilePutHandlers.put, {"file_upload", "mark_store_ok"})
  BY EffectIs, GuardIs, SpawnIs DEF Serves, Orderly, Shaped, Ordered, Nested, Runs,
     Detaches, Paying, Is, Plain, IsList, AllCalls, Lasting, WalletCalls, PaidStores,
     FilePutHandlers, WalletGuard, GrpcMode, Invalid, MarkStored
<1>2. Serves(FilePutHandlers.put_public, {"file_upload_public", "mark_store_ok"})
  BY EffectIs, GuardIs, SpawnIs DEF Serves, Orderly, Shaped, Ordered, Nested, Runs,
     Detaches, Paying, Is, Plain, IsList, AllCalls, Lasting, WalletCalls, PaidStores,
     FilePutHandlers, WalletGuard, GrpcMode, Invalid, MarkStored
<1> QED BY <1>1, <1>2

LEMMA FileGetHandlersSteps ==
    /\ Serves(FileGetHandlers.get, {"file_download"})
    /\ Serves(FileGetHandlers.get_public, {"data_map_fetch", "file_download"})
<1>1. Serves(FileGetHandlers.get, {"file_download"})
  BY GuardIs, SpawnIs DEF Serves, Orderly, Shaped, Ordered, Nested, Runs, Detaches, Paying,
     Is, Plain, IsList, AllCalls, Lasting, WalletCalls, PaidStores, FileGetHandlers,
     MapGuards, Invalid
<1>2. Serves(FileGetHandlers.get_public, {"data_map_fetch", "file_download"})
  BY GuardIs, SpawnIs DEF Serves, Orderly, Shaped, Ordered, Nested, Runs, Detaches, Paying,
     Is, Plain, IsList, AllCalls, Lasting, WalletCalls, PaidStores, FileGetHandlers,
     MapGuards, Invalid
<1> QED BY <1>1, <1>2

LEMMA FileCostHandlerSteps ==
    Serves(FileCostHandler.cost, {"estimate"})
BY GuardIs, SpawnIs DEF Serves, Orderly, Shaped, Ordered, Nested, Runs, Detaches, Paying,
   Is, Plain, IsList, AllCalls, Lasting, WalletCalls, PaidStores, FileCostHandler, GrpcMode,
   Invalid

LEMMA ChunkHandlersSteps ==
    /\ Serves(ChunkHandlers.get, {"chunk_get"})
    /\ Serves(ChunkHandlers.put, {"chunk_put", "mark_store_ok"})
<1>1. Serves(ChunkHandlers.get, {"chunk_get"})
  BY AwaitIs, EffectIs, GuardIs DEF Serves, Orderly, Shaped, Ordered, Nested, Runs,
     Detaches, Paying, Is, Plain, IsList, AllCalls, Lasting, WalletCalls, PaidStores,
     ChunkHandlers, Invalid, WalletGuard, MarkStored
<1>2. Serves(ChunkHandlers.put, {"chunk_put", "mark_store_ok"})
  BY AwaitIs, EffectIs, GuardIs DEF Serves, Orderly, Shaped, Ordered, Nested, Runs,
     Detaches, Paying, Is, Plain, IsList, AllCalls, Lasting, WalletCalls, PaidStores,
     ChunkHandlers, Invalid, WalletGuard, MarkStored
<1> QED BY <1>1, <1>2

LEMMA UploadPrepareHandlersSteps ==
    /\ Serves(UploadPrepareHandlers.prepare_file_upload, {"file_prepare", "insert_upload"})
    /\ Serves(UploadPrepareHandlers.prepare_data_upload, {"data_prepare", "insert_upload"})
<1>1. Serves(UploadPrepareHandlers.prepare_file_upload, {"file_prepare", "insert_upload"})
  BY EffectIs, GuardIs, SpawnIs DEF Serves, Orderly, Shaped, Ordered, Nested, Runs,
     Detaches, Paying, Is, Plain, IsList, AllCalls, Lasting, WalletCalls, PaidStores,
     UploadPrepareHandlers, Invalid, GrpcVisibility
<1>2. Serves(UploadPrepareHandlers.prepare_data_upload, {"data_prepare", "insert_upload"})
  BY EffectIs, GuardIs, SpawnIs DEF Serves, Orderly, Shaped, Ordered, Nested, Runs,
     Detaches, Paying, Is, Plain, IsList, AllCalls, Lasting, WalletCalls, PaidStores,
     UploadPrepareHandlers, Invalid, GrpcVisibility
<1> QED BY <1>1, <1>2

LEMMA UploadFinalizeHandlerSteps ==
    Serves(UploadFinalizeHandler.finalize_upload, {"finalize_pending"})
BY GuardIs, SpawnIs DEF Serves, Orderly, Shaped, Ordered, Nested, Runs, Detaches, Paying,
   Is, Plain, IsList, AllCalls, Lasting, WalletCalls, PaidStores, UploadFinalizeHandler,
   Invalid

LEMMA GrpcPointerWritesSteps ==
    /\ Serves(GrpcPointerWrites.list_keys, {})
    /\ Serves(GrpcPointerWrites.create, {"pointer_create"})
    /\ Serves(GrpcPointerWrites.update, {"pointer_update"})
    /\ Serves(GrpcPointerWrites.transfer, {"pointer_transfer"})
<1>1. Serves(GrpcPointerWrites.list_keys, {})
  BY GuardIs, SpawnIs DEF Serves, Orderly, Shaped, Ordered, Nested, Runs, Detaches, Paying,
     Is, Plain, IsList, AllCalls, Lasting, WalletCalls, PaidStores, GrpcPointerWrites,
     SharedBad
<1>2. Serves(GrpcPointerWrites.create, {"pointer_create"})
  BY GuardIs, SpawnIs DEF Serves, Orderly, Shaped, Ordered, Nested, Runs, Detaches, Paying,
     Is, Plain, IsList, AllCalls, Lasting, WalletCalls, PaidStores, GrpcPointerWrites,
     SharedBad
<1>3. Serves(GrpcPointerWrites.update, {"pointer_update"})
  BY GuardIs, SpawnIs DEF Serves, Orderly, Shaped, Ordered, Nested, Runs, Detaches, Paying,
     Is, Plain, IsList, AllCalls, Lasting, WalletCalls, PaidStores, GrpcPointerWrites,
     SharedBad
<1>4. Serves(GrpcPointerWrites.transfer, {"pointer_transfer"})
  BY GuardIs, SpawnIs DEF Serves, Orderly, Shaped, Ordered, Nested, Runs, Detaches, Paying,
     Is, Plain, IsList, AllCalls, Lasting, WalletCalls, PaidStores, GrpcPointerWrites,
     SharedBad
<1> QED BY <1>1, <1>2, <1>3, <1>4

LEMMA GrpcPointerReadsSteps ==
    /\ Serves(GrpcPointerReads.get, {"pointer_get"})
    /\ Serves(GrpcPointerReads.resolve, {"pointer_resolve"})
    /\ Serves(GrpcPointerReads.finality, {"pointer_finality"})
    /\ Serves(GrpcPointerReads.controller, {"pointer_controller"})
<1>1. Serves(GrpcPointerReads.get, {"pointer_get"})
  BY AwaitIs, GuardIs DEF Serves, Orderly, Shaped, Ordered, Nested, Runs, Detaches, Paying,
     Is, Plain, IsList, AllCalls, Lasting, WalletCalls, PaidStores, GrpcPointerReads,
     SharedBad
<1>2. Serves(GrpcPointerReads.resolve, {"pointer_resolve"})
  BY AwaitIs, GuardIs DEF Serves, Orderly, Shaped, Ordered, Nested, Runs, Detaches, Paying,
     Is, Plain, IsList, AllCalls, Lasting, WalletCalls, PaidStores, GrpcPointerReads,
     SharedBad
<1>3. Serves(GrpcPointerReads.finality, {"pointer_finality"})
  BY AwaitIs, GuardIs DEF Serves, Orderly, Shaped, Ordered, Nested, Runs, Detaches, Paying,
     Is, Plain, IsList, AllCalls, Lasting, WalletCalls, PaidStores, GrpcPointerReads,
     SharedBad
<1>4. Serves(GrpcPointerReads.controller, {"pointer_controller"})
  BY AwaitIs, GuardIs DEF Serves, Orderly, Shaped, Ordered, Nested, Runs, Detaches, Paying,
     Is, Plain, IsList, AllCalls, Lasting, WalletCalls, PaidStores, GrpcPointerReads,
     SharedBad
<1> QED BY <1>1, <1>2, <1>3, <1>4

LEMMA GrpcPointerSessionsSteps ==
    /\ Serves(GrpcPointerSessions.prepare, {"pointer_prepare"})
    /\ Serves(GrpcPointerSessions.finalize, {"pointer_finalize"})
<1>1. Serves(GrpcPointerSessions.prepare, {"pointer_prepare"})
  BY AwaitIs, GuardIs, SpawnIs DEF Serves, Orderly, Shaped, Ordered, Nested, Runs, Detaches,
     Paying, Is, Plain, IsList, AllCalls, Lasting, WalletCalls, PaidStores,
     GrpcPointerSessions, SharedBad
<1>2. Serves(GrpcPointerSessions.finalize, {"pointer_finalize"})
  BY AwaitIs, GuardIs, SpawnIs DEF Serves, Orderly, Shaped, Ordered, Nested, Runs, Detaches,
     Paying, Is, Plain, IsList, AllCalls, Lasting, WalletCalls, PaidStores,
     GrpcPointerSessions, SharedBad
<1> QED BY <1>1, <1>2

LEMMA VerifyHandlersSteps ==
    Serves(VerifyHandlers.verify_quotes, {"verify"})
BY GuardIs, SpawnIs DEF Serves, Orderly, Shaped, Ordered, Nested, Runs, Detaches, Paying,
   Is, Plain, IsList, AllCalls, Lasting, WalletCalls, PaidStores, VerifyHandlers, Invalid

LEMMA WalletHandlersSteps ==
    /\ Serves(WalletHandlers.get_address, {})
    /\ Serves(WalletHandlers.get_balance, {"gas_balance", "token_balance"})
    /\ Serves(WalletHandlers.approve, {"approve"})
<1>1. Serves(WalletHandlers.get_address, {})
  BY AwaitIs, GuardIs, SpawnIs DEF Serves, Orderly, Shaped, Ordered, Nested, Runs, Detaches,
     Paying, Is, Plain, IsList, AllCalls, Lasting, WalletCalls, PaidStores, WalletHandlers
<1>2. Serves(WalletHandlers.get_balance, {"gas_balance", "token_balance"})
  BY AwaitIs, GuardIs, SpawnIs DEF Serves, Orderly, Shaped, Ordered, Nested, Runs, Detaches,
     Paying, Is, Plain, IsList, AllCalls, Lasting, WalletCalls, PaidStores, WalletHandlers
<1>3. Serves(WalletHandlers.approve, {"approve"})
  BY AwaitIs, GuardIs, SpawnIs DEF Serves, Orderly, Shaped, Ordered, Nested, Runs, Detaches,
     Paying, Is, Plain, IsList, AllCalls, Lasting, WalletCalls, PaidStores, WalletHandlers
<1> QED BY <1>1, <1>2, <1>3

LEMMA HealthHandlersSteps ==
    Serves(HealthHandlers.check, {})
BY DEF Serves, Orderly, Shaped, Ordered, Nested, Runs, Detaches, Paying, Is, Plain, IsList,
       AllCalls, Lasting, WalletCalls, PaidStores, HealthHandlers

LEMMA ChunkFinalizeHandlerSteps ==
    /\ Serves(ChunkFinalizeHandler.finalize_chunk,
              {"finalize_chunk", "mark_store_ok", "take_chunk"})
BY EffectIs, GuardIs, SpawnIs DEF Serves, Orderly, Shaped, Ordered, Nested, Runs, Detaches,
   Paying, Is, Plain, IsList, AllCalls, Lasting, WalletCalls, PaidStores,
   ChunkFinalizeHandler, SharedBad, MarkStored

LEMMA ManifestHandlersSteps ==
    /\ Serves(ManifestHandlers.build, {"build"})
    /\ Serves(ManifestHandlers.decode, {"decode"})
<1>1. Serves(ManifestHandlers.build, {"build"})
  BY AwaitIs, GuardIs DEF Serves, Orderly, Shaped, Ordered, Nested, Runs, Detaches, Paying,
     Is, Plain, IsList, AllCalls, Lasting, WalletCalls, PaidStores, ManifestHandlers,
     SharedBad, Invalid
<1>2. Serves(ManifestHandlers.decode, {"decode"})
  BY AwaitIs, GuardIs DEF Serves, Orderly, Shaped, Ordered, Nested, Runs, Detaches, Paying,
     Is, Plain, IsList, AllCalls, Lasting, WalletCalls, PaidStores, ManifestHandlers,
     SharedBad, Invalid
<1> QED BY <1>1, <1>2

LEMMA FfiDataSteps ==
    /\ Performs(FfiData.data_put_public, {"data_map_store", "data_upload"})
    /\ Performs(FfiData.data_get_public, {"data_download", "data_map_fetch"})
    /\ Performs(FfiData.data_put_private, {"data_upload"})
    /\ Performs(FfiData.data_get_private, {"data_download"})
<1>1. Performs(FfiData.data_put_public, {"data_map_store", "data_upload"})
  BY AwaitIs, GuardIs DEF Performs, Orderly, Shaped, Ordered, Nested, Runs, Is, Plain,
     IsList, AllCalls, Lasting, WalletCalls, PaidStores, FfiData, FfiAddress, Encodes,
     FfiDataMap, BadInput
<1>2. Performs(FfiData.data_get_public, {"data_download", "data_map_fetch"})
  BY AwaitIs, GuardIs DEF Performs, Orderly, Shaped, Ordered, Nested, Runs, Is, Plain,
     IsList, AllCalls, Lasting, WalletCalls, PaidStores, FfiData, FfiAddress, Encodes,
     FfiDataMap, BadInput
<1>3. Performs(FfiData.data_put_private, {"data_upload"})
  BY AwaitIs, GuardIs DEF Performs, Orderly, Shaped, Ordered, Nested, Runs, Is, Plain,
     IsList, AllCalls, Lasting, WalletCalls, PaidStores, FfiData, FfiAddress, Encodes,
     FfiDataMap, BadInput
<1>4. Performs(FfiData.data_get_private, {"data_download"})
  BY AwaitIs, GuardIs DEF Performs, Orderly, Shaped, Ordered, Nested, Runs, Is, Plain,
     IsList, AllCalls, Lasting, WalletCalls, PaidStores, FfiData, FfiAddress, Encodes,
     FfiDataMap, BadInput
<1> QED BY <1>1, <1>2, <1>3, <1>4

LEMMA FfiChunksSteps ==
    /\ Performs(FfiChunks.chunk_get, {"chunk_get"})
    /\ Performs(FfiChunks.chunk_put, {"chunk_put"})
    /\ Performs(FfiChunks.chunk_exists, {"chunk_exists"})
<1>1. Performs(FfiChunks.chunk_get, {"chunk_get"})
  <2>1. Shaped(FfiChunks.chunk_get)
    BY AwaitIs, GuardIs DEF Shaped, Is, IsList, FfiChunks, FfiAddress, BadInput
  <2>2. Ordered(FfiChunks.chunk_get)
    BY AwaitIs, GuardIs DEF Ordered, Is, Lasting, WalletCalls, PaidStores, FfiChunks,
       FfiAddress, BadInput
  <2>3. Nested(FfiChunks.chunk_get)
    BY AwaitIs, GuardIs DEF Nested, Is, Plain, FfiChunks, FfiAddress, BadInput
  <2>4. Runs(FfiChunks.chunk_get)
    BY AwaitIs, GuardIs DEF Runs, Is, Plain, FfiChunks, FfiAddress, BadInput
  <2>5. AllCalls(FfiChunks.chunk_get) = {"chunk_get"}
    BY AwaitIs, GuardIs DEF AllCalls, Is, FfiChunks, FfiAddress, BadInput
  <2> QED BY <2>1, <2>2, <2>3, <2>4, <2>5 DEF Performs, Orderly
<1>2. Performs(FfiChunks.chunk_put, {"chunk_put"})
  BY AwaitIs, GuardIs DEF Performs, Orderly, Shaped, Ordered, Nested, Runs, Is, Plain,
     IsList, AllCalls, Lasting, WalletCalls, PaidStores, FfiChunks, FfiAddress, BadInput
<1>3. Performs(FfiChunks.chunk_exists, {"chunk_exists"})
  BY AwaitIs, GuardIs DEF Performs, Orderly, Shaped, Ordered, Nested, Runs, Is, Plain,
     IsList, AllCalls, Lasting, WalletCalls, PaidStores, FfiChunks, FfiAddress, BadInput
<1> QED BY <1>1, <1>2, <1>3

LEMMA FfiPreparesSteps ==
    /\ Performs(FfiPrepares.prepare_data_upload, {"data_prepare", "insert_upload"})
    /\ Performs(FfiPrepares.prepare_file_upload, {"file_prepare", "insert_upload"})
    /\ Performs(FfiPrepares.prepare_file_upload_with_progress,
                {"bridge", "file_prepare", "flush", "insert_upload"})
    /\ Performs(FfiPrepares.payment_transactions, {"bill"})
<1>1. Performs(FfiPrepares.prepare_data_upload, {"data_prepare", "insert_upload"})
  <2>1. Shaped(FfiPrepares.prepare_data_upload)
    BY AwaitIs, BridgeIs, EffectIs, GuardIs DEF Shaped, Is, IsList, FfiPrepares, Reported,
       BadInput
  <2>2. Ordered(FfiPrepares.prepare_data_upload)
    BY AwaitIs, BridgeIs, EffectIs, GuardIs DEF Ordered, Is, Lasting, WalletCalls,
       PaidStores, FfiPrepares, Reported, BadInput
  <2>3. Nested(FfiPrepares.prepare_data_upload)
    BY AwaitIs, BridgeIs, EffectIs, GuardIs DEF Nested, Is, Plain, FfiPrepares, Reported,
       BadInput
  <2>4. Runs(FfiPrepares.prepare_data_upload)
    BY AwaitIs, BridgeIs, EffectIs, GuardIs DEF Runs, Is, Plain, FfiPrepares, Reported,
       BadInput
  <2>5. AllCalls(FfiPrepares.prepare_data_upload) = {"data_prepare", "insert_upload"}
    BY AwaitIs, BridgeIs, EffectIs, GuardIs DEF AllCalls, Is, FfiPrepares, Reported,
       BadInput
  <2> QED BY <2>1, <2>2, <2>3, <2>4, <2>5 DEF Performs, Orderly
<1>2. Performs(FfiPrepares.prepare_file_upload, {"file_prepare", "insert_upload"})
  <2>1. Shaped(FfiPrepares.prepare_file_upload)
    BY AwaitIs, BridgeIs, EffectIs, GuardIs DEF Shaped, Is, IsList, FfiPrepares, Reported,
       BadInput
  <2>2. Ordered(FfiPrepares.prepare_file_upload)
    BY AwaitIs, BridgeIs, EffectIs, GuardIs DEF Ordered, Is, Lasting, WalletCalls,
       PaidStores, FfiPrepares, Reported, BadInput
  <2>3. Nested(FfiPrepares.prepare_file_upload)
    BY AwaitIs, BridgeIs, EffectIs, GuardIs DEF Nested, Is, Plain, FfiPrepares, Reported,
       BadInput
  <2>4. Runs(FfiPrepares.prepare_file_upload)
    BY AwaitIs, BridgeIs, EffectIs, GuardIs DEF Runs, Is, Plain, FfiPrepares, Reported,
       BadInput
  <2>5. AllCalls(FfiPrepares.prepare_file_upload) = {"file_prepare", "insert_upload"}
    BY AwaitIs, BridgeIs, EffectIs, GuardIs DEF AllCalls, Is, FfiPrepares, Reported,
       BadInput
  <2> QED BY <2>1, <2>2, <2>3, <2>4, <2>5 DEF Performs, Orderly
<1>3. Performs(FfiPrepares.prepare_file_upload_with_progress,
               {"bridge", "file_prepare", "flush", "insert_upload"})
  <2>1. Shaped(FfiPrepares.prepare_file_upload_with_progress)
    BY AwaitIs, BridgeIs, EffectIs, GuardIs DEF Shaped, Is, IsList, FfiPrepares, Reported,
       BadInput
  <2>2. Ordered(FfiPrepares.prepare_file_upload_with_progress)
    BY AwaitIs, BridgeIs, EffectIs, GuardIs DEF Ordered, Is, Lasting, WalletCalls,
       PaidStores, FfiPrepares, Reported, BadInput
  <2>3. Nested(FfiPrepares.prepare_file_upload_with_progress)
    BY AwaitIs, BridgeIs, EffectIs, GuardIs DEF Nested, Is, Plain, FfiPrepares, Reported,
       BadInput
  <2>4. Runs(FfiPrepares.prepare_file_upload_with_progress)
    BY AwaitIs, BridgeIs, EffectIs, GuardIs DEF Runs, Is, Plain, FfiPrepares, Reported,
       BadInput
  <2>5. AllCalls(FfiPrepares.prepare_file_upload_with_progress)
            = {"bridge", "file_prepare", "flush", "insert_upload"}
    BY AwaitIs, BridgeIs, EffectIs, GuardIs DEF AllCalls, Is, FfiPrepares, Reported,
       BadInput
  <2> QED BY <2>1, <2>2, <2>3, <2>4, <2>5 DEF Performs, Orderly
<1>4. Performs(FfiPrepares.payment_transactions, {"bill"})
  BY AwaitIs, BridgeIs, EffectIs, GuardIs DEF Performs, Orderly, Shaped, Ordered, Nested,
     Runs, Is, Plain, IsList, AllCalls, Lasting, WalletCalls, PaidStores, FfiPrepares,
     Reported, BadInput
<1> QED BY <1>1, <1>2, <1>3, <1>4

LEMMA FfiFinalizesSteps ==
    /\ Performs(FfiFinalizes.finalize_upload, {"finalize_pending", "take_session"})
    /\ Performs(FfiFinalizes.finalize_upload_merkle, {"finalize_pending", "take_session"})
    /\ Performs(FfiFinalizes.finalize_upload_with_progress,
                {"bridge", "finalize_pending", "flush", "take_session"})
    /\ Performs(FfiFinalizes.finalize_upload_merkle_with_progress,
                {"bridge", "finalize_pending", "flush", "take_session"})
<1>1. Performs(FfiFinalizes.finalize_upload, {"finalize_pending", "take_session"})
  <2>1. Shaped(FfiFinalizes.finalize_upload)
    BY AwaitIs, BridgeIs, EffectIs, GuardIs DEF Shaped, Is, IsList, FfiFinalizes, BadInput,
       Encodes, Reported
  <2>2. Ordered(FfiFinalizes.finalize_upload)
    BY AwaitIs, BridgeIs, EffectIs, GuardIs DEF Ordered, Is, Lasting, WalletCalls,
       PaidStores, FfiFinalizes, BadInput, Encodes, Reported
  <2>3. Nested(FfiFinalizes.finalize_upload)
    BY AwaitIs, BridgeIs, EffectIs, GuardIs DEF Nested, Is, Plain, FfiFinalizes, BadInput,
       Encodes, Reported
  <2>4. Runs(FfiFinalizes.finalize_upload)
    BY AwaitIs, BridgeIs, EffectIs, GuardIs DEF Runs, Is, Plain, FfiFinalizes, BadInput,
       Encodes, Reported
  <2>5. AllCalls(FfiFinalizes.finalize_upload) = {"finalize_pending", "take_session"}
    BY AwaitIs, BridgeIs, EffectIs, GuardIs DEF AllCalls, Is, FfiFinalizes, BadInput,
       Encodes, Reported
  <2> QED BY <2>1, <2>2, <2>3, <2>4, <2>5 DEF Performs, Orderly
<1>2. Performs(FfiFinalizes.finalize_upload_merkle, {"finalize_pending", "take_session"})
  <2>1. Shaped(FfiFinalizes.finalize_upload_merkle)
    BY AwaitIs, BridgeIs, EffectIs, GuardIs DEF Shaped, Is, IsList, FfiFinalizes, BadInput,
       Encodes, Reported
  <2>2. Ordered(FfiFinalizes.finalize_upload_merkle)
    BY AwaitIs, BridgeIs, EffectIs, GuardIs DEF Ordered, Is, Lasting, WalletCalls,
       PaidStores, FfiFinalizes, BadInput, Encodes, Reported
  <2>3. Nested(FfiFinalizes.finalize_upload_merkle)
    BY AwaitIs, BridgeIs, EffectIs, GuardIs DEF Nested, Is, Plain, FfiFinalizes, BadInput,
       Encodes, Reported
  <2>4. Runs(FfiFinalizes.finalize_upload_merkle)
    BY AwaitIs, BridgeIs, EffectIs, GuardIs DEF Runs, Is, Plain, FfiFinalizes, BadInput,
       Encodes, Reported
  <2>5. AllCalls(FfiFinalizes.finalize_upload_merkle) = {"finalize_pending", "take_session"}
    BY AwaitIs, BridgeIs, EffectIs, GuardIs DEF AllCalls, Is, FfiFinalizes, BadInput,
       Encodes, Reported
  <2> QED BY <2>1, <2>2, <2>3, <2>4, <2>5 DEF Performs, Orderly
<1>3. Performs(FfiFinalizes.finalize_upload_with_progress,
               {"bridge", "finalize_pending", "flush", "take_session"})
  <2>1. Shaped(FfiFinalizes.finalize_upload_with_progress)
    BY AwaitIs, BridgeIs, EffectIs, GuardIs DEF Shaped, Is, IsList, FfiFinalizes, BadInput,
       Encodes, Reported
  <2>2. Ordered(FfiFinalizes.finalize_upload_with_progress)
    BY AwaitIs, BridgeIs, EffectIs, GuardIs DEF Ordered, Is, Lasting, WalletCalls,
       PaidStores, FfiFinalizes, BadInput, Encodes, Reported
  <2>3. Nested(FfiFinalizes.finalize_upload_with_progress)
    BY AwaitIs, BridgeIs, EffectIs, GuardIs DEF Nested, Is, Plain, FfiFinalizes, BadInput,
       Encodes, Reported
  <2>4. Runs(FfiFinalizes.finalize_upload_with_progress)
    BY AwaitIs, BridgeIs, EffectIs, GuardIs DEF Runs, Is, Plain, FfiFinalizes, BadInput,
       Encodes, Reported
  <2>5. AllCalls(FfiFinalizes.finalize_upload_with_progress)
            = {"bridge", "finalize_pending", "flush", "take_session"}
    BY AwaitIs, BridgeIs, EffectIs, GuardIs DEF AllCalls, Is, FfiFinalizes, BadInput,
       Encodes, Reported
  <2> QED BY <2>1, <2>2, <2>3, <2>4, <2>5 DEF Performs, Orderly
<1>4. Performs(FfiFinalizes.finalize_upload_merkle_with_progress,
               {"bridge", "finalize_pending", "flush", "take_session"})
  <2>1. Shaped(FfiFinalizes.finalize_upload_merkle_with_progress)
    BY AwaitIs, BridgeIs, EffectIs, GuardIs DEF Shaped, Is, IsList, FfiFinalizes, BadInput,
       Encodes, Reported
  <2>2. Ordered(FfiFinalizes.finalize_upload_merkle_with_progress)
    BY AwaitIs, BridgeIs, EffectIs, GuardIs DEF Ordered, Is, Lasting, WalletCalls,
       PaidStores, FfiFinalizes, BadInput, Encodes, Reported
  <2>3. Nested(FfiFinalizes.finalize_upload_merkle_with_progress)
    BY AwaitIs, BridgeIs, EffectIs, GuardIs DEF Nested, Is, Plain, FfiFinalizes, BadInput,
       Encodes, Reported
  <2>4. Runs(FfiFinalizes.finalize_upload_merkle_with_progress)
    BY AwaitIs, BridgeIs, EffectIs, GuardIs DEF Runs, Is, Plain, FfiFinalizes, BadInput,
       Encodes, Reported
  <2>5. AllCalls(FfiFinalizes.finalize_upload_merkle_with_progress)
            = {"bridge", "finalize_pending", "flush", "take_session"}
    BY AwaitIs, BridgeIs, EffectIs, GuardIs DEF AllCalls, Is, FfiFinalizes, BadInput,
       Encodes, Reported
  <2> QED BY <2>1, <2>2, <2>3, <2>4, <2>5 DEF Performs, Orderly
<1> QED BY <1>1, <1>2, <1>3, <1>4

LEMMA FfiWalletSteps ==
    Performs(FfiWallet.wallet_approve, {"approve"})
BY AwaitIs DEF Performs, Orderly, Shaped, Ordered, Nested, Runs, Is, Plain, IsList,
   AllCalls, Lasting, WalletCalls, PaidStores, FfiWallet

LEMMA FfiFileUploadsSteps ==
    /\ Performs(FfiFileUploads.file_upload_public, {"file_upload_public"})
    /\ Performs(FfiFileUploads.file_upload_private, {"file_upload"})
    /\ Performs(FfiFileUploads.file_upload_public_with_progress,
                {"bridge", "file_upload_public", "flush"})
    /\ Performs(FfiFileUploads.file_upload_private_with_progress,
                {"bridge", "file_upload", "flush"})
<1>1. Performs(FfiFileUploads.file_upload_public, {"file_upload_public"})
  BY AwaitIs, BridgeIs, GuardIs DEF Performs, Orderly, Shaped, Ordered, Nested, Runs, Is,
     Plain, IsList, AllCalls, Lasting, WalletCalls, PaidStores, FfiFileUploads, Encodes,
     Reported
<1>2. Performs(FfiFileUploads.file_upload_private, {"file_upload"})
  BY AwaitIs, BridgeIs, GuardIs DEF Performs, Orderly, Shaped, Ordered, Nested, Runs, Is,
     Plain, IsList, AllCalls, Lasting, WalletCalls, PaidStores, FfiFileUploads, Encodes,
     Reported
<1>3. Performs(FfiFileUploads.file_upload_public_with_progress,
               {"bridge", "file_upload_public", "flush"})
  BY AwaitIs, BridgeIs, GuardIs DEF Performs, Orderly, Shaped, Ordered, Nested, Runs, Is,
     Plain, IsList, AllCalls, Lasting, WalletCalls, PaidStores, FfiFileUploads, Encodes,
     Reported
<1>4. Performs(FfiFileUploads.file_upload_private_with_progress,
               {"bridge", "file_upload", "flush"})
  BY AwaitIs, BridgeIs, GuardIs DEF Performs, Orderly, Shaped, Ordered, Nested, Runs, Is,
     Plain, IsList, AllCalls, Lasting, WalletCalls, PaidStores, FfiFileUploads, Encodes,
     Reported
<1> QED BY <1>1, <1>2, <1>3, <1>4

LEMMA FfiDataMapsSteps ==
    /\ Performs(FfiDataMaps.data_map_store, {"data_map_store"})
    /\ Performs(FfiDataMaps.data_map_fetch, {"data_map_fetch"})
<1>1. Performs(FfiDataMaps.data_map_store, {"data_map_store"})
  BY AwaitIs, GuardIs DEF Performs, Orderly, Shaped, Ordered, Nested, Runs, Is, Plain,
     IsList, AllCalls, Lasting, WalletCalls, PaidStores, FfiDataMaps, FfiDataMap,
     FfiAddress, Encodes, BadInput
<1>2. Performs(FfiDataMaps.data_map_fetch, {"data_map_fetch"})
  <2>1. Shaped(FfiDataMaps.data_map_fetch)
    BY AwaitIs, GuardIs DEF Shaped, Is, IsList, FfiDataMaps, FfiDataMap, FfiAddress,
       Encodes, BadInput
  <2>2. Ordered(FfiDataMaps.data_map_fetch)
    BY AwaitIs, GuardIs DEF Ordered, Is, Lasting, WalletCalls, PaidStores, FfiDataMaps,
       FfiDataMap, FfiAddress, Encodes, BadInput
  <2>3. Nested(FfiDataMaps.data_map_fetch)
    BY AwaitIs, GuardIs DEF Nested, Is, Plain, FfiDataMaps, FfiDataMap, FfiAddress, Encodes,
       BadInput
  <2>4. Runs(FfiDataMaps.data_map_fetch)
    BY AwaitIs, GuardIs DEF Runs, Is, Plain, FfiDataMaps, FfiDataMap, FfiAddress, Encodes,
       BadInput
  <2>5. AllCalls(FfiDataMaps.data_map_fetch) = {"data_map_fetch"}
    BY AwaitIs, GuardIs DEF AllCalls, Is, FfiDataMaps, FfiDataMap, FfiAddress, Encodes,
       BadInput
  <2> QED BY <2>1, <2>2, <2>3, <2>4, <2>5 DEF Performs, Orderly
<1> QED BY <1>1, <1>2

LEMMA FfiEstimatesSteps ==
    /\ Performs(FfiEstimates.estimate_file_cost, {"estimate"})
    /\ Performs(FfiEstimates.estimate_file_cost_with_progress,
                {"bridge", "estimate", "flush"})
<1>1. Performs(FfiEstimates.estimate_file_cost, {"estimate"})
  BY AwaitIs, BridgeIs DEF Performs, Orderly, Shaped, Ordered, Nested, Runs, Is, Plain,
     IsList, AllCalls, Lasting, WalletCalls, PaidStores, FfiEstimates, Reported
<1>2. Performs(FfiEstimates.estimate_file_cost_with_progress,
               {"bridge", "estimate", "flush"})
  BY AwaitIs, BridgeIs DEF Performs, Orderly, Shaped, Ordered, Nested, Runs, Is, Plain,
     IsList, AllCalls, Lasting, WalletCalls, PaidStores, FfiEstimates, Reported
<1> QED BY <1>1, <1>2

LEMMA FfiFileDownloadsSteps ==
    /\ Performs(FfiFileDownloads.file_download_public, {"data_map_fetch", "file_download"})
    /\ Performs(FfiFileDownloads.file_download_private, {"file_download"})
<1>1. Performs(FfiFileDownloads.file_download_public, {"data_map_fetch", "file_download"})
  BY AwaitIs, GuardIs DEF Performs, Orderly, Shaped, Ordered, Nested, Runs, Is, Plain,
     IsList, AllCalls, Lasting, WalletCalls, PaidStores, FfiFileDownloads, FfiAddress,
     FfiDataMap, BadInput
<1>2. Performs(FfiFileDownloads.file_download_private, {"file_download"})
  BY AwaitIs, GuardIs DEF Performs, Orderly, Shaped, Ordered, Nested, Runs, Is, Plain,
     IsList, AllCalls, Lasting, WalletCalls, PaidStores, FfiFileDownloads, FfiAddress,
     FfiDataMap, BadInput
<1> QED BY <1>1, <1>2

-----------------------------------------------------------------------------
(* Tables, and what is found in them.                                      *)

\* A table with v at k.
Has(f, k, v) == k \in DOMAIN f /\ f[k] = v

LEMMA TableAt ==
    ASSUME NEW rows, NEW r \in rows, \A q \in rows : q[1] = r[1] => q[2] = r[2]
    PROVE  Has(Table(rows), r[1], r[2])
BY DEF Table, Has

LEMMA JoinedOf ==
    ASSUME NEW tables, NEW k \in DOMAIN Joined(tables)
    PROVE  \E t \in tables : k \in DOMAIN t /\ Joined(tables)[k] = t[k]
BY DEF Joined

LEMMA JoinedHas ==
    ASSUME NEW tables, NEW t \in tables, NEW k \in DOMAIN t
    PROVE  k \in DOMAIN Joined(tables)
BY DEF Joined

\* No verb and path stand twice in the router.
LEMMA RouteOnce == \A r, q \in Routes : q[1] = r[1] => q[2] = r[2]
BY DEF Routes, Get, Post

LEMMA RouteAt == \A r \in Routes : Has(Router, r[1], r[2])
BY RouteOnce, TableAt DEF Router

LEMMA RestScriptsKeys ==
    /\ DOMAIN PublicData = {"data_put_public", "data_get_public"}
    /\ DOMAIN PrivateData = {"data_put", "data_get"}
    /\ DOMAIN DataCost = {"data_cost"}
    /\ DOMAIN Streams = {"data_stream", "data_stream_range", "data_stream_public",
                         "data_stream_public_range"}
    /\ DOMAIN FilePuts = {"file_put", "file_put_public"}
    /\ DOMAIN FileGets = {"file_get", "file_get_public"}
    /\ DOMAIN FileCost = {"file_cost"}
    /\ DOMAIN Chunks = {"chunk_get", "chunk_put"}
    /\ DOMAIN ChunkPrepare = {"chunk_prepare"}
    /\ DOMAIN ChunkFinalize = {"chunk_finalize"}
    /\ DOMAIN UploadPrepares = {"prepare_upload", "prepare_data_upload"}
    /\ DOMAIN UploadFinalize = {"finalize_upload"}
    /\ DOMAIN PointerWriteHandlers = {"pointer_keys", "pointer_create", "pointer_update",
                                      "pointer_transfer"}
    /\ DOMAIN PointerReadHandlers = {"pointer_get", "pointer_resolve", "pointer_finality",
                                     "pointer_controller"}
    /\ DOMAIN PointerSessionHandlers = {"pointer_prepare", "pointer_finalize"}
    /\ DOMAIN Manifests = {"manifest_build", "manifest_decode"}
    /\ DOMAIN Verify = {"verify_quotes"}
    /\ DOMAIN Wallet = {"wallet_address", "wallet_balance", "wallet_approve"}
    /\ DOMAIN Health = {"health"}
BY DEF PublicData, PrivateData, DataCost, Streams, FilePuts, FileGets, FileCost, Chunks,
       ChunkPrepare, ChunkFinalize, UploadPrepares, UploadFinalize, PointerWriteHandlers,
       PointerReadHandlers, PointerSessionHandlers, Manifests, Verify, Wallet, Health

\* A handler's steps are those of the table that has it, and no two tables have it.
LEMMA RestScriptsOf ==
    \A h \in DOMAIN RestScripts :
        \/ h \in DOMAIN PublicData /\ RestScripts[h] = PublicData[h]
        \/ h \in DOMAIN PrivateData /\ RestScripts[h] = PrivateData[h]
        \/ h \in DOMAIN DataCost /\ RestScripts[h] = DataCost[h]
        \/ h \in DOMAIN Streams /\ RestScripts[h] = Streams[h]
        \/ h \in DOMAIN FilePuts /\ RestScripts[h] = FilePuts[h]
        \/ h \in DOMAIN FileGets /\ RestScripts[h] = FileGets[h]
        \/ h \in DOMAIN FileCost /\ RestScripts[h] = FileCost[h]
        \/ h \in DOMAIN Chunks /\ RestScripts[h] = Chunks[h]
        \/ h \in DOMAIN ChunkPrepare /\ RestScripts[h] = ChunkPrepare[h]
        \/ h \in DOMAIN ChunkFinalize /\ RestScripts[h] = ChunkFinalize[h]
        \/ h \in DOMAIN UploadPrepares /\ RestScripts[h] = UploadPrepares[h]
        \/ h \in DOMAIN UploadFinalize /\ RestScripts[h] = UploadFinalize[h]
        \/ h \in DOMAIN PointerWriteHandlers /\ RestScripts[h] = PointerWriteHandlers[h]
        \/ h \in DOMAIN PointerReadHandlers /\ RestScripts[h] = PointerReadHandlers[h]
        \/ h \in DOMAIN PointerSessionHandlers /\ RestScripts[h] = PointerSessionHandlers[h]
        \/ h \in DOMAIN Manifests /\ RestScripts[h] = Manifests[h]
        \/ h \in DOMAIN Verify /\ RestScripts[h] = Verify[h]
        \/ h \in DOMAIN Wallet /\ RestScripts[h] = Wallet[h]
        \/ h \in DOMAIN Health /\ RestScripts[h] = Health[h]
BY JoinedOf DEF RestScripts

LEMMA RestScriptsHas ==
    /\ DOMAIN PublicData \subseteq DOMAIN RestScripts
    /\ DOMAIN PrivateData \subseteq DOMAIN RestScripts
    /\ DOMAIN DataCost \subseteq DOMAIN RestScripts
    /\ DOMAIN Streams \subseteq DOMAIN RestScripts
    /\ DOMAIN FilePuts \subseteq DOMAIN RestScripts
    /\ DOMAIN FileGets \subseteq DOMAIN RestScripts
    /\ DOMAIN FileCost \subseteq DOMAIN RestScripts
    /\ DOMAIN Chunks \subseteq DOMAIN RestScripts
    /\ DOMAIN ChunkPrepare \subseteq DOMAIN RestScripts
    /\ DOMAIN ChunkFinalize \subseteq DOMAIN RestScripts
    /\ DOMAIN UploadPrepares \subseteq DOMAIN RestScripts
    /\ DOMAIN UploadFinalize \subseteq DOMAIN RestScripts
    /\ DOMAIN PointerWriteHandlers \subseteq DOMAIN RestScripts
    /\ DOMAIN PointerReadHandlers \subseteq DOMAIN RestScripts
    /\ DOMAIN PointerSessionHandlers \subseteq DOMAIN RestScripts
    /\ DOMAIN Manifests \subseteq DOMAIN RestScripts
    /\ DOMAIN Verify \subseteq DOMAIN RestScripts
    /\ DOMAIN Wallet \subseteq DOMAIN RestScripts
    /\ DOMAIN Health \subseteq DOMAIN RestScripts
BY JoinedHas DEF RestScripts

LEMMA PublicDataAt ==
    /\ Has(RestScripts, "data_put_public", PublicData.data_put_public)
    /\ Has(RestScripts, "data_get_public", PublicData.data_get_public)
BY RestScriptsOf, RestScriptsHas, RestScriptsKeys DEF Has

LEMMA PrivateDataAt ==
    /\ Has(RestScripts, "data_put", PrivateData.data_put)
    /\ Has(RestScripts, "data_get", PrivateData.data_get)
BY RestScriptsOf, RestScriptsHas, RestScriptsKeys DEF Has

LEMMA DataCostAt ==
    Has(RestScripts, "data_cost", DataCost.data_cost)
BY RestScriptsOf, RestScriptsHas, RestScriptsKeys DEF Has

LEMMA StreamsAt ==
    /\ Has(RestScripts, "data_stream", Streams.data_stream)
    /\ Has(RestScripts, "data_stream_range", Streams.data_stream_range)
    /\ Has(RestScripts, "data_stream_public", Streams.data_stream_public)
    /\ Has(RestScripts, "data_stream_public_range", Streams.data_stream_public_range)
BY RestScriptsOf, RestScriptsHas, RestScriptsKeys DEF Has

LEMMA FilePutsAt ==
    /\ Has(RestScripts, "file_put", FilePuts.file_put)
    /\ Has(RestScripts, "file_put_public", FilePuts.file_put_public)
BY RestScriptsOf, RestScriptsHas, RestScriptsKeys DEF Has

LEMMA FileGetsAt ==
    /\ Has(RestScripts, "file_get", FileGets.file_get)
    /\ Has(RestScripts, "file_get_public", FileGets.file_get_public)
BY RestScriptsOf, RestScriptsHas, RestScriptsKeys DEF Has

LEMMA FileCostAt ==
    Has(RestScripts, "file_cost", FileCost.file_cost)
BY RestScriptsOf, RestScriptsHas, RestScriptsKeys DEF Has

LEMMA ChunksAt ==
    /\ Has(RestScripts, "chunk_get", Chunks.chunk_get)
    /\ Has(RestScripts, "chunk_put", Chunks.chunk_put)
BY RestScriptsOf, RestScriptsHas, RestScriptsKeys DEF Has

LEMMA ChunkPrepareAt ==
    Has(RestScripts, "chunk_prepare", ChunkPrepare.chunk_prepare)
BY RestScriptsOf, RestScriptsHas, RestScriptsKeys DEF Has

LEMMA ChunkFinalizeAt ==
    Has(RestScripts, "chunk_finalize", ChunkFinalize.chunk_finalize)
BY RestScriptsOf, RestScriptsHas, RestScriptsKeys DEF Has

LEMMA UploadPreparesAt ==
    /\ Has(RestScripts, "prepare_upload", UploadPrepares.prepare_upload)
    /\ Has(RestScripts, "prepare_data_upload", UploadPrepares.prepare_data_upload)
BY RestScriptsOf, RestScriptsHas, RestScriptsKeys DEF Has

LEMMA UploadFinalizeAt ==
    Has(RestScripts, "finalize_upload", UploadFinalize.finalize_upload)
BY RestScriptsOf, RestScriptsHas, RestScriptsKeys DEF Has

LEMMA PointerWriteHandlersAt ==
    /\ Has(RestScripts, "pointer_keys", PointerWriteHandlers.pointer_keys)
    /\ Has(RestScripts, "pointer_create", PointerWriteHandlers.pointer_create)
    /\ Has(RestScripts, "pointer_update", PointerWriteHandlers.pointer_update)
    /\ Has(RestScripts, "pointer_transfer", PointerWriteHandlers.pointer_transfer)
BY RestScriptsOf, RestScriptsHas, RestScriptsKeys DEF Has

LEMMA PointerReadHandlersAt ==
    /\ Has(RestScripts, "pointer_get", PointerReadHandlers.pointer_get)
    /\ Has(RestScripts, "pointer_resolve", PointerReadHandlers.pointer_resolve)
    /\ Has(RestScripts, "pointer_finality", PointerReadHandlers.pointer_finality)
    /\ Has(RestScripts, "pointer_controller", PointerReadHandlers.pointer_controller)
BY RestScriptsOf, RestScriptsHas, RestScriptsKeys DEF Has

LEMMA PointerSessionHandlersAt ==
    /\ Has(RestScripts, "pointer_prepare", PointerSessionHandlers.pointer_prepare)
    /\ Has(RestScripts, "pointer_finalize", PointerSessionHandlers.pointer_finalize)
BY RestScriptsOf, RestScriptsHas, RestScriptsKeys DEF Has

LEMMA ManifestsAt ==
    /\ Has(RestScripts, "manifest_build", Manifests.manifest_build)
    /\ Has(RestScripts, "manifest_decode", Manifests.manifest_decode)
BY RestScriptsOf, RestScriptsHas, RestScriptsKeys DEF Has

LEMMA VerifyAt ==
    Has(RestScripts, "verify_quotes", Verify.verify_quotes)
BY RestScriptsOf, RestScriptsHas, RestScriptsKeys DEF Has

LEMMA WalletAt ==
    /\ Has(RestScripts, "wallet_address", Wallet.wallet_address)
    /\ Has(RestScripts, "wallet_balance", Wallet.wallet_balance)
    /\ Has(RestScripts, "wallet_approve", Wallet.wallet_approve)
BY RestScriptsOf, RestScriptsHas, RestScriptsKeys DEF Has

LEMMA HealthAt ==
    Has(RestScripts, "health", Health.health)
BY RestScriptsOf, RestScriptsHas, RestScriptsKeys DEF Has

LEMMA FfiScriptsKeys ==
    /\ DOMAIN FfiChunks = {"chunk_put", "chunk_get", "chunk_exists"}
    /\ DOMAIN FfiData = {"data_put_public", "data_get_public", "data_put_private",
                         "data_get_private"}
    /\ DOMAIN FfiFileUploads = {"file_upload_public", "file_upload_private",
                                "file_upload_public_with_progress",
                                "file_upload_private_with_progress"}
    /\ DOMAIN FfiDataMaps = {"data_map_store", "data_map_fetch"}
    /\ DOMAIN FfiEstimates = {"estimate_file_cost", "estimate_file_cost_with_progress"}
    /\ DOMAIN FfiFileDownloads = {"file_download_public", "file_download_private"}
    /\ DOMAIN FfiWallet = {"wallet_approve"}
    /\ DOMAIN FfiProgressDownloads = {"download_public_to_file", "download_private_to_file"}
    /\ DOMAIN FfiPrepares = {"prepare_data_upload", "prepare_file_upload",
                             "prepare_file_upload_with_progress", "payment_transactions"}
    /\ DOMAIN FfiFinalizes = {"finalize_upload", "finalize_upload_merkle",
                              "finalize_upload_with_progress",
                              "finalize_upload_merkle_with_progress"}
BY DEF FfiChunks, FfiData, FfiFileUploads, FfiDataMaps, FfiEstimates, FfiFileDownloads,
       FfiWallet, FfiProgressDownloads, FfiPrepares, FfiFinalizes

\* The same of the methods of the embedded client,
LEMMA FfiScriptsOf ==
    \A h \in DOMAIN FfiScripts :
        \/ h \in DOMAIN FfiChunks /\ FfiScripts[h] = FfiChunks[h]
        \/ h \in DOMAIN FfiData /\ FfiScripts[h] = FfiData[h]
        \/ h \in DOMAIN FfiFileUploads /\ FfiScripts[h] = FfiFileUploads[h]
        \/ h \in DOMAIN FfiDataMaps /\ FfiScripts[h] = FfiDataMaps[h]
        \/ h \in DOMAIN FfiEstimates /\ FfiScripts[h] = FfiEstimates[h]
        \/ h \in DOMAIN FfiFileDownloads /\ FfiScripts[h] = FfiFileDownloads[h]
        \/ h \in DOMAIN FfiWallet /\ FfiScripts[h] = FfiWallet[h]
        \/ h \in DOMAIN FfiProgressDownloads /\ FfiScripts[h] = FfiProgressDownloads[h]
        \/ h \in DOMAIN FfiPrepares /\ FfiScripts[h] = FfiPrepares[h]
        \/ h \in DOMAIN FfiFinalizes /\ FfiScripts[h] = FfiFinalizes[h]
BY JoinedOf DEF FfiScripts

LEMMA FfiScriptsHas ==
    /\ DOMAIN FfiChunks \subseteq DOMAIN FfiScripts
    /\ DOMAIN FfiData \subseteq DOMAIN FfiScripts
    /\ DOMAIN FfiFileUploads \subseteq DOMAIN FfiScripts
    /\ DOMAIN FfiDataMaps \subseteq DOMAIN FfiScripts
    /\ DOMAIN FfiEstimates \subseteq DOMAIN FfiScripts
    /\ DOMAIN FfiFileDownloads \subseteq DOMAIN FfiScripts
    /\ DOMAIN FfiWallet \subseteq DOMAIN FfiScripts
    /\ DOMAIN FfiProgressDownloads \subseteq DOMAIN FfiScripts
    /\ DOMAIN FfiPrepares \subseteq DOMAIN FfiScripts
    /\ DOMAIN FfiFinalizes \subseteq DOMAIN FfiScripts
BY JoinedHas DEF FfiScripts

LEMMA FfiChunksAt ==
    /\ Has(FfiScripts, "chunk_put", FfiChunks.chunk_put)
    /\ Has(FfiScripts, "chunk_get", FfiChunks.chunk_get)
    /\ Has(FfiScripts, "chunk_exists", FfiChunks.chunk_exists)
BY FfiScriptsOf, FfiScriptsHas, FfiScriptsKeys DEF Has

LEMMA FfiDataAt ==
    /\ Has(FfiScripts, "data_put_public", FfiData.data_put_public)
    /\ Has(FfiScripts, "data_get_public", FfiData.data_get_public)
    /\ Has(FfiScripts, "data_put_private", FfiData.data_put_private)
    /\ Has(FfiScripts, "data_get_private", FfiData.data_get_private)
BY FfiScriptsOf, FfiScriptsHas, FfiScriptsKeys DEF Has

LEMMA FfiFileUploadsAt ==
    /\ Has(FfiScripts, "file_upload_public", FfiFileUploads.file_upload_public)
    /\ Has(FfiScripts, "file_upload_private", FfiFileUploads.file_upload_private)
    /\ Has(FfiScripts, "file_upload_public_with_progress",
           FfiFileUploads.file_upload_public_with_progress)
    /\ Has(FfiScripts, "file_upload_private_with_progress",
           FfiFileUploads.file_upload_private_with_progress)
BY FfiScriptsOf, FfiScriptsHas, FfiScriptsKeys DEF Has

LEMMA FfiDataMapsAt ==
    /\ Has(FfiScripts, "data_map_store", FfiDataMaps.data_map_store)
    /\ Has(FfiScripts, "data_map_fetch", FfiDataMaps.data_map_fetch)
BY FfiScriptsOf, FfiScriptsHas, FfiScriptsKeys DEF Has

LEMMA FfiEstimatesAt ==
    /\ Has(FfiScripts, "estimate_file_cost", FfiEstimates.estimate_file_cost)
    /\ Has(FfiScripts, "estimate_file_cost_with_progress",
           FfiEstimates.estimate_file_cost_with_progress)
BY FfiScriptsOf, FfiScriptsHas, FfiScriptsKeys DEF Has

LEMMA FfiFileDownloadsAt ==
    /\ Has(FfiScripts, "file_download_public", FfiFileDownloads.file_download_public)
    /\ Has(FfiScripts, "file_download_private", FfiFileDownloads.file_download_private)
BY FfiScriptsOf, FfiScriptsHas, FfiScriptsKeys DEF Has

LEMMA FfiWalletAt ==
    Has(FfiScripts, "wallet_approve", FfiWallet.wallet_approve)
BY FfiScriptsOf, FfiScriptsHas, FfiScriptsKeys DEF Has

LEMMA FfiProgressDownloadsAt ==
    /\ Has(FfiScripts, "download_public_to_file",
           FfiProgressDownloads.download_public_to_file)
    /\ Has(FfiScripts, "download_private_to_file",
           FfiProgressDownloads.download_private_to_file)
BY FfiScriptsOf, FfiScriptsHas, FfiScriptsKeys DEF Has

LEMMA FfiPreparesAt ==
    /\ Has(FfiScripts, "prepare_data_upload", FfiPrepares.prepare_data_upload)
    /\ Has(FfiScripts, "prepare_file_upload", FfiPrepares.prepare_file_upload)
    /\ Has(FfiScripts, "prepare_file_upload_with_progress",
           FfiPrepares.prepare_file_upload_with_progress)
    /\ Has(FfiScripts, "payment_transactions", FfiPrepares.payment_transactions)
BY FfiScriptsOf, FfiScriptsHas, FfiScriptsKeys DEF Has

LEMMA FfiFinalizesAt ==
    /\ Has(FfiScripts, "finalize_upload", FfiFinalizes.finalize_upload)
    /\ Has(FfiScripts, "finalize_upload_merkle", FfiFinalizes.finalize_upload_merkle)
    /\ Has(FfiScripts, "finalize_upload_with_progress",
           FfiFinalizes.finalize_upload_with_progress)
    /\ Has(FfiScripts, "finalize_upload_merkle_with_progress",
           FfiFinalizes.finalize_upload_merkle_with_progress)
BY FfiScriptsOf, FfiScriptsHas, FfiScriptsKeys DEF Has

LEMMA HttpCallsKeys ==
    /\ DOMAIN DataCalls = {"health", "data_put", "data_get", "data_put_public",
                           "data_get_public"}
    /\ DOMAIN StreamCalls = {"data_stream", "data_stream_public", "data_stream_range",
                             "data_stream_public_range"}
    /\ DOMAIN ProgressCalls = {"data_stream_with_progress",
                               "data_stream_public_with_progress", "data_cost", "chunk_put",
                               "chunk_get"}
    /\ DOMAIN FileCalls = {"file_put", "file_get", "file_put_public", "file_get_public",
                           "file_cost"}
    /\ DOMAIN WalletCallsOfSdk = {"wallet_address", "wallet_balance", "wallet_approve"}
    /\ DOMAIN PrepareCalls = {"prepare_upload", "prepare_upload_public",
                              "prepare_data_upload", "verify_quotes"}
    /\ DOMAIN FinalizeCalls = {"finalize_upload", "finalize_merkle_upload"}
    /\ DOMAIN ChunkSessionCalls = {"prepare_chunk_upload", "finalize_chunk_upload"}
    /\ DOMAIN PointerWriteCalls = {"pointer_keys", "pointer_create", "pointer_update",
                                   "pointer_transfer"}
    /\ DOMAIN PointerReadCalls = {"pointer_get", "pointer_resolve", "pointer_finality",
                                  "pointer_controller"}
    /\ DOMAIN PointerSessionCalls = {"pointer_prepare", "pointer_finalize"}
    /\ DOMAIN ManifestCalls = {"build_manifest", "decode_manifest"}
BY DEF DataCalls, StreamCalls, ProgressCalls, FileCalls, WalletCallsOfSdk, PrepareCalls,
       FinalizeCalls, ChunkSessionCalls, PointerWriteCalls, PointerReadCalls,
       PointerSessionCalls, ManifestCalls

\* of the SDK's calls over REST,
LEMMA HttpCallsOf ==
    \A h \in DOMAIN HttpCalls :
        \/ h \in DOMAIN DataCalls /\ HttpCalls[h] = DataCalls[h]
        \/ h \in DOMAIN StreamCalls /\ HttpCalls[h] = StreamCalls[h]
        \/ h \in DOMAIN ProgressCalls /\ HttpCalls[h] = ProgressCalls[h]
        \/ h \in DOMAIN FileCalls /\ HttpCalls[h] = FileCalls[h]
        \/ h \in DOMAIN WalletCallsOfSdk /\ HttpCalls[h] = WalletCallsOfSdk[h]
        \/ h \in DOMAIN PrepareCalls /\ HttpCalls[h] = PrepareCalls[h]
        \/ h \in DOMAIN FinalizeCalls /\ HttpCalls[h] = FinalizeCalls[h]
        \/ h \in DOMAIN ChunkSessionCalls /\ HttpCalls[h] = ChunkSessionCalls[h]
        \/ h \in DOMAIN PointerWriteCalls /\ HttpCalls[h] = PointerWriteCalls[h]
        \/ h \in DOMAIN PointerReadCalls /\ HttpCalls[h] = PointerReadCalls[h]
        \/ h \in DOMAIN PointerSessionCalls /\ HttpCalls[h] = PointerSessionCalls[h]
        \/ h \in DOMAIN ManifestCalls /\ HttpCalls[h] = ManifestCalls[h]
BY JoinedOf DEF HttpCalls

LEMMA HttpCallsHas ==
    /\ DOMAIN DataCalls \subseteq DOMAIN HttpCalls
    /\ DOMAIN StreamCalls \subseteq DOMAIN HttpCalls
    /\ DOMAIN ProgressCalls \subseteq DOMAIN HttpCalls
    /\ DOMAIN FileCalls \subseteq DOMAIN HttpCalls
    /\ DOMAIN WalletCallsOfSdk \subseteq DOMAIN HttpCalls
    /\ DOMAIN PrepareCalls \subseteq DOMAIN HttpCalls
    /\ DOMAIN FinalizeCalls \subseteq DOMAIN HttpCalls
    /\ DOMAIN ChunkSessionCalls \subseteq DOMAIN HttpCalls
    /\ DOMAIN PointerWriteCalls \subseteq DOMAIN HttpCalls
    /\ DOMAIN PointerReadCalls \subseteq DOMAIN HttpCalls
    /\ DOMAIN PointerSessionCalls \subseteq DOMAIN HttpCalls
    /\ DOMAIN ManifestCalls \subseteq DOMAIN HttpCalls
BY JoinedHas DEF HttpCalls

LEMMA DataCallsAt ==
    /\ Has(HttpCalls, "health", DataCalls.health)
    /\ Has(HttpCalls, "data_put", DataCalls.data_put)
    /\ Has(HttpCalls, "data_get", DataCalls.data_get)
    /\ Has(HttpCalls, "data_put_public", DataCalls.data_put_public)
    /\ Has(HttpCalls, "data_get_public", DataCalls.data_get_public)
BY HttpCallsOf, HttpCallsHas, HttpCallsKeys DEF Has

LEMMA StreamCallsAt ==
    /\ Has(HttpCalls, "data_stream", StreamCalls.data_stream)
    /\ Has(HttpCalls, "data_stream_public", StreamCalls.data_stream_public)
    /\ Has(HttpCalls, "data_stream_range", StreamCalls.data_stream_range)
    /\ Has(HttpCalls, "data_stream_public_range", StreamCalls.data_stream_public_range)
BY HttpCallsOf, HttpCallsHas, HttpCallsKeys DEF Has

LEMMA ProgressCallsAt ==
    /\ Has(HttpCalls, "data_stream_with_progress",
           ProgressCalls.data_stream_with_progress)
    /\ Has(HttpCalls, "data_stream_public_with_progress",
           ProgressCalls.data_stream_public_with_progress)
    /\ Has(HttpCalls, "data_cost", ProgressCalls.data_cost)
    /\ Has(HttpCalls, "chunk_put", ProgressCalls.chunk_put)
    /\ Has(HttpCalls, "chunk_get", ProgressCalls.chunk_get)
BY HttpCallsOf, HttpCallsHas, HttpCallsKeys DEF Has

LEMMA FileCallsAt ==
    /\ Has(HttpCalls, "file_put", FileCalls.file_put)
    /\ Has(HttpCalls, "file_get", FileCalls.file_get)
    /\ Has(HttpCalls, "file_put_public", FileCalls.file_put_public)
    /\ Has(HttpCalls, "file_get_public", FileCalls.file_get_public)
    /\ Has(HttpCalls, "file_cost", FileCalls.file_cost)
BY HttpCallsOf, HttpCallsHas, HttpCallsKeys DEF Has

LEMMA WalletCallsOfSdkAt ==
    /\ Has(HttpCalls, "wallet_address", WalletCallsOfSdk.wallet_address)
    /\ Has(HttpCalls, "wallet_balance", WalletCallsOfSdk.wallet_balance)
    /\ Has(HttpCalls, "wallet_approve", WalletCallsOfSdk.wallet_approve)
BY HttpCallsOf, HttpCallsHas, HttpCallsKeys DEF Has

LEMMA PrepareCallsAt ==
    /\ Has(HttpCalls, "prepare_upload", PrepareCalls.prepare_upload)
    /\ Has(HttpCalls, "prepare_upload_public", PrepareCalls.prepare_upload_public)
    /\ Has(HttpCalls, "prepare_data_upload", PrepareCalls.prepare_data_upload)
    /\ Has(HttpCalls, "verify_quotes", PrepareCalls.verify_quotes)
BY HttpCallsOf, HttpCallsHas, HttpCallsKeys DEF Has

LEMMA FinalizeCallsAt ==
    /\ Has(HttpCalls, "finalize_upload", FinalizeCalls.finalize_upload)
    /\ Has(HttpCalls, "finalize_merkle_upload", FinalizeCalls.finalize_merkle_upload)
BY HttpCallsOf, HttpCallsHas, HttpCallsKeys DEF Has

LEMMA ChunkSessionCallsAt ==
    /\ Has(HttpCalls, "prepare_chunk_upload", ChunkSessionCalls.prepare_chunk_upload)
    /\ Has(HttpCalls, "finalize_chunk_upload", ChunkSessionCalls.finalize_chunk_upload)
BY HttpCallsOf, HttpCallsHas, HttpCallsKeys DEF Has

LEMMA PointerWriteCallsAt ==
    /\ Has(HttpCalls, "pointer_keys", PointerWriteCalls.pointer_keys)
    /\ Has(HttpCalls, "pointer_create", PointerWriteCalls.pointer_create)
    /\ Has(HttpCalls, "pointer_update", PointerWriteCalls.pointer_update)
    /\ Has(HttpCalls, "pointer_transfer", PointerWriteCalls.pointer_transfer)
BY HttpCallsOf, HttpCallsHas, HttpCallsKeys DEF Has

LEMMA PointerReadCallsAt ==
    /\ Has(HttpCalls, "pointer_get", PointerReadCalls.pointer_get)
    /\ Has(HttpCalls, "pointer_resolve", PointerReadCalls.pointer_resolve)
    /\ Has(HttpCalls, "pointer_finality", PointerReadCalls.pointer_finality)
    /\ Has(HttpCalls, "pointer_controller", PointerReadCalls.pointer_controller)
BY HttpCallsOf, HttpCallsHas, HttpCallsKeys DEF Has

LEMMA PointerSessionCallsAt ==
    /\ Has(HttpCalls, "pointer_prepare", PointerSessionCalls.pointer_prepare)
    /\ Has(HttpCalls, "pointer_finalize", PointerSessionCalls.pointer_finalize)
BY HttpCallsOf, HttpCallsHas, HttpCallsKeys DEF Has

LEMMA ManifestCallsAt ==
    /\ Has(HttpCalls, "build_manifest", ManifestCalls.build_manifest)
    /\ Has(HttpCalls, "decode_manifest", ManifestCalls.decode_manifest)
BY HttpCallsOf, HttpCallsHas, HttpCallsKeys DEF Has

LEMMA RpcsKeys ==
    /\ DOMAIN DataRpcs = {"health", "data_put", "data_get", "data_put_public",
                          "data_get_public"}
    /\ DOMAIN StreamRpcs = {"data_stream", "data_stream_public", "data_stream_range",
                            "data_stream_public_range"}
    /\ DOMAIN ProgressRpcs = {"data_stream_with_progress",
                              "data_stream_public_with_progress", "data_cost", "chunk_put",
                              "chunk_get"}
    /\ DOMAIN FileRpcs = {"file_put", "file_get", "file_put_public", "file_get_public",
                          "file_cost"}
    /\ DOMAIN WalletRpcs = {"wallet_address", "wallet_balance", "wallet_approve"}
    /\ DOMAIN PrepareRpcs = {"prepare_upload", "prepare_upload_public",
                             "prepare_data_upload", "verify_quotes"}
    /\ DOMAIN FinalizeRpcs = {"finalize_upload", "finalize_merkle_upload"}
    /\ DOMAIN ChunkSessionRpcs = {"prepare_chunk_upload", "finalize_chunk_upload"}
    /\ DOMAIN PointerWriteRpcs = {"pointer_keys", "pointer_create", "pointer_update",
                                  "pointer_transfer"}
    /\ DOMAIN PointerReadRpcs = {"pointer_get", "pointer_resolve", "pointer_finality",
                                 "pointer_controller"}
    /\ DOMAIN PointerSessionRpcs = {"pointer_prepare", "pointer_finalize"}
    /\ DOMAIN ManifestRpcs = {"build_manifest", "decode_manifest"}
BY DEF DataRpcs, StreamRpcs, ProgressRpcs, FileRpcs, WalletRpcs, PrepareRpcs, FinalizeRpcs,
       ChunkSessionRpcs, PointerWriteRpcs, PointerReadRpcs, PointerSessionRpcs, ManifestRpcs

\* and of those over gRPC.
LEMMA RpcsOf ==
    \A h \in DOMAIN Rpcs :
        \/ h \in DOMAIN DataRpcs /\ Rpcs[h] = DataRpcs[h]
        \/ h \in DOMAIN StreamRpcs /\ Rpcs[h] = StreamRpcs[h]
        \/ h \in DOMAIN ProgressRpcs /\ Rpcs[h] = ProgressRpcs[h]
        \/ h \in DOMAIN FileRpcs /\ Rpcs[h] = FileRpcs[h]
        \/ h \in DOMAIN WalletRpcs /\ Rpcs[h] = WalletRpcs[h]
        \/ h \in DOMAIN PrepareRpcs /\ Rpcs[h] = PrepareRpcs[h]
        \/ h \in DOMAIN FinalizeRpcs /\ Rpcs[h] = FinalizeRpcs[h]
        \/ h \in DOMAIN ChunkSessionRpcs /\ Rpcs[h] = ChunkSessionRpcs[h]
        \/ h \in DOMAIN PointerWriteRpcs /\ Rpcs[h] = PointerWriteRpcs[h]
        \/ h \in DOMAIN PointerReadRpcs /\ Rpcs[h] = PointerReadRpcs[h]
        \/ h \in DOMAIN PointerSessionRpcs /\ Rpcs[h] = PointerSessionRpcs[h]
        \/ h \in DOMAIN ManifestRpcs /\ Rpcs[h] = ManifestRpcs[h]
BY JoinedOf DEF Rpcs

LEMMA RpcsHas ==
    /\ DOMAIN DataRpcs \subseteq DOMAIN Rpcs
    /\ DOMAIN StreamRpcs \subseteq DOMAIN Rpcs
    /\ DOMAIN ProgressRpcs \subseteq DOMAIN Rpcs
    /\ DOMAIN FileRpcs \subseteq DOMAIN Rpcs
    /\ DOMAIN WalletRpcs \subseteq DOMAIN Rpcs
    /\ DOMAIN PrepareRpcs \subseteq DOMAIN Rpcs
    /\ DOMAIN FinalizeRpcs \subseteq DOMAIN Rpcs
    /\ DOMAIN ChunkSessionRpcs \subseteq DOMAIN Rpcs
    /\ DOMAIN PointerWriteRpcs \subseteq DOMAIN Rpcs
    /\ DOMAIN PointerReadRpcs \subseteq DOMAIN Rpcs
    /\ DOMAIN PointerSessionRpcs \subseteq DOMAIN Rpcs
    /\ DOMAIN ManifestRpcs \subseteq DOMAIN Rpcs
BY JoinedHas DEF Rpcs

LEMMA DataRpcsAt ==
    /\ Has(Rpcs, "health", DataRpcs.health)
    /\ Has(Rpcs, "data_put", DataRpcs.data_put)
    /\ Has(Rpcs, "data_get", DataRpcs.data_get)
    /\ Has(Rpcs, "data_put_public", DataRpcs.data_put_public)
    /\ Has(Rpcs, "data_get_public", DataRpcs.data_get_public)
BY RpcsOf, RpcsHas, RpcsKeys DEF Has

LEMMA StreamRpcsAt ==
    /\ Has(Rpcs, "data_stream", StreamRpcs.data_stream)
    /\ Has(Rpcs, "data_stream_public", StreamRpcs.data_stream_public)
    /\ Has(Rpcs, "data_stream_range", StreamRpcs.data_stream_range)
    /\ Has(Rpcs, "data_stream_public_range", StreamRpcs.data_stream_public_range)
BY RpcsOf, RpcsHas, RpcsKeys DEF Has

LEMMA ProgressRpcsAt ==
    /\ Has(Rpcs, "data_stream_with_progress", ProgressRpcs.data_stream_with_progress)
    /\ Has(Rpcs, "data_stream_public_with_progress",
           ProgressRpcs.data_stream_public_with_progress)
    /\ Has(Rpcs, "data_cost", ProgressRpcs.data_cost)
    /\ Has(Rpcs, "chunk_put", ProgressRpcs.chunk_put)
    /\ Has(Rpcs, "chunk_get", ProgressRpcs.chunk_get)
BY RpcsOf, RpcsHas, RpcsKeys DEF Has

LEMMA FileRpcsAt ==
    /\ Has(Rpcs, "file_put", FileRpcs.file_put)
    /\ Has(Rpcs, "file_get", FileRpcs.file_get)
    /\ Has(Rpcs, "file_put_public", FileRpcs.file_put_public)
    /\ Has(Rpcs, "file_get_public", FileRpcs.file_get_public)
    /\ Has(Rpcs, "file_cost", FileRpcs.file_cost)
BY RpcsOf, RpcsHas, RpcsKeys DEF Has

LEMMA WalletRpcsAt ==
    /\ Has(Rpcs, "wallet_address", WalletRpcs.wallet_address)
    /\ Has(Rpcs, "wallet_balance", WalletRpcs.wallet_balance)
    /\ Has(Rpcs, "wallet_approve", WalletRpcs.wallet_approve)
BY RpcsOf, RpcsHas, RpcsKeys DEF Has

LEMMA PrepareRpcsAt ==
    /\ Has(Rpcs, "prepare_upload", PrepareRpcs.prepare_upload)
    /\ Has(Rpcs, "prepare_upload_public", PrepareRpcs.prepare_upload_public)
    /\ Has(Rpcs, "prepare_data_upload", PrepareRpcs.prepare_data_upload)
    /\ Has(Rpcs, "verify_quotes", PrepareRpcs.verify_quotes)
BY RpcsOf, RpcsHas, RpcsKeys DEF Has

LEMMA FinalizeRpcsAt ==
    /\ Has(Rpcs, "finalize_upload", FinalizeRpcs.finalize_upload)
    /\ Has(Rpcs, "finalize_merkle_upload", FinalizeRpcs.finalize_merkle_upload)
BY RpcsOf, RpcsHas, RpcsKeys DEF Has

LEMMA ChunkSessionRpcsAt ==
    /\ Has(Rpcs, "prepare_chunk_upload", ChunkSessionRpcs.prepare_chunk_upload)
    /\ Has(Rpcs, "finalize_chunk_upload", ChunkSessionRpcs.finalize_chunk_upload)
BY RpcsOf, RpcsHas, RpcsKeys DEF Has

LEMMA PointerWriteRpcsAt ==
    /\ Has(Rpcs, "pointer_keys", PointerWriteRpcs.pointer_keys)
    /\ Has(Rpcs, "pointer_create", PointerWriteRpcs.pointer_create)
    /\ Has(Rpcs, "pointer_update", PointerWriteRpcs.pointer_update)
    /\ Has(Rpcs, "pointer_transfer", PointerWriteRpcs.pointer_transfer)
BY RpcsOf, RpcsHas, RpcsKeys DEF Has

LEMMA PointerReadRpcsAt ==
    /\ Has(Rpcs, "pointer_get", PointerReadRpcs.pointer_get)
    /\ Has(Rpcs, "pointer_resolve", PointerReadRpcs.pointer_resolve)
    /\ Has(Rpcs, "pointer_finality", PointerReadRpcs.pointer_finality)
    /\ Has(Rpcs, "pointer_controller", PointerReadRpcs.pointer_controller)
BY RpcsOf, RpcsHas, RpcsKeys DEF Has

LEMMA PointerSessionRpcsAt ==
    /\ Has(Rpcs, "pointer_prepare", PointerSessionRpcs.pointer_prepare)
    /\ Has(Rpcs, "pointer_finalize", PointerSessionRpcs.pointer_finalize)
BY RpcsOf, RpcsHas, RpcsKeys DEF Has

LEMMA ManifestRpcsAt ==
    /\ Has(Rpcs, "build_manifest", ManifestRpcs.build_manifest)
    /\ Has(Rpcs, "decode_manifest", ManifestRpcs.decode_manifest)
BY RpcsOf, RpcsHas, RpcsKeys DEF Has

-----------------------------------------------------------------------------
(* From a call to the steps of its handler: over REST,                     *)

\* A call of op has a route, it leads to the steps s.
Goes(op, via, s) ==
    op \in Ops(via) /\ Routed(op, via) /\ Script(op, via) = s

LEMMA DataCallsRoute ==
    /\ Has(Router, <<"GET", "/health">>, "health")
    /\ Has(Router, <<"POST", "/v1/data">>, "data_put")
    /\ Has(Router, <<"POST", "/v1/data/get">>, "data_get")
    /\ Has(Router, <<"POST", "/v1/data/public">>, "data_put_public")
    /\ Has(Router, <<"GET", "/v1/data/public/<addr>">>, "data_get_public")
BY RouteAt DEF Routes, Get, Post

LEMMA DataCallsGo ==
    /\ Goes("health", "rest", Health.health)
    /\ Goes("data_put", "rest", PrivateData.data_put)
    /\ Goes("data_get", "rest", PrivateData.data_get)
    /\ Goes("data_put_public", "rest", PublicData.data_put_public)
    /\ Goes("data_get_public", "rest", PublicData.data_get_public)
<1>1. Goes("health", "rest", Health.health)
  BY DataCallsAt, DataCallsRoute, HealthAt
     DEF DataCalls, Http, GetCall, PostCall, Goes, Has, Ops, Routed, Script, RestScript,
         RestRoute, Asked, Checks
<1>2. Goes("data_put", "rest", PrivateData.data_put)
  BY DataCallsAt, DataCallsRoute, PrivateDataAt
     DEF DataCalls, Http, GetCall, PostCall, Goes, Has, Ops, Routed, Script, RestScript,
         RestRoute, Asked, Checks
<1>3. Goes("data_get", "rest", PrivateData.data_get)
  BY DataCallsAt, DataCallsRoute, PrivateDataAt
     DEF DataCalls, Http, GetCall, PostCall, Goes, Has, Ops, Routed, Script, RestScript,
         RestRoute, Asked, Checks
<1>4. Goes("data_put_public", "rest", PublicData.data_put_public)
  BY DataCallsAt, DataCallsRoute, PublicDataAt
     DEF DataCalls, Http, GetCall, PostCall, Goes, Has, Ops, Routed, Script, RestScript,
         RestRoute, Asked, Checks
<1>5. Goes("data_get_public", "rest", PublicData.data_get_public)
  BY DataCallsAt, DataCallsRoute, PublicDataAt
     DEF DataCalls, Http, GetCall, PostCall, Goes, Has, Ops, Routed, Script, RestScript,
         RestRoute, Asked, Checks
<1> QED BY <1>1, <1>2, <1>3, <1>4, <1>5

LEMMA StreamCallsRoute ==
    /\ Has(Router, <<"POST", "/v1/data/stream">>, "data_stream")
    /\ Has(Router, <<"GET", "/v1/data/public/<addr>/stream">>, "data_stream_public")
BY RouteAt DEF Routes, Get, Post

LEMMA StreamCallsGo ==
    /\ Goes("data_stream", "rest", Streams.data_stream)
    /\ Goes("data_stream_public", "rest", Streams.data_stream_public)
    /\ Goes("data_stream_range", "rest", Streams.data_stream_range)
    /\ Goes("data_stream_public_range", "rest", Streams.data_stream_public_range)
<1>1. Goes("data_stream", "rest", Streams.data_stream)
  BY StreamCallsAt, StreamCallsRoute, StreamsAt
     DEF StreamCalls, Http, GetCall, PostCall, Ranged, Goes, Has, Ops, Routed, Script,
         RestScript, RestRoute, Asked, Checks
<1>2. Goes("data_stream_public", "rest", Streams.data_stream_public)
  BY StreamCallsAt, StreamCallsRoute, StreamsAt
     DEF StreamCalls, Http, GetCall, PostCall, Ranged, Goes, Has, Ops, Routed, Script,
         RestScript, RestRoute, Asked, Checks
<1>3. Goes("data_stream_range", "rest", Streams.data_stream_range)
  <2>1. /\ HttpCalls["data_stream_range"].verb = "POST"
        /\ HttpCalls["data_stream_range"].path = "/v1/data/stream"
        /\ HttpCalls["data_stream_range"].ranged = TRUE
        /\ HttpCalls["data_stream_range"].checks = <<Need("positive", "BadRequest")>>
    BY StreamCallsAt DEF StreamCalls, Has, Http, GetCall, PostCall, Ranged
  <2> QED BY <2>1, StreamCallsAt, StreamCallsRoute, StreamsAt
             DEF Goes, Has, Ops, Routed, Script, RestScript, RestRoute, Asked, RangeTwin,
                 Checks
<1>4. Goes("data_stream_public_range", "rest", Streams.data_stream_public_range)
  <2>1. /\ HttpCalls["data_stream_public_range"].verb = "GET"
        /\ HttpCalls["data_stream_public_range"].path = "/v1/data/public/<addr>/stream"
        /\ HttpCalls["data_stream_public_range"].ranged = TRUE
        /\ HttpCalls["data_stream_public_range"].checks = <<Need("positive", "BadRequest")>>
    BY StreamCallsAt DEF StreamCalls, Has, Http, GetCall, PostCall, Ranged
  <2> QED BY <2>1, StreamCallsAt, StreamCallsRoute, StreamsAt
             DEF Goes, Has, Ops, Routed, Script, RestScript, RestRoute, Asked, RangeTwin,
                 Checks
<1> QED BY <1>1, <1>2, <1>3, <1>4

LEMMA ProgressCallsRoute ==
    /\ Has(Router, <<"POST", "/v1/data/stream">>, "data_stream")
    /\ Has(Router, <<"GET", "/v1/data/public/<addr>/stream">>, "data_stream_public")
    /\ Has(Router, <<"POST", "/v1/data/cost">>, "data_cost")
    /\ Has(Router, <<"POST", "/v1/chunks">>, "chunk_put")
    /\ Has(Router, <<"GET", "/v1/chunks/<addr>">>, "chunk_get")
BY RouteAt DEF Routes, Get, Post

LEMMA ProgressCallsGo ==
    /\ Goes("data_stream_with_progress", "rest", Streams.data_stream)
    /\ Goes("data_stream_public_with_progress", "rest", Streams.data_stream_public)
    /\ Goes("data_cost", "rest", DataCost.data_cost)
    /\ Goes("chunk_put", "rest", Chunks.chunk_put)
    /\ Goes("chunk_get", "rest", Chunks.chunk_get)
<1>1. Goes("data_stream_with_progress", "rest", Streams.data_stream)
  BY ProgressCallsAt, ProgressCallsRoute, StreamsAt
     DEF ProgressCalls, Http, GetCall, PostCall, Goes, Has, Ops, Routed, Script, RestScript,
         RestRoute, Asked, Checks
<1>2. Goes("data_stream_public_with_progress", "rest", Streams.data_stream_public)
  BY ProgressCallsAt, ProgressCallsRoute, StreamsAt
     DEF ProgressCalls, Http, GetCall, PostCall, Goes, Has, Ops, Routed, Script, RestScript,
         RestRoute, Asked, Checks
<1>3. Goes("data_cost", "rest", DataCost.data_cost)
  BY ProgressCallsAt, ProgressCallsRoute, DataCostAt
     DEF ProgressCalls, Http, GetCall, PostCall, Goes, Has, Ops, Routed, Script, RestScript,
         RestRoute, Asked, Checks
<1>4. Goes("chunk_put", "rest", Chunks.chunk_put)
  BY ProgressCallsAt, ProgressCallsRoute, ChunksAt
     DEF ProgressCalls, Http, GetCall, PostCall, Goes, Has, Ops, Routed, Script, RestScript,
         RestRoute, Asked, Checks
<1>5. Goes("chunk_get", "rest", Chunks.chunk_get)
  BY ProgressCallsAt, ProgressCallsRoute, ChunksAt
     DEF ProgressCalls, Http, GetCall, PostCall, Goes, Has, Ops, Routed, Script, RestScript,
         RestRoute, Asked, Checks
<1> QED BY <1>1, <1>2, <1>3, <1>4, <1>5

LEMMA FileCallsRoute ==
    /\ Has(Router, <<"POST", "/v1/files">>, "file_put")
    /\ Has(Router, <<"POST", "/v1/files/get">>, "file_get")
    /\ Has(Router, <<"POST", "/v1/files/public">>, "file_put_public")
    /\ Has(Router, <<"POST", "/v1/files/public/get">>, "file_get_public")
    /\ Has(Router, <<"POST", "/v1/files/cost">>, "file_cost")
BY RouteAt DEF Routes, Get, Post

LEMMA FileCallsGo ==
    /\ Goes("file_put", "rest", FilePuts.file_put)
    /\ Goes("file_get", "rest", FileGets.file_get)
    /\ Goes("file_put_public", "rest", FilePuts.file_put_public)
    /\ Goes("file_get_public", "rest", FileGets.file_get_public)
    /\ Goes("file_cost", "rest", FileCost.file_cost)
<1>1. Goes("file_put", "rest", FilePuts.file_put)
  BY FileCallsAt, FileCallsRoute, FilePutsAt
     DEF FileCalls, Http, PostCall, Goes, Has, Ops, Routed, Script, RestScript, RestRoute,
         Asked, Checks
<1>2. Goes("file_get", "rest", FileGets.file_get)
  BY FileCallsAt, FileCallsRoute, FileGetsAt
     DEF FileCalls, Http, PostCall, Goes, Has, Ops, Routed, Script, RestScript, RestRoute,
         Asked, Checks
<1>3. Goes("file_put_public", "rest", FilePuts.file_put_public)
  BY FileCallsAt, FileCallsRoute, FilePutsAt
     DEF FileCalls, Http, PostCall, Goes, Has, Ops, Routed, Script, RestScript, RestRoute,
         Asked, Checks
<1>4. Goes("file_get_public", "rest", FileGets.file_get_public)
  BY FileCallsAt, FileCallsRoute, FileGetsAt
     DEF FileCalls, Http, PostCall, Goes, Has, Ops, Routed, Script, RestScript, RestRoute,
         Asked, Checks
<1>5. Goes("file_cost", "rest", FileCost.file_cost)
  BY FileCallsAt, FileCallsRoute, FileCostAt
     DEF FileCalls, Http, PostCall, Goes, Has, Ops, Routed, Script, RestScript, RestRoute,
         Asked, Checks
<1> QED BY <1>1, <1>2, <1>3, <1>4, <1>5

LEMMA WalletCallsOfSdkRoute ==
    /\ Has(Router, <<"GET", "/v1/wallet/address">>, "wallet_address")
    /\ Has(Router, <<"GET", "/v1/wallet/balance">>, "wallet_balance")
    /\ Has(Router, <<"POST", "/v1/wallet/approve">>, "wallet_approve")
BY RouteAt DEF Routes, Get, Post

LEMMA WalletCallsOfSdkGo ==
    /\ Goes("wallet_address", "rest", Wallet.wallet_address)
    /\ Goes("wallet_balance", "rest", Wallet.wallet_balance)
    /\ Goes("wallet_approve", "rest", Wallet.wallet_approve)
<1>1. Goes("wallet_address", "rest", Wallet.wallet_address)
  BY WalletCallsOfSdkAt, WalletCallsOfSdkRoute, WalletAt
     DEF WalletCallsOfSdk, Http, GetCall, PostCall, Goes, Has, Ops, Routed, Script,
         RestScript, RestRoute, Asked, Checks
<1>2. Goes("wallet_balance", "rest", Wallet.wallet_balance)
  BY WalletCallsOfSdkAt, WalletCallsOfSdkRoute, WalletAt
     DEF WalletCallsOfSdk, Http, GetCall, PostCall, Goes, Has, Ops, Routed, Script,
         RestScript, RestRoute, Asked, Checks
<1>3. Goes("wallet_approve", "rest", Wallet.wallet_approve)
  BY WalletCallsOfSdkAt, WalletCallsOfSdkRoute, WalletAt
     DEF WalletCallsOfSdk, Http, GetCall, PostCall, Goes, Has, Ops, Routed, Script,
         RestScript, RestRoute, Asked, Checks
<1> QED BY <1>1, <1>2, <1>3

LEMMA PrepareCallsRoute ==
    /\ Has(Router, <<"POST", "/v1/upload/prepare">>, "prepare_upload")
    /\ Has(Router, <<"POST", "/v1/data/prepare">>, "prepare_data_upload")
    /\ Has(Router, <<"POST", "/v1/verify/quotes">>, "verify_quotes")
BY RouteAt DEF Routes, Get, Post

LEMMA PrepareCallsGo ==
    /\ Goes("prepare_upload", "rest", UploadPrepares.prepare_upload)
    /\ Goes("prepare_upload_public", "rest", UploadPrepares.prepare_upload)
    /\ Goes("prepare_data_upload", "rest", UploadPrepares.prepare_data_upload)
    /\ Goes("verify_quotes", "rest", Verify.verify_quotes)
<1>1. Goes("prepare_upload", "rest", UploadPrepares.prepare_upload)
  BY PrepareCallsAt, PrepareCallsRoute, UploadPreparesAt
     DEF PrepareCalls, Http, PostCall, Goes, Has, Ops, Routed, Script, RestScript,
         RestRoute, Asked, Checks
<1>2. Goes("prepare_upload_public", "rest", UploadPrepares.prepare_upload)
  BY PrepareCallsAt, PrepareCallsRoute, UploadPreparesAt
     DEF PrepareCalls, Http, PostCall, Goes, Has, Ops, Routed, Script, RestScript,
         RestRoute, Asked, Checks
<1>3. Goes("prepare_data_upload", "rest", UploadPrepares.prepare_data_upload)
  BY PrepareCallsAt, PrepareCallsRoute, UploadPreparesAt
     DEF PrepareCalls, Http, PostCall, Goes, Has, Ops, Routed, Script, RestScript,
         RestRoute, Asked, Checks
<1>4. Goes("verify_quotes", "rest", Verify.verify_quotes)
  BY PrepareCallsAt, PrepareCallsRoute, VerifyAt
     DEF PrepareCalls, Http, PostCall, Goes, Has, Ops, Routed, Script, RestScript,
         RestRoute, Asked, Checks
<1> QED BY <1>1, <1>2, <1>3, <1>4

LEMMA FinalizeCallsRoute ==
    Has(Router, <<"POST", "/v1/upload/finalize">>, "finalize_upload")
BY RouteAt DEF Routes, Get, Post

LEMMA FinalizeCallsGo ==
    /\ Goes("finalize_upload", "rest", UploadFinalize.finalize_upload)
    /\ Goes("finalize_merkle_upload", "rest", UploadFinalize.finalize_upload)
<1>1. Goes("finalize_upload", "rest", UploadFinalize.finalize_upload)
  BY FinalizeCallsAt, FinalizeCallsRoute, UploadFinalizeAt
     DEF FinalizeCalls, Http, PostCall, Goes, Has, Ops, Routed, Script, RestScript,
         RestRoute, Asked, Checks
<1>2. Goes("finalize_merkle_upload", "rest", UploadFinalize.finalize_upload)
  BY FinalizeCallsAt, FinalizeCallsRoute, UploadFinalizeAt
     DEF FinalizeCalls, Http, PostCall, Goes, Has, Ops, Routed, Script, RestScript,
         RestRoute, Asked, Checks
<1> QED BY <1>1, <1>2

LEMMA ChunkSessionCallsRoute ==
    /\ Has(Router, <<"POST", "/v1/chunks/prepare">>, "chunk_prepare")
    /\ Has(Router, <<"POST", "/v1/chunks/finalize">>, "chunk_finalize")
BY RouteAt DEF Routes, Get, Post

LEMMA ChunkSessionCallsGo ==
    /\ Goes("prepare_chunk_upload", "rest", ChunkPrepare.chunk_prepare)
    /\ Goes("finalize_chunk_upload", "rest", ChunkFinalize.chunk_finalize)
<1>1. Goes("prepare_chunk_upload", "rest", ChunkPrepare.chunk_prepare)
  BY ChunkSessionCallsAt, ChunkSessionCallsRoute, ChunkPrepareAt
     DEF ChunkSessionCalls, Http, PostCall, Goes, Has, Ops, Routed, Script, RestScript,
         RestRoute, Asked, Checks
<1>2. Goes("finalize_chunk_upload", "rest", ChunkFinalize.chunk_finalize)
  BY ChunkSessionCallsAt, ChunkSessionCallsRoute, ChunkFinalizeAt
     DEF ChunkSessionCalls, Http, PostCall, Goes, Has, Ops, Routed, Script, RestScript,
         RestRoute, Asked, Checks
<1> QED BY <1>1, <1>2

LEMMA PointerWriteCallsRoute ==
    /\ Has(Router, <<"GET", "/v1/pointers/keys">>, "pointer_keys")
    /\ Has(Router, <<"POST", "/v1/pointers">>, "pointer_create")
    /\ Has(Router, <<"POST", "/v1/pointers/update">>, "pointer_update")
    /\ Has(Router, <<"POST", "/v1/pointers/transfer">>, "pointer_transfer")
BY RouteAt DEF Routes, Get, Post

LEMMA PointerWriteCallsGo ==
    /\ Goes("pointer_keys", "rest", PointerWriteHandlers.pointer_keys)
    /\ Goes("pointer_create", "rest", PointerWriteHandlers.pointer_create)
    /\ Goes("pointer_update", "rest", PointerWriteHandlers.pointer_update)
    /\ Goes("pointer_transfer", "rest", PointerWriteHandlers.pointer_transfer)
<1>1. Goes("pointer_keys", "rest", PointerWriteHandlers.pointer_keys)
  BY PointerWriteCallsAt, PointerWriteCallsRoute, PointerWriteHandlersAt
     DEF PointerWriteCalls, Http, GetCall, PostCall, Goes, Has, Ops, Routed, Script,
         RestScript, RestRoute, Asked, Checks
<1>2. Goes("pointer_create", "rest", PointerWriteHandlers.pointer_create)
  BY PointerWriteCallsAt, PointerWriteCallsRoute, PointerWriteHandlersAt
     DEF PointerWriteCalls, Http, GetCall, PostCall, Goes, Has, Ops, Routed, Script,
         RestScript, RestRoute, Asked, Checks
<1>3. Goes("pointer_update", "rest", PointerWriteHandlers.pointer_update)
  BY PointerWriteCallsAt, PointerWriteCallsRoute, PointerWriteHandlersAt
     DEF PointerWriteCalls, Http, GetCall, PostCall, Goes, Has, Ops, Routed, Script,
         RestScript, RestRoute, Asked, Checks
<1>4. Goes("pointer_transfer", "rest", PointerWriteHandlers.pointer_transfer)
  BY PointerWriteCallsAt, PointerWriteCallsRoute, PointerWriteHandlersAt
     DEF PointerWriteCalls, Http, GetCall, PostCall, Goes, Has, Ops, Routed, Script,
         RestScript, RestRoute, Asked, Checks
<1> QED BY <1>1, <1>2, <1>3, <1>4

LEMMA PointerReadCallsRoute ==
    /\ Has(Router, <<"GET", "/v1/pointers/<addr>">>, "pointer_get")
    /\ Has(Router, <<"GET", "/v1/pointers/<addr>/resolve">>, "pointer_resolve")
    /\ Has(Router, <<"GET", "/v1/pointers/<addr>/finality">>, "pointer_finality")
    /\ Has(Router, <<"GET", "/v1/pointers/<addr>/controller">>, "pointer_controller")
BY RouteAt DEF Routes, Get, Post

LEMMA PointerReadCallsGo ==
    /\ Goes("pointer_get", "rest", PointerReadHandlers.pointer_get)
    /\ Goes("pointer_resolve", "rest", PointerReadHandlers.pointer_resolve)
    /\ Goes("pointer_finality", "rest", PointerReadHandlers.pointer_finality)
    /\ Goes("pointer_controller", "rest", PointerReadHandlers.pointer_controller)
<1>1. Goes("pointer_get", "rest", PointerReadHandlers.pointer_get)
  BY PointerReadCallsAt, PointerReadCallsRoute, PointerReadHandlersAt
     DEF PointerReadCalls, Http, GetCall, Goes, Has, Ops, Routed, Script, RestScript,
         RestRoute, Asked, Checks
<1>2. Goes("pointer_resolve", "rest", PointerReadHandlers.pointer_resolve)
  BY PointerReadCallsAt, PointerReadCallsRoute, PointerReadHandlersAt
     DEF PointerReadCalls, Http, GetCall, Goes, Has, Ops, Routed, Script, RestScript,
         RestRoute, Asked, Checks
<1>3. Goes("pointer_finality", "rest", PointerReadHandlers.pointer_finality)
  BY PointerReadCallsAt, PointerReadCallsRoute, PointerReadHandlersAt
     DEF PointerReadCalls, Http, GetCall, Goes, Has, Ops, Routed, Script, RestScript,
         RestRoute, Asked, Checks
<1>4. Goes("pointer_controller", "rest", PointerReadHandlers.pointer_controller)
  BY PointerReadCallsAt, PointerReadCallsRoute, PointerReadHandlersAt
     DEF PointerReadCalls, Http, GetCall, Goes, Has, Ops, Routed, Script, RestScript,
         RestRoute, Asked, Checks
<1> QED BY <1>1, <1>2, <1>3, <1>4

LEMMA PointerSessionCallsRoute ==
    /\ Has(Router, <<"POST", "/v1/pointers/prepare">>, "pointer_prepare")
    /\ Has(Router, <<"POST", "/v1/pointers/finalize">>, "pointer_finalize")
BY RouteAt DEF Routes, Get, Post

LEMMA PointerSessionCallsGo ==
    /\ Goes("pointer_prepare", "rest", PointerSessionHandlers.pointer_prepare)
    /\ Goes("pointer_finalize", "rest", PointerSessionHandlers.pointer_finalize)
<1>1. Goes("pointer_prepare", "rest", PointerSessionHandlers.pointer_prepare)
  BY PointerSessionCallsAt, PointerSessionCallsRoute, PointerSessionHandlersAt
     DEF PointerSessionCalls, Http, PostCall, Goes, Has, Ops, Routed, Script, RestScript,
         RestRoute, Asked, Checks
<1>2. Goes("pointer_finalize", "rest", PointerSessionHandlers.pointer_finalize)
  BY PointerSessionCallsAt, PointerSessionCallsRoute, PointerSessionHandlersAt
     DEF PointerSessionCalls, Http, PostCall, Goes, Has, Ops, Routed, Script, RestScript,
         RestRoute, Asked, Checks
<1> QED BY <1>1, <1>2

LEMMA ManifestCallsRoute ==
    /\ Has(Router, <<"POST", "/v1/manifests/build">>, "manifest_build")
    /\ Has(Router, <<"POST", "/v1/manifests/decode">>, "manifest_decode")
BY RouteAt DEF Routes, Get, Post

LEMMA ManifestCallsGo ==
    /\ Goes("build_manifest", "rest", Manifests.manifest_build)
    /\ Goes("decode_manifest", "rest", Manifests.manifest_decode)
<1>1. Goes("build_manifest", "rest", Manifests.manifest_build)
  BY ManifestCallsAt, ManifestCallsRoute, ManifestsAt
     DEF ManifestCalls, Http, Checked, PostCall, Goes, Has, Ops, Routed, Script, RestScript,
         RestRoute, Asked, Checks
<1>2. Goes("decode_manifest", "rest", Manifests.manifest_decode)
  BY ManifestCallsAt, ManifestCallsRoute, ManifestsAt
     DEF ManifestCalls, Http, Checked, PostCall, Goes, Has, Ops, Routed, Script, RestScript,
         RestRoute, Asked, Checks
<1> QED BY <1>1, <1>2

-----------------------------------------------------------------------------
(* over gRPC,                                                              *)

\* The stub of a method sends it where the dispatch knows it as the same method.
Dispatched(service, method) ==
    LET path == Stubs[service][method]
    IN  path \in DOMAIN Dispatch[service] /\ Dispatch[service][path].method = method

\* The call of op is a method of a stub, for the whole object.
RpcIs(op, service, method) ==
    /\ op \in DOMAIN Rpcs /\ Rpcs[op].service = service /\ Rpcs[op].method = method
    /\ Rpcs[op].ranged = FALSE

LEMMA RpcGoes ==
    ASSUME NEW op, NEW service, NEW method, RpcIs(op, service, method),
           Dispatched(service, method), NEW s, GrpcScripts[service][method] = s
    PROVE  Goes(op, "grpc", s)
BY DEF RpcIs, Dispatched, Goes, Ops, Routed, Script, GrpcScript, GrpcPath, Asked, Checks

LEMMA HealthDispatchAt ==
    /\ DOMAIN HealthDispatch = {"HealthService/Check"}
    /\ HealthDispatch["HealthService/Check"].method = "check"
BY DEF HealthDispatch, Table, Unary, Streaming

LEMMA HealthServiceDispatched ==
    Dispatched("HealthService", "check")
BY HealthDispatchAt DEF Dispatched, Stubs, HealthStub, Dispatch

LEMMA HealthServiceScripts ==
    GrpcScripts["HealthService"]["check"] = HealthHandlers.check
BY DEF GrpcScripts

LEMMA DataPutDispatchAt ==
    /\ DOMAIN DataPutDispatch = {"DataService/Put", "DataService/PutPublic"}
    /\ DataPutDispatch["DataService/Put"].method = "put"
    /\ DataPutDispatch["DataService/PutPublic"].method = "put_public"
BY DEF DataPutDispatch, Table, Unary, Streaming

LEMMA DataGetDispatchAt ==
    /\ DOMAIN DataGetDispatch = {"DataService/Get", "DataService/GetPublic"}
    /\ DataGetDispatch["DataService/Get"].method = "get"
    /\ DataGetDispatch["DataService/GetPublic"].method = "get_public"
BY DEF DataGetDispatch, Table, Unary, Streaming

LEMMA DataStreamDispatchAt ==
    /\ DOMAIN DataStreamDispatch = {"DataService/Stream", "DataService/StreamPublic"}
    /\ DataStreamDispatch["DataService/Stream"].method = "stream"
    /\ DataStreamDispatch["DataService/StreamPublic"].method = "stream_public"
BY DEF DataStreamDispatch, Table, Unary, Streaming

LEMMA DataCostDispatchAt ==
    /\ DOMAIN DataCostDispatch = {"DataService/Cost"}
    /\ DataCostDispatch["DataService/Cost"].method = "cost"
BY DEF DataCostDispatch, Table, Unary, Streaming

LEMMA DataServiceDispatched ==
    /\ Dispatched("DataService", "put")
    /\ Dispatched("DataService", "put_public")
    /\ Dispatched("DataService", "get")
    /\ Dispatched("DataService", "get_public")
    /\ Dispatched("DataService", "stream")
    /\ Dispatched("DataService", "stream_public")
    /\ Dispatched("DataService", "cost")
<1> DEFINE tables == {DataPutDispatch, DataGetDispatch, DataStreamDispatch, DataCostDispatch}
<1>1. Dispatch["DataService"] = Joined(tables)
  BY DEF Dispatch
<1>2. \A p \in DOMAIN Joined(tables) :
        \/ p \in DOMAIN DataPutDispatch /\ Joined(tables)[p] = DataPutDispatch[p]
        \/ p \in DOMAIN DataGetDispatch /\ Joined(tables)[p] = DataGetDispatch[p]
        \/ p \in DOMAIN DataStreamDispatch /\ Joined(tables)[p] = DataStreamDispatch[p]
        \/ p \in DOMAIN DataCostDispatch /\ Joined(tables)[p] = DataCostDispatch[p]
  BY JoinedOf
<1>3. /\ DOMAIN DataPutDispatch \subseteq DOMAIN Joined(tables)
      /\ DOMAIN DataGetDispatch \subseteq DOMAIN Joined(tables)
      /\ DOMAIN DataStreamDispatch \subseteq DOMAIN Joined(tables)
      /\ DOMAIN DataCostDispatch \subseteq DOMAIN Joined(tables)
  BY JoinedHas
<1> HIDE DEF tables
<1>4. Dispatched("DataService", "put")
  <2>1. Stubs["DataService"]["put"] = "DataService/Put"
    BY DEF Stubs, DataStub
  <2> QED BY <1>1, <1>2, <1>3, <2>1, DataPutDispatchAt, DataGetDispatchAt,
             DataStreamDispatchAt, DataCostDispatchAt DEF Dispatched
<1>5. Dispatched("DataService", "put_public")
  <2>1. Stubs["DataService"]["put_public"] = "DataService/PutPublic"
    BY DEF Stubs, DataStub
  <2> QED BY <1>1, <1>2, <1>3, <2>1, DataPutDispatchAt, DataGetDispatchAt,
             DataStreamDispatchAt, DataCostDispatchAt DEF Dispatched
<1>6. Dispatched("DataService", "get")
  <2>1. Stubs["DataService"]["get"] = "DataService/Get"
    BY DEF Stubs, DataStub
  <2> QED BY <1>1, <1>2, <1>3, <2>1, DataPutDispatchAt, DataGetDispatchAt,
             DataStreamDispatchAt, DataCostDispatchAt DEF Dispatched
<1>7. Dispatched("DataService", "get_public")
  <2>1. Stubs["DataService"]["get_public"] = "DataService/GetPublic"
    BY DEF Stubs, DataStub
  <2> QED BY <1>1, <1>2, <1>3, <2>1, DataPutDispatchAt, DataGetDispatchAt,
             DataStreamDispatchAt, DataCostDispatchAt DEF Dispatched
<1>8. Dispatched("DataService", "stream")
  <2>1. Stubs["DataService"]["stream"] = "DataService/Stream"
    BY DEF Stubs, DataStub
  <2> QED BY <1>1, <1>2, <1>3, <2>1, DataPutDispatchAt, DataGetDispatchAt,
             DataStreamDispatchAt, DataCostDispatchAt DEF Dispatched
<1>9. Dispatched("DataService", "stream_public")
  <2>1. Stubs["DataService"]["stream_public"] = "DataService/StreamPublic"
    BY DEF Stubs, DataStub
  <2> QED BY <1>1, <1>2, <1>3, <2>1, DataPutDispatchAt, DataGetDispatchAt,
             DataStreamDispatchAt, DataCostDispatchAt DEF Dispatched
<1>10. Dispatched("DataService", "cost")
  <2>1. Stubs["DataService"]["cost"] = "DataService/Cost"
    BY DEF Stubs, DataStub
  <2> QED BY <1>1, <1>2, <1>3, <2>1, DataPutDispatchAt, DataGetDispatchAt,
             DataStreamDispatchAt, DataCostDispatchAt DEF Dispatched
<1> QED BY <1>4, <1>5, <1>6, <1>7, <1>8, <1>9, <1>10

LEMMA DataServiceScripts ==
    /\ GrpcScripts["DataService"]["get_public"] = DataPublicHandlers.get_public
    /\ GrpcScripts["DataService"]["put_public"] = DataPublicHandlers.put_public
    /\ GrpcScripts["DataService"]["stream"] = DataStreamHandlers.stream
    /\ GrpcScripts["DataService"]["stream_range"] = DataStreamHandlers.stream_range
    /\ GrpcScripts["DataService"]["stream_public"] = DataStreamHandlers.stream_public
    /\ GrpcScripts["DataService"]["stream_public_range"]
           = DataStreamHandlers.stream_public_range
    /\ GrpcScripts["DataService"]["get"] = DataPrivateHandlers.get
    /\ GrpcScripts["DataService"]["put"] = DataPrivateHandlers.put
    /\ GrpcScripts["DataService"]["cost"] = DataCostHandler.cost
<1> DEFINE tables == {DataPublicHandlers, DataStreamHandlers, DataPrivateHandlers,
                        DataCostHandler}
<1>1. GrpcScripts["DataService"] = Joined(tables)
  BY DEF GrpcScripts
<1>2. \A h \in DOMAIN Joined(tables) :
        \/ h \in DOMAIN DataPublicHandlers /\ Joined(tables)[h] = DataPublicHandlers[h]
        \/ h \in DOMAIN DataStreamHandlers /\ Joined(tables)[h] = DataStreamHandlers[h]
        \/ h \in DOMAIN DataPrivateHandlers /\ Joined(tables)[h] = DataPrivateHandlers[h]
        \/ h \in DOMAIN DataCostHandler /\ Joined(tables)[h] = DataCostHandler[h]
  BY JoinedOf
<1>3. /\ DOMAIN DataPublicHandlers \subseteq DOMAIN Joined(tables)
      /\ DOMAIN DataStreamHandlers \subseteq DOMAIN Joined(tables)
      /\ DOMAIN DataPrivateHandlers \subseteq DOMAIN Joined(tables)
      /\ DOMAIN DataCostHandler \subseteq DOMAIN Joined(tables)
  BY JoinedHas
<1>4. /\ DOMAIN DataPublicHandlers = {"get_public", "put_public"}
      /\ DOMAIN DataStreamHandlers
             = {"stream", "stream_range", "stream_public", "stream_public_range"}
      /\ DOMAIN DataPrivateHandlers = {"get", "put"}
      /\ DOMAIN DataCostHandler = {"cost"}
  BY DEF DataPublicHandlers, DataStreamHandlers, DataPrivateHandlers, DataCostHandler
<1> HIDE DEF tables
<1> QED BY <1>1, <1>2, <1>3, <1>4

LEMMA ChunkDispatchAt ==
    /\ DOMAIN ChunkDispatch = {"ChunkService/Get", "ChunkService/Put"}
    /\ ChunkDispatch["ChunkService/Get"].method = "get"
    /\ ChunkDispatch["ChunkService/Put"].method = "put"
BY DEF ChunkDispatch, Table, Unary, Streaming

LEMMA ChunkSessionDispatchAt ==
    /\ DOMAIN ChunkSessionDispatch = {"ChunkService/PrepareChunk",
            "ChunkService/FinalizeChunk"}
    /\ ChunkSessionDispatch["ChunkService/PrepareChunk"].method = "prepare_chunk"
    /\ ChunkSessionDispatch["ChunkService/FinalizeChunk"].method = "finalize_chunk"
BY DEF ChunkSessionDispatch, Table, Unary, Streaming

LEMMA ChunkServiceDispatched ==
    /\ Dispatched("ChunkService", "get")
    /\ Dispatched("ChunkService", "put")
    /\ Dispatched("ChunkService", "prepare_chunk")
    /\ Dispatched("ChunkService", "finalize_chunk")
<1> DEFINE tables == {ChunkDispatch, ChunkSessionDispatch}
<1>1. Dispatch["ChunkService"] = Joined(tables)
  BY DEF Dispatch
<1>2. \A p \in DOMAIN Joined(tables) :
        \/ p \in DOMAIN ChunkDispatch /\ Joined(tables)[p] = ChunkDispatch[p]
        \/ p \in DOMAIN ChunkSessionDispatch /\ Joined(tables)[p] = ChunkSessionDispatch[p]
  BY JoinedOf
<1>3. /\ DOMAIN ChunkDispatch \subseteq DOMAIN Joined(tables)
      /\ DOMAIN ChunkSessionDispatch \subseteq DOMAIN Joined(tables)
  BY JoinedHas
<1> HIDE DEF tables
<1>4. Dispatched("ChunkService", "get")
  <2>1. Stubs["ChunkService"]["get"] = "ChunkService/Get"
    BY DEF Stubs, ChunkStub
  <2> QED BY <1>1, <1>2, <1>3, <2>1, ChunkDispatchAt, ChunkSessionDispatchAt DEF Dispatched
<1>5. Dispatched("ChunkService", "put")
  <2>1. Stubs["ChunkService"]["put"] = "ChunkService/Put"
    BY DEF Stubs, ChunkStub
  <2> QED BY <1>1, <1>2, <1>3, <2>1, ChunkDispatchAt, ChunkSessionDispatchAt DEF Dispatched
<1>6. Dispatched("ChunkService", "prepare_chunk")
  <2>1. Stubs["ChunkService"]["prepare_chunk"] = "ChunkService/PrepareChunk"
    BY DEF Stubs, ChunkStub
  <2> QED BY <1>1, <1>2, <1>3, <2>1, ChunkDispatchAt, ChunkSessionDispatchAt DEF Dispatched
<1>7. Dispatched("ChunkService", "finalize_chunk")
  <2>1. Stubs["ChunkService"]["finalize_chunk"] = "ChunkService/FinalizeChunk"
    BY DEF Stubs, ChunkStub
  <2> QED BY <1>1, <1>2, <1>3, <2>1, ChunkDispatchAt, ChunkSessionDispatchAt DEF Dispatched
<1> QED BY <1>4, <1>5, <1>6, <1>7

LEMMA ChunkServiceScripts ==
    /\ GrpcScripts["ChunkService"]["get"] = ChunkHandlers.get
    /\ GrpcScripts["ChunkService"]["put"] = ChunkHandlers.put
    /\ GrpcScripts["ChunkService"]["prepare_chunk"] = ChunkPrepareHandler.prepare_chunk
    /\ GrpcScripts["ChunkService"]["finalize_chunk"] = ChunkFinalizeHandler.finalize_chunk
<1> DEFINE tables == {ChunkHandlers, ChunkPrepareHandler, ChunkFinalizeHandler}
<1>1. GrpcScripts["ChunkService"] = Joined(tables)
  BY DEF GrpcScripts
<1>2. \A h \in DOMAIN Joined(tables) :
        \/ h \in DOMAIN ChunkHandlers /\ Joined(tables)[h] = ChunkHandlers[h]
        \/ h \in DOMAIN ChunkPrepareHandler /\ Joined(tables)[h] = ChunkPrepareHandler[h]
        \/ h \in DOMAIN ChunkFinalizeHandler /\ Joined(tables)[h] = ChunkFinalizeHandler[h]
  BY JoinedOf
<1>3. /\ DOMAIN ChunkHandlers \subseteq DOMAIN Joined(tables)
      /\ DOMAIN ChunkPrepareHandler \subseteq DOMAIN Joined(tables)
      /\ DOMAIN ChunkFinalizeHandler \subseteq DOMAIN Joined(tables)
  BY JoinedHas
<1>4. /\ DOMAIN ChunkHandlers = {"get", "put"}
      /\ DOMAIN ChunkPrepareHandler = {"prepare_chunk"}
      /\ DOMAIN ChunkFinalizeHandler = {"finalize_chunk"}
  BY DEF ChunkHandlers, ChunkPrepareHandler, ChunkFinalizeHandler
<1> HIDE DEF tables
<1> QED BY <1>1, <1>2, <1>3, <1>4

LEMMA FilePutDispatchAt ==
    /\ DOMAIN FilePutDispatch = {"FileService/Put", "FileService/PutPublic"}
    /\ FilePutDispatch["FileService/Put"].method = "put"
    /\ FilePutDispatch["FileService/PutPublic"].method = "put_public"
BY DEF FilePutDispatch, Table, Unary, Streaming

LEMMA FileGetDispatchAt ==
    /\ DOMAIN FileGetDispatch = {"FileService/Get", "FileService/GetPublic",
            "FileService/Cost"}
    /\ FileGetDispatch["FileService/Get"].method = "get"
    /\ FileGetDispatch["FileService/GetPublic"].method = "get_public"
    /\ FileGetDispatch["FileService/Cost"].method = "cost"
BY DEF FileGetDispatch, Table, Unary, Streaming

LEMMA FileServiceDispatched ==
    /\ Dispatched("FileService", "put")
    /\ Dispatched("FileService", "put_public")
    /\ Dispatched("FileService", "get")
    /\ Dispatched("FileService", "get_public")
    /\ Dispatched("FileService", "cost")
<1> DEFINE tables == {FilePutDispatch, FileGetDispatch}
<1>1. Dispatch["FileService"] = Joined(tables)
  BY DEF Dispatch
<1>2. \A p \in DOMAIN Joined(tables) :
        \/ p \in DOMAIN FilePutDispatch /\ Joined(tables)[p] = FilePutDispatch[p]
        \/ p \in DOMAIN FileGetDispatch /\ Joined(tables)[p] = FileGetDispatch[p]
  BY JoinedOf
<1>3. /\ DOMAIN FilePutDispatch \subseteq DOMAIN Joined(tables)
      /\ DOMAIN FileGetDispatch \subseteq DOMAIN Joined(tables)
  BY JoinedHas
<1> HIDE DEF tables
<1>4. Dispatched("FileService", "put")
  <2>1. Stubs["FileService"]["put"] = "FileService/Put"
    BY DEF Stubs, FileStub
  <2> QED BY <1>1, <1>2, <1>3, <2>1, FilePutDispatchAt, FileGetDispatchAt DEF Dispatched
<1>5. Dispatched("FileService", "put_public")
  <2>1. Stubs["FileService"]["put_public"] = "FileService/PutPublic"
    BY DEF Stubs, FileStub
  <2> QED BY <1>1, <1>2, <1>3, <2>1, FilePutDispatchAt, FileGetDispatchAt DEF Dispatched
<1>6. Dispatched("FileService", "get")
  <2>1. Stubs["FileService"]["get"] = "FileService/Get"
    BY DEF Stubs, FileStub
  <2> QED BY <1>1, <1>2, <1>3, <2>1, FilePutDispatchAt, FileGetDispatchAt DEF Dispatched
<1>7. Dispatched("FileService", "get_public")
  <2>1. Stubs["FileService"]["get_public"] = "FileService/GetPublic"
    BY DEF Stubs, FileStub
  <2> QED BY <1>1, <1>2, <1>3, <2>1, FilePutDispatchAt, FileGetDispatchAt DEF Dispatched
<1>8. Dispatched("FileService", "cost")
  <2>1. Stubs["FileService"]["cost"] = "FileService/Cost"
    BY DEF Stubs, FileStub
  <2> QED BY <1>1, <1>2, <1>3, <2>1, FilePutDispatchAt, FileGetDispatchAt DEF Dispatched
<1> QED BY <1>4, <1>5, <1>6, <1>7, <1>8

LEMMA FileServiceScripts ==
    /\ GrpcScripts["FileService"]["put"] = FilePutHandlers.put
    /\ GrpcScripts["FileService"]["put_public"] = FilePutHandlers.put_public
    /\ GrpcScripts["FileService"]["get"] = FileGetHandlers.get
    /\ GrpcScripts["FileService"]["get_public"] = FileGetHandlers.get_public
    /\ GrpcScripts["FileService"]["cost"] = FileCostHandler.cost
<1> DEFINE tables == {FilePutHandlers, FileGetHandlers, FileCostHandler}
<1>1. GrpcScripts["FileService"] = Joined(tables)
  BY DEF GrpcScripts
<1>2. \A h \in DOMAIN Joined(tables) :
        \/ h \in DOMAIN FilePutHandlers /\ Joined(tables)[h] = FilePutHandlers[h]
        \/ h \in DOMAIN FileGetHandlers /\ Joined(tables)[h] = FileGetHandlers[h]
        \/ h \in DOMAIN FileCostHandler /\ Joined(tables)[h] = FileCostHandler[h]
  BY JoinedOf
<1>3. /\ DOMAIN FilePutHandlers \subseteq DOMAIN Joined(tables)
      /\ DOMAIN FileGetHandlers \subseteq DOMAIN Joined(tables)
      /\ DOMAIN FileCostHandler \subseteq DOMAIN Joined(tables)
  BY JoinedHas
<1>4. /\ DOMAIN FilePutHandlers = {"put", "put_public"}
      /\ DOMAIN FileGetHandlers = {"get", "get_public"}
      /\ DOMAIN FileCostHandler = {"cost"}
  BY DEF FilePutHandlers, FileGetHandlers, FileCostHandler
<1> HIDE DEF tables
<1> QED BY <1>1, <1>2, <1>3, <1>4

LEMMA UploadDispatchAt ==
    /\ DOMAIN UploadDispatch = {"UploadService/PrepareFileUpload",
            "UploadService/PrepareDataUpload", "UploadService/FinalizeUpload"}
    /\ UploadDispatch["UploadService/PrepareFileUpload"].method = "prepare_file_upload"
    /\ UploadDispatch["UploadService/PrepareDataUpload"].method = "prepare_data_upload"
    /\ UploadDispatch["UploadService/FinalizeUpload"].method = "finalize_upload"
BY DEF UploadDispatch, Table, Unary, Streaming

LEMMA UploadServiceDispatched ==
    /\ Dispatched("UploadService", "prepare_file_upload")
    /\ Dispatched("UploadService", "prepare_data_upload")
    /\ Dispatched("UploadService", "finalize_upload")
BY UploadDispatchAt DEF Dispatched, Stubs, UploadStub, Dispatch

LEMMA UploadServiceScripts ==
    /\ GrpcScripts["UploadService"]["prepare_file_upload"]
           = UploadPrepareHandlers.prepare_file_upload
    /\ GrpcScripts["UploadService"]["prepare_data_upload"]
           = UploadPrepareHandlers.prepare_data_upload
    /\ GrpcScripts["UploadService"]["finalize_upload"] = UploadFinalizeHandler.finalize_upload
<1> DEFINE tables == {UploadPrepareHandlers, UploadFinalizeHandler}
<1>1. GrpcScripts["UploadService"] = Joined(tables)
  BY DEF GrpcScripts
<1>2. \A h \in DOMAIN Joined(tables) :
        \/ h \in DOMAIN UploadPrepareHandlers /\ Joined(tables)[h] = UploadPrepareHandlers[h]
        \/ h \in DOMAIN UploadFinalizeHandler /\ Joined(tables)[h] = UploadFinalizeHandler[h]
  BY JoinedOf
<1>3. /\ DOMAIN UploadPrepareHandlers \subseteq DOMAIN Joined(tables)
      /\ DOMAIN UploadFinalizeHandler \subseteq DOMAIN Joined(tables)
  BY JoinedHas
<1>4. /\ DOMAIN UploadPrepareHandlers = {"prepare_file_upload", "prepare_data_upload"}
      /\ DOMAIN UploadFinalizeHandler = {"finalize_upload"}
  BY DEF UploadPrepareHandlers, UploadFinalizeHandler
<1> HIDE DEF tables
<1> QED BY <1>1, <1>2, <1>3, <1>4

LEMMA WalletDispatchAt ==
    /\ DOMAIN WalletDispatch = {"WalletService/GetAddress", "WalletService/GetBalance",
            "WalletService/Approve"}
    /\ WalletDispatch["WalletService/GetAddress"].method = "get_address"
    /\ WalletDispatch["WalletService/GetBalance"].method = "get_balance"
    /\ WalletDispatch["WalletService/Approve"].method = "approve"
BY DEF WalletDispatch, Table, Unary, Streaming

LEMMA WalletServiceDispatched ==
    /\ Dispatched("WalletService", "get_address")
    /\ Dispatched("WalletService", "get_balance")
    /\ Dispatched("WalletService", "approve")
BY WalletDispatchAt DEF Dispatched, Stubs, WalletStub, Dispatch

LEMMA WalletServiceScripts ==
    /\ GrpcScripts["WalletService"]["get_address"] = WalletHandlers.get_address
    /\ GrpcScripts["WalletService"]["get_balance"] = WalletHandlers.get_balance
    /\ GrpcScripts["WalletService"]["approve"] = WalletHandlers.approve
BY DEF GrpcScripts

LEMMA VerifyDispatchAt ==
    /\ DOMAIN VerifyDispatch = {"VerifyService/VerifyQuotes"}
    /\ VerifyDispatch["VerifyService/VerifyQuotes"].method = "verify_quotes"
BY DEF VerifyDispatch, Table, Unary, Streaming

LEMMA VerifyServiceDispatched ==
    Dispatched("VerifyService", "verify_quotes")
BY VerifyDispatchAt DEF Dispatched, Stubs, VerifyStub, Dispatch

LEMMA VerifyServiceScripts ==
    GrpcScripts["VerifyService"]["verify_quotes"] = VerifyHandlers.verify_quotes
BY DEF GrpcScripts

LEMMA PointerWriteDispatchAt ==
    /\ DOMAIN PointerWriteDispatch = {"PointerService/Create", "PointerService/Update",
            "PointerService/Transfer"}
    /\ PointerWriteDispatch["PointerService/Create"].method = "create"
    /\ PointerWriteDispatch["PointerService/Update"].method = "update"
    /\ PointerWriteDispatch["PointerService/Transfer"].method = "transfer"
BY DEF PointerWriteDispatch, Table, Unary, Streaming

LEMMA PointerReadDispatchAt ==
    /\ DOMAIN PointerReadDispatch = {"PointerService/Get", "PointerService/Resolve",
            "PointerService/Finality"}
    /\ PointerReadDispatch["PointerService/Get"].method = "get"
    /\ PointerReadDispatch["PointerService/Resolve"].method = "resolve"
    /\ PointerReadDispatch["PointerService/Finality"].method = "finality"
BY DEF PointerReadDispatch, Table, Unary, Streaming

LEMMA PointerOtherDispatchAt ==
    /\ DOMAIN PointerOtherDispatch = {"PointerService/Controller", "PointerService/Prepare",
            "PointerService/Finalize"}
    /\ PointerOtherDispatch["PointerService/Controller"].method = "controller"
    /\ PointerOtherDispatch["PointerService/Prepare"].method = "prepare"
    /\ PointerOtherDispatch["PointerService/Finalize"].method = "finalize"
BY DEF PointerOtherDispatch, Table, Unary, Streaming

LEMMA PointerKeysDispatchAt ==
    /\ DOMAIN PointerKeysDispatch = {"PointerService/ListKeys"}
    /\ PointerKeysDispatch["PointerService/ListKeys"].method = "list_keys"
BY DEF PointerKeysDispatch, Table, Unary, Streaming

LEMMA PointerServiceDispatched ==
    /\ Dispatched("PointerService", "list_keys")
    /\ Dispatched("PointerService", "create")
    /\ Dispatched("PointerService", "update")
    /\ Dispatched("PointerService", "transfer")
    /\ Dispatched("PointerService", "get")
    /\ Dispatched("PointerService", "resolve")
    /\ Dispatched("PointerService", "finality")
    /\ Dispatched("PointerService", "controller")
    /\ Dispatched("PointerService", "prepare")
    /\ Dispatched("PointerService", "finalize")
<1> DEFINE tables == {PointerWriteDispatch, PointerReadDispatch, PointerOtherDispatch,
                        PointerKeysDispatch}
<1>1. Dispatch["PointerService"] = Joined(tables)
  BY DEF Dispatch
<1>2. \A p \in DOMAIN Joined(tables) :
        \/ p \in DOMAIN PointerWriteDispatch /\ Joined(tables)[p] = PointerWriteDispatch[p]
        \/ p \in DOMAIN PointerReadDispatch /\ Joined(tables)[p] = PointerReadDispatch[p]
        \/ p \in DOMAIN PointerOtherDispatch /\ Joined(tables)[p] = PointerOtherDispatch[p]
        \/ p \in DOMAIN PointerKeysDispatch /\ Joined(tables)[p] = PointerKeysDispatch[p]
  BY JoinedOf
<1>3. /\ DOMAIN PointerWriteDispatch \subseteq DOMAIN Joined(tables)
      /\ DOMAIN PointerReadDispatch \subseteq DOMAIN Joined(tables)
      /\ DOMAIN PointerOtherDispatch \subseteq DOMAIN Joined(tables)
      /\ DOMAIN PointerKeysDispatch \subseteq DOMAIN Joined(tables)
  BY JoinedHas
<1> HIDE DEF tables
<1>4. Dispatched("PointerService", "list_keys")
  <2>1. Stubs["PointerService"]["list_keys"] = "PointerService/ListKeys"
    BY DEF Stubs, PointerStub
  <2> QED BY <1>1, <1>2, <1>3, <2>1, PointerWriteDispatchAt, PointerReadDispatchAt,
             PointerOtherDispatchAt, PointerKeysDispatchAt DEF Dispatched
<1>5. Dispatched("PointerService", "create")
  <2>1. Stubs["PointerService"]["create"] = "PointerService/Create"
    BY DEF Stubs, PointerStub
  <2> QED BY <1>1, <1>2, <1>3, <2>1, PointerWriteDispatchAt, PointerReadDispatchAt,
             PointerOtherDispatchAt, PointerKeysDispatchAt DEF Dispatched
<1>6. Dispatched("PointerService", "update")
  <2>1. Stubs["PointerService"]["update"] = "PointerService/Update"
    BY DEF Stubs, PointerStub
  <2> QED BY <1>1, <1>2, <1>3, <2>1, PointerWriteDispatchAt, PointerReadDispatchAt,
             PointerOtherDispatchAt, PointerKeysDispatchAt DEF Dispatched
<1>7. Dispatched("PointerService", "transfer")
  <2>1. Stubs["PointerService"]["transfer"] = "PointerService/Transfer"
    BY DEF Stubs, PointerStub
  <2> QED BY <1>1, <1>2, <1>3, <2>1, PointerWriteDispatchAt, PointerReadDispatchAt,
             PointerOtherDispatchAt, PointerKeysDispatchAt DEF Dispatched
<1>8. Dispatched("PointerService", "get")
  <2>1. Stubs["PointerService"]["get"] = "PointerService/Get"
    BY DEF Stubs, PointerStub
  <2> QED BY <1>1, <1>2, <1>3, <2>1, PointerWriteDispatchAt, PointerReadDispatchAt,
             PointerOtherDispatchAt, PointerKeysDispatchAt DEF Dispatched
<1>9. Dispatched("PointerService", "resolve")
  <2>1. Stubs["PointerService"]["resolve"] = "PointerService/Resolve"
    BY DEF Stubs, PointerStub
  <2> QED BY <1>1, <1>2, <1>3, <2>1, PointerWriteDispatchAt, PointerReadDispatchAt,
             PointerOtherDispatchAt, PointerKeysDispatchAt DEF Dispatched
<1>10. Dispatched("PointerService", "finality")
  <2>1. Stubs["PointerService"]["finality"] = "PointerService/Finality"
    BY DEF Stubs, PointerStub
  <2> QED BY <1>1, <1>2, <1>3, <2>1, PointerWriteDispatchAt, PointerReadDispatchAt,
             PointerOtherDispatchAt, PointerKeysDispatchAt DEF Dispatched
<1>11. Dispatched("PointerService", "controller")
  <2>1. Stubs["PointerService"]["controller"] = "PointerService/Controller"
    BY DEF Stubs, PointerStub
  <2> QED BY <1>1, <1>2, <1>3, <2>1, PointerWriteDispatchAt, PointerReadDispatchAt,
             PointerOtherDispatchAt, PointerKeysDispatchAt DEF Dispatched
<1>12. Dispatched("PointerService", "prepare")
  <2>1. Stubs["PointerService"]["prepare"] = "PointerService/Prepare"
    BY DEF Stubs, PointerStub
  <2> QED BY <1>1, <1>2, <1>3, <2>1, PointerWriteDispatchAt, PointerReadDispatchAt,
             PointerOtherDispatchAt, PointerKeysDispatchAt DEF Dispatched
<1>13. Dispatched("PointerService", "finalize")
  <2>1. Stubs["PointerService"]["finalize"] = "PointerService/Finalize"
    BY DEF Stubs, PointerStub
  <2> QED BY <1>1, <1>2, <1>3, <2>1, PointerWriteDispatchAt, PointerReadDispatchAt,
             PointerOtherDispatchAt, PointerKeysDispatchAt DEF Dispatched
<1> QED BY <1>4, <1>5, <1>6, <1>7, <1>8, <1>9, <1>10, <1>11, <1>12, <1>13

LEMMA PointerServiceScripts ==
    /\ GrpcScripts["PointerService"]["list_keys"] = GrpcPointerWrites.list_keys
    /\ GrpcScripts["PointerService"]["create"] = GrpcPointerWrites.create
    /\ GrpcScripts["PointerService"]["update"] = GrpcPointerWrites.update
    /\ GrpcScripts["PointerService"]["transfer"] = GrpcPointerWrites.transfer
    /\ GrpcScripts["PointerService"]["get"] = GrpcPointerReads.get
    /\ GrpcScripts["PointerService"]["resolve"] = GrpcPointerReads.resolve
    /\ GrpcScripts["PointerService"]["finality"] = GrpcPointerReads.finality
    /\ GrpcScripts["PointerService"]["controller"] = GrpcPointerReads.controller
    /\ GrpcScripts["PointerService"]["prepare"] = GrpcPointerSessions.prepare
    /\ GrpcScripts["PointerService"]["finalize"] = GrpcPointerSessions.finalize
<1> DEFINE tables == {GrpcPointerWrites, GrpcPointerReads, GrpcPointerSessions}
<1>1. GrpcScripts["PointerService"] = Joined(tables)
  BY DEF GrpcScripts
<1>2. \A h \in DOMAIN Joined(tables) :
        \/ h \in DOMAIN GrpcPointerWrites /\ Joined(tables)[h] = GrpcPointerWrites[h]
        \/ h \in DOMAIN GrpcPointerReads /\ Joined(tables)[h] = GrpcPointerReads[h]
        \/ h \in DOMAIN GrpcPointerSessions /\ Joined(tables)[h] = GrpcPointerSessions[h]
  BY JoinedOf
<1>3. /\ DOMAIN GrpcPointerWrites \subseteq DOMAIN Joined(tables)
      /\ DOMAIN GrpcPointerReads \subseteq DOMAIN Joined(tables)
      /\ DOMAIN GrpcPointerSessions \subseteq DOMAIN Joined(tables)
  BY JoinedHas
<1>4. /\ DOMAIN GrpcPointerWrites = {"list_keys", "create", "update", "transfer"}
      /\ DOMAIN GrpcPointerReads = {"get", "resolve", "finality", "controller"}
      /\ DOMAIN GrpcPointerSessions = {"prepare", "finalize"}
  BY DEF GrpcPointerWrites, GrpcPointerReads, GrpcPointerSessions
<1> HIDE DEF tables
<1> QED BY <1>1, <1>2, <1>3, <1>4

LEMMA ManifestDispatchAt ==
    /\ DOMAIN ManifestDispatch = {"ManifestService/Build", "ManifestService/Decode"}
    /\ ManifestDispatch["ManifestService/Build"].method = "build"
    /\ ManifestDispatch["ManifestService/Decode"].method = "decode"
BY DEF ManifestDispatch, Table, Unary, Streaming

LEMMA ManifestServiceDispatched ==
    /\ Dispatched("ManifestService", "build")
    /\ Dispatched("ManifestService", "decode")
BY ManifestDispatchAt DEF Dispatched, Stubs, ManifestStub, Dispatch

LEMMA ManifestServiceScripts ==
    /\ GrpcScripts["ManifestService"]["build"] = ManifestHandlers.build
    /\ GrpcScripts["ManifestService"]["decode"] = ManifestHandlers.decode
BY DEF GrpcScripts

LEMMA DataRpcsGo ==
    /\ Goes("health", "grpc", HealthHandlers.check)
    /\ Goes("data_put", "grpc", DataPrivateHandlers.put)
    /\ Goes("data_get", "grpc", DataPrivateHandlers.get)
    /\ Goes("data_put_public", "grpc", DataPublicHandlers.put_public)
    /\ Goes("data_get_public", "grpc", DataPublicHandlers.get_public)
<1>1. Goes("health", "grpc", HealthHandlers.check)
  <2>1. RpcIs("health", "HealthService", "check")
    BY DataRpcsAt DEF RpcIs, Has, DataRpcs, Rpc
  <2> QED BY <2>1, HealthServiceDispatched, HealthServiceScripts, RpcGoes
<1>2. Goes("data_put", "grpc", DataPrivateHandlers.put)
  <2>1. RpcIs("data_put", "DataService", "put")
    BY DataRpcsAt DEF RpcIs, Has, DataRpcs, Rpc
  <2> QED BY <2>1, DataServiceDispatched, DataServiceScripts, RpcGoes
<1>3. Goes("data_get", "grpc", DataPrivateHandlers.get)
  <2>1. RpcIs("data_get", "DataService", "get")
    BY DataRpcsAt DEF RpcIs, Has, DataRpcs, Rpc
  <2> QED BY <2>1, DataServiceDispatched, DataServiceScripts, RpcGoes
<1>4. Goes("data_put_public", "grpc", DataPublicHandlers.put_public)
  <2>1. RpcIs("data_put_public", "DataService", "put_public")
    BY DataRpcsAt DEF RpcIs, Has, DataRpcs, Rpc
  <2> QED BY <2>1, DataServiceDispatched, DataServiceScripts, RpcGoes
<1>5. Goes("data_get_public", "grpc", DataPublicHandlers.get_public)
  <2>1. RpcIs("data_get_public", "DataService", "get_public")
    BY DataRpcsAt DEF RpcIs, Has, DataRpcs, Rpc
  <2> QED BY <2>1, DataServiceDispatched, DataServiceScripts, RpcGoes
<1> QED BY <1>1, <1>2, <1>3, <1>4, <1>5

LEMMA StreamRpcsGo ==
    /\ Goes("data_stream", "grpc", DataStreamHandlers.stream)
    /\ Goes("data_stream_public", "grpc", DataStreamHandlers.stream_public)
    /\ Goes("data_stream_range", "grpc", DataStreamHandlers.stream_range)
    /\ Goes("data_stream_public_range", "grpc", DataStreamHandlers.stream_public_range)
<1>1. Goes("data_stream", "grpc", DataStreamHandlers.stream)
  <2>1. RpcIs("data_stream", "DataService", "stream")
    BY StreamRpcsAt DEF RpcIs, Has, StreamRpcs, Rpc, Ranged
  <2> QED BY <2>1, DataServiceDispatched, DataServiceScripts, RpcGoes
<1>2. Goes("data_stream_public", "grpc", DataStreamHandlers.stream_public)
  <2>1. RpcIs("data_stream_public", "DataService", "stream_public")
    BY StreamRpcsAt DEF RpcIs, Has, StreamRpcs, Rpc, Ranged
  <2> QED BY <2>1, DataServiceDispatched, DataServiceScripts, RpcGoes
<1>3. Goes("data_stream_range", "grpc", DataStreamHandlers.stream_range)
  <2>1. /\ Rpcs["data_stream_range"].service = "DataService"
        /\ Rpcs["data_stream_range"].method = "stream"
        /\ Rpcs["data_stream_range"].ranged = TRUE
        /\ Rpcs["data_stream_range"].checks = <<Need("positive", "BadRequest")>>
    BY StreamRpcsAt DEF Has, StreamRpcs, Rpc, Ranged
  <2> QED BY <2>1, StreamRpcsAt, DataServiceDispatched, DataServiceScripts
             DEF Goes, Has, Ops, Routed, Script, GrpcScript, GrpcPath, Dispatched, Asked,
                 RangeTwin, Checks
<1>4. Goes("data_stream_public_range", "grpc", DataStreamHandlers.stream_public_range)
  <2>1. /\ Rpcs["data_stream_public_range"].service = "DataService"
        /\ Rpcs["data_stream_public_range"].method = "stream_public"
        /\ Rpcs["data_stream_public_range"].ranged = TRUE
        /\ Rpcs["data_stream_public_range"].checks = <<Need("positive", "BadRequest")>>
    BY StreamRpcsAt DEF Has, StreamRpcs, Rpc, Ranged
  <2> QED BY <2>1, StreamRpcsAt, DataServiceDispatched, DataServiceScripts
             DEF Goes, Has, Ops, Routed, Script, GrpcScript, GrpcPath, Dispatched, Asked,
                 RangeTwin, Checks
<1> QED BY <1>1, <1>2, <1>3, <1>4

LEMMA ProgressRpcsGo ==
    /\ Goes("data_stream_with_progress", "grpc", DataStreamHandlers.stream)
    /\ Goes("data_stream_public_with_progress", "grpc", DataStreamHandlers.stream_public)
    /\ Goes("data_cost", "grpc", DataCostHandler.cost)
    /\ Goes("chunk_put", "grpc", ChunkHandlers.put)
    /\ Goes("chunk_get", "grpc", ChunkHandlers.get)
<1>1. Goes("data_stream_with_progress", "grpc", DataStreamHandlers.stream)
  <2>1. RpcIs("data_stream_with_progress", "DataService", "stream")
    BY ProgressRpcsAt DEF RpcIs, Has, ProgressRpcs, Rpc
  <2> QED BY <2>1, DataServiceDispatched, DataServiceScripts, RpcGoes
<1>2. Goes("data_stream_public_with_progress", "grpc", DataStreamHandlers.stream_public)
  <2>1. RpcIs("data_stream_public_with_progress", "DataService", "stream_public")
    BY ProgressRpcsAt DEF RpcIs, Has, ProgressRpcs, Rpc
  <2> QED BY <2>1, DataServiceDispatched, DataServiceScripts, RpcGoes
<1>3. Goes("data_cost", "grpc", DataCostHandler.cost)
  <2>1. RpcIs("data_cost", "DataService", "cost")
    BY ProgressRpcsAt DEF RpcIs, Has, ProgressRpcs, Rpc
  <2> QED BY <2>1, DataServiceDispatched, DataServiceScripts, RpcGoes
<1>4. Goes("chunk_put", "grpc", ChunkHandlers.put)
  <2>1. RpcIs("chunk_put", "ChunkService", "put")
    BY ProgressRpcsAt DEF RpcIs, Has, ProgressRpcs, Rpc
  <2> QED BY <2>1, ChunkServiceDispatched, ChunkServiceScripts, RpcGoes
<1>5. Goes("chunk_get", "grpc", ChunkHandlers.get)
  <2>1. RpcIs("chunk_get", "ChunkService", "get")
    BY ProgressRpcsAt DEF RpcIs, Has, ProgressRpcs, Rpc
  <2> QED BY <2>1, ChunkServiceDispatched, ChunkServiceScripts, RpcGoes
<1> QED BY <1>1, <1>2, <1>3, <1>4, <1>5

LEMMA FileRpcsGo ==
    /\ Goes("file_put", "grpc", FilePutHandlers.put)
    /\ Goes("file_get", "grpc", FileGetHandlers.get)
    /\ Goes("file_put_public", "grpc", FilePutHandlers.put_public)
    /\ Goes("file_get_public", "grpc", FileGetHandlers.get_public)
    /\ Goes("file_cost", "grpc", FileCostHandler.cost)
<1>1. Goes("file_put", "grpc", FilePutHandlers.put)
  <2>1. RpcIs("file_put", "FileService", "put")
    BY FileRpcsAt DEF RpcIs, Has, FileRpcs, Rpc
  <2> QED BY <2>1, FileServiceDispatched, FileServiceScripts, RpcGoes
<1>2. Goes("file_get", "grpc", FileGetHandlers.get)
  <2>1. RpcIs("file_get", "FileService", "get")
    BY FileRpcsAt DEF RpcIs, Has, FileRpcs, Rpc
  <2> QED BY <2>1, FileServiceDispatched, FileServiceScripts, RpcGoes
<1>3. Goes("file_put_public", "grpc", FilePutHandlers.put_public)
  <2>1. RpcIs("file_put_public", "FileService", "put_public")
    BY FileRpcsAt DEF RpcIs, Has, FileRpcs, Rpc
  <2> QED BY <2>1, FileServiceDispatched, FileServiceScripts, RpcGoes
<1>4. Goes("file_get_public", "grpc", FileGetHandlers.get_public)
  <2>1. RpcIs("file_get_public", "FileService", "get_public")
    BY FileRpcsAt DEF RpcIs, Has, FileRpcs, Rpc
  <2> QED BY <2>1, FileServiceDispatched, FileServiceScripts, RpcGoes
<1>5. Goes("file_cost", "grpc", FileCostHandler.cost)
  <2>1. RpcIs("file_cost", "FileService", "cost")
    BY FileRpcsAt DEF RpcIs, Has, FileRpcs, Rpc
  <2> QED BY <2>1, FileServiceDispatched, FileServiceScripts, RpcGoes
<1> QED BY <1>1, <1>2, <1>3, <1>4, <1>5

LEMMA WalletRpcsGo ==
    /\ Goes("wallet_address", "grpc", WalletHandlers.get_address)
    /\ Goes("wallet_balance", "grpc", WalletHandlers.get_balance)
    /\ Goes("wallet_approve", "grpc", WalletHandlers.approve)
<1>1. Goes("wallet_address", "grpc", WalletHandlers.get_address)
  <2>1. RpcIs("wallet_address", "WalletService", "get_address")
    BY WalletRpcsAt DEF RpcIs, Has, WalletRpcs, Rpc
  <2> QED BY <2>1, WalletServiceDispatched, WalletServiceScripts, RpcGoes
<1>2. Goes("wallet_balance", "grpc", WalletHandlers.get_balance)
  <2>1. RpcIs("wallet_balance", "WalletService", "get_balance")
    BY WalletRpcsAt DEF RpcIs, Has, WalletRpcs, Rpc
  <2> QED BY <2>1, WalletServiceDispatched, WalletServiceScripts, RpcGoes
<1>3. Goes("wallet_approve", "grpc", WalletHandlers.approve)
  <2>1. RpcIs("wallet_approve", "WalletService", "approve")
    BY WalletRpcsAt DEF RpcIs, Has, WalletRpcs, Rpc
  <2> QED BY <2>1, WalletServiceDispatched, WalletServiceScripts, RpcGoes
<1> QED BY <1>1, <1>2, <1>3

LEMMA PrepareRpcsGo ==
    /\ Goes("prepare_upload", "grpc", UploadPrepareHandlers.prepare_file_upload)
    /\ Goes("prepare_upload_public", "grpc", UploadPrepareHandlers.prepare_file_upload)
    /\ Goes("prepare_data_upload", "grpc", UploadPrepareHandlers.prepare_data_upload)
    /\ Goes("verify_quotes", "grpc", VerifyHandlers.verify_quotes)
<1>1. Goes("prepare_upload", "grpc", UploadPrepareHandlers.prepare_file_upload)
  <2>1. RpcIs("prepare_upload", "UploadService", "prepare_file_upload")
    BY PrepareRpcsAt DEF RpcIs, Has, PrepareRpcs, Rpc, Checked
  <2> QED BY <2>1, UploadServiceDispatched, UploadServiceScripts, RpcGoes
<1>2. Goes("prepare_upload_public", "grpc", UploadPrepareHandlers.prepare_file_upload)
  <2>1. RpcIs("prepare_upload_public", "UploadService", "prepare_file_upload")
    BY PrepareRpcsAt DEF RpcIs, Has, PrepareRpcs, Rpc, Checked
  <2> QED BY <2>1, UploadServiceDispatched, UploadServiceScripts, RpcGoes
<1>3. Goes("prepare_data_upload", "grpc", UploadPrepareHandlers.prepare_data_upload)
  <2>1. RpcIs("prepare_data_upload", "UploadService", "prepare_data_upload")
    BY PrepareRpcsAt DEF RpcIs, Has, PrepareRpcs, Rpc, Checked
  <2> QED BY <2>1, UploadServiceDispatched, UploadServiceScripts, RpcGoes
<1>4. Goes("verify_quotes", "grpc", VerifyHandlers.verify_quotes)
  <2>1. RpcIs("verify_quotes", "VerifyService", "verify_quotes")
    BY PrepareRpcsAt DEF RpcIs, Has, PrepareRpcs, Rpc, Checked
  <2> QED BY <2>1, VerifyServiceDispatched, VerifyServiceScripts, RpcGoes
<1> QED BY <1>1, <1>2, <1>3, <1>4

LEMMA FinalizeRpcsGo ==
    /\ Goes("finalize_upload", "grpc", UploadFinalizeHandler.finalize_upload)
    /\ Goes("finalize_merkle_upload", "grpc", UploadFinalizeHandler.finalize_upload)
<1>1. Goes("finalize_upload", "grpc", UploadFinalizeHandler.finalize_upload)
  <2>1. RpcIs("finalize_upload", "UploadService", "finalize_upload")
    BY FinalizeRpcsAt DEF RpcIs, Has, FinalizeRpcs, Rpc
  <2> QED BY <2>1, UploadServiceDispatched, UploadServiceScripts, RpcGoes
<1>2. Goes("finalize_merkle_upload", "grpc", UploadFinalizeHandler.finalize_upload)
  <2>1. RpcIs("finalize_merkle_upload", "UploadService", "finalize_upload")
    BY FinalizeRpcsAt DEF RpcIs, Has, FinalizeRpcs, Rpc
  <2> QED BY <2>1, UploadServiceDispatched, UploadServiceScripts, RpcGoes
<1> QED BY <1>1, <1>2

LEMMA ChunkSessionRpcsGo ==
    /\ Goes("prepare_chunk_upload", "grpc", ChunkPrepareHandler.prepare_chunk)
    /\ Goes("finalize_chunk_upload", "grpc", ChunkFinalizeHandler.finalize_chunk)
<1>1. Goes("prepare_chunk_upload", "grpc", ChunkPrepareHandler.prepare_chunk)
  <2>1. RpcIs("prepare_chunk_upload", "ChunkService", "prepare_chunk")
    BY ChunkSessionRpcsAt DEF RpcIs, Has, ChunkSessionRpcs, Rpc
  <2> QED BY <2>1, ChunkServiceDispatched, ChunkServiceScripts, RpcGoes
<1>2. Goes("finalize_chunk_upload", "grpc", ChunkFinalizeHandler.finalize_chunk)
  <2>1. RpcIs("finalize_chunk_upload", "ChunkService", "finalize_chunk")
    BY ChunkSessionRpcsAt DEF RpcIs, Has, ChunkSessionRpcs, Rpc
  <2> QED BY <2>1, ChunkServiceDispatched, ChunkServiceScripts, RpcGoes
<1> QED BY <1>1, <1>2

LEMMA PointerWriteRpcsGo ==
    /\ Goes("pointer_keys", "grpc", GrpcPointerWrites.list_keys)
    /\ Goes("pointer_create", "grpc", GrpcPointerWrites.create)
    /\ Goes("pointer_update", "grpc", GrpcPointerWrites.update)
    /\ Goes("pointer_transfer", "grpc", GrpcPointerWrites.transfer)
<1>1. Goes("pointer_keys", "grpc", GrpcPointerWrites.list_keys)
  <2>1. RpcIs("pointer_keys", "PointerService", "list_keys")
    BY PointerWriteRpcsAt DEF RpcIs, Has, PointerWriteRpcs, Rpc
  <2> QED BY <2>1, PointerServiceDispatched, PointerServiceScripts, RpcGoes
<1>2. Goes("pointer_create", "grpc", GrpcPointerWrites.create)
  <2>1. RpcIs("pointer_create", "PointerService", "create")
    BY PointerWriteRpcsAt DEF RpcIs, Has, PointerWriteRpcs, Rpc
  <2> QED BY <2>1, PointerServiceDispatched, PointerServiceScripts, RpcGoes
<1>3. Goes("pointer_update", "grpc", GrpcPointerWrites.update)
  <2>1. RpcIs("pointer_update", "PointerService", "update")
    BY PointerWriteRpcsAt DEF RpcIs, Has, PointerWriteRpcs, Rpc
  <2> QED BY <2>1, PointerServiceDispatched, PointerServiceScripts, RpcGoes
<1>4. Goes("pointer_transfer", "grpc", GrpcPointerWrites.transfer)
  <2>1. RpcIs("pointer_transfer", "PointerService", "transfer")
    BY PointerWriteRpcsAt DEF RpcIs, Has, PointerWriteRpcs, Rpc
  <2> QED BY <2>1, PointerServiceDispatched, PointerServiceScripts, RpcGoes
<1> QED BY <1>1, <1>2, <1>3, <1>4

LEMMA PointerReadRpcsGo ==
    /\ Goes("pointer_get", "grpc", GrpcPointerReads.get)
    /\ Goes("pointer_resolve", "grpc", GrpcPointerReads.resolve)
    /\ Goes("pointer_finality", "grpc", GrpcPointerReads.finality)
    /\ Goes("pointer_controller", "grpc", GrpcPointerReads.controller)
<1>1. Goes("pointer_get", "grpc", GrpcPointerReads.get)
  <2>1. RpcIs("pointer_get", "PointerService", "get")
    BY PointerReadRpcsAt DEF RpcIs, Has, PointerReadRpcs, Rpc
  <2> QED BY <2>1, PointerServiceDispatched, PointerServiceScripts, RpcGoes
<1>2. Goes("pointer_resolve", "grpc", GrpcPointerReads.resolve)
  <2>1. RpcIs("pointer_resolve", "PointerService", "resolve")
    BY PointerReadRpcsAt DEF RpcIs, Has, PointerReadRpcs, Rpc
  <2> QED BY <2>1, PointerServiceDispatched, PointerServiceScripts, RpcGoes
<1>3. Goes("pointer_finality", "grpc", GrpcPointerReads.finality)
  <2>1. RpcIs("pointer_finality", "PointerService", "finality")
    BY PointerReadRpcsAt DEF RpcIs, Has, PointerReadRpcs, Rpc
  <2> QED BY <2>1, PointerServiceDispatched, PointerServiceScripts, RpcGoes
<1>4. Goes("pointer_controller", "grpc", GrpcPointerReads.controller)
  <2>1. RpcIs("pointer_controller", "PointerService", "controller")
    BY PointerReadRpcsAt DEF RpcIs, Has, PointerReadRpcs, Rpc
  <2> QED BY <2>1, PointerServiceDispatched, PointerServiceScripts, RpcGoes
<1> QED BY <1>1, <1>2, <1>3, <1>4

LEMMA PointerSessionRpcsGo ==
    /\ Goes("pointer_prepare", "grpc", GrpcPointerSessions.prepare)
    /\ Goes("pointer_finalize", "grpc", GrpcPointerSessions.finalize)
<1>1. Goes("pointer_prepare", "grpc", GrpcPointerSessions.prepare)
  <2>1. RpcIs("pointer_prepare", "PointerService", "prepare")
    BY PointerSessionRpcsAt DEF RpcIs, Has, PointerSessionRpcs, Rpc
  <2> QED BY <2>1, PointerServiceDispatched, PointerServiceScripts, RpcGoes
<1>2. Goes("pointer_finalize", "grpc", GrpcPointerSessions.finalize)
  <2>1. RpcIs("pointer_finalize", "PointerService", "finalize")
    BY PointerSessionRpcsAt DEF RpcIs, Has, PointerSessionRpcs, Rpc
  <2> QED BY <2>1, PointerServiceDispatched, PointerServiceScripts, RpcGoes
<1> QED BY <1>1, <1>2

LEMMA ManifestRpcsGo ==
    /\ Goes("build_manifest", "grpc", ManifestHandlers.build)
    /\ Goes("decode_manifest", "grpc", ManifestHandlers.decode)
<1>1. Goes("build_manifest", "grpc", ManifestHandlers.build)
  <2>1. RpcIs("build_manifest", "ManifestService", "build")
    BY ManifestRpcsAt DEF RpcIs, Has, ManifestRpcs, Rpc, Checked
  <2> QED BY <2>1, ManifestServiceDispatched, ManifestServiceScripts, RpcGoes
<1>2. Goes("decode_manifest", "grpc", ManifestHandlers.decode)
  <2>1. RpcIs("decode_manifest", "ManifestService", "decode")
    BY ManifestRpcsAt DEF RpcIs, Has, ManifestRpcs, Rpc, Checked
  <2> QED BY <2>1, ManifestServiceDispatched, ManifestServiceScripts, RpcGoes
<1> QED BY <1>1, <1>2

-----------------------------------------------------------------------------
(* and into the embedded client.                                           *)

LEMMA FfiChunksGo ==
    /\ Goes("chunk_put", "ffi", FfiChunks.chunk_put)
    /\ Goes("chunk_get", "ffi", FfiChunks.chunk_get)
    /\ Goes("chunk_exists", "ffi", FfiChunks.chunk_exists)
BY FfiChunksAt DEF Goes, Has, Ops, Routed, Script, Checks

LEMMA FfiDataGo ==
    /\ Goes("data_put_public", "ffi", FfiData.data_put_public)
    /\ Goes("data_get_public", "ffi", FfiData.data_get_public)
    /\ Goes("data_put_private", "ffi", FfiData.data_put_private)
    /\ Goes("data_get_private", "ffi", FfiData.data_get_private)
BY FfiDataAt DEF Goes, Has, Ops, Routed, Script, Checks

LEMMA FfiFileUploadsGo ==
    /\ Goes("file_upload_public", "ffi", FfiFileUploads.file_upload_public)
    /\ Goes("file_upload_private", "ffi", FfiFileUploads.file_upload_private)
    /\ Goes("file_upload_public_with_progress", "ffi",
            FfiFileUploads.file_upload_public_with_progress)
    /\ Goes("file_upload_private_with_progress", "ffi",
            FfiFileUploads.file_upload_private_with_progress)
BY FfiFileUploadsAt DEF Goes, Has, Ops, Routed, Script, Checks

LEMMA FfiDataMapsGo ==
    /\ Goes("data_map_store", "ffi", FfiDataMaps.data_map_store)
    /\ Goes("data_map_fetch", "ffi", FfiDataMaps.data_map_fetch)
BY FfiDataMapsAt DEF Goes, Has, Ops, Routed, Script, Checks

LEMMA FfiEstimatesGo ==
    /\ Goes("estimate_file_cost", "ffi", FfiEstimates.estimate_file_cost)
    /\ Goes("estimate_file_cost_with_progress", "ffi",
            FfiEstimates.estimate_file_cost_with_progress)
BY FfiEstimatesAt DEF Goes, Has, Ops, Routed, Script, Checks

LEMMA FfiFileDownloadsGo ==
    /\ Goes("file_download_public", "ffi", FfiFileDownloads.file_download_public)
    /\ Goes("file_download_private", "ffi", FfiFileDownloads.file_download_private)
BY FfiFileDownloadsAt DEF Goes, Has, Ops, Routed, Script, Checks

LEMMA FfiWalletGo ==
    Goes("wallet_approve", "ffi", FfiWallet.wallet_approve)
BY FfiWalletAt DEF Goes, Has, Ops, Routed, Script, Checks

LEMMA FfiProgressDownloadsGo ==
    /\ Goes("download_public_to_file", "ffi", FfiProgressDownloads.download_public_to_file)
    /\ Goes("download_private_to_file", "ffi", FfiProgressDownloads.download_private_to_file)
BY FfiProgressDownloadsAt DEF Goes, Has, Ops, Routed, Script, Checks

LEMMA FfiPreparesGo ==
    /\ Goes("prepare_data_upload", "ffi", FfiPrepares.prepare_data_upload)
    /\ Goes("prepare_file_upload", "ffi", FfiPrepares.prepare_file_upload)
    /\ Goes("prepare_file_upload_with_progress", "ffi",
            FfiPrepares.prepare_file_upload_with_progress)
    /\ Goes("payment_transactions", "ffi", FfiPrepares.payment_transactions)
BY FfiPreparesAt DEF Goes, Has, Ops, Routed, Script, Checks

LEMMA FfiFinalizesGo ==
    /\ Goes("finalize_upload", "ffi", FfiFinalizes.finalize_upload)
    /\ Goes("finalize_upload_merkle", "ffi", FfiFinalizes.finalize_upload_merkle)
    /\ Goes("finalize_upload_with_progress", "ffi",
            FfiFinalizes.finalize_upload_with_progress)
    /\ Goes("finalize_upload_merkle_with_progress", "ffi",
            FfiFinalizes.finalize_upload_merkle_with_progress)
BY FfiFinalizesAt DEF Goes, Has, Ops, Routed, Script, Checks

-----------------------------------------------------------------------------
(* What a call's handler has to do for it.                                 *)

\* What has been done when the first at - 1 steps are over, and call - 1 calls of
\* the next.
Over(s, at, call) ==
    (UNION {CallsOf(s[i]) : i \in 1 .. at - 1}) \cup {s[at].calls[k] : k \in 1 .. call - 1}

\* A success is what op promises: nothing less and nothing else that lasts.
Kept(op, calls) ==
    /\ op # "prepare_chunk_upload"
    /\ Promise(op) \subseteq calls /\ calls \cap Lasting \subseteq Promise(op)

\* The preparation of a chunk ends early when the chunk is stored already.
EndsEarlyWell(s) ==
    /\ AllCalls(s) = {"prepare_chunk", "insert_chunk"}
    /\ \E i \in DOMAIN s : s[i].do = "ends"
    /\ \A i \in DOMAIN s :
          s[i].do = "ends" => s[i].fact = "new" /\ Over(s, i, 1) = {"prepare_chunk"}

\* When the handler of op gets to its end, what op promises is done.
Fulfils(op, s) ==
    IF op = "prepare_chunk_upload" THEN EndsEarlyWell(s)
    ELSE (\A i \in DOMAIN s : s[i].do # "ends") /\ Kept(op, AllCalls(s))

\* Everything the invariant needs of a call: it has a route, its handler is orderly and
\* does what the call promises; only the embedded client's downloads to a file have a
\* closing step that a failed call skips.
Fine(op, via) ==
    /\ Routed(op, via)
    /\ Orderly(Script(op, via))
    /\ via \in ToDaemon => Detaches(Script(op, via))
    /\ Fulfils(op, Script(op, via))
    /\ \A i \in DOMAIN Script(op, via) :
          Script(op, via)[i] = FlushIfDone => op \in DOMAIN FfiProgressDownloads

LEMMA ServedIsFine ==
    ASSUME NEW op, NEW via, NEW s, NEW calls, Goes(op, via, s), Serves(s, calls),
           Kept(op, calls)
    PROVE  Fine(op, via)
BY DEF Goes, Serves, Kept, Fine, Fulfils, Runs

LEMMA PerformedIsFine ==
    ASSUME NEW op, NEW s, NEW calls, Goes(op, "ffi", s), Performs(s, calls), Kept(op, calls)
    PROVE  Fine(op, "ffi")
BY DEF Goes, Performs, Kept, Fine, Fulfils, Runs, ToDaemon

-----------------------------------------------------------------------------
(* The preparation of a chunk, and the downloads to a file.                *)

LEMMA EndsUnlessFact == \A fact : EndsUnless(fact).fact = fact
BY DEF EndsUnless, Step

LEMMA ChunkPrepareSteps ==
    /\ Orderly(ChunkPrepare.chunk_prepare)
    /\ Detaches(ChunkPrepare.chunk_prepare)
    /\ EndsEarlyWell(ChunkPrepare.chunk_prepare)
      /\ \A i \in DOMAIN ChunkPrepare.chunk_prepare :
             ChunkPrepare.chunk_prepare[i] # FlushIfDone
<1>1. Shaped(ChunkPrepare.chunk_prepare)
  BY EffectIs, GuardIs, SpawnIs DEF Shaped, Is, IsList, ChunkPrepare, ApiJson, Bad
<1>2. Ordered(ChunkPrepare.chunk_prepare)
  BY EffectIs, GuardIs, SpawnIs DEF Ordered, Is, Lasting, WalletCalls, PaidStores,
     ChunkPrepare, ApiJson, Bad
<1>3. Nested(ChunkPrepare.chunk_prepare)
  BY EffectIs, GuardIs, SpawnIs DEF Nested, Is, Plain, ChunkPrepare, ApiJson, Bad
<1>4. Detaches(ChunkPrepare.chunk_prepare)
  BY EffectIs, GuardIs, SpawnIs DEF Detaches, Is, Paying, WalletCalls, PaidStores,
     ChunkPrepare, ApiJson, Bad
<1>5. \A i \in DOMAIN ChunkPrepare.chunk_prepare : ChunkPrepare.chunk_prepare[i] # FlushIfDone
  BY EffectIs, GuardIs, SpawnIs DEF Plain, Is, ChunkPrepare, ApiJson, Bad
<1>6. AllCalls(ChunkPrepare.chunk_prepare) = {"prepare_chunk", "insert_chunk"}
  BY EffectIs, GuardIs, SpawnIs DEF AllCalls, Is, ChunkPrepare, ApiJson, Bad
<1>7. /\ 5 \in DOMAIN ChunkPrepare.chunk_prepare
      /\ ChunkPrepare.chunk_prepare[5].do = "ends"
      /\ ChunkPrepare.chunk_prepare[5].fact = "new"
  BY EffectIs, GuardIs, SpawnIs, EndsUnlessFact DEF Is, ChunkPrepare, ApiJson, Bad
<1>8. \A i \in DOMAIN ChunkPrepare.chunk_prepare : ChunkPrepare.chunk_prepare[i].do = "ends"
          => i = 5
  BY EffectIs, GuardIs, SpawnIs DEF Is, ChunkPrepare, ApiJson, Bad
<1>9. \A c : c \in UNION {CallsOf(ChunkPrepare.chunk_prepare[i]) : i \in 1 .. 5 - 1}
          <=> c = "prepare_chunk"
  BY EffectIs, GuardIs, SpawnIs DEF Is, ChunkPrepare, ApiJson, Bad
<1>10. Over(ChunkPrepare.chunk_prepare, 5, 1) = {"prepare_chunk"}
  BY <1>9 DEF Over
<1> QED BY <1>1, <1>2, <1>3, <1>4, <1>5, <1>6, <1>7, <1>8, <1>10 DEF Orderly, EndsEarlyWell

LEMMA ChunkPrepareHandlerSteps ==
    /\ Orderly(ChunkPrepareHandler.prepare_chunk)
    /\ Detaches(ChunkPrepareHandler.prepare_chunk)
    /\ EndsEarlyWell(ChunkPrepareHandler.prepare_chunk)
      /\ \A i \in DOMAIN ChunkPrepareHandler.prepare_chunk :
             ChunkPrepareHandler.prepare_chunk[i] # FlushIfDone
<1>1. Shaped(ChunkPrepareHandler.prepare_chunk)
  BY EffectIs, GuardIs, SpawnIs DEF Shaped, Is, IsList, ChunkPrepareHandler
<1>2. Ordered(ChunkPrepareHandler.prepare_chunk)
  BY EffectIs, GuardIs, SpawnIs DEF Ordered, Is, Lasting, WalletCalls, PaidStores,
     ChunkPrepareHandler
<1>3. Nested(ChunkPrepareHandler.prepare_chunk)
  BY EffectIs, GuardIs, SpawnIs DEF Nested, Is, Plain, ChunkPrepareHandler
<1>4. Detaches(ChunkPrepareHandler.prepare_chunk)
  BY EffectIs, GuardIs, SpawnIs DEF Detaches, Is, Paying, WalletCalls, PaidStores,
     ChunkPrepareHandler
<1>5. \A i \in DOMAIN ChunkPrepareHandler.prepare_chunk :
          ChunkPrepareHandler.prepare_chunk[i] # FlushIfDone
  BY EffectIs, GuardIs, SpawnIs DEF Plain, Is, ChunkPrepareHandler
<1>6. AllCalls(ChunkPrepareHandler.prepare_chunk) = {"prepare_chunk", "insert_chunk"}
  BY EffectIs, GuardIs, SpawnIs DEF AllCalls, Is, ChunkPrepareHandler
<1>7. /\ 2 \in DOMAIN ChunkPrepareHandler.prepare_chunk
      /\ ChunkPrepareHandler.prepare_chunk[2].do = "ends"
      /\ ChunkPrepareHandler.prepare_chunk[2].fact = "new"
  BY EffectIs, GuardIs, SpawnIs, EndsUnlessFact DEF Is, ChunkPrepareHandler
<1>8. \A i \in DOMAIN ChunkPrepareHandler.prepare_chunk :
          ChunkPrepareHandler.prepare_chunk[i].do = "ends"
          => i = 2
  BY EffectIs, GuardIs, SpawnIs DEF Is, ChunkPrepareHandler
<1>9. \A c : c \in UNION {CallsOf(ChunkPrepareHandler.prepare_chunk[i]) : i \in 1 .. 2 - 1}
          <=> c = "prepare_chunk"
  BY EffectIs, GuardIs, SpawnIs DEF Is, ChunkPrepareHandler
<1>10. Over(ChunkPrepareHandler.prepare_chunk, 2, 1) = {"prepare_chunk"}
  BY <1>9 DEF Over
<1> QED BY <1>1, <1>2, <1>3, <1>4, <1>5, <1>6, <1>7, <1>8, <1>10 DEF Orderly, EndsEarlyWell

\* A download to a file: like Performs, but for the closing step.
Downloads(s, calls) ==
    Orderly(s) /\ AllCalls(s) = calls /\ \A i \in DOMAIN s : s[i].do # "ends"

LEMMA FfiProgressDownloadsSteps ==
    /\ Downloads(FfiProgressDownloads.download_public_to_file,
                 {"bridge", "data_map_fetch", "file_download", "flush"})
    /\ Downloads(FfiProgressDownloads.download_private_to_file,
                 {"bridge", "file_download", "flush"})
<1>1. Downloads(FfiProgressDownloads.download_public_to_file,
               {"bridge", "data_map_fetch", "file_download", "flush"})
  <2>1. Shaped(FfiProgressDownloads.download_public_to_file)
    BY AwaitIs, BridgeIs, GuardIs DEF Shaped, Is, IsList, FfiProgressDownloads, FfiAddress,
       DownloadToFile, FfiDataMap, BadInput
  <2>2. Ordered(FfiProgressDownloads.download_public_to_file)
    BY AwaitIs, BridgeIs, GuardIs DEF Ordered, Is, Lasting, WalletCalls, PaidStores,
       FfiProgressDownloads, FfiAddress, DownloadToFile, FfiDataMap, BadInput
  <2>3. Nested(FfiProgressDownloads.download_public_to_file)
    <3>1. \A i \in DOMAIN FfiProgressDownloads.download_public_to_file :
              FfiProgressDownloads.download_public_to_file[i] \in Opens
              => i = 3
      BY AwaitIs, BridgeIs, GuardIs DEF Is, Plain, FfiProgressDownloads, FfiAddress,
         DownloadToFile, FfiDataMap, BadInput
    <3>2. /\ 3 + 2 \in DOMAIN FfiProgressDownloads.download_public_to_file
          /\ FfiProgressDownloads.download_public_to_file[3 + 1].do = "await"
          /\ FfiProgressDownloads.download_public_to_file[3 + 2] \in Closes
      BY AwaitIs, BridgeIs, GuardIs DEF Is, FfiProgressDownloads, FfiAddress,
         DownloadToFile, FfiDataMap, BadInput
    <3> QED BY <3>1, <3>2 DEF Nested
  <2>4. \A i \in DOMAIN FfiProgressDownloads.download_public_to_file :
            FfiProgressDownloads.download_public_to_file[i].do # "ends"
    BY AwaitIs, BridgeIs, GuardIs DEF Is, FfiProgressDownloads, FfiAddress, DownloadToFile,
       FfiDataMap, BadInput
  <2>5. AllCalls(FfiProgressDownloads.download_public_to_file)
            = {"bridge", "data_map_fetch", "file_download", "flush"}
    BY AwaitIs, BridgeIs, GuardIs DEF AllCalls, Is, FfiProgressDownloads, FfiAddress,
       DownloadToFile, FfiDataMap, BadInput
  <2> QED BY <2>1, <2>2, <2>3, <2>4, <2>5 DEF Downloads, Orderly
<1>2. Downloads(FfiProgressDownloads.download_private_to_file,
               {"bridge", "file_download", "flush"})
  <2>1. Shaped(FfiProgressDownloads.download_private_to_file)
    BY AwaitIs, BridgeIs, GuardIs DEF Shaped, Is, IsList, FfiProgressDownloads, FfiAddress,
       DownloadToFile, FfiDataMap, BadInput
  <2>2. Ordered(FfiProgressDownloads.download_private_to_file)
    BY AwaitIs, BridgeIs, GuardIs DEF Ordered, Is, Lasting, WalletCalls, PaidStores,
       FfiProgressDownloads, FfiAddress, DownloadToFile, FfiDataMap, BadInput
  <2>3. Nested(FfiProgressDownloads.download_private_to_file)
    <3>1. \A i \in DOMAIN FfiProgressDownloads.download_private_to_file :
              FfiProgressDownloads.download_private_to_file[i] \in Opens
              => i = 4
      BY AwaitIs, BridgeIs, GuardIs DEF Is, Plain, FfiProgressDownloads, FfiAddress,
         DownloadToFile, FfiDataMap, BadInput
    <3>2. /\ 4 + 2 \in DOMAIN FfiProgressDownloads.download_private_to_file
          /\ FfiProgressDownloads.download_private_to_file[4 + 1].do = "await"
          /\ FfiProgressDownloads.download_private_to_file[4 + 2] \in Closes
      BY AwaitIs, BridgeIs, GuardIs DEF Is, FfiProgressDownloads, FfiAddress,
         DownloadToFile, FfiDataMap, BadInput
    <3> QED BY <3>1, <3>2 DEF Nested
  <2>4. \A i \in DOMAIN FfiProgressDownloads.download_private_to_file :
            FfiProgressDownloads.download_private_to_file[i].do # "ends"
    BY AwaitIs, BridgeIs, GuardIs DEF Is, FfiProgressDownloads, FfiAddress, DownloadToFile,
       FfiDataMap, BadInput
  <2>5. AllCalls(FfiProgressDownloads.download_private_to_file)
            = {"bridge", "file_download", "flush"}
    BY AwaitIs, BridgeIs, GuardIs DEF AllCalls, Is, FfiProgressDownloads, FfiAddress,
       DownloadToFile, FfiDataMap, BadInput
  <2> QED BY <2>1, <2>2, <2>3, <2>4, <2>5 DEF Downloads, Orderly
<1> QED BY <1>1, <1>2

-----------------------------------------------------------------------------
(* Every call is served as it should be.                                   *)

LEMMA DataCallsKeep ==
    /\ Kept("health", {})
    /\ Kept("data_put", {"data_upload", "mark_store_ok"})
    /\ Kept("data_get", {"data_download"})
    /\ Kept("data_put_public", {"data_map_store", "data_upload", "mark_store_ok"})
    /\ Kept("data_get_public", {"data_download", "data_map_fetch"})
BY DEF Kept, Promise, Lasting, WalletCalls, PaidStores

LEMMA DataCallsFine == \A op \in DOMAIN DataCalls : Fine(op, "rest")
<1>1. Fine("health", "rest")
  BY DataCallsGo, HealthSteps, DataCallsKeep, ServedIsFine
<1>2. Fine("data_put", "rest")
  BY DataCallsGo, PrivateDataSteps, DataCallsKeep, ServedIsFine
<1>3. Fine("data_get", "rest")
  BY DataCallsGo, PrivateDataSteps, DataCallsKeep, ServedIsFine
<1>4. Fine("data_put_public", "rest")
  BY DataCallsGo, PublicDataSteps, DataCallsKeep, ServedIsFine
<1>5. Fine("data_get_public", "rest")
  BY DataCallsGo, PublicDataSteps, DataCallsKeep, ServedIsFine
<1> QED BY <1>1, <1>2, <1>3, <1>4, <1>5, HttpCallsKeys

LEMMA StreamCallsKeep ==
    /\ Kept("data_stream", {"open_stream", "resolve_root"})
    /\ Kept("data_stream_public", {"data_map_fetch", "open_stream", "resolve_root"})
    /\ Kept("data_stream_range", {"open_range", "resolve_root"})
    /\ Kept("data_stream_public_range", {"data_map_fetch", "open_range", "resolve_root"})
BY DEF Kept, Promise, Lasting, WalletCalls, PaidStores

LEMMA StreamCallsFine == \A op \in DOMAIN StreamCalls : Fine(op, "rest")
<1>1. Fine("data_stream", "rest")
  BY StreamCallsGo, StreamsSteps, StreamCallsKeep, ServedIsFine
<1>2. Fine("data_stream_public", "rest")
  BY StreamCallsGo, StreamsSteps, StreamCallsKeep, ServedIsFine
<1>3. Fine("data_stream_range", "rest")
  BY StreamCallsGo, StreamsSteps, StreamCallsKeep, ServedIsFine
<1>4. Fine("data_stream_public_range", "rest")
  BY StreamCallsGo, StreamsSteps, StreamCallsKeep, ServedIsFine
<1> QED BY <1>1, <1>2, <1>3, <1>4, HttpCallsKeys

LEMMA ProgressCallsKeep ==
    /\ Kept("data_stream_with_progress", {"open_stream", "resolve_root"})
    /\ Kept("data_stream_public_with_progress",
            {"data_map_fetch", "open_stream", "resolve_root"})
    /\ Kept("data_cost", {"estimate", "stage", "unstage"})
    /\ Kept("chunk_put", {"chunk_put", "mark_store_ok"})
    /\ Kept("chunk_get", {"chunk_get"})
BY DEF Kept, Promise, Lasting, WalletCalls, PaidStores

LEMMA ProgressCallsFine == \A op \in DOMAIN ProgressCalls : Fine(op, "rest")
<1>1. Fine("data_stream_with_progress", "rest")
  BY ProgressCallsGo, StreamsSteps, ProgressCallsKeep, ServedIsFine
<1>2. Fine("data_stream_public_with_progress", "rest")
  BY ProgressCallsGo, StreamsSteps, ProgressCallsKeep, ServedIsFine
<1>3. Fine("data_cost", "rest")
  BY ProgressCallsGo, DataCostSteps, ProgressCallsKeep, ServedIsFine
<1>4. Fine("chunk_put", "rest")
  BY ProgressCallsGo, ChunksSteps, ProgressCallsKeep, ServedIsFine
<1>5. Fine("chunk_get", "rest")
  BY ProgressCallsGo, ChunksSteps, ProgressCallsKeep, ServedIsFine
<1> QED BY <1>1, <1>2, <1>3, <1>4, <1>5, HttpCallsKeys

LEMMA FileCallsKeep ==
    /\ Kept("file_put", {"file_upload", "mark_store_ok"})
    /\ Kept("file_get", {"file_download"})
    /\ Kept("file_put_public", {"file_upload_public", "mark_store_ok"})
    /\ Kept("file_get_public", {"data_map_fetch", "file_download"})
    /\ Kept("file_cost", {"estimate"})
BY DEF Kept, Promise, Lasting, WalletCalls, PaidStores

LEMMA FileCallsFine == \A op \in DOMAIN FileCalls : Fine(op, "rest")
<1>1. Fine("file_put", "rest")
  BY FileCallsGo, FilePutsSteps, FileCallsKeep, ServedIsFine
<1>2. Fine("file_get", "rest")
  BY FileCallsGo, FileGetsSteps, FileCallsKeep, ServedIsFine
<1>3. Fine("file_put_public", "rest")
  BY FileCallsGo, FilePutsSteps, FileCallsKeep, ServedIsFine
<1>4. Fine("file_get_public", "rest")
  BY FileCallsGo, FileGetsSteps, FileCallsKeep, ServedIsFine
<1>5. Fine("file_cost", "rest")
  BY FileCallsGo, FileCostSteps, FileCallsKeep, ServedIsFine
<1> QED BY <1>1, <1>2, <1>3, <1>4, <1>5, HttpCallsKeys

LEMMA WalletCallsOfSdkKeep ==
    /\ Kept("wallet_address", {})
    /\ Kept("wallet_balance", {"gas_balance", "token_balance"})
    /\ Kept("wallet_approve", {"approve"})
BY DEF Kept, Promise, Lasting, WalletCalls, PaidStores

LEMMA WalletCallsOfSdkFine == \A op \in DOMAIN WalletCallsOfSdk : Fine(op, "rest")
<1>1. Fine("wallet_address", "rest")
  BY WalletCallsOfSdkGo, WalletSteps, WalletCallsOfSdkKeep, ServedIsFine
<1>2. Fine("wallet_balance", "rest")
  BY WalletCallsOfSdkGo, WalletSteps, WalletCallsOfSdkKeep, ServedIsFine
<1>3. Fine("wallet_approve", "rest")
  BY WalletCallsOfSdkGo, WalletSteps, WalletCallsOfSdkKeep, ServedIsFine
<1> QED BY <1>1, <1>2, <1>3, HttpCallsKeys

LEMMA PrepareCallsKeep ==
    /\ Kept("prepare_upload", {"file_prepare", "insert_upload"})
    /\ Kept("prepare_upload_public", {"file_prepare", "insert_upload"})
    /\ Kept("prepare_data_upload", {"data_prepare", "insert_upload"})
    /\ Kept("verify_quotes", {"verify"})
BY DEF Kept, Promise, Lasting, WalletCalls, PaidStores

LEMMA PrepareCallsFine == \A op \in DOMAIN PrepareCalls : Fine(op, "rest")
<1>1. Fine("prepare_upload", "rest")
  BY PrepareCallsGo, UploadPreparesSteps, PrepareCallsKeep, ServedIsFine
<1>2. Fine("prepare_upload_public", "rest")
  BY PrepareCallsGo, UploadPreparesSteps, PrepareCallsKeep, ServedIsFine
<1>3. Fine("prepare_data_upload", "rest")
  BY PrepareCallsGo, UploadPreparesSteps, PrepareCallsKeep, ServedIsFine
<1>4. Fine("verify_quotes", "rest")
  BY PrepareCallsGo, VerifySteps, PrepareCallsKeep, ServedIsFine
<1> QED BY <1>1, <1>2, <1>3, <1>4, HttpCallsKeys

LEMMA FinalizeCallsKeep ==
    /\ Kept("finalize_upload", {"finalize_pending"})
    /\ Kept("finalize_merkle_upload", {"finalize_pending"})
BY DEF Kept, Promise, Lasting, WalletCalls, PaidStores

LEMMA FinalizeCallsFine == \A op \in DOMAIN FinalizeCalls : Fine(op, "rest")
<1>1. Fine("finalize_upload", "rest")
  BY FinalizeCallsGo, UploadFinalizeSteps, FinalizeCallsKeep, ServedIsFine
<1>2. Fine("finalize_merkle_upload", "rest")
  BY FinalizeCallsGo, UploadFinalizeSteps, FinalizeCallsKeep, ServedIsFine
<1> QED BY <1>1, <1>2, HttpCallsKeys

LEMMA ChunkSessionCallsKeep ==
    Kept("finalize_chunk_upload", {"finalize_chunk", "mark_store_ok", "take_chunk"})
BY DEF Kept, Promise, Lasting, WalletCalls, PaidStores

LEMMA ChunkSessionCallsFine == \A op \in DOMAIN ChunkSessionCalls : Fine(op, "rest")
<1>1. Fine("prepare_chunk_upload", "rest")
  BY ChunkSessionCallsGo, ChunkPrepareSteps DEF Goes, Fine, Fulfils
<1>2. Fine("finalize_chunk_upload", "rest")
  BY ChunkSessionCallsGo, ChunkFinalizeSteps, ChunkSessionCallsKeep, ServedIsFine
<1> QED BY <1>1, <1>2, HttpCallsKeys

LEMMA PointerWriteCallsKeep ==
    /\ Kept("pointer_keys", {})
    /\ Kept("pointer_create", {"pointer_create"})
    /\ Kept("pointer_update", {"pointer_update"})
    /\ Kept("pointer_transfer", {"pointer_transfer"})
BY DEF Kept, Promise, Lasting, WalletCalls, PaidStores

LEMMA PointerWriteCallsFine == \A op \in DOMAIN PointerWriteCalls : Fine(op, "rest")
<1>1. Fine("pointer_keys", "rest")
  BY PointerWriteCallsGo, PointerWriteHandlersSteps, PointerWriteCallsKeep, ServedIsFine
<1>2. Fine("pointer_create", "rest")
  BY PointerWriteCallsGo, PointerWriteHandlersSteps, PointerWriteCallsKeep, ServedIsFine
<1>3. Fine("pointer_update", "rest")
  BY PointerWriteCallsGo, PointerWriteHandlersSteps, PointerWriteCallsKeep, ServedIsFine
<1>4. Fine("pointer_transfer", "rest")
  BY PointerWriteCallsGo, PointerWriteHandlersSteps, PointerWriteCallsKeep, ServedIsFine
<1> QED BY <1>1, <1>2, <1>3, <1>4, HttpCallsKeys

LEMMA PointerReadCallsKeep ==
    /\ Kept("pointer_get", {"pointer_get"})
    /\ Kept("pointer_resolve", {"pointer_resolve"})
    /\ Kept("pointer_finality", {"pointer_finality"})
    /\ Kept("pointer_controller", {"pointer_controller"})
BY DEF Kept, Promise, Lasting, WalletCalls, PaidStores

LEMMA PointerReadCallsFine == \A op \in DOMAIN PointerReadCalls : Fine(op, "rest")
<1>1. Fine("pointer_get", "rest")
  BY PointerReadCallsGo, PointerReadHandlersSteps, PointerReadCallsKeep, ServedIsFine
<1>2. Fine("pointer_resolve", "rest")
  BY PointerReadCallsGo, PointerReadHandlersSteps, PointerReadCallsKeep, ServedIsFine
<1>3. Fine("pointer_finality", "rest")
  BY PointerReadCallsGo, PointerReadHandlersSteps, PointerReadCallsKeep, ServedIsFine
<1>4. Fine("pointer_controller", "rest")
  BY PointerReadCallsGo, PointerReadHandlersSteps, PointerReadCallsKeep, ServedIsFine
<1> QED BY <1>1, <1>2, <1>3, <1>4, HttpCallsKeys

LEMMA PointerSessionCallsKeep ==
    /\ Kept("pointer_prepare", {"pointer_prepare"})
    /\ Kept("pointer_finalize", {"pointer_finalize"})
BY DEF Kept, Promise, Lasting, WalletCalls, PaidStores

LEMMA PointerSessionCallsFine == \A op \in DOMAIN PointerSessionCalls : Fine(op, "rest")
<1>1. Fine("pointer_prepare", "rest")
  BY PointerSessionCallsGo, PointerSessionHandlersSteps, PointerSessionCallsKeep,
     ServedIsFine
<1>2. Fine("pointer_finalize", "rest")
  BY PointerSessionCallsGo, PointerSessionHandlersSteps, PointerSessionCallsKeep,
     ServedIsFine
<1> QED BY <1>1, <1>2, HttpCallsKeys

LEMMA ManifestCallsKeep ==
    /\ Kept("build_manifest", {"build"})
    /\ Kept("decode_manifest", {"decode"})
BY DEF Kept, Promise, Lasting, WalletCalls, PaidStores

LEMMA ManifestCallsFine == \A op \in DOMAIN ManifestCalls : Fine(op, "rest")
<1>1. Fine("build_manifest", "rest")
  BY ManifestCallsGo, ManifestsSteps, ManifestCallsKeep, ServedIsFine
<1>2. Fine("decode_manifest", "rest")
  BY ManifestCallsGo, ManifestsSteps, ManifestCallsKeep, ServedIsFine
<1> QED BY <1>1, <1>2, HttpCallsKeys

LEMMA DataRpcsFine == \A op \in DOMAIN DataRpcs : Fine(op, "grpc")
<1>1. Fine("health", "grpc")
  BY DataRpcsGo, HealthHandlersSteps, DataCallsKeep, ServedIsFine
<1>2. Fine("data_put", "grpc")
  BY DataRpcsGo, DataPrivateHandlersSteps, DataCallsKeep, ServedIsFine
<1>3. Fine("data_get", "grpc")
  BY DataRpcsGo, DataPrivateHandlersSteps, DataCallsKeep, ServedIsFine
<1>4. Fine("data_put_public", "grpc")
  BY DataRpcsGo, DataPublicHandlersSteps, DataCallsKeep, ServedIsFine
<1>5. Fine("data_get_public", "grpc")
  BY DataRpcsGo, DataPublicHandlersSteps, DataCallsKeep, ServedIsFine
<1> QED BY <1>1, <1>2, <1>3, <1>4, <1>5, RpcsKeys

LEMMA StreamRpcsFine == \A op \in DOMAIN StreamRpcs : Fine(op, "grpc")
<1>1. Fine("data_stream", "grpc")
  BY StreamRpcsGo, DataStreamHandlersSteps, StreamCallsKeep, ServedIsFine
<1>2. Fine("data_stream_public", "grpc")
  BY StreamRpcsGo, DataStreamHandlersSteps, StreamCallsKeep, ServedIsFine
<1>3. Fine("data_stream_range", "grpc")
  BY StreamRpcsGo, DataStreamHandlersSteps, StreamCallsKeep, ServedIsFine
<1>4. Fine("data_stream_public_range", "grpc")
  BY StreamRpcsGo, DataStreamHandlersSteps, StreamCallsKeep, ServedIsFine
<1> QED BY <1>1, <1>2, <1>3, <1>4, RpcsKeys

LEMMA ProgressRpcsFine == \A op \in DOMAIN ProgressRpcs : Fine(op, "grpc")
<1>1. Fine("data_stream_with_progress", "grpc")
  BY ProgressRpcsGo, DataStreamHandlersSteps, ProgressCallsKeep, ServedIsFine
<1>2. Fine("data_stream_public_with_progress", "grpc")
  BY ProgressRpcsGo, DataStreamHandlersSteps, ProgressCallsKeep, ServedIsFine
<1>3. Fine("data_cost", "grpc")
  BY ProgressRpcsGo, DataCostHandlerSteps, ProgressCallsKeep, ServedIsFine
<1>4. Fine("chunk_put", "grpc")
  BY ProgressRpcsGo, ChunkHandlersSteps, ProgressCallsKeep, ServedIsFine
<1>5. Fine("chunk_get", "grpc")
  BY ProgressRpcsGo, ChunkHandlersSteps, ProgressCallsKeep, ServedIsFine
<1> QED BY <1>1, <1>2, <1>3, <1>4, <1>5, RpcsKeys

LEMMA FileRpcsFine == \A op \in DOMAIN FileRpcs : Fine(op, "grpc")
<1>1. Fine("file_put", "grpc")
  BY FileRpcsGo, FilePutHandlersSteps, FileCallsKeep, ServedIsFine
<1>2. Fine("file_get", "grpc")
  BY FileRpcsGo, FileGetHandlersSteps, FileCallsKeep, ServedIsFine
<1>3. Fine("file_put_public", "grpc")
  BY FileRpcsGo, FilePutHandlersSteps, FileCallsKeep, ServedIsFine
<1>4. Fine("file_get_public", "grpc")
  BY FileRpcsGo, FileGetHandlersSteps, FileCallsKeep, ServedIsFine
<1>5. Fine("file_cost", "grpc")
  BY FileRpcsGo, FileCostHandlerSteps, FileCallsKeep, ServedIsFine
<1> QED BY <1>1, <1>2, <1>3, <1>4, <1>5, RpcsKeys

LEMMA WalletRpcsFine == \A op \in DOMAIN WalletRpcs : Fine(op, "grpc")
<1>1. Fine("wallet_address", "grpc")
  BY WalletRpcsGo, WalletHandlersSteps, WalletCallsOfSdkKeep, ServedIsFine
<1>2. Fine("wallet_balance", "grpc")
  BY WalletRpcsGo, WalletHandlersSteps, WalletCallsOfSdkKeep, ServedIsFine
<1>3. Fine("wallet_approve", "grpc")
  BY WalletRpcsGo, WalletHandlersSteps, WalletCallsOfSdkKeep, ServedIsFine
<1> QED BY <1>1, <1>2, <1>3, RpcsKeys

LEMMA PrepareRpcsFine == \A op \in DOMAIN PrepareRpcs : Fine(op, "grpc")
<1>1. Fine("prepare_upload", "grpc")
  BY PrepareRpcsGo, UploadPrepareHandlersSteps, PrepareCallsKeep, ServedIsFine
<1>2. Fine("prepare_upload_public", "grpc")
  BY PrepareRpcsGo, UploadPrepareHandlersSteps, PrepareCallsKeep, ServedIsFine
<1>3. Fine("prepare_data_upload", "grpc")
  BY PrepareRpcsGo, UploadPrepareHandlersSteps, PrepareCallsKeep, ServedIsFine
<1>4. Fine("verify_quotes", "grpc")
  BY PrepareRpcsGo, VerifyHandlersSteps, PrepareCallsKeep, ServedIsFine
<1> QED BY <1>1, <1>2, <1>3, <1>4, RpcsKeys

LEMMA FinalizeRpcsFine == \A op \in DOMAIN FinalizeRpcs : Fine(op, "grpc")
<1>1. Fine("finalize_upload", "grpc")
  BY FinalizeRpcsGo, UploadFinalizeHandlerSteps, FinalizeCallsKeep, ServedIsFine
<1>2. Fine("finalize_merkle_upload", "grpc")
  BY FinalizeRpcsGo, UploadFinalizeHandlerSteps, FinalizeCallsKeep, ServedIsFine
<1> QED BY <1>1, <1>2, RpcsKeys

LEMMA ChunkSessionRpcsFine == \A op \in DOMAIN ChunkSessionRpcs : Fine(op, "grpc")
<1>1. Fine("prepare_chunk_upload", "grpc")
  BY ChunkSessionRpcsGo, ChunkPrepareHandlerSteps DEF Goes, Fine, Fulfils
<1>2. Fine("finalize_chunk_upload", "grpc")
  BY ChunkSessionRpcsGo, ChunkFinalizeHandlerSteps, ChunkSessionCallsKeep, ServedIsFine
<1> QED BY <1>1, <1>2, RpcsKeys

LEMMA PointerWriteRpcsFine == \A op \in DOMAIN PointerWriteRpcs : Fine(op, "grpc")
<1>1. Fine("pointer_keys", "grpc")
  BY PointerWriteRpcsGo, GrpcPointerWritesSteps, PointerWriteCallsKeep, ServedIsFine
<1>2. Fine("pointer_create", "grpc")
  BY PointerWriteRpcsGo, GrpcPointerWritesSteps, PointerWriteCallsKeep, ServedIsFine
<1>3. Fine("pointer_update", "grpc")
  BY PointerWriteRpcsGo, GrpcPointerWritesSteps, PointerWriteCallsKeep, ServedIsFine
<1>4. Fine("pointer_transfer", "grpc")
  BY PointerWriteRpcsGo, GrpcPointerWritesSteps, PointerWriteCallsKeep, ServedIsFine
<1> QED BY <1>1, <1>2, <1>3, <1>4, RpcsKeys

LEMMA PointerReadRpcsFine == \A op \in DOMAIN PointerReadRpcs : Fine(op, "grpc")
<1>1. Fine("pointer_get", "grpc")
  BY PointerReadRpcsGo, GrpcPointerReadsSteps, PointerReadCallsKeep, ServedIsFine
<1>2. Fine("pointer_resolve", "grpc")
  BY PointerReadRpcsGo, GrpcPointerReadsSteps, PointerReadCallsKeep, ServedIsFine
<1>3. Fine("pointer_finality", "grpc")
  BY PointerReadRpcsGo, GrpcPointerReadsSteps, PointerReadCallsKeep, ServedIsFine
<1>4. Fine("pointer_controller", "grpc")
  BY PointerReadRpcsGo, GrpcPointerReadsSteps, PointerReadCallsKeep, ServedIsFine
<1> QED BY <1>1, <1>2, <1>3, <1>4, RpcsKeys

LEMMA PointerSessionRpcsFine == \A op \in DOMAIN PointerSessionRpcs : Fine(op, "grpc")
<1>1. Fine("pointer_prepare", "grpc")
  BY PointerSessionRpcsGo, GrpcPointerSessionsSteps, PointerSessionCallsKeep, ServedIsFine
<1>2. Fine("pointer_finalize", "grpc")
  BY PointerSessionRpcsGo, GrpcPointerSessionsSteps, PointerSessionCallsKeep, ServedIsFine
<1> QED BY <1>1, <1>2, RpcsKeys

LEMMA ManifestRpcsFine == \A op \in DOMAIN ManifestRpcs : Fine(op, "grpc")
<1>1. Fine("build_manifest", "grpc")
  BY ManifestRpcsGo, ManifestHandlersSteps, ManifestCallsKeep, ServedIsFine
<1>2. Fine("decode_manifest", "grpc")
  BY ManifestRpcsGo, ManifestHandlersSteps, ManifestCallsKeep, ServedIsFine
<1> QED BY <1>1, <1>2, RpcsKeys

LEMMA FfiChunksKeep ==
    /\ Kept("chunk_put", {"chunk_put"})
    /\ Kept("chunk_get", {"chunk_get"})
    /\ Kept("chunk_exists", {"chunk_exists"})
BY DEF Kept, Promise, Lasting, WalletCalls, PaidStores

LEMMA FfiChunksFine == \A op \in DOMAIN FfiChunks : Fine(op, "ffi")
<1>1. Fine("chunk_put", "ffi")
  BY FfiChunksGo, FfiChunksSteps, FfiChunksKeep, PerformedIsFine
<1>2. Fine("chunk_get", "ffi")
  BY FfiChunksGo, FfiChunksSteps, FfiChunksKeep, PerformedIsFine
<1>3. Fine("chunk_exists", "ffi")
  BY FfiChunksGo, FfiChunksSteps, FfiChunksKeep, PerformedIsFine
<1> QED BY <1>1, <1>2, <1>3, FfiScriptsKeys

LEMMA FfiDataKeep ==
    /\ Kept("data_put_public", {"data_map_store", "data_upload"})
    /\ Kept("data_get_public", {"data_download", "data_map_fetch"})
    /\ Kept("data_put_private", {"data_upload"})
    /\ Kept("data_get_private", {"data_download"})
BY DEF Kept, Promise, Lasting, WalletCalls, PaidStores

LEMMA FfiDataFine == \A op \in DOMAIN FfiData : Fine(op, "ffi")
<1>1. Fine("data_put_public", "ffi")
  BY FfiDataGo, FfiDataSteps, FfiDataKeep, PerformedIsFine
<1>2. Fine("data_get_public", "ffi")
  BY FfiDataGo, FfiDataSteps, FfiDataKeep, PerformedIsFine
<1>3. Fine("data_put_private", "ffi")
  BY FfiDataGo, FfiDataSteps, FfiDataKeep, PerformedIsFine
<1>4. Fine("data_get_private", "ffi")
  BY FfiDataGo, FfiDataSteps, FfiDataKeep, PerformedIsFine
<1> QED BY <1>1, <1>2, <1>3, <1>4, FfiScriptsKeys

LEMMA FfiFileUploadsKeep ==
    /\ Kept("file_upload_public", {"file_upload_public"})
    /\ Kept("file_upload_private", {"file_upload"})
    /\ Kept("file_upload_public_with_progress", {"bridge", "file_upload_public", "flush"})
    /\ Kept("file_upload_private_with_progress", {"bridge", "file_upload", "flush"})
BY DEF Kept, Promise, Lasting, WalletCalls, PaidStores

LEMMA FfiFileUploadsFine == \A op \in DOMAIN FfiFileUploads : Fine(op, "ffi")
<1>1. Fine("file_upload_public", "ffi")
  BY FfiFileUploadsGo, FfiFileUploadsSteps, FfiFileUploadsKeep, PerformedIsFine
<1>2. Fine("file_upload_private", "ffi")
  BY FfiFileUploadsGo, FfiFileUploadsSteps, FfiFileUploadsKeep, PerformedIsFine
<1>3. Fine("file_upload_public_with_progress", "ffi")
  BY FfiFileUploadsGo, FfiFileUploadsSteps, FfiFileUploadsKeep, PerformedIsFine
<1>4. Fine("file_upload_private_with_progress", "ffi")
  BY FfiFileUploadsGo, FfiFileUploadsSteps, FfiFileUploadsKeep, PerformedIsFine
<1> QED BY <1>1, <1>2, <1>3, <1>4, FfiScriptsKeys

LEMMA FfiDataMapsKeep ==
    /\ Kept("data_map_store", {"data_map_store"})
    /\ Kept("data_map_fetch", {"data_map_fetch"})
BY DEF Kept, Promise, Lasting, WalletCalls, PaidStores

LEMMA FfiDataMapsFine == \A op \in DOMAIN FfiDataMaps : Fine(op, "ffi")
<1>1. Fine("data_map_store", "ffi")
  BY FfiDataMapsGo, FfiDataMapsSteps, FfiDataMapsKeep, PerformedIsFine
<1>2. Fine("data_map_fetch", "ffi")
  BY FfiDataMapsGo, FfiDataMapsSteps, FfiDataMapsKeep, PerformedIsFine
<1> QED BY <1>1, <1>2, FfiScriptsKeys

LEMMA FfiEstimatesKeep ==
    /\ Kept("estimate_file_cost", {"estimate"})
    /\ Kept("estimate_file_cost_with_progress", {"bridge", "estimate", "flush"})
BY DEF Kept, Promise, Lasting, WalletCalls, PaidStores

LEMMA FfiEstimatesFine == \A op \in DOMAIN FfiEstimates : Fine(op, "ffi")
<1>1. Fine("estimate_file_cost", "ffi")
  BY FfiEstimatesGo, FfiEstimatesSteps, FfiEstimatesKeep, PerformedIsFine
<1>2. Fine("estimate_file_cost_with_progress", "ffi")
  BY FfiEstimatesGo, FfiEstimatesSteps, FfiEstimatesKeep, PerformedIsFine
<1> QED BY <1>1, <1>2, FfiScriptsKeys

LEMMA FfiFileDownloadsKeep ==
    /\ Kept("file_download_public", {"data_map_fetch", "file_download"})
    /\ Kept("file_download_private", {"file_download"})
BY DEF Kept, Promise, Lasting, WalletCalls, PaidStores

LEMMA FfiFileDownloadsFine == \A op \in DOMAIN FfiFileDownloads : Fine(op, "ffi")
<1>1. Fine("file_download_public", "ffi")
  BY FfiFileDownloadsGo, FfiFileDownloadsSteps, FfiFileDownloadsKeep, PerformedIsFine
<1>2. Fine("file_download_private", "ffi")
  BY FfiFileDownloadsGo, FfiFileDownloadsSteps, FfiFileDownloadsKeep, PerformedIsFine
<1> QED BY <1>1, <1>2, FfiScriptsKeys

LEMMA FfiWalletKeep ==
    Kept("wallet_approve", {"approve"})
BY DEF Kept, Promise, Lasting, WalletCalls, PaidStores

LEMMA FfiWalletFine == \A op \in DOMAIN FfiWallet : Fine(op, "ffi")
<1>1. Fine("wallet_approve", "ffi")
  BY FfiWalletGo, FfiWalletSteps, FfiWalletKeep, PerformedIsFine
<1> QED BY <1>1, FfiScriptsKeys

LEMMA FfiProgressDownloadsKeep ==
    /\ Kept("download_public_to_file",
            {"bridge", "data_map_fetch", "file_download", "flush"})
    /\ Kept("download_private_to_file", {"bridge", "file_download", "flush"})
BY DEF Kept, Promise, Lasting, WalletCalls, PaidStores

LEMMA FfiProgressDownloadsFine == \A op \in DOMAIN FfiProgressDownloads : Fine(op, "ffi")
<1>1. Fine("download_public_to_file", "ffi")
  <2>1. /\ Goes("download_public_to_file", "ffi",
                FfiProgressDownloads.download_public_to_file)
        /\ "download_public_to_file" \in DOMAIN FfiProgressDownloads
    BY FfiProgressDownloadsGo, FfiScriptsKeys
  <2>2. Fulfils("download_public_to_file", FfiProgressDownloads.download_public_to_file)
    BY FfiProgressDownloadsSteps, FfiProgressDownloadsKeep DEF Downloads, Fulfils, Kept
  <2> QED BY <2>1, <2>2, FfiProgressDownloadsSteps DEF Goes, Downloads, Fine, ToDaemon
<1>2. Fine("download_private_to_file", "ffi")
  <2>1. /\ Goes("download_private_to_file", "ffi",
                FfiProgressDownloads.download_private_to_file)
        /\ "download_private_to_file" \in DOMAIN FfiProgressDownloads
    BY FfiProgressDownloadsGo, FfiScriptsKeys
  <2>2. Fulfils("download_private_to_file", FfiProgressDownloads.download_private_to_file)
    BY FfiProgressDownloadsSteps, FfiProgressDownloadsKeep DEF Downloads, Fulfils, Kept
  <2> QED BY <2>1, <2>2, FfiProgressDownloadsSteps DEF Goes, Downloads, Fine, ToDaemon
<1> QED BY <1>1, <1>2, FfiScriptsKeys

LEMMA FfiPreparesKeep ==
    /\ Kept("prepare_data_upload", {"data_prepare", "insert_upload"})
    /\ Kept("prepare_file_upload", {"file_prepare", "insert_upload"})
    /\ Kept("prepare_file_upload_with_progress",
            {"bridge", "file_prepare", "flush", "insert_upload"})
    /\ Kept("payment_transactions", {"bill"})
BY DEF Kept, Promise, Lasting, WalletCalls, PaidStores

LEMMA FfiPreparesFine == \A op \in DOMAIN FfiPrepares : Fine(op, "ffi")
<1>1. Fine("prepare_data_upload", "ffi")
  BY FfiPreparesGo, FfiPreparesSteps, FfiPreparesKeep, PerformedIsFine
<1>2. Fine("prepare_file_upload", "ffi")
  BY FfiPreparesGo, FfiPreparesSteps, FfiPreparesKeep, PerformedIsFine
<1>3. Fine("prepare_file_upload_with_progress", "ffi")
  BY FfiPreparesGo, FfiPreparesSteps, FfiPreparesKeep, PerformedIsFine
<1>4. Fine("payment_transactions", "ffi")
  BY FfiPreparesGo, FfiPreparesSteps, FfiPreparesKeep, PerformedIsFine
<1> QED BY <1>1, <1>2, <1>3, <1>4, FfiScriptsKeys

LEMMA FfiFinalizesKeep ==
    /\ Kept("finalize_upload", {"finalize_pending", "take_session"})
    /\ Kept("finalize_upload_merkle", {"finalize_pending", "take_session"})
    /\ Kept("finalize_upload_with_progress",
            {"bridge", "finalize_pending", "flush", "take_session"})
    /\ Kept("finalize_upload_merkle_with_progress",
            {"bridge", "finalize_pending", "flush", "take_session"})
BY DEF Kept, Promise, Lasting, WalletCalls, PaidStores

LEMMA FfiFinalizesFine == \A op \in DOMAIN FfiFinalizes : Fine(op, "ffi")
<1>1. Fine("finalize_upload", "ffi")
  BY FfiFinalizesGo, FfiFinalizesSteps, FfiFinalizesKeep, PerformedIsFine
<1>2. Fine("finalize_upload_merkle", "ffi")
  BY FfiFinalizesGo, FfiFinalizesSteps, FfiFinalizesKeep, PerformedIsFine
<1>3. Fine("finalize_upload_with_progress", "ffi")
  BY FfiFinalizesGo, FfiFinalizesSteps, FfiFinalizesKeep, PerformedIsFine
<1>4. Fine("finalize_upload_merkle_with_progress", "ffi")
  BY FfiFinalizesGo, FfiFinalizesSteps, FfiFinalizesKeep, PerformedIsFine
<1> QED BY <1>1, <1>2, <1>3, <1>4, FfiScriptsKeys

\* A table of the Node binding: methods of the embedded client under their own names.
Delegates(f) == \A op \in DOMAIN f : op \in DOMAIN FfiScripts /\ f[op] = op

LEMMA SameDelegates ==
    ASSUME NEW ops, ops \subseteq DOMAIN FfiScripts PROVE Delegates(Same(ops))
BY DEF Delegates, Same

LEMMA NodeDataDelegates == Delegates(NodeData)
BY SameDelegates, FfiScriptsKeys, FfiScriptsHas DEF NodeData

LEMMA NodeFilesDelegates == Delegates(NodeFiles)
BY SameDelegates, FfiScriptsKeys, FfiScriptsHas DEF NodeFiles

LEMMA NodeMapsAndWalletDelegates == Delegates(NodeMapsAndWallet)
BY SameDelegates, FfiScriptsKeys, FfiScriptsHas DEF NodeMapsAndWallet

LEMMA NodeUploadsDelegates == Delegates(NodeUploads)
BY SameDelegates, FfiScriptsKeys, FfiScriptsHas DEF NodeUploads

LEMMA NodeDownloadsDelegates == Delegates(NodeDownloads)
BY SameDelegates, FfiScriptsKeys, FfiScriptsHas DEF NodeDownloads

LEMMA NodeDelegatesSame == Delegates(NodeDelegates)
BY JoinedOf, NodeDataDelegates, NodeFilesDelegates, NodeMapsAndWalletDelegates,
   NodeUploadsDelegates, NodeDownloadsDelegates DEF NodeDelegates, Delegates

LEMMA RestIsFine == \A op \in DOMAIN HttpCalls : Fine(op, "rest")
BY HttpCallsOf, DataCallsFine, StreamCallsFine, ProgressCallsFine, FileCallsFine,
   WalletCallsOfSdkFine, PrepareCallsFine, FinalizeCallsFine, ChunkSessionCallsFine,
   PointerWriteCallsFine, PointerReadCallsFine, PointerSessionCallsFine, ManifestCallsFine

LEMMA GrpcIsFine == \A op \in DOMAIN Rpcs : Fine(op, "grpc")
BY RpcsOf, DataRpcsFine, StreamRpcsFine, ProgressRpcsFine, FileRpcsFine, WalletRpcsFine,
   PrepareRpcsFine, FinalizeRpcsFine, ChunkSessionRpcsFine, PointerWriteRpcsFine,
   PointerReadRpcsFine, PointerSessionRpcsFine, ManifestRpcsFine

LEMMA FfiIsFine == \A op \in DOMAIN FfiScripts : Fine(op, "ffi")
BY FfiScriptsOf, FfiChunksFine, FfiDataFine, FfiFileUploadsFine, FfiDataMapsFine,
   FfiEstimatesFine, FfiFileDownloadsFine, FfiWalletFine, FfiProgressDownloadsFine,
   FfiPreparesFine, FfiFinalizesFine

LEMMA NodeIsFine == \A op \in DOMAIN NodeDelegates : Fine(op, "node")
<1> SUFFICES ASSUME NEW op \in DOMAIN NodeDelegates PROVE Fine(op, "node")
  OBVIOUS
<1>1. op \in DOMAIN FfiScripts /\ NodeDelegates[op] = op
  BY NodeDelegatesSame DEF Delegates
<1>2. Script(op, "node") = Script(op, "ffi") /\ Routed(op, "node")
  BY <1>1 DEF Script, Routed
<1>3. Fine(op, "ffi") /\ "node" \notin ToDaemon
  BY <1>1, FfiIsFine DEF ToDaemon
<1> QED BY <1>2, <1>3 DEF Fine

\* Every handler is fine.
LEMMA HandlersAreFine == \A via \in Transports : \A op \in Ops(via) : Fine(op, via)
<1>1. \A op \in Ops("rest") : Fine(op, "rest")
  BY RestIsFine DEF Ops
<1>2. \A op \in Ops("grpc") : Fine(op, "grpc")
  BY GrpcIsFine DEF Ops
<1>3. \A op \in Ops("ffi") : Fine(op, "ffi")
  BY FfiIsFine DEF Ops
<1>4. \A op \in Ops("node") : Fine(op, "node")
  BY NodeIsFine DEF Ops
<1> QED BY <1>1, <1>2, <1>3, <1>4 DEF Transports, ToDaemon, Embedded

-----------------------------------------------------------------------------
(* How a refusal is read.                                                  *)

\* The two transports answer a refusal alike.
SameAnswer(op, rest, grpc) ==
    ReadAlike(op, Report(op, "rest", "need", rest), Report(op, "grpc", "need", grpc))

\* The calls for a range read OUT_OF_RANGE themselves.
LEMMA RangeRpcs ==
    Rpcs["data_stream_range"].ranged /\ Rpcs["data_stream_public_range"].ranged
BY StreamRpcsAt DEF StreamRpcs, Has, Rpc, Ranged

\* An error without a code of its own is read by its HTTP status.
LEMMA ByStatus ==
    ASSUME NEW op, NEW error,
           Code(error) \notin {"PARTIAL_UPLOAD", "POINTER_FINAL", "POINTER_FORKED",
                               "CONFLICT", "CLOSE_GROUP_SHORTFALL"}
    PROVE  Report(op, "rest", "need", error).kind = ForStatus(HttpStatus(error))
<1>1. SdkReads(op, "rest", Carried("rest", error)).kind = ForStatus(HttpStatus(error))
  BY DEF SdkReads, Carried, RestAnswer, E, SdkOfRest, SdkError
<1> QED BY <1>1 DEF Report

LEMMA RestRead ==
    ASSUME NEW op
    PROVE  \A error \in {"BadRequest", "ServiceUnavailable", "NotFound", "Internal",
                         "RangeNotSatisfiable"} :
              Report(op, "rest", "need", error).kind = error
<1>1. /\ Code("BadRequest") = "BAD_REQUEST"
      /\ Code("ServiceUnavailable") = "SERVICE_UNAVAILABLE"
      /\ Code("NotFound") = "NOT_FOUND" /\ Code("Internal") = "INTERNAL_ERROR"
      /\ Code("RangeNotSatisfiable") = "RANGE_NOT_SATISFIABLE"
  BY DEF Code
<1>2. /\ HttpStatus("BadRequest") = 400 /\ HttpStatus("ServiceUnavailable") = 503
      /\ HttpStatus("NotFound") = 404 /\ HttpStatus("Internal") = 500
      /\ HttpStatus("RangeNotSatisfiable") = 416
  BY DEF HttpStatus
<1>3. /\ ForStatus(400) = "BadRequest" /\ ForStatus(503) = "ServiceUnavailable"
      /\ ForStatus(404) = "NotFound" /\ ForStatus(500) = "Internal"
      /\ ForStatus(416) = "RangeNotSatisfiable"
  BY DEF ForStatus
<1> QED BY <1>1, <1>2, <1>3, ByStatus

\* What the SDK makes of a status without a tag.
StatusKind(op, code) ==
    IF code = "OUT_OF_RANGE" /\ Rpcs[op].ranged THEN "RangeNotSatisfiable"
    ELSE IF code = "INVALID_ARGUMENT" THEN "BadRequest" ELSE "Grpc"

LEMMA StatusRead ==
    ASSUME NEW op, NEW a, a.tag = "none", a.code # "ABORTED"
    PROVE  SdkReads(op, "grpc", a).kind = StatusKind(op, a.code)
<1>1. SdkOfGrpc(a).kind = IF a.code = "INVALID_ARGUMENT" THEN "BadRequest" ELSE "Grpc"
  BY DEF SdkOfGrpc, SdkError, TypedStatus
<1>2. SdkOfRange(a).kind
        = IF a.code = "OUT_OF_RANGE" THEN "RangeNotSatisfiable" ELSE SdkOfGrpc(a).kind
  BY DEF SdkOfRange, SdkError
<1>3. SdkReads(op, "grpc", a) = IF Rpcs[op].ranged THEN SdkOfRange(a) ELSE SdkOfGrpc(a)
  BY DEF SdkReads
<1> QED BY <1>1, <1>2, <1>3 DEF StatusKind

LEMMA GrpcRead ==
    ASSUME NEW op
    PROVE  /\ \A error \in ErrorKinds \ Tagged : GrpcCode(error) # "ABORTED" =>
                 /\ Report(op, "grpc", "need", error).code = GrpcCode(error)
                 /\ Report(op, "grpc", "need", error).kind = StatusKind(op, GrpcCode(error))
           /\ \A code : code \notin ErrorKinds /\ code # "ABORTED" =>
                 /\ Report(op, "grpc", "need", code).code = code
                 /\ Report(op, "grpc", "need", code).kind = StatusKind(op, code)
<1>1. \A error \in ErrorKinds \ Tagged :
          Carried("grpc", error).code = GrpcCode(error) /\ Carried("grpc", error).tag = "none"
  BY DEF Carried, GrpcAnswer, E
<1>2. \A code : code \notin ErrorKinds
          => Carried("grpc", code).code = code /\ Carried("grpc", code).tag = "none"
  BY DEF Carried, Status
<1>3. \A error : /\ Report(op, "grpc", "need", error).code = Carried("grpc", error).code
                 /\ Report(op, "grpc", "need", error).kind
                      = SdkReads(op, "grpc", Carried("grpc", error)).kind
  BY DEF Report
<1> QED BY <1>1, <1>2, <1>3, StatusRead

\* The pairs of a REST error and a gRPC answer that agree.
LEMMA SameAnswers ==
    ASSUME NEW op, NEW rest, NEW grpc,
           \/ <<rest, grpc>> \in
                {<<"BadRequest", "INVALID_ARGUMENT">>, <<"BadRequest", "BadRequest">>,
                 <<"NotFound", "NotFound">>, <<"NotFound", "NOT_FOUND">>,
                 <<"Internal", "INTERNAL">>}
           \/ op \notin OwnCodes /\ <<rest, grpc>> = <<"ServiceUnavailable", "UNAVAILABLE">>
           \/ /\ op \in OwnCodes
              /\ <<rest, grpc>> = <<"ServiceUnavailable", "FAILED_PRECONDITION">>
           \/ /\ Rpcs[op].ranged
              /\ <<rest, grpc>> = <<"RangeNotSatisfiable", "RangeNotSatisfiable">>,
           rest \in {"NotFound", "Internal"} => op \notin OwnCodes
    PROVE  SameAnswer(op, rest, grpc)
<1>1. /\ {"BadRequest", "NotFound", "RangeNotSatisfiable"} \subseteq ErrorKinds \ Tagged
      /\ {"INVALID_ARGUMENT", "UNAVAILABLE", "NOT_FOUND", "INTERNAL", "FAILED_PRECONDITION"}
            \cap ErrorKinds = {}
  BY DEF ErrorKinds, Tagged
<1>2. /\ GrpcCode("BadRequest") = "INVALID_ARGUMENT"
      /\ GrpcCode("ServiceUnavailable") = "UNAVAILABLE"
      /\ GrpcCode("NotFound") = "NOT_FOUND" /\ GrpcCode("Internal") = "INTERNAL"
      /\ GrpcCode("RangeNotSatisfiable") = "OUT_OF_RANGE"
  BY DEF GrpcCode
<1>3. \A code \in {"INVALID_ARGUMENT", "UNAVAILABLE", "NOT_FOUND", "INTERNAL",
                   "FAILED_PRECONDITION"} :
        /\ Report(op, "grpc", "need", code).code = code
        /\ Report(op, "grpc", "need", code).kind
             = IF code = "INVALID_ARGUMENT" THEN "BadRequest" ELSE "Grpc"
  BY <1>1, GrpcRead DEF StatusKind
<1>4. /\ Report(op, "grpc", "need", "BadRequest").kind = "BadRequest"
      /\ Report(op, "grpc", "need", "NotFound").kind = "Grpc"
      /\ Report(op, "grpc", "need", "NotFound").code = "NOT_FOUND"
      /\ Rpcs[op].ranged =>
            Report(op, "grpc", "need", "RangeNotSatisfiable").kind = "RangeNotSatisfiable"
  BY <1>1, <1>2, GrpcRead DEF StatusKind
<1>5. CASE rest = "BadRequest"
  BY <1>3, <1>4, <1>5, RestRead DEF SameAnswer, ReadAlike, RestOnly
<1>6. CASE rest = "RangeNotSatisfiable"
  BY <1>4, <1>6, RestRead DEF SameAnswer, ReadAlike, RestOnly
<1>7. CASE rest = "NotFound"
  BY <1>2, <1>3, <1>4, <1>7, RestRead DEF SameAnswer, ReadAlike, RestOnly
<1>8. CASE rest = "Internal"
  BY <1>2, <1>3, <1>8, RestRead DEF SameAnswer, ReadAlike, RestOnly
<1>9. CASE rest = "ServiceUnavailable"
  BY <1>2, <1>3, <1>9, RestRead DEF SameAnswer, ReadAlike, RestOnly
<1> QED BY <1>5, <1>6, <1>7, <1>8, <1>9

-----------------------------------------------------------------------------
(* What the SDK checks itself.                                             *)

\* The checks that do not depend on the transport.
OwnChecks(op) ==
    CASE op \in {"data_stream_range", "data_stream_public_range"} ->
            <<Need("positive", "BadRequest")>>
      [] op = "build_manifest"  -> <<Need("one_source", "BadRequest")>>
      [] op = "decode_manifest" -> <<Need("nonempty", "BadRequest")>>
      [] OTHER                  -> <<>>

LEMMA RestChecks == \A op \in DOMAIN HttpCalls : Checks(op, "rest") = OwnChecks(op)
<1>1. /\ \A h \in DOMAIN DataCalls : DataCalls[h].checks = <<>>
      /\ \A h \in DOMAIN ProgressCalls : ProgressCalls[h].checks = <<>>
      /\ \A h \in DOMAIN FileCalls : FileCalls[h].checks = <<>>
  BY DEF DataCalls, ProgressCalls, FileCalls, GetCall, PostCall, Http
<1>2. /\ \A h \in DOMAIN WalletCallsOfSdk : WalletCallsOfSdk[h].checks = <<>>
      /\ \A h \in DOMAIN PrepareCalls : PrepareCalls[h].checks = <<>>
      /\ \A h \in DOMAIN FinalizeCalls : FinalizeCalls[h].checks = <<>>
      /\ \A h \in DOMAIN ChunkSessionCalls : ChunkSessionCalls[h].checks = <<>>
  BY DEF WalletCallsOfSdk, PrepareCalls, FinalizeCalls, ChunkSessionCalls, GetCall, PostCall,
         Http
<1>3. /\ \A h \in DOMAIN PointerWriteCalls : PointerWriteCalls[h].checks = <<>>
      /\ \A h \in DOMAIN PointerReadCalls : PointerReadCalls[h].checks = <<>>
      /\ \A h \in DOMAIN PointerSessionCalls : PointerSessionCalls[h].checks = <<>>
  BY DEF PointerWriteCalls, PointerReadCalls, PointerSessionCalls, GetCall, PostCall, Http
<1>4. /\ StreamCalls["data_stream"].checks = <<>>
      /\ StreamCalls["data_stream_public"].checks = <<>>
      /\ StreamCalls["data_stream_range"].checks = <<Need("positive", "BadRequest")>>
      /\ StreamCalls["data_stream_public_range"].checks = <<Need("positive", "BadRequest")>>
  BY DEF StreamCalls, Ranged, GetCall, PostCall, Http
<1>5. /\ ManifestCalls["build_manifest"].checks = <<Need("one_source", "BadRequest")>>
      /\ ManifestCalls["decode_manifest"].checks = <<Need("nonempty", "BadRequest")>>
  BY DEF ManifestCalls, Checked, PostCall, Http
<1>6. /\ \A op \in DOMAIN StreamCalls : StreamCalls[op].checks = OwnChecks(op)
      /\ \A op \in DOMAIN ManifestCalls : ManifestCalls[op].checks = OwnChecks(op)
  BY <1>4, <1>5, HttpCallsKeys DEF OwnChecks
<1>7. /\ \A op \in DOMAIN DataCalls : OwnChecks(op) = <<>>
      /\ \A op \in DOMAIN ProgressCalls : OwnChecks(op) = <<>>
      /\ \A op \in DOMAIN FileCalls : OwnChecks(op) = <<>>
      /\ \A op \in DOMAIN WalletCallsOfSdk : OwnChecks(op) = <<>>
      /\ \A op \in DOMAIN PrepareCalls : OwnChecks(op) = <<>>
  BY HttpCallsKeys DEF OwnChecks
<1>8. /\ \A op \in DOMAIN FinalizeCalls : OwnChecks(op) = <<>>
      /\ \A op \in DOMAIN ChunkSessionCalls : OwnChecks(op) = <<>>
      /\ \A op \in DOMAIN PointerWriteCalls : OwnChecks(op) = <<>>
      /\ \A op \in DOMAIN PointerReadCalls : OwnChecks(op) = <<>>
      /\ \A op \in DOMAIN PointerSessionCalls : OwnChecks(op) = <<>>
  BY HttpCallsKeys DEF OwnChecks
<1>9. \A op \in DOMAIN HttpCalls : HttpCalls[op].checks = OwnChecks(op)
  BY <1>1, <1>2, <1>3, <1>6, <1>7, <1>8, HttpCallsOf
<1> QED BY <1>9 DEF Checks

LEMMA GrpcChecks ==
    \A op \in DOMAIN Rpcs :
        Checks(op, "grpc") = IF op = "verify_quotes" THEN <<Need("entries64", "BadRequest")>>
                             ELSE OwnChecks(op)
<1>1. /\ \A h \in DOMAIN DataRpcs : DataRpcs[h].checks = <<>>
      /\ \A h \in DOMAIN ProgressRpcs : ProgressRpcs[h].checks = <<>>
      /\ \A h \in DOMAIN FileRpcs : FileRpcs[h].checks = <<>>
  BY DEF DataRpcs, ProgressRpcs, FileRpcs, Rpc
<1>2. /\ \A h \in DOMAIN WalletRpcs : WalletRpcs[h].checks = <<>>
      /\ \A h \in DOMAIN FinalizeRpcs : FinalizeRpcs[h].checks = <<>>
      /\ \A h \in DOMAIN ChunkSessionRpcs : ChunkSessionRpcs[h].checks = <<>>
  BY DEF WalletRpcs, FinalizeRpcs, ChunkSessionRpcs, Rpc
<1>3. /\ \A h \in DOMAIN PointerWriteRpcs : PointerWriteRpcs[h].checks = <<>>
      /\ \A h \in DOMAIN PointerReadRpcs : PointerReadRpcs[h].checks = <<>>
      /\ \A h \in DOMAIN PointerSessionRpcs : PointerSessionRpcs[h].checks = <<>>
  BY DEF PointerWriteRpcs, PointerReadRpcs, PointerSessionRpcs, Rpc
<1>4. /\ StreamRpcs["data_stream"].checks = <<>>
      /\ StreamRpcs["data_stream_public"].checks = <<>>
      /\ StreamRpcs["data_stream_range"].checks = <<Need("positive", "BadRequest")>>
      /\ StreamRpcs["data_stream_public_range"].checks = <<Need("positive", "BadRequest")>>
  BY DEF StreamRpcs, Ranged, Rpc
<1>5. /\ ManifestRpcs["build_manifest"].checks = <<Need("one_source", "BadRequest")>>
      /\ ManifestRpcs["decode_manifest"].checks = <<Need("nonempty", "BadRequest")>>
  BY DEF ManifestRpcs, Checked, Rpc
<1>6. /\ PrepareRpcs["verify_quotes"].checks = <<Need("entries64", "BadRequest")>>
      /\ \A h \in DOMAIN PrepareRpcs : h # "verify_quotes" => PrepareRpcs[h].checks = <<>>
  BY DEF PrepareRpcs, Checked, Rpc
<1>7. /\ \A op \in DOMAIN StreamRpcs : StreamRpcs[op].checks = OwnChecks(op)
      /\ \A op \in DOMAIN ManifestRpcs : ManifestRpcs[op].checks = OwnChecks(op)
  BY <1>4, <1>5, RpcsKeys DEF OwnChecks
<1>8. /\ \A op \in DOMAIN DataRpcs : OwnChecks(op) = <<>>
      /\ \A op \in DOMAIN ProgressRpcs : OwnChecks(op) = <<>>
      /\ \A op \in DOMAIN FileRpcs : OwnChecks(op) = <<>>
      /\ \A op \in DOMAIN WalletRpcs : OwnChecks(op) = <<>>
      /\ \A op \in DOMAIN PrepareRpcs : OwnChecks(op) = <<>>
  BY RpcsKeys DEF OwnChecks
<1>9. /\ \A op \in DOMAIN FinalizeRpcs : OwnChecks(op) = <<>>
      /\ \A op \in DOMAIN ChunkSessionRpcs : OwnChecks(op) = <<>>
      /\ \A op \in DOMAIN PointerWriteRpcs : OwnChecks(op) = <<>>
      /\ \A op \in DOMAIN PointerReadRpcs : OwnChecks(op) = <<>>
      /\ \A op \in DOMAIN PointerSessionRpcs : OwnChecks(op) = <<>>
  BY RpcsKeys DEF OwnChecks
<1>10. \A op \in DOMAIN Rpcs :
          op # "verify_quotes" => Rpcs[op].checks = OwnChecks(op)
  BY <1>1, <1>2, <1>3, <1>6, <1>7, <1>8, <1>9, RpcsOf
<1>11. Rpcs["verify_quotes"].checks = <<Need("entries64", "BadRequest")>>
  BY <1>6, PrepareRpcsAt DEF Has
<1> QED BY <1>10, <1>11 DEF Checks

-----------------------------------------------------------------------------
(* The two handlers of a call refuse alike.                                *)

\* What a step is as a guard.
GuardLike(x, do, fact, error) == x.do = do /\ x.fact = fact /\ x.error = error

\* s refuses a fact at k.
NeedAt(s, k, fact) == k \in DOMAIN s /\ s[k].do = "need" /\ s[k].fact = fact

LEMMA NeedOf == \A fact, error : GuardLike(Need(fact, error), "need", fact, error)
BY DEF GuardLike, Need, Step

LEMMA OtherOf ==
    /\ \A fact, error : GuardLike(Check(fact, error), "check", fact, error)
    /\ \A fact : GuardLike(EndsUnless(fact), "ends", fact, "none")
    /\ \A c : GuardLike(Effect(c), "effect", "none", "none")
    /\ \A c : GuardLike(Spawn(c), "spawn", "none", "core")
    /\ \A c, e : GuardLike(SpawnOr(c, e), "spawn", "none", e)
    /\ \A c : GuardLike(Await(c), "await", "none", "core")
    /\ \A c, e : GuardLike(AwaitOr(c, e), "await", "none", e)
    /\ GuardLike(Stage, "effect", "none", "none")
    /\ GuardLike(Unstage, "cleanup", "none", "none")
BY DEF GuardLike, Check, EndsUnless, Effect, Spawn, SpawnOr, Await, AwaitOr, Stage, Unstage,
       Cleanup, Step

\* What R refuses G refuses, but for what is wrong with how the call is carried.
Covers(R, G) ==
    \A i \in DOMAIN R : R[i].do = "need" /\ R[i].fact \notin Carriage =>
        \E k \in DOMAIN G : G[k].do = "need" /\ G[k].fact = R[i].fact

\* What G refuses up to such a guard, R has refused before or would answer alike.
Agrees(op, R, G) ==
    \A i \in DOMAIN R : \A k \in DOMAIN G : \A m \in 1 .. k :
        R[i].do = "need" /\ G[k].do = "need" /\ G[m].do = "need" /\ G[k].fact = R[i].fact =>
            \/ \E j \in 1 .. i - 1 : R[j].do = "need" /\ R[j].fact = G[m].fact
            \/ SameAnswer(op, R[i].error, G[m].error)

Alike(op, R, G) == Covers(R, G) /\ Covers(G, R) /\ Agrees(op, R, G)

LEMMA AlikeIsAligned ==
    ASSUME NEW op, NEW R, NEW G, Goes(op, "rest", R), Goes(op, "grpc", G), Alike(op, R, G)
    PROVE  op \in Ops("grpc") /\ Alike(op, Script(op, "rest"), Script(op, "grpc"))
BY DEF Goes

LEMMA DataCallsAligned ==
    \A op \in DOMAIN DataCalls :
        op \in Ops("grpc") /\ Alike(op, Script(op, "rest"), Script(op, "grpc"))
<1>1. Alike("health", Health.health, HealthHandlers.check)
  <2>1. Covers(Health.health, HealthHandlers.check)
    BY NeedOf, OtherOf DEF Covers, GuardLike, Carriage, Health, HealthHandlers
  <2>2. Covers(HealthHandlers.check, Health.health)
    BY NeedOf, OtherOf DEF Covers, GuardLike, Carriage, Health, HealthHandlers
  <2>3. Agrees("health", Health.health, HealthHandlers.check)
    BY NeedOf, OtherOf, SameAnswers DEF Agrees, GuardLike, OwnCodes, Health, HealthHandlers
  <2> QED BY <2>1, <2>2, <2>3 DEF Alike
<1>2. Alike("data_put", PrivateData.data_put, DataPrivateHandlers.put)
  <2>1. Covers(PrivateData.data_put, DataPrivateHandlers.put)
    BY NeedOf, OtherOf DEF Covers, GuardLike, Carriage, ApiJson, Bad, DataMapGuards,
       DataPrivateHandlers, GrpcMode, Invalid, MapGuards, MarkStored, NeedsWallet,
       PrivateData, WalletGuard
  <2>2. Covers(DataPrivateHandlers.put, PrivateData.data_put)
    <3>1. /\ NeedAt(PrivateData.data_put, 3, "wallet")
          /\ NeedAt(PrivateData.data_put, 5, "mode")
      BY NeedOf, OtherOf DEF NeedAt, GuardLike, ApiJson, Bad, DataMapGuards, MarkStored,
         NeedsWallet, PrivateData
    <3>2. \A i \in DOMAIN DataPrivateHandlers.put : DataPrivateHandlers.put[i].do = "need"
            => DataPrivateHandlers.put[i].fact \in {"wallet", "mode"}
      BY NeedOf, OtherOf DEF GuardLike, DataPrivateHandlers, GrpcMode, Invalid, MapGuards,
         MarkStored, WalletGuard
    <3> QED BY <3>1, <3>2 DEF Covers, NeedAt
  <2>3. Agrees("data_put", PrivateData.data_put, DataPrivateHandlers.put)
    BY NeedOf, OtherOf, SameAnswers DEF Agrees, GuardLike, OwnCodes, ApiJson, Bad,
       DataMapGuards, DataPrivateHandlers, GrpcMode, Invalid, MapGuards, MarkStored,
       NeedsWallet, PrivateData, WalletGuard
  <2> QED BY <2>1, <2>2, <2>3 DEF Alike
<1>3. Alike("data_get", PrivateData.data_get, DataPrivateHandlers.get)
  <2>1. Covers(PrivateData.data_get, DataPrivateHandlers.get)
    BY NeedOf, OtherOf DEF Covers, GuardLike, Carriage, ApiJson, Bad, DataMapGuards,
       DataPrivateHandlers, GrpcMode, Invalid, MapGuards, MarkStored, NeedsWallet,
       PrivateData, WalletGuard
  <2>2. Covers(DataPrivateHandlers.get, PrivateData.data_get)
    BY NeedOf, OtherOf DEF Covers, GuardLike, Carriage, ApiJson, Bad, DataMapGuards,
       DataPrivateHandlers, GrpcMode, Invalid, MapGuards, MarkStored, NeedsWallet,
       PrivateData, WalletGuard
  <2>3. Agrees("data_get", PrivateData.data_get, DataPrivateHandlers.get)
    BY NeedOf, OtherOf, SameAnswers DEF Agrees, GuardLike, OwnCodes, ApiJson, Bad,
       DataMapGuards, DataPrivateHandlers, GrpcMode, Invalid, MapGuards, MarkStored,
       NeedsWallet, PrivateData, WalletGuard
  <2> QED BY <2>1, <2>2, <2>3 DEF Alike
<1>4. Alike("data_put_public", PublicData.data_put_public, DataPublicHandlers.put_public)
  <2>1. Covers(PublicData.data_put_public, DataPublicHandlers.put_public)
    BY NeedOf, OtherOf DEF Covers, GuardLike, Carriage, ApiJson, Bad, DataPublicHandlers,
       GrpcMode, Invalid, MarkStored, NeedsWallet, PublicData, WalletGuard
  <2>2. Covers(DataPublicHandlers.put_public, PublicData.data_put_public)
    <3>1. /\ NeedAt(PublicData.data_put_public, 3, "wallet")
          /\ NeedAt(PublicData.data_put_public, 5, "mode")
      BY NeedOf, OtherOf DEF NeedAt, GuardLike, ApiJson, Bad, MarkStored, NeedsWallet,
         PublicData
    <3>2. \A i \in DOMAIN DataPublicHandlers.put_public : DataPublicHandlers.put_public[i].do = "need"
            => DataPublicHandlers.put_public[i].fact \in {"wallet", "mode"}
      BY NeedOf, OtherOf DEF GuardLike, DataPublicHandlers, GrpcMode, Invalid, MarkStored,
         WalletGuard
    <3> QED BY <3>1, <3>2 DEF Covers, NeedAt
  <2>3. Agrees("data_put_public", PublicData.data_put_public, DataPublicHandlers.put_public)
    BY NeedOf, OtherOf, SameAnswers DEF Agrees, GuardLike, OwnCodes, ApiJson, Bad,
       DataPublicHandlers, GrpcMode, Invalid, MarkStored, NeedsWallet, PublicData,
       WalletGuard
  <2> QED BY <2>1, <2>2, <2>3 DEF Alike
<1>5. Alike("data_get_public", PublicData.data_get_public, DataPublicHandlers.get_public)
  <2>1. Covers(PublicData.data_get_public, DataPublicHandlers.get_public)
    BY NeedOf, OtherOf DEF Covers, GuardLike, Carriage, ApiJson, Bad, DataPublicHandlers,
       GrpcMode, Invalid, MarkStored, NeedsWallet, PublicData, WalletGuard
  <2>2. Covers(DataPublicHandlers.get_public, PublicData.data_get_public)
    BY NeedOf, OtherOf DEF Covers, GuardLike, Carriage, ApiJson, Bad, DataPublicHandlers,
       GrpcMode, Invalid, MarkStored, NeedsWallet, PublicData, WalletGuard
  <2>3. Agrees("data_get_public", PublicData.data_get_public, DataPublicHandlers.get_public)
    BY NeedOf, OtherOf, SameAnswers DEF Agrees, GuardLike, OwnCodes, ApiJson, Bad,
       DataPublicHandlers, GrpcMode, Invalid, MarkStored, NeedsWallet, PublicData,
       WalletGuard
  <2> QED BY <2>1, <2>2, <2>3 DEF Alike
<1> QED BY <1>1, <1>2, <1>3, <1>4, <1>5, DataCallsGo, DataRpcsGo, AlikeIsAligned,
           HttpCallsKeys

LEMMA StreamCallsAligned ==
    \A op \in DOMAIN StreamCalls :
        op \in Ops("grpc") /\ Alike(op, Script(op, "rest"), Script(op, "grpc"))
<1>1. Alike("data_stream", Streams.data_stream, DataStreamHandlers.stream)
  <2>1. Covers(Streams.data_stream, DataStreamHandlers.stream)
    BY NeedOf, OtherOf DEF Covers, GuardLike, Carriage, ApiJson, Bad, DataMapGuards,
       DataStreamHandlers, GrpcRange, GrpcStream, Invalid, MapGuards, RangeOfObject,
       Streams, WantsRange, WholeObject
  <2>2. Covers(DataStreamHandlers.stream, Streams.data_stream)
    <3>1. /\ NeedAt(Streams.data_stream, 3, "hex")
          /\ NeedAt(Streams.data_stream, 4, "map_size")
          /\ NeedAt(Streams.data_stream, 5, "map")
      BY NeedOf, OtherOf DEF NeedAt, GuardLike, ApiJson, Bad, DataMapGuards, RangeOfObject,
         Streams, WholeObject
    <3>2. \A i \in DOMAIN DataStreamHandlers.stream : DataStreamHandlers.stream[i].do = "need"
            => DataStreamHandlers.stream[i].fact \in {"hex", "map_size", "map"}
      BY NeedOf, OtherOf DEF GuardLike, DataStreamHandlers, GrpcRange, GrpcStream, Invalid,
         MapGuards, WantsRange
    <3> QED BY <3>1, <3>2 DEF Covers, NeedAt
  <2>3. Agrees("data_stream", Streams.data_stream, DataStreamHandlers.stream)
    BY NeedOf, OtherOf, SameAnswers DEF Agrees, GuardLike, OwnCodes, ApiJson, Bad,
       DataMapGuards, DataStreamHandlers, GrpcRange, GrpcStream, Invalid, MapGuards,
       RangeOfObject, Streams, WantsRange, WholeObject
  <2> QED BY <2>1, <2>2, <2>3 DEF Alike
<1>2. Alike("data_stream_public", Streams.data_stream_public,
            DataStreamHandlers.stream_public)
  <2>1. Covers(Streams.data_stream_public, DataStreamHandlers.stream_public)
    BY NeedOf, OtherOf DEF Covers, GuardLike, Carriage, ApiJson, Bad, DataMapGuards,
       DataStreamHandlers, GrpcRange, GrpcStream, Invalid, MapGuards, RangeOfObject,
       Streams, WantsRange, WholeObject
  <2>2. Covers(DataStreamHandlers.stream_public, Streams.data_stream_public)
    BY NeedOf, OtherOf DEF Covers, GuardLike, Carriage, ApiJson, Bad, DataMapGuards,
       DataStreamHandlers, GrpcRange, GrpcStream, Invalid, MapGuards, RangeOfObject,
       Streams, WantsRange, WholeObject
  <2>3. Agrees("data_stream_public", Streams.data_stream_public,
               DataStreamHandlers.stream_public)
    BY NeedOf, OtherOf, SameAnswers DEF Agrees, GuardLike, OwnCodes, ApiJson, Bad,
       DataMapGuards, DataStreamHandlers, GrpcRange, GrpcStream, Invalid, MapGuards,
       RangeOfObject, Streams, WantsRange, WholeObject
  <2> QED BY <2>1, <2>2, <2>3 DEF Alike
<1>3. Alike("data_stream_range", Streams.data_stream_range, DataStreamHandlers.stream_range)
  <2>1. Covers(Streams.data_stream_range, DataStreamHandlers.stream_range)
    <3>1. /\ NeedAt(DataStreamHandlers.stream_range, 1, "hex")
          /\ NeedAt(DataStreamHandlers.stream_range, 2, "map_size")
          /\ NeedAt(DataStreamHandlers.stream_range, 3, "map")
          /\ NeedAt(DataStreamHandlers.stream_range, 4, "raw")
          /\ NeedAt(DataStreamHandlers.stream_range, 6, "range")
          /\ NeedAt(DataStreamHandlers.stream_range, 7, "inside")
      BY NeedOf, OtherOf DEF NeedAt, GuardLike, DataStreamHandlers, GrpcRange, GrpcStream,
         Invalid, MapGuards, WantsRange
    <3>2. \A i \in DOMAIN Streams.data_stream_range :
              Streams.data_stream_range[i].do = "need" =>
                  Streams.data_stream_range[i].fact \in {"length", "json", "hex",
                      "map_size", "map", "raw", "ascii", "range", "inside"}
      BY NeedOf, OtherOf DEF GuardLike, ApiJson, Bad, DataMapGuards, RangeOfObject, Streams,
         WholeObject
    <3> QED BY <3>1, <3>2 DEF Covers, NeedAt, Carriage
  <2>2. Covers(DataStreamHandlers.stream_range, Streams.data_stream_range)
    <3>1. /\ NeedAt(Streams.data_stream_range, 3, "hex")
          /\ NeedAt(Streams.data_stream_range, 4, "map_size")
          /\ NeedAt(Streams.data_stream_range, 5, "map")
          /\ NeedAt(Streams.data_stream_range, 6, "raw")
          /\ NeedAt(Streams.data_stream_range, 9, "range")
          /\ NeedAt(Streams.data_stream_range, 10, "inside")
      BY NeedOf, OtherOf DEF NeedAt, GuardLike, ApiJson, Bad, DataMapGuards, RangeOfObject,
         Streams, WholeObject
    <3>2. \A i \in DOMAIN DataStreamHandlers.stream_range :
              DataStreamHandlers.stream_range[i].do = "need" =>
                  DataStreamHandlers.stream_range[i].fact \in {"hex", "map_size", "map",
                      "raw", "range", "inside"}
      BY NeedOf, OtherOf DEF GuardLike, DataStreamHandlers, GrpcRange, GrpcStream, Invalid,
         MapGuards, WantsRange
    <3> QED BY <3>1, <3>2 DEF Covers, NeedAt, Carriage
  <2>3. Agrees("data_stream_range", Streams.data_stream_range,
               DataStreamHandlers.stream_range)
    BY NeedOf, OtherOf, SameAnswers, RangeRpcs DEF Agrees, GuardLike, OwnCodes, ApiJson, Bad,
       DataMapGuards, DataStreamHandlers, GrpcRange, GrpcStream, Invalid, MapGuards,
       RangeOfObject, Streams, WantsRange, WholeObject
  <2> QED BY <2>1, <2>2, <2>3 DEF Alike
<1>4. Alike("data_stream_public_range", Streams.data_stream_public_range,
            DataStreamHandlers.stream_public_range)
  <2>1. Covers(Streams.data_stream_public_range, DataStreamHandlers.stream_public_range)
    <3>1. /\ NeedAt(DataStreamHandlers.stream_public_range, 1, "raw")
          /\ NeedAt(DataStreamHandlers.stream_public_range, 2, "address")
          /\ NeedAt(DataStreamHandlers.stream_public_range, 5, "range")
          /\ NeedAt(DataStreamHandlers.stream_public_range, 6, "inside")
      BY NeedOf, OtherOf DEF NeedAt, GuardLike, DataStreamHandlers, GrpcRange, GrpcStream,
         Invalid, MapGuards, WantsRange
    <3>2. \A i \in DOMAIN Streams.data_stream_public_range :
              Streams.data_stream_public_range[i].do = "need" =>
                  Streams.data_stream_public_range[i].fact \in {"address", "raw", "ascii",
                      "range", "inside"}
      BY NeedOf, OtherOf DEF GuardLike, ApiJson, Bad, DataMapGuards, RangeOfObject, Streams,
         WholeObject
    <3> QED BY <3>1, <3>2 DEF Covers, NeedAt, Carriage
  <2>2. Covers(DataStreamHandlers.stream_public_range, Streams.data_stream_public_range)
    <3>1. /\ NeedAt(Streams.data_stream_public_range, 1, "address")
          /\ NeedAt(Streams.data_stream_public_range, 3, "raw")
          /\ NeedAt(Streams.data_stream_public_range, 6, "range")
          /\ NeedAt(Streams.data_stream_public_range, 7, "inside")
      BY NeedOf, OtherOf DEF NeedAt, GuardLike, ApiJson, Bad, DataMapGuards, RangeOfObject,
         Streams, WholeObject
    <3>2. \A i \in DOMAIN DataStreamHandlers.stream_public_range :
              DataStreamHandlers.stream_public_range[i].do = "need" =>
                  DataStreamHandlers.stream_public_range[i].fact \in {"raw", "address",
                      "range", "inside"}
      BY NeedOf, OtherOf DEF GuardLike, DataStreamHandlers, GrpcRange, GrpcStream, Invalid,
         MapGuards, WantsRange
    <3> QED BY <3>1, <3>2 DEF Covers, NeedAt, Carriage
  <2>3. Agrees("data_stream_public_range", Streams.data_stream_public_range,
               DataStreamHandlers.stream_public_range)
    BY NeedOf, OtherOf, SameAnswers, RangeRpcs DEF Agrees, GuardLike, OwnCodes, ApiJson, Bad,
       DataMapGuards, DataStreamHandlers, GrpcRange, GrpcStream, Invalid, MapGuards,
       RangeOfObject, Streams, WantsRange, WholeObject
  <2> QED BY <2>1, <2>2, <2>3 DEF Alike
<1> QED BY <1>1, <1>2, <1>3, <1>4, StreamCallsGo, StreamRpcsGo, AlikeIsAligned,
           HttpCallsKeys

LEMMA ProgressCallsAligned ==
    \A op \in DOMAIN ProgressCalls :
        op \in Ops("grpc") /\ Alike(op, Script(op, "rest"), Script(op, "grpc"))
<1>1. Alike("data_stream_with_progress", Streams.data_stream, DataStreamHandlers.stream)
  <2>1. Covers(Streams.data_stream, DataStreamHandlers.stream)
    BY NeedOf, OtherOf DEF Covers, GuardLike, Carriage, ApiJson, Bad, DataMapGuards,
       DataStreamHandlers, GrpcRange, GrpcStream, Invalid, MapGuards, RangeOfObject,
       Streams, WantsRange, WholeObject
  <2>2. Covers(DataStreamHandlers.stream, Streams.data_stream)
    <3>1. /\ NeedAt(Streams.data_stream, 3, "hex")
          /\ NeedAt(Streams.data_stream, 4, "map_size")
          /\ NeedAt(Streams.data_stream, 5, "map")
      BY NeedOf, OtherOf DEF NeedAt, GuardLike, ApiJson, Bad, DataMapGuards, RangeOfObject,
         Streams, WholeObject
    <3>2. \A i \in DOMAIN DataStreamHandlers.stream : DataStreamHandlers.stream[i].do = "need"
            => DataStreamHandlers.stream[i].fact \in {"hex", "map_size", "map"}
      BY NeedOf, OtherOf DEF GuardLike, DataStreamHandlers, GrpcRange, GrpcStream, Invalid,
         MapGuards, WantsRange
    <3> QED BY <3>1, <3>2 DEF Covers, NeedAt
  <2>3. Agrees("data_stream_with_progress", Streams.data_stream, DataStreamHandlers.stream)
    BY NeedOf, OtherOf, SameAnswers DEF Agrees, GuardLike, OwnCodes, ApiJson, Bad,
       DataMapGuards, DataStreamHandlers, GrpcRange, GrpcStream, Invalid, MapGuards,
       RangeOfObject, Streams, WantsRange, WholeObject
  <2> QED BY <2>1, <2>2, <2>3 DEF Alike
<1>2. Alike("data_stream_public_with_progress", Streams.data_stream_public,
            DataStreamHandlers.stream_public)
  <2>1. Covers(Streams.data_stream_public, DataStreamHandlers.stream_public)
    BY NeedOf, OtherOf DEF Covers, GuardLike, Carriage, ApiJson, Bad, DataMapGuards,
       DataStreamHandlers, GrpcRange, GrpcStream, Invalid, MapGuards, RangeOfObject,
       Streams, WantsRange, WholeObject
  <2>2. Covers(DataStreamHandlers.stream_public, Streams.data_stream_public)
    BY NeedOf, OtherOf DEF Covers, GuardLike, Carriage, ApiJson, Bad, DataMapGuards,
       DataStreamHandlers, GrpcRange, GrpcStream, Invalid, MapGuards, RangeOfObject,
       Streams, WantsRange, WholeObject
  <2>3. Agrees("data_stream_public_with_progress", Streams.data_stream_public,
               DataStreamHandlers.stream_public)
    BY NeedOf, OtherOf, SameAnswers DEF Agrees, GuardLike, OwnCodes, ApiJson, Bad,
       DataMapGuards, DataStreamHandlers, GrpcRange, GrpcStream, Invalid, MapGuards,
       RangeOfObject, Streams, WantsRange, WholeObject
  <2> QED BY <2>1, <2>2, <2>3 DEF Alike
<1>3. Alike("data_cost", DataCost.data_cost, DataCostHandler.cost)
  <2>1. Covers(DataCost.data_cost, DataCostHandler.cost)
    BY NeedOf, OtherOf DEF Covers, GuardLike, Carriage, ApiJson, Bad, DataCost,
       DataCostHandler, GrpcMode, Invalid
  <2>2. Covers(DataCostHandler.cost, DataCost.data_cost)
    <3>1. /\ NeedAt(DataCost.data_cost, 4, "mode")
          /\ NeedAt(DataCost.data_cost, 5, "disk")
      BY NeedOf, OtherOf DEF NeedAt, GuardLike, ApiJson, Bad, DataCost
    <3>2. \A i \in DOMAIN DataCostHandler.cost : DataCostHandler.cost[i].do = "need"
            => DataCostHandler.cost[i].fact \in {"mode", "disk"}
      BY NeedOf, OtherOf DEF GuardLike, DataCostHandler, GrpcMode, Invalid
    <3> QED BY <3>1, <3>2 DEF Covers, NeedAt
  <2>3. Agrees("data_cost", DataCost.data_cost, DataCostHandler.cost)
    BY NeedOf, OtherOf, SameAnswers DEF Agrees, GuardLike, OwnCodes, ApiJson, Bad, DataCost,
       DataCostHandler, GrpcMode, Invalid
  <2> QED BY <2>1, <2>2, <2>3 DEF Alike
<1>4. Alike("chunk_put", Chunks.chunk_put, ChunkHandlers.put)
  <2>1. Covers(Chunks.chunk_put, ChunkHandlers.put)
    BY NeedOf, OtherOf DEF Covers, GuardLike, Carriage, ApiJson, Bad, ChunkHandlers, Chunks,
       Invalid, MarkStored, NeedsWallet, WalletGuard
  <2>2. Covers(ChunkHandlers.put, Chunks.chunk_put)
    BY NeedOf, OtherOf DEF Covers, GuardLike, Carriage, ApiJson, Bad, ChunkHandlers, Chunks,
       Invalid, MarkStored, NeedsWallet, WalletGuard
  <2>3. Agrees("chunk_put", Chunks.chunk_put, ChunkHandlers.put)
    BY NeedOf, OtherOf, SameAnswers DEF Agrees, GuardLike, OwnCodes, ApiJson, Bad,
       ChunkHandlers, Chunks, Invalid, MarkStored, NeedsWallet, WalletGuard
  <2> QED BY <2>1, <2>2, <2>3 DEF Alike
<1>5. Alike("chunk_get", Chunks.chunk_get, ChunkHandlers.get)
  <2>1. Covers(Chunks.chunk_get, ChunkHandlers.get)
    BY NeedOf, OtherOf DEF Covers, GuardLike, Carriage, ApiJson, Bad, ChunkHandlers, Chunks,
       Invalid, MarkStored, NeedsWallet, WalletGuard
  <2>2. Covers(ChunkHandlers.get, Chunks.chunk_get)
    BY NeedOf, OtherOf DEF Covers, GuardLike, Carriage, ApiJson, Bad, ChunkHandlers, Chunks,
       Invalid, MarkStored, NeedsWallet, WalletGuard
  <2>3. Agrees("chunk_get", Chunks.chunk_get, ChunkHandlers.get)
    BY NeedOf, OtherOf, SameAnswers DEF Agrees, GuardLike, OwnCodes, ApiJson, Bad,
       ChunkHandlers, Chunks, Invalid, MarkStored, NeedsWallet, WalletGuard
  <2> QED BY <2>1, <2>2, <2>3 DEF Alike
<1> QED BY <1>1, <1>2, <1>3, <1>4, <1>5, ProgressCallsGo, ProgressRpcsGo, AlikeIsAligned,
           HttpCallsKeys

LEMMA FileCallsAligned ==
    \A op \in DOMAIN FileCalls :
        op \in Ops("grpc") /\ Alike(op, Script(op, "rest"), Script(op, "grpc"))
<1>1. Alike("file_put", FilePuts.file_put, FilePutHandlers.put)
  <2>1. Covers(FilePuts.file_put, FilePutHandlers.put)
    BY NeedOf, OtherOf DEF Covers, GuardLike, Carriage, ApiJson, Bad, FilePutHandlers,
       FilePuts, GrpcMode, Invalid, MarkStored, NeedsWallet, WalletGuard
  <2>2. Covers(FilePutHandlers.put, FilePuts.file_put)
    <3>1. /\ NeedAt(FilePuts.file_put, 3, "wallet")
          /\ NeedAt(FilePuts.file_put, 5, "mode")
          /\ NeedAt(FilePuts.file_put, 4, "path")
      BY NeedOf, OtherOf DEF NeedAt, GuardLike, ApiJson, Bad, FilePuts, MarkStored,
         NeedsWallet
    <3>2. \A i \in DOMAIN FilePutHandlers.put : FilePutHandlers.put[i].do = "need"
            => FilePutHandlers.put[i].fact \in {"wallet", "mode", "path"}
      BY NeedOf, OtherOf DEF GuardLike, FilePutHandlers, GrpcMode, Invalid, MarkStored,
         WalletGuard
    <3> QED BY <3>1, <3>2 DEF Covers, NeedAt
  <2>3. Agrees("file_put", FilePuts.file_put, FilePutHandlers.put)
    BY NeedOf, OtherOf, SameAnswers DEF Agrees, GuardLike, OwnCodes, ApiJson, Bad,
       FilePutHandlers, FilePuts, GrpcMode, Invalid, MarkStored, NeedsWallet, WalletGuard
  <2> QED BY <2>1, <2>2, <2>3 DEF Alike
<1>2. Alike("file_get", FileGets.file_get, FileGetHandlers.get)
  <2>1. Covers(FileGets.file_get, FileGetHandlers.get)
    <3>1. /\ NeedAt(FileGetHandlers.get, 1, "hex")
          /\ NeedAt(FileGetHandlers.get, 2, "map_size")
          /\ NeedAt(FileGetHandlers.get, 3, "map")
          /\ NeedAt(FileGetHandlers.get, 4, "dest")
      BY NeedOf, OtherOf DEF NeedAt, GuardLike, FileGetHandlers, Invalid, MapGuards
    <3>2. \A i \in DOMAIN FileGets.file_get :
              FileGets.file_get[i].do = "need" =>
                  FileGets.file_get[i].fact \in {"length", "json", "hex", "map_size",
                                                 "map", "dest"}
      BY NeedOf, OtherOf DEF GuardLike, ApiJson, Bad, DataMapGuards, DestGuard, FileGets
    <3> QED BY <3>1, <3>2 DEF Covers, NeedAt, Carriage
  <2>2. Covers(FileGetHandlers.get, FileGets.file_get)
    <3>1. /\ NeedAt(FileGets.file_get, 3, "hex")
          /\ NeedAt(FileGets.file_get, 4, "map_size")
          /\ NeedAt(FileGets.file_get, 5, "map")
          /\ NeedAt(FileGets.file_get, 6, "dest")
      BY NeedOf, OtherOf DEF NeedAt, GuardLike, ApiJson, Bad, DataMapGuards, DestGuard,
         FileGets
    <3>2. \A i \in DOMAIN FileGetHandlers.get :
              FileGetHandlers.get[i].do = "need" =>
                  FileGetHandlers.get[i].fact \in {"hex", "map_size", "map", "dest"}
      BY NeedOf, OtherOf DEF GuardLike, FileGetHandlers, Invalid, MapGuards
    <3> QED BY <3>1, <3>2 DEF Covers, NeedAt, Carriage
  <2>3. Agrees("file_get", FileGets.file_get, FileGetHandlers.get)
    BY NeedOf, OtherOf, SameAnswers DEF Agrees, GuardLike, OwnCodes, ApiJson, Bad,
       DataMapGuards, DestGuard, FileGetHandlers, FileGets, Invalid, MapGuards
  <2> QED BY <2>1, <2>2, <2>3 DEF Alike
<1>3. Alike("file_put_public", FilePuts.file_put_public, FilePutHandlers.put_public)
  <2>1. Covers(FilePuts.file_put_public, FilePutHandlers.put_public)
    BY NeedOf, OtherOf DEF Covers, GuardLike, Carriage, ApiJson, Bad, FilePutHandlers,
       FilePuts, GrpcMode, Invalid, MarkStored, NeedsWallet, WalletGuard
  <2>2. Covers(FilePutHandlers.put_public, FilePuts.file_put_public)
    <3>1. /\ NeedAt(FilePuts.file_put_public, 3, "wallet")
          /\ NeedAt(FilePuts.file_put_public, 5, "mode")
          /\ NeedAt(FilePuts.file_put_public, 4, "path")
      BY NeedOf, OtherOf DEF NeedAt, GuardLike, ApiJson, Bad, FilePuts, MarkStored,
         NeedsWallet
    <3>2. \A i \in DOMAIN FilePutHandlers.put_public : FilePutHandlers.put_public[i].do = "need"
            => FilePutHandlers.put_public[i].fact \in {"wallet", "mode", "path"}
      BY NeedOf, OtherOf DEF GuardLike, FilePutHandlers, GrpcMode, Invalid, MarkStored,
         WalletGuard
    <3> QED BY <3>1, <3>2 DEF Covers, NeedAt
  <2>3. Agrees("file_put_public", FilePuts.file_put_public, FilePutHandlers.put_public)
    BY NeedOf, OtherOf, SameAnswers DEF Agrees, GuardLike, OwnCodes, ApiJson, Bad,
       FilePutHandlers, FilePuts, GrpcMode, Invalid, MarkStored, NeedsWallet, WalletGuard
  <2> QED BY <2>1, <2>2, <2>3 DEF Alike
<1>4. Alike("file_get_public", FileGets.file_get_public, FileGetHandlers.get_public)
  <2>1. Covers(FileGets.file_get_public, FileGetHandlers.get_public)
    BY NeedOf, OtherOf DEF Covers, GuardLike, Carriage, ApiJson, Bad, DataMapGuards,
       DestGuard, FileGetHandlers, FileGets, Invalid, MapGuards
  <2>2. Covers(FileGetHandlers.get_public, FileGets.file_get_public)
    BY NeedOf, OtherOf DEF Covers, GuardLike, Carriage, ApiJson, Bad, DataMapGuards,
       DestGuard, FileGetHandlers, FileGets, Invalid, MapGuards
  <2>3. Agrees("file_get_public", FileGets.file_get_public, FileGetHandlers.get_public)
    BY NeedOf, OtherOf, SameAnswers DEF Agrees, GuardLike, OwnCodes, ApiJson, Bad,
       DataMapGuards, DestGuard, FileGetHandlers, FileGets, Invalid, MapGuards
  <2> QED BY <2>1, <2>2, <2>3 DEF Alike
<1>5. Alike("file_cost", FileCost.file_cost, FileCostHandler.cost)
  <2>1. Covers(FileCost.file_cost, FileCostHandler.cost)
    BY NeedOf, OtherOf DEF Covers, GuardLike, Carriage, ApiJson, Bad, FileCost,
       FileCostHandler, GrpcMode, Invalid
  <2>2. Covers(FileCostHandler.cost, FileCost.file_cost)
    <3>1. /\ NeedAt(FileCost.file_cost, 4, "mode")
          /\ NeedAt(FileCost.file_cost, 3, "path")
      BY NeedOf, OtherOf DEF NeedAt, GuardLike, ApiJson, Bad, FileCost
    <3>2. \A i \in DOMAIN FileCostHandler.cost : FileCostHandler.cost[i].do = "need"
            => FileCostHandler.cost[i].fact \in {"mode", "path"}
      BY NeedOf, OtherOf DEF GuardLike, FileCostHandler, GrpcMode, Invalid
    <3> QED BY <3>1, <3>2 DEF Covers, NeedAt
  <2>3. Agrees("file_cost", FileCost.file_cost, FileCostHandler.cost)
    BY NeedOf, OtherOf, SameAnswers DEF Agrees, GuardLike, OwnCodes, ApiJson, Bad, FileCost,
       FileCostHandler, GrpcMode, Invalid
  <2> QED BY <2>1, <2>2, <2>3 DEF Alike
<1> QED BY <1>1, <1>2, <1>3, <1>4, <1>5, FileCallsGo, FileRpcsGo, AlikeIsAligned,
           HttpCallsKeys

LEMMA WalletCallsOfSdkAligned ==
    \A op \in DOMAIN WalletCallsOfSdk :
        op \in Ops("grpc") /\ Alike(op, Script(op, "rest"), Script(op, "grpc"))
<1>1. Alike("wallet_address", Wallet.wallet_address, WalletHandlers.get_address)
  <2>1. Covers(Wallet.wallet_address, WalletHandlers.get_address)
    BY NeedOf, OtherOf DEF Covers, GuardLike, Carriage, NeedsWallet, Wallet, WalletHandlers
  <2>2. Covers(WalletHandlers.get_address, Wallet.wallet_address)
    BY NeedOf, OtherOf DEF Covers, GuardLike, Carriage, NeedsWallet, Wallet, WalletHandlers
  <2>3. Agrees("wallet_address", Wallet.wallet_address, WalletHandlers.get_address)
    BY NeedOf, OtherOf, SameAnswers DEF Agrees, GuardLike, OwnCodes, NeedsWallet, Wallet,
       WalletHandlers
  <2> QED BY <2>1, <2>2, <2>3 DEF Alike
<1>2. Alike("wallet_balance", Wallet.wallet_balance, WalletHandlers.get_balance)
  <2>1. Covers(Wallet.wallet_balance, WalletHandlers.get_balance)
    BY NeedOf, OtherOf DEF Covers, GuardLike, Carriage, NeedsWallet, Wallet, WalletHandlers
  <2>2. Covers(WalletHandlers.get_balance, Wallet.wallet_balance)
    BY NeedOf, OtherOf DEF Covers, GuardLike, Carriage, NeedsWallet, Wallet, WalletHandlers
  <2>3. Agrees("wallet_balance", Wallet.wallet_balance, WalletHandlers.get_balance)
    BY NeedOf, OtherOf, SameAnswers DEF Agrees, GuardLike, OwnCodes, NeedsWallet, Wallet,
       WalletHandlers
  <2> QED BY <2>1, <2>2, <2>3 DEF Alike
<1>3. Alike("wallet_approve", Wallet.wallet_approve, WalletHandlers.approve)
  <2>1. Covers(Wallet.wallet_approve, WalletHandlers.approve)
    BY NeedOf, OtherOf DEF Covers, GuardLike, Carriage, NeedsWallet, Wallet, WalletHandlers
  <2>2. Covers(WalletHandlers.approve, Wallet.wallet_approve)
    BY NeedOf, OtherOf DEF Covers, GuardLike, Carriage, NeedsWallet, Wallet, WalletHandlers
  <2>3. Agrees("wallet_approve", Wallet.wallet_approve, WalletHandlers.approve)
    BY NeedOf, OtherOf, SameAnswers DEF Agrees, GuardLike, OwnCodes, NeedsWallet, Wallet,
       WalletHandlers
  <2> QED BY <2>1, <2>2, <2>3 DEF Alike
<1> QED BY <1>1, <1>2, <1>3, WalletCallsOfSdkGo, WalletRpcsGo, AlikeIsAligned, HttpCallsKeys

LEMMA PrepareCallsAligned ==
    \A op \in DOMAIN PrepareCalls :
        op \in Ops("grpc") /\ Alike(op, Script(op, "rest"), Script(op, "grpc"))
<1>1. Alike("prepare_upload", UploadPrepares.prepare_upload,
            UploadPrepareHandlers.prepare_file_upload)
  <2>1. Covers(UploadPrepares.prepare_upload, UploadPrepareHandlers.prepare_file_upload)
    BY NeedOf, OtherOf DEF Covers, GuardLike, Carriage, ApiJson, Bad, GrpcVisibility,
       Invalid, UploadPrepareHandlers, UploadPrepares
  <2>2. Covers(UploadPrepareHandlers.prepare_file_upload, UploadPrepares.prepare_upload)
    <3>1. /\ NeedAt(UploadPrepares.prepare_upload, 3, "path")
          /\ NeedAt(UploadPrepares.prepare_upload, 4, "visibility")
      BY NeedOf, OtherOf DEF NeedAt, GuardLike, ApiJson, Bad, UploadPrepares
    <3>2. \A i \in DOMAIN UploadPrepareHandlers.prepare_file_upload : UploadPrepareHandlers.prepare_file_upload[i].do = "need"
            => UploadPrepareHandlers.prepare_file_upload[i].fact \in {"path", "visibility"}
      BY NeedOf, OtherOf DEF GuardLike, GrpcVisibility, Invalid, UploadPrepareHandlers
    <3> QED BY <3>1, <3>2 DEF Covers, NeedAt
  <2>3. Agrees("prepare_upload", UploadPrepares.prepare_upload,
               UploadPrepareHandlers.prepare_file_upload)
    BY NeedOf, OtherOf, SameAnswers DEF Agrees, GuardLike, OwnCodes, ApiJson, Bad,
       GrpcVisibility, Invalid, UploadPrepareHandlers, UploadPrepares
  <2> QED BY <2>1, <2>2, <2>3 DEF Alike
<1>2. Alike("prepare_upload_public", UploadPrepares.prepare_upload,
            UploadPrepareHandlers.prepare_file_upload)
  <2>1. Covers(UploadPrepares.prepare_upload, UploadPrepareHandlers.prepare_file_upload)
    BY NeedOf, OtherOf DEF Covers, GuardLike, Carriage, ApiJson, Bad, GrpcVisibility,
       Invalid, UploadPrepareHandlers, UploadPrepares
  <2>2. Covers(UploadPrepareHandlers.prepare_file_upload, UploadPrepares.prepare_upload)
    <3>1. /\ NeedAt(UploadPrepares.prepare_upload, 3, "path")
          /\ NeedAt(UploadPrepares.prepare_upload, 4, "visibility")
      BY NeedOf, OtherOf DEF NeedAt, GuardLike, ApiJson, Bad, UploadPrepares
    <3>2. \A i \in DOMAIN UploadPrepareHandlers.prepare_file_upload : UploadPrepareHandlers.prepare_file_upload[i].do = "need"
            => UploadPrepareHandlers.prepare_file_upload[i].fact \in {"path", "visibility"}
      BY NeedOf, OtherOf DEF GuardLike, GrpcVisibility, Invalid, UploadPrepareHandlers
    <3> QED BY <3>1, <3>2 DEF Covers, NeedAt
  <2>3. Agrees("prepare_upload_public", UploadPrepares.prepare_upload,
               UploadPrepareHandlers.prepare_file_upload)
    BY NeedOf, OtherOf, SameAnswers DEF Agrees, GuardLike, OwnCodes, ApiJson, Bad,
       GrpcVisibility, Invalid, UploadPrepareHandlers, UploadPrepares
  <2> QED BY <2>1, <2>2, <2>3 DEF Alike
<1>3. Alike("prepare_data_upload", UploadPrepares.prepare_data_upload,
            UploadPrepareHandlers.prepare_data_upload)
  <2>1. Covers(UploadPrepares.prepare_data_upload,
              UploadPrepareHandlers.prepare_data_upload)
    BY NeedOf, OtherOf DEF Covers, GuardLike, Carriage, ApiJson, Bad, GrpcVisibility,
       Invalid, UploadPrepareHandlers, UploadPrepares
  <2>2. Covers(UploadPrepareHandlers.prepare_data_upload,
              UploadPrepares.prepare_data_upload)
    BY NeedOf, OtherOf DEF Covers, GuardLike, Carriage, ApiJson, Bad, GrpcVisibility,
       Invalid, UploadPrepareHandlers, UploadPrepares
  <2>3. Agrees("prepare_data_upload", UploadPrepares.prepare_data_upload,
               UploadPrepareHandlers.prepare_data_upload)
    BY NeedOf, OtherOf, SameAnswers DEF Agrees, GuardLike, OwnCodes, ApiJson, Bad,
       GrpcVisibility, Invalid, UploadPrepareHandlers, UploadPrepares
  <2> QED BY <2>1, <2>2, <2>3 DEF Alike
<1>4. Alike("verify_quotes", Verify.verify_quotes, VerifyHandlers.verify_quotes)
  <2>1. Covers(Verify.verify_quotes, VerifyHandlers.verify_quotes)
    BY NeedOf, OtherOf DEF Covers, GuardLike, Carriage, ApiJson, Bad, Invalid, Verify,
       VerifyHandlers
  <2>2. Covers(VerifyHandlers.verify_quotes, Verify.verify_quotes)
    BY NeedOf, OtherOf DEF Covers, GuardLike, Carriage, ApiJson, Bad, Invalid, Verify,
       VerifyHandlers
  <2>3. Agrees("verify_quotes", Verify.verify_quotes, VerifyHandlers.verify_quotes)
    BY NeedOf, OtherOf, SameAnswers DEF Agrees, GuardLike, OwnCodes, ApiJson, Bad, Invalid,
       Verify, VerifyHandlers
  <2> QED BY <2>1, <2>2, <2>3 DEF Alike
<1> QED BY <1>1, <1>2, <1>3, <1>4, PrepareCallsGo, PrepareRpcsGo, AlikeIsAligned,
           HttpCallsKeys

LEMMA FinalizeCallsAligned ==
    \A op \in DOMAIN FinalizeCalls :
        op \in Ops("grpc") /\ Alike(op, Script(op, "rest"), Script(op, "grpc"))
<1>1. Alike("finalize_upload", UploadFinalize.finalize_upload,
            UploadFinalizeHandler.finalize_upload)
  <2>1. Covers(UploadFinalize.finalize_upload, UploadFinalizeHandler.finalize_upload)
    BY NeedOf, OtherOf DEF Covers, GuardLike, Carriage, ApiJson, Bad, Invalid,
       UploadFinalize, UploadFinalizeHandler
  <2>2. Covers(UploadFinalizeHandler.finalize_upload, UploadFinalize.finalize_upload)
    <3>1. /\ NeedAt(UploadFinalize.finalize_upload, 3, "known")
          /\ NeedAt(UploadFinalize.finalize_upload, 4, "hashes")
      BY NeedOf, OtherOf DEF NeedAt, GuardLike, ApiJson, Bad, UploadFinalize
    <3>2. \A i \in DOMAIN UploadFinalizeHandler.finalize_upload : UploadFinalizeHandler.finalize_upload[i].do = "need"
            => UploadFinalizeHandler.finalize_upload[i].fact \in {"known", "hashes"}
      BY NeedOf, OtherOf DEF GuardLike, Invalid, UploadFinalizeHandler
    <3> QED BY <3>1, <3>2 DEF Covers, NeedAt
  <2>3. Agrees("finalize_upload", UploadFinalize.finalize_upload,
               UploadFinalizeHandler.finalize_upload)
    BY NeedOf, OtherOf, SameAnswers DEF Agrees, GuardLike, OwnCodes, ApiJson, Bad, Invalid,
       UploadFinalize, UploadFinalizeHandler
  <2> QED BY <2>1, <2>2, <2>3 DEF Alike
<1>2. Alike("finalize_merkle_upload", UploadFinalize.finalize_upload,
            UploadFinalizeHandler.finalize_upload)
  <2>1. Covers(UploadFinalize.finalize_upload, UploadFinalizeHandler.finalize_upload)
    BY NeedOf, OtherOf DEF Covers, GuardLike, Carriage, ApiJson, Bad, Invalid,
       UploadFinalize, UploadFinalizeHandler
  <2>2. Covers(UploadFinalizeHandler.finalize_upload, UploadFinalize.finalize_upload)
    <3>1. /\ NeedAt(UploadFinalize.finalize_upload, 3, "known")
          /\ NeedAt(UploadFinalize.finalize_upload, 4, "hashes")
      BY NeedOf, OtherOf DEF NeedAt, GuardLike, ApiJson, Bad, UploadFinalize
    <3>2. \A i \in DOMAIN UploadFinalizeHandler.finalize_upload : UploadFinalizeHandler.finalize_upload[i].do = "need"
            => UploadFinalizeHandler.finalize_upload[i].fact \in {"known", "hashes"}
      BY NeedOf, OtherOf DEF GuardLike, Invalid, UploadFinalizeHandler
    <3> QED BY <3>1, <3>2 DEF Covers, NeedAt
  <2>3. Agrees("finalize_merkle_upload", UploadFinalize.finalize_upload,
               UploadFinalizeHandler.finalize_upload)
    BY NeedOf, OtherOf, SameAnswers DEF Agrees, GuardLike, OwnCodes, ApiJson, Bad, Invalid,
       UploadFinalize, UploadFinalizeHandler
  <2> QED BY <2>1, <2>2, <2>3 DEF Alike
<1> QED BY <1>1, <1>2, FinalizeCallsGo, FinalizeRpcsGo, AlikeIsAligned, HttpCallsKeys

LEMMA ChunkSessionCallsAligned ==
    \A op \in DOMAIN ChunkSessionCalls :
        op \in Ops("grpc") /\ Alike(op, Script(op, "rest"), Script(op, "grpc"))
<1>1. Alike("prepare_chunk_upload", ChunkPrepare.chunk_prepare,
            ChunkPrepareHandler.prepare_chunk)
  <2>1. Covers(ChunkPrepare.chunk_prepare, ChunkPrepareHandler.prepare_chunk)
    BY NeedOf, OtherOf DEF Covers, GuardLike, Carriage, ApiJson, Bad, ChunkPrepare,
       ChunkPrepareHandler
  <2>2. Covers(ChunkPrepareHandler.prepare_chunk, ChunkPrepare.chunk_prepare)
    BY NeedOf, OtherOf DEF Covers, GuardLike, Carriage, ApiJson, Bad, ChunkPrepare,
       ChunkPrepareHandler
  <2>3. Agrees("prepare_chunk_upload", ChunkPrepare.chunk_prepare,
               ChunkPrepareHandler.prepare_chunk)
    BY NeedOf, OtherOf, SameAnswers DEF Agrees, GuardLike, OwnCodes, ApiJson, Bad,
       ChunkPrepare, ChunkPrepareHandler
  <2> QED BY <2>1, <2>2, <2>3 DEF Alike
<1>2. Alike("finalize_chunk_upload", ChunkFinalize.chunk_finalize,
            ChunkFinalizeHandler.finalize_chunk)
  <2>1. Covers(ChunkFinalize.chunk_finalize, ChunkFinalizeHandler.finalize_chunk)
    BY NeedOf, OtherOf DEF Covers, GuardLike, Carriage, ApiJson, Bad, ChunkFinalize,
       ChunkFinalizeHandler, MarkStored, SharedBad
  <2>2. Covers(ChunkFinalizeHandler.finalize_chunk, ChunkFinalize.chunk_finalize)
    <3>1. /\ NeedAt(ChunkFinalize.chunk_finalize, 3, "known")
          /\ NeedAt(ChunkFinalize.chunk_finalize, 5, "hashes")
      BY NeedOf, OtherOf DEF NeedAt, GuardLike, ApiJson, Bad, ChunkFinalize, MarkStored
    <3>2. \A i \in DOMAIN ChunkFinalizeHandler.finalize_chunk : ChunkFinalizeHandler.finalize_chunk[i].do = "need"
            => ChunkFinalizeHandler.finalize_chunk[i].fact \in {"known", "hashes"}
      BY NeedOf, OtherOf DEF GuardLike, ChunkFinalizeHandler, MarkStored, SharedBad
    <3> QED BY <3>1, <3>2 DEF Covers, NeedAt
  <2>3. Agrees("finalize_chunk_upload", ChunkFinalize.chunk_finalize,
               ChunkFinalizeHandler.finalize_chunk)
    BY NeedOf, OtherOf, SameAnswers DEF Agrees, GuardLike, OwnCodes, ApiJson, Bad,
       ChunkFinalize, ChunkFinalizeHandler, MarkStored, SharedBad
  <2> QED BY <2>1, <2>2, <2>3 DEF Alike
<1> QED BY <1>1, <1>2, ChunkSessionCallsGo, ChunkSessionRpcsGo, AlikeIsAligned,
           HttpCallsKeys

LEMMA PointerWriteCallsAligned ==
    \A op \in DOMAIN PointerWriteCalls :
        op \in Ops("grpc") /\ Alike(op, Script(op, "rest"), Script(op, "grpc"))
<1>1. Alike("pointer_keys", PointerWriteHandlers.pointer_keys, GrpcPointerWrites.list_keys)
  <2>1. Covers(PointerWriteHandlers.pointer_keys, GrpcPointerWrites.list_keys)
    BY NeedOf, OtherOf DEF Covers, GuardLike, Carriage, ApiJson, Bad, GrpcPointerWrites,
       PointerWriteHandlers, SharedBad
  <2>2. Covers(GrpcPointerWrites.list_keys, PointerWriteHandlers.pointer_keys)
    BY NeedOf, OtherOf DEF Covers, GuardLike, Carriage, ApiJson, Bad, GrpcPointerWrites,
       PointerWriteHandlers, SharedBad
  <2>3. Agrees("pointer_keys", PointerWriteHandlers.pointer_keys, GrpcPointerWrites.list_keys)
    BY NeedOf, OtherOf, SameAnswers DEF Agrees, GuardLike, OwnCodes, ApiJson, Bad,
       GrpcPointerWrites, PointerWriteHandlers, SharedBad
  <2> QED BY <2>1, <2>2, <2>3 DEF Alike
<1>2. Alike("pointer_create", PointerWriteHandlers.pointer_create, GrpcPointerWrites.create)
  <2>1. Covers(PointerWriteHandlers.pointer_create, GrpcPointerWrites.create)
    BY NeedOf, OtherOf DEF Covers, GuardLike, Carriage, ApiJson, Bad, GrpcPointerWrites,
       PointerWriteHandlers, SharedBad
  <2>2. Covers(GrpcPointerWrites.create, PointerWriteHandlers.pointer_create)
    BY NeedOf, OtherOf DEF Covers, GuardLike, Carriage, ApiJson, Bad, GrpcPointerWrites,
       PointerWriteHandlers, SharedBad
  <2>3. Agrees("pointer_create", PointerWriteHandlers.pointer_create,
               GrpcPointerWrites.create)
    BY NeedOf, OtherOf, SameAnswers DEF Agrees, GuardLike, OwnCodes, ApiJson, Bad,
       GrpcPointerWrites, PointerWriteHandlers, SharedBad
  <2> QED BY <2>1, <2>2, <2>3 DEF Alike
<1>3. Alike("pointer_update", PointerWriteHandlers.pointer_update, GrpcPointerWrites.update)
  <2>1. Covers(PointerWriteHandlers.pointer_update, GrpcPointerWrites.update)
    BY NeedOf, OtherOf DEF Covers, GuardLike, Carriage, ApiJson, Bad, GrpcPointerWrites,
       PointerWriteHandlers, SharedBad
  <2>2. Covers(GrpcPointerWrites.update, PointerWriteHandlers.pointer_update)
    BY NeedOf, OtherOf DEF Covers, GuardLike, Carriage, ApiJson, Bad, GrpcPointerWrites,
       PointerWriteHandlers, SharedBad
  <2>3. Agrees("pointer_update", PointerWriteHandlers.pointer_update,
               GrpcPointerWrites.update)
    BY NeedOf, OtherOf, SameAnswers DEF Agrees, GuardLike, OwnCodes, ApiJson, Bad,
       GrpcPointerWrites, PointerWriteHandlers, SharedBad
  <2> QED BY <2>1, <2>2, <2>3 DEF Alike
<1>4. Alike("pointer_transfer", PointerWriteHandlers.pointer_transfer,
            GrpcPointerWrites.transfer)
  <2>1. Covers(PointerWriteHandlers.pointer_transfer, GrpcPointerWrites.transfer)
    BY NeedOf, OtherOf DEF Covers, GuardLike, Carriage, ApiJson, Bad, GrpcPointerWrites,
       PointerWriteHandlers, SharedBad
  <2>2. Covers(GrpcPointerWrites.transfer, PointerWriteHandlers.pointer_transfer)
    <3>1. /\ NeedAt(PointerWriteHandlers.pointer_transfer, 3, "owner")
          /\ NeedAt(PointerWriteHandlers.pointer_transfer, 4, "recipient")
      BY NeedOf, OtherOf DEF NeedAt, GuardLike, ApiJson, Bad, PointerWriteHandlers
    <3>2. \A i \in DOMAIN GrpcPointerWrites.transfer : GrpcPointerWrites.transfer[i].do = "need"
            => GrpcPointerWrites.transfer[i].fact \in {"owner", "recipient"}
      BY NeedOf, OtherOf DEF GuardLike, GrpcPointerWrites, SharedBad
    <3> QED BY <3>1, <3>2 DEF Covers, NeedAt
  <2>3. Agrees("pointer_transfer", PointerWriteHandlers.pointer_transfer,
               GrpcPointerWrites.transfer)
    BY NeedOf, OtherOf, SameAnswers DEF Agrees, GuardLike, OwnCodes, ApiJson, Bad,
       GrpcPointerWrites, PointerWriteHandlers, SharedBad
  <2> QED BY <2>1, <2>2, <2>3 DEF Alike
<1> QED BY <1>1, <1>2, <1>3, <1>4, PointerWriteCallsGo, PointerWriteRpcsGo, AlikeIsAligned,
           HttpCallsKeys

LEMMA PointerReadCallsAligned ==
    \A op \in DOMAIN PointerReadCalls :
        op \in Ops("grpc") /\ Alike(op, Script(op, "rest"), Script(op, "grpc"))
<1>1. Alike("pointer_get", PointerReadHandlers.pointer_get, GrpcPointerReads.get)
  <2>1. Covers(PointerReadHandlers.pointer_get, GrpcPointerReads.get)
    BY NeedOf, OtherOf DEF Covers, GuardLike, Carriage, Bad, GrpcPointerReads,
       PointerReadHandlers, SharedBad
  <2>2. Covers(GrpcPointerReads.get, PointerReadHandlers.pointer_get)
    BY NeedOf, OtherOf DEF Covers, GuardLike, Carriage, Bad, GrpcPointerReads,
       PointerReadHandlers, SharedBad
  <2>3. Agrees("pointer_get", PointerReadHandlers.pointer_get, GrpcPointerReads.get)
    BY NeedOf, OtherOf, SameAnswers DEF Agrees, GuardLike, OwnCodes, Bad, GrpcPointerReads,
       PointerReadHandlers, SharedBad
  <2> QED BY <2>1, <2>2, <2>3 DEF Alike
<1>2. Alike("pointer_resolve", PointerReadHandlers.pointer_resolve, GrpcPointerReads.resolve)
  <2>1. Covers(PointerReadHandlers.pointer_resolve, GrpcPointerReads.resolve)
    BY NeedOf, OtherOf DEF Covers, GuardLike, Carriage, Bad, GrpcPointerReads,
       PointerReadHandlers, SharedBad
  <2>2. Covers(GrpcPointerReads.resolve, PointerReadHandlers.pointer_resolve)
    BY NeedOf, OtherOf DEF Covers, GuardLike, Carriage, Bad, GrpcPointerReads,
       PointerReadHandlers, SharedBad
  <2>3. Agrees("pointer_resolve", PointerReadHandlers.pointer_resolve,
               GrpcPointerReads.resolve)
    BY NeedOf, OtherOf, SameAnswers DEF Agrees, GuardLike, OwnCodes, Bad, GrpcPointerReads,
       PointerReadHandlers, SharedBad
  <2> QED BY <2>1, <2>2, <2>3 DEF Alike
<1>3. Alike("pointer_finality", PointerReadHandlers.pointer_finality,
            GrpcPointerReads.finality)
  <2>1. Covers(PointerReadHandlers.pointer_finality, GrpcPointerReads.finality)
    BY NeedOf, OtherOf DEF Covers, GuardLike, Carriage, Bad, GrpcPointerReads,
       PointerReadHandlers, SharedBad
  <2>2. Covers(GrpcPointerReads.finality, PointerReadHandlers.pointer_finality)
    BY NeedOf, OtherOf DEF Covers, GuardLike, Carriage, Bad, GrpcPointerReads,
       PointerReadHandlers, SharedBad
  <2>3. Agrees("pointer_finality", PointerReadHandlers.pointer_finality,
               GrpcPointerReads.finality)
    BY NeedOf, OtherOf, SameAnswers DEF Agrees, GuardLike, OwnCodes, Bad, GrpcPointerReads,
       PointerReadHandlers, SharedBad
  <2> QED BY <2>1, <2>2, <2>3 DEF Alike
<1>4. Alike("pointer_controller", PointerReadHandlers.pointer_controller,
            GrpcPointerReads.controller)
  <2>1. Covers(PointerReadHandlers.pointer_controller, GrpcPointerReads.controller)
    BY NeedOf, OtherOf DEF Covers, GuardLike, Carriage, Bad, GrpcPointerReads,
       PointerReadHandlers, SharedBad
  <2>2. Covers(GrpcPointerReads.controller, PointerReadHandlers.pointer_controller)
    BY NeedOf, OtherOf DEF Covers, GuardLike, Carriage, Bad, GrpcPointerReads,
       PointerReadHandlers, SharedBad
  <2>3. Agrees("pointer_controller", PointerReadHandlers.pointer_controller,
               GrpcPointerReads.controller)
    BY NeedOf, OtherOf, SameAnswers DEF Agrees, GuardLike, OwnCodes, Bad, GrpcPointerReads,
       PointerReadHandlers, SharedBad
  <2> QED BY <2>1, <2>2, <2>3 DEF Alike
<1> QED BY <1>1, <1>2, <1>3, <1>4, PointerReadCallsGo, PointerReadRpcsGo, AlikeIsAligned,
           HttpCallsKeys

LEMMA PointerSessionCallsAligned ==
    \A op \in DOMAIN PointerSessionCalls :
        op \in Ops("grpc") /\ Alike(op, Script(op, "rest"), Script(op, "grpc"))
<1>1. Alike("pointer_prepare", PointerSessionHandlers.pointer_prepare,
            GrpcPointerSessions.prepare)
  <2>1. Covers(PointerSessionHandlers.pointer_prepare, GrpcPointerSessions.prepare)
    BY NeedOf, OtherOf DEF Covers, GuardLike, Carriage, ApiJson, Bad, GrpcPointerSessions,
       PointerSessionHandlers, SharedBad
  <2>2. Covers(GrpcPointerSessions.prepare, PointerSessionHandlers.pointer_prepare)
    BY NeedOf, OtherOf DEF Covers, GuardLike, Carriage, ApiJson, Bad, GrpcPointerSessions,
       PointerSessionHandlers, SharedBad
  <2>3. Agrees("pointer_prepare", PointerSessionHandlers.pointer_prepare,
               GrpcPointerSessions.prepare)
    BY NeedOf, OtherOf, SameAnswers DEF Agrees, GuardLike, OwnCodes, ApiJson, Bad,
       GrpcPointerSessions, PointerSessionHandlers, SharedBad
  <2> QED BY <2>1, <2>2, <2>3 DEF Alike
<1>2. Alike("pointer_finalize", PointerSessionHandlers.pointer_finalize,
            GrpcPointerSessions.finalize)
  <2>1. Covers(PointerSessionHandlers.pointer_finalize, GrpcPointerSessions.finalize)
    BY NeedOf, OtherOf DEF Covers, GuardLike, Carriage, ApiJson, Bad, GrpcPointerSessions,
       PointerSessionHandlers, SharedBad
  <2>2. Covers(GrpcPointerSessions.finalize, PointerSessionHandlers.pointer_finalize)
    BY NeedOf, OtherOf DEF Covers, GuardLike, Carriage, ApiJson, Bad, GrpcPointerSessions,
       PointerSessionHandlers, SharedBad
  <2>3. Agrees("pointer_finalize", PointerSessionHandlers.pointer_finalize,
               GrpcPointerSessions.finalize)
    BY NeedOf, OtherOf, SameAnswers DEF Agrees, GuardLike, OwnCodes, ApiJson, Bad,
       GrpcPointerSessions, PointerSessionHandlers, SharedBad
  <2> QED BY <2>1, <2>2, <2>3 DEF Alike
<1> QED BY <1>1, <1>2, PointerSessionCallsGo, PointerSessionRpcsGo, AlikeIsAligned,
           HttpCallsKeys

LEMMA ManifestCallsAligned ==
    \A op \in DOMAIN ManifestCalls :
        op \in Ops("grpc") /\ Alike(op, Script(op, "rest"), Script(op, "grpc"))
<1>1. Alike("build_manifest", Manifests.manifest_build, ManifestHandlers.build)
  <2>1. Covers(Manifests.manifest_build, ManifestHandlers.build)
    BY NeedOf, OtherOf DEF Covers, GuardLike, Carriage, ApiJson, Bad, Invalid,
       ManifestHandlers, Manifests, SharedBad
  <2>2. Covers(ManifestHandlers.build, Manifests.manifest_build)
    BY NeedOf, OtherOf DEF Covers, GuardLike, Carriage, ApiJson, Bad, Invalid,
       ManifestHandlers, Manifests, SharedBad
  <2>3. Agrees("build_manifest", Manifests.manifest_build, ManifestHandlers.build)
    BY NeedOf, OtherOf, SameAnswers DEF Agrees, GuardLike, OwnCodes, ApiJson, Bad, Invalid,
       ManifestHandlers, Manifests, SharedBad
  <2> QED BY <2>1, <2>2, <2>3 DEF Alike
<1>2. Alike("decode_manifest", Manifests.manifest_decode, ManifestHandlers.decode)
  <2>1. Covers(Manifests.manifest_decode, ManifestHandlers.decode)
    BY NeedOf, OtherOf DEF Covers, GuardLike, Carriage, ApiJson, Bad, Invalid,
       ManifestHandlers, Manifests, SharedBad
  <2>2. Covers(ManifestHandlers.decode, Manifests.manifest_decode)
    BY NeedOf, OtherOf DEF Covers, GuardLike, Carriage, ApiJson, Bad, Invalid,
       ManifestHandlers, Manifests, SharedBad
  <2>3. Agrees("decode_manifest", Manifests.manifest_decode, ManifestHandlers.decode)
    BY NeedOf, OtherOf, SameAnswers DEF Agrees, GuardLike, OwnCodes, ApiJson, Bad, Invalid,
       ManifestHandlers, Manifests, SharedBad
  <2> QED BY <2>1, <2>2, <2>3 DEF Alike
<1> QED BY <1>1, <1>2, ManifestCallsGo, ManifestRpcsGo, AlikeIsAligned, HttpCallsKeys

\* The two handlers of every call refuse alike.
LEMMA RefusalsAlign ==
    \A op \in Ops("rest") :
        op \in Ops("grpc") /\ Alike(op, Script(op, "rest"), Script(op, "grpc"))
<1>1. Ops("rest") = DOMAIN HttpCalls
  BY DEF Ops
<1> QED BY <1>1, HttpCallsOf, DataCallsAligned, StreamCallsAligned, ProgressCallsAligned,
           FileCallsAligned, WalletCallsOfSdkAligned, PrepareCallsAligned,
           FinalizeCallsAligned, ChunkSessionCallsAligned, PointerWriteCallsAligned,
           PointerReadCallsAligned, PointerSessionCallsAligned, ManifestCallsAligned

-----------------------------------------------------------------------------
(* A call in its handler.                                                  *)

\* The next step, and the next of its calls.
Position ==
    /\ req.at \in Nat \ {0} /\ req.at <= Len(Steps) + 1
    /\ req.call \in Nat \ {0}
    /\ IF req.at <= Len(Steps) /\ Here.do \in {"spawn", "await"}
       THEN req.call <= Len(Here.calls) ELSE req.call = 1

\* The guards behind the call held.
Passed ==
    \A i \in 1 .. req.at - 1 :
        Steps[i].do \in {"need", "check", "ends"} => Steps[i].fact \notin req.bad

\* A temporary file or a reporting task was opened by one of the last two steps.
OpenSince ==
    open => \E i \in {req.at - 1, req.at - 2} : i \in DOMAIN Steps /\ Steps[i] \in Opens

\* Where a call in its handler stands, and what has been done.
Progress == Position /\ done = Over(Steps, req.at, req.call) /\ Passed /\ OpenSince

\* The call has been in its handler and was answered, if at all, from where it stands.
Entered == req.pc = "handler" \/ (Answered /\ req.by # "sdk")

\* What the answer says of the step that gave it.
Verdict ==
    \/ req.by = "sdk" /\ req.bad # {} /\ done = {} /\ open = FALSE
    \/ /\ req.by \in {"need", "check"} /\ req.at <= Len(Steps) /\ Here.do = req.by
       /\ Here.fact \in req.bad /\ req.error = Here.error
    \/ /\ req.by = "ok"
       /\ req.at <= Len(Steps) => Here.do = "ends" /\ Here.fact \in req.bad
    \/ /\ req.by = "core" /\ req.at <= Len(Steps) /\ Here.do \in {"spawn", "await"}
       /\ open => ~(req.at < Len(Steps) /\ Steps[req.at + 1].do = "cleanup")

\* req has the fields of a call.
IsCall ==
    req = [pc |-> req.pc, op |-> req.op, via |-> req.via, bad |-> req.bad, at |-> req.at,
           call |-> req.call, here |-> req.here, by |-> req.by, error |-> req.error]

\* Where a call that has entered its handler stands.
Inv ==
    /\ IsCall
    /\ req.pc \in {"idle", "handler", "answered", "gone", "died"}
    /\ req.pc = "idle" => req = Idle /\ done = {} /\ cut = {} /\ open = FALSE
    /\ req.pc # "idle" => req.via \in Transports /\ req.op \in Ops(req.via)
    /\ Entered => Progress
    /\ Answered => Verdict

-----------------------------------------------------------------------------
(* What has been done, step by step.                                       *)

LEMMA OverHas ==
    ASSUME NEW s, NEW at, NEW call, NEW c
    PROVE  c \in Over(s, at, call) <=>
              \/ \E i \in 1 .. at - 1 : \E k \in DOMAIN s[i].calls : c = s[i].calls[k]
              \/ \E k \in 1 .. call - 1 : c = s[at].calls[k]
<1> DEFINE passed == {CallsOf(s[i]) : i \in 1 .. at - 1}
           begun  == {s[at].calls[k] : k \in 1 .. call - 1}
<1>1. c \in UNION passed <=> \E i \in 1 .. at - 1 : c \in CallsOf(s[i])
  OBVIOUS
<1>2. \A i : c \in CallsOf(s[i]) <=> \E k \in DOMAIN s[i].calls : c = s[i].calls[k]
  BY DEF CallsOf
<1>3. c \in begun <=> \E k \in 1 .. call - 1 : c = s[at].calls[k]
  OBVIOUS
<1>4. Over(s, at, call) = (UNION passed) \cup begun
  BY DEF Over
<1> HIDE DEF passed, begun
<1>5. c \in Over(s, at, call) <=> c \in UNION passed \/ c \in begun
  BY <1>4
<1> QED BY <1>1, <1>2, <1>3, <1>5

LEMMA OverStart == ASSUME NEW s PROVE Over(s, 1, 1) = {}
BY OverHas

LEMMA OverCall ==
    ASSUME NEW s, NEW at \in Nat \ {0}, NEW call \in Nat \ {0}
    PROVE  Over(s, at, call + 1) = Over(s, at, call) \cup {s[at].calls[call]}
<1>1. 1 .. (call + 1) - 1 = (1 .. call - 1) \cup {call}
  OBVIOUS
<1>2. ASSUME NEW c
      PROVE  c \in Over(s, at, call + 1) <=> c \in Over(s, at, call) \cup {s[at].calls[call]}
  BY <1>1, OverHas
<1> QED BY <1>2

\* The steps up to one are those before it and itself.
LEMMA OverStep ==
    ASSUME NEW s, NEW at \in Nat \ {0}, NEW c
    PROVE  c \in Over(s, at + 1, 1) <=>
              \/ \E i \in 1 .. at - 1 : \E k \in DOMAIN s[i].calls : c = s[i].calls[k]
              \/ \E k \in DOMAIN s[at].calls : c = s[at].calls[k]
<1>1. 1 .. (at + 1) - 1 = (1 .. at - 1) \cup {at} /\ 1 .. 1 - 1 = {}
  OBVIOUS
<1> QED BY <1>1, OverHas

LEMMA OverLast ==
    ASSUME NEW s, NEW at \in Nat \ {0}, IsList(s[at].calls),
           NEW call \in Nat \ {0}, call = Len(s[at].calls)
    PROVE  Over(s, at + 1, 1) = Over(s, at, call) \cup {s[at].calls[call]}
<1>1. DOMAIN s[at].calls = (1 .. call - 1) \cup {call}
  BY DEF IsList
<1>2. ASSUME NEW c
      PROVE  c \in Over(s, at + 1, 1) <=> c \in Over(s, at, call) \cup {s[at].calls[call]}
  BY <1>1, OverHas, OverStep, SMTT(30)
<1> QED BY <1>2

LEMMA OverOne ==
    ASSUME NEW s, NEW at \in Nat \ {0}, IsList(s[at].calls), Len(s[at].calls) = 1
    PROVE  Over(s, at + 1, 1) = Over(s, at, 1) \cup {s[at].calls[1]}
<1>1. DOMAIN s[at].calls = {1} /\ 1 .. 1 - 1 = {}
  BY DEF IsList
<1>2. ASSUME NEW c
      PROVE  c \in Over(s, at + 1, 1) <=> c \in Over(s, at, 1) \cup {s[at].calls[1]}
  BY <1>1, OverHas, OverStep
<1> QED BY <1>2

LEMMA OverSkip ==
    ASSUME NEW s, NEW at \in Nat \ {0}, IsList(s[at].calls), Len(s[at].calls) = 0
    PROVE  Over(s, at + 1, 1) = Over(s, at, 1)
<1>1. DOMAIN s[at].calls = {} /\ 1 .. 1 - 1 = {}
  BY DEF IsList
<1>2. ASSUME NEW c
      PROVE  c \in Over(s, at + 1, 1) <=> c \in Over(s, at, 1)
  BY <1>1, OverHas, OverStep
<1> QED BY <1>2

LEMMA AdvanceFields ==
    ASSUME IsCall, Advance
    PROVE  /\ IsCall'
           /\ req'.pc = req.pc /\ req'.op = req.op /\ req'.via = req.via /\ req'.bad = req.bad
           /\ req'.at = req.at + 1 /\ req'.call = 1 /\ req'.here = req.here
           /\ req'.by = req.by /\ req'.error = req.error
BY DEF IsCall, Advance

LEMMA EndsFields ==
    ASSUME IsCall, NEW by, NEW error, Ends(by, error)
    PROVE  /\ IsCall'
           /\ req'.op = req.op /\ req'.via = req.via /\ req'.bad = req.bad
           /\ req'.at = req.at /\ req'.call = req.call
           /\ \/ req.here /\ req'.pc = "answered" /\ req'.by = by /\ req'.error = error
              \/ ~req.here /\ req'.pc = "gone"
BY DEF IsCall, Ends

-----------------------------------------------------------------------------
(* The invariant, one action at a time.                                    *)

\* The handler's steps do not change while the call runs.
LEMMA SameSteps ==
    ASSUME req'.op = req.op, req'.via = req.via
    PROVE  Steps' = Steps
BY DEF Steps

\* What the static facts say of the step a call is at.
LEMMA StepAt ==
    ASSUME Inv, AtStep
    PROVE  /\ IsList(Steps) /\ req.at \in DOMAIN Steps /\ req.at <= Len(Steps)
           /\ WellFormed(Here)
           /\ Progress /\ req.via \in Transports /\ req.op \in Ops(req.via)
<1>1. Progress /\ req.via \in Transports /\ req.op \in Ops(req.via)
  BY DEF Inv, AtStep, Running, Entered
<1>2. Orderly(Steps)
  BY <1>1, HandlersAreFine DEF Fine, Steps
<1>3. IsList(Steps) /\ \A i \in DOMAIN Steps : WellFormed(Steps[i])
  BY <1>2 DEF Orderly, Shaped
<1>4. req.at \in DOMAIN Steps
  BY <1>1, <1>3 DEF AtStep, Progress, Position, IsList
<1> QED BY <1>1, <1>3, <1>4 DEF AtStep, Here

LEMMA InitInv == Init => Inv
BY DEF Init, Inv, Idle, IsCall, Entered, Answered

\* A call as it is sent.
LEMMA SendFields ==
    ASSUME NEW via \in Transports, NEW op \in Ops(via), NEW bad, Send(op, via, bad)
    PROVE  LET refused == FirstRefusal(Checks(op, via), bad)
           IN  req' = IF refused # 0
                      THEN [pc |-> "answered", op |-> op, via |-> via, bad |-> bad, at |-> 0,
                            call |-> 0, here |-> TRUE, by |-> "sdk",
                            error |-> Checks(op, via)[refused].error]
                      ELSE [pc |-> "handler", op |-> op, via |-> via, bad |-> bad, at |-> 1,
                            call |-> 1, here |-> TRUE, by |-> "none", error |-> "none"]
<1> DEFINE refused == FirstRefusal(Checks(op, via), bad)
           asked   == [Idle EXCEPT !.op = op, !.via = via, !.bad = bad]
<1>1. asked = [pc |-> "idle", op |-> op, via |-> via, bad |-> bad, at |-> 0, call |-> 0,
               here |-> TRUE, by |-> "none", error |-> "none"]
  <2>1. PICK idle : idle = Idle
    OBVIOUS
  <2>2. /\ idle = [pc |-> idle.pc, op |-> idle.op, via |-> idle.via, bad |-> idle.bad,
                   at |-> idle.at, call |-> idle.call, here |-> idle.here, by |-> idle.by,
                   error |-> idle.error]
        /\ idle.pc = "idle" /\ idle.at = 0 /\ idle.call = 0 /\ idle.here = TRUE
        /\ idle.by = "none" /\ idle.error = "none"
    BY <2>1 DEF Idle
  <2>3. asked = [idle EXCEPT !.op = op, !.via = via, !.bad = bad]
    BY <2>1
  <2> HIDE DEF asked
  <2> QED BY <2>2, <2>3
<1>2. CASE refused # 0
  <2> DEFINE e == Checks(op, via)[refused].error
  <2>1. req' = [asked EXCEPT !.pc = "answered", !.by = "sdk", !.error = e]
    BY <1>2 DEF Send
  <2> HIDE DEF asked, e
  <2>2. req' = [pc |-> "answered", op |-> op, via |-> via, bad |-> bad, at |-> 0, call |-> 0,
                here |-> TRUE, by |-> "sdk", error |-> e]
    BY <2>1, <1>1
  <2> QED BY <1>2, <2>2 DEF e
<1>3. CASE refused = 0
  <2>1. Routed(op, via)
    BY HandlersAreFine DEF Fine
  <2>2. req' = [asked EXCEPT !.pc = "handler", !.at = 1, !.call = 1]
    BY <1>3, <2>1 DEF Send
  <2> HIDE DEF asked
  <2>3. req' = [pc |-> "handler", op |-> op, via |-> via, bad |-> bad, at |-> 1, call |-> 1,
                here |-> TRUE, by |-> "none", error |-> "none"]
    BY <2>2, <1>1
  <2> QED BY <1>3, <2>3
<1> QED BY <1>2, <1>3

LEMMA SendInv ==
    ASSUME Inv, NEW via \in Transports, NEW op \in Ops(via), NEW bad, Send(op, via, bad)
    PROVE  Inv'
<1> DEFINE refused == FirstRefusal(Checks(op, via), bad)
<1>1. req.pc = "idle" /\ done = {} /\ cut = {} /\ open = FALSE
  BY DEF Inv, Send
<1>2. UNCHANGED <<done, cut, open>>
  BY DEF Send
<1>3. CASE refused # 0
  <2> DEFINE e == Checks(op, via)[refused].error
  <2>1. req' = [pc |-> "answered", op |-> op, via |-> via, bad |-> bad, at |-> 0, call |-> 0,
                here |-> TRUE, by |-> "sdk", error |-> e]
    BY <1>3, SendFields
  <2>2. bad # {}
    BY <1>3 DEF FirstRefusal
  <2> HIDE DEF e
  <2> QED BY <1>1, <1>2, <2>1, <2>2 DEF Inv, IsCall, Entered, Answered, Verdict
<1>4. CASE refused = 0
  <2>1. req' = [pc |-> "handler", op |-> op, via |-> via, bad |-> bad, at |-> 1, call |-> 1,
                here |-> TRUE, by |-> "none", error |-> "none"]
    BY <1>4, SendFields
  <2>2. Steps' = Script(op, via)
    BY <2>1 DEF Steps
  <2>3. Orderly(Script(op, via))
    BY HandlersAreFine DEF Fine
  <2>4. /\ IsList(Script(op, via))
        /\ \A i \in DOMAIN Script(op, via) : WellFormed(Script(op, via)[i])
    BY <2>3 DEF Orderly, Shaped
  <2>5. Position'
    <3>1. req'.at = 1 /\ req'.call = 1
      BY <2>1
    <3>2. 1 <= Len(Steps') => WellFormed(Steps'[1])
      BY <2>2, <2>4 DEF IsList
    <3> QED BY <3>1, <3>2, <2>2, <2>4 DEF Position, Here, WellFormed, IsList
  <2>6. done' = Over(Steps', 1, 1)
    BY <1>1, <1>2, OverStart
  <2>7. Passed' /\ OpenSince'
    BY <1>1, <1>2, <2>1 DEF Passed, OpenSince
  <2> QED BY <1>1, <1>2, <2>1, <2>5, <2>6, <2>7 DEF Inv, IsCall, Entered, Answered, Progress
<1> QED BY <1>3, <1>4

\* The next step's position.
LEMMA Advances ==
    ASSUME Inv, AtStep, Advance
    PROVE  Position' /\ Steps' = Steps
<1>1. /\ req'.op = req.op /\ req'.via = req.via /\ req'.at = req.at + 1 /\ req'.call = 1
  BY AdvanceFields DEF Inv
<1>2. Steps' = Steps
  BY <1>1, SameSteps
<1>3. req.at \in Nat \ {0} /\ req.at + 1 <= Len(Steps) + 1 /\ IsList(Steps)
  BY StepAt DEF Progress, Position, AtStep, IsList
<1>4. Orderly(Steps)
  BY StepAt, HandlersAreFine DEF Fine, Steps
<1>5. req.at + 1 <= Len(Steps) => WellFormed(Steps[req.at + 1])
  BY <1>3, <1>4 DEF Orderly, Shaped, IsList
<1>6. Here' = Steps[req.at + 1]
  BY <1>1, <1>2 DEF Here
<1>7. req.at + 1 <= Len(Steps) /\ Steps[req.at + 1].do \in {"spawn", "await"}
         => 1 <= Len(Steps[req.at + 1].calls)
  BY <1>5 DEF WellFormed, IsList
<1> QED BY <1>1, <1>2, <1>3, <1>6, <1>7 DEF Position

\* A step that neither opens nor closes leaves an opener behind it one further back.
LEMMA StillOpen ==
    ASSUME Inv, AtStep, Advance, UNCHANGED open, Here.do \notin {"effect", "cleanup"}
    PROVE  OpenSince'
<1>1. Steps' = Steps /\ req'.at = req.at + 1
  BY Advances, AdvanceFields DEF Inv
<1>2. /\ Progress
      /\ req.at \in Nat \ {0}
      /\ IsList(Steps)
      /\ req.via \in Transports
      /\ req.op \in Ops(req.via)
  BY StepAt DEF Progress, Position
<1>3. Orderly(Steps)
  BY <1>2, HandlersAreFine DEF Fine, Steps
<1>4. ASSUME req.at - 2 \in DOMAIN Steps, Steps[req.at - 2] \in Opens
      PROVE  FALSE
  <2>1. Steps[(req.at - 2) + 2] \in Closes
    BY <1>3, <1>4 DEF Orderly, Nested
  <2>2. Here \in Closes
    BY <1>2, <2>1 DEF Here
  <2> QED BY <2>2 DEF Closes, Unstage, Flush, FlushIfDone, Cleanup, Effect, Step
<1>5. req'.at - 2 = req.at - 1
  BY <1>1, <1>2
<1> QED BY <1>1, <1>2, <1>4, <1>5 DEF Progress, OpenSince

\* A call whose handler goes on to its next step.
LEMMA AdvanceInv ==
    ASSUME Inv, AtStep, Advance, done' = Over(Steps, req.at + 1, 1),
           Here.do \in {"need", "check", "ends"} => Here.fact \notin req.bad,
           OpenSince'
    PROVE  Inv'
<1>1. /\ IsCall'
      /\ req'.pc = req.pc /\ req'.op = req.op /\ req'.via = req.via /\ req'.bad = req.bad
      /\ req'.at = req.at + 1 /\ req'.call = 1
  BY AdvanceFields DEF Inv
<1>2. Position' /\ Steps' = Steps
  BY Advances
<1>3. done' = Over(Steps', req'.at, req'.call)
  BY <1>1, <1>2
<1>4. Passed'
  <2>1. Passed /\ req.at \in Nat \ {0}
    BY StepAt DEF Progress, Position
  <2>2. 1 .. req'.at - 1 = (1 .. req.at - 1) \cup {req.at}
    BY <1>1, <2>1
  <2> QED BY <1>1, <1>2, <2>1, <2>2 DEF Passed, Here
<1>5. Progress'
  BY <1>2, <1>3, <1>4 DEF Progress
<1>6. req.pc = "handler" /\ req.via \in Transports /\ req.op \in Ops(req.via)
  BY StepAt DEF AtStep, Running
<1>7. Ops(req'.via) = Ops(req.via)
  BY <1>1
<1> QED BY <1>1, <1>5, <1>6, <1>7 DEF Inv, Answered

\* A call whose handler answers, or that nobody waits for any more.
LEMMA EndsInv ==
    ASSUME Inv, Running, NEW by, NEW error, Ends(by, error), by # "sdk",
           req.here => UNCHANGED done /\ (open' => open),
           req'.pc = "answered" => Verdict'
    PROVE  Inv'
<1>1. /\ IsCall'
      /\ req'.op = req.op /\ req'.via = req.via /\ req'.bad = req.bad
      /\ req'.at = req.at /\ req'.call = req.call
      /\ \/ req.here /\ req'.pc = "answered" /\ req'.by = by /\ req'.error = error
         \/ ~req.here /\ req'.pc = "gone"
  BY EndsFields DEF Inv
<1>2. Progress /\ req.via \in Transports /\ req.op \in Ops(req.via)
  BY DEF Inv, Running, Entered
<1>3. Steps' = Steps
  BY <1>1, SameSteps
<1>4. req.here => Progress'
  BY <1>1, <1>2, <1>3 DEF Progress, Position, Passed, OpenSince, Here
<1>5. Ops(req'.via) = Ops(req.via)
  BY <1>1
<1> QED BY <1>1, <1>2, <1>4, <1>5 DEF Inv, Entered, Answered

LEMMA GuardInv ==
    ASSUME Inv, Guard PROVE Inv'
<1>1. AtStep /\ Here.do \in {"need", "check"} /\ UNCHANGED <<done, cut, open>>
  BY DEF Guard
<1>2. Progress /\ WellFormed(Here) /\ req.at \in Nat \ {0} /\ IsList(Steps)
  BY <1>1, StepAt DEF Progress, Position
<1>3. CASE Here.fact \in req.bad
  <2>1. Ends(Here.do, Here.error)
    BY <1>3 DEF Guard
  <2>2. req'.pc = "answered" => Verdict'
    <3>1. /\ req'.op = req.op /\ req'.via = req.via /\ req'.bad = req.bad /\ req'.at = req.at
          /\ req'.pc = "answered" => req'.by = Here.do /\ req'.error = Here.error
      BY <2>1, EndsFields DEF Inv
    <3>2. Steps' = Steps /\ Here' = Here
      BY <3>1, SameSteps DEF Here
    <3> QED BY <1>1, <1>3, <3>1, <3>2 DEF Verdict, AtStep
  <2> QED BY <1>1, <2>1, <2>2, EndsInv DEF AtStep
<1>4. CASE Here.fact \notin req.bad
  <2>1. Advance
    BY <1>4 DEF Guard
  <2>2. done' = Over(Steps, req.at + 1, 1)
    BY <1>1, <1>2, OverSkip DEF Progress, Position, WellFormed, Here
  <2>3. OpenSince'
    BY <1>1, <2>1, StillOpen
  <2> QED BY <1>1, <1>4, <2>1, <2>2, <2>3, AdvanceInv
<1> QED BY <1>3, <1>4

LEMMA EndsEarlyInv ==
    ASSUME Inv, EndsEarly PROVE Inv'
<1>1. AtStep /\ Here.do = "ends" /\ UNCHANGED <<done, cut, open>>
  BY DEF EndsEarly
<1>2. Progress /\ WellFormed(Here) /\ req.at \in Nat \ {0} /\ IsList(Steps)
  BY <1>1, StepAt DEF Progress, Position
<1>3. CASE Here.fact \in req.bad
  <2>1. Ends("ok", "none")
    BY <1>3 DEF EndsEarly
  <2>2. req'.pc = "answered" => Verdict'
    <3>1. /\ req'.op = req.op /\ req'.via = req.via /\ req'.bad = req.bad /\ req'.at = req.at
          /\ req'.pc = "answered" => req'.by = "ok"
      BY <2>1, EndsFields DEF Inv
    <3>2. Steps' = Steps /\ Here' = Here
      BY <3>1, SameSteps DEF Here
    <3> QED BY <1>1, <1>3, <3>1, <3>2 DEF Verdict, AtStep
  <2> QED BY <1>1, <2>1, <2>2, EndsInv DEF AtStep
<1>4. CASE Here.fact \notin req.bad
  <2>1. Advance
    BY <1>4 DEF EndsEarly
  <2>2. done' = Over(Steps, req.at + 1, 1)
    BY <1>1, <1>2, OverSkip DEF Progress, Position, WellFormed, Here
  <2>3. OpenSince'
    BY <1>1, <2>1, StillOpen
  <2> QED BY <1>1, <1>4, <2>1, <2>2, <2>3, AdvanceInv
<1> QED BY <1>3, <1>4

LEMMA TouchInv ==
    ASSUME Inv, Touch PROVE Inv'
<1>1. /\ AtStep /\ Here.do \in {"effect", "cleanup"} /\ Advance
      /\ done' = done \cup {Here.calls[1]}
      /\ open' = (Here \in Opens \/ (open /\ Here \notin Closes))
  BY DEF Touch, Opens, Closes
<1>2. /\ Progress
      /\ WellFormed(Here)
      /\ req.at \in Nat \ {0}
      /\ IsList(Steps)
      /\ req.at \in DOMAIN Steps
  BY <1>1, StepAt DEF Progress, Position
<1>3. done' = Over(Steps, req.at + 1, 1)
  <2>1. req.call = 1 /\ IsList(Here.calls) /\ Len(Here.calls) = 1
    BY <1>1, <1>2 DEF Progress, Position, WellFormed
  <2>2. done = Over(Steps, req.at, 1)
    BY <1>2, <2>1 DEF Progress
  <2>3. IsList(Steps[req.at].calls) /\ 1 = Len(Steps[req.at].calls)
    BY <2>1 DEF Here
  <2>4. Over(Steps, req.at + 1, 1) = Over(Steps, req.at, 1) \cup {Steps[req.at].calls[1]}
    BY <1>2, <2>3, OverOne
  <2> QED BY <1>1, <2>2, <2>4 DEF Here
<1>4. OpenSince'
  <2>1. Steps' = Steps /\ req'.at = req.at + 1
    BY <1>1, Advances, AdvanceFields DEF Inv
  <2>2. CASE Here \in Opens
    BY <1>2, <2>1, <2>2 DEF OpenSince, Here
  <2>3. CASE Here \notin Opens
    <3>1. Orderly(Steps)
      BY <1>1, StepAt, HandlersAreFine DEF Fine, Steps
    <3>2. open' => req.at - 1 \in DOMAIN Steps /\ Steps[req.at - 1] \in Opens
      <4>1. ASSUME open', req.at - 2 \in DOMAIN Steps, Steps[req.at - 2] \in Opens
            PROVE  FALSE
        <5>1. Steps[(req.at - 2) + 2] \in Closes
          BY <3>1, <4>1 DEF Orderly, Nested
        <5>2. Here \notin Closes
          BY <1>1, <2>3, <4>1
        <5>3. (req.at - 2) + 2 = req.at
          BY <1>2
        <5> QED BY <5>1, <5>2, <5>3 DEF Here
      <4> QED BY <1>1, <1>2, <2>3, <4>1 DEF Progress, OpenSince
    <3>3. req'.at - 2 = req.at - 1
      BY <1>2, <2>1
    <3> QED BY <2>1, <3>2, <3>3 DEF OpenSince
  <2> QED BY <2>2, <2>3
<1> QED BY <1>1, <1>3, <1>4, AdvanceInv

LEMMA CallReturnsInv ==
    ASSUME Inv, CallReturns PROVE Inv'
<1>1. /\ AtStep /\ Here.do \in {"spawn", "await"} /\ UNCHANGED <<cut, open>>
      /\ done' = done \cup {Here.calls[req.call]}
  BY DEF CallReturns, Calling
<1>2. /\ Progress /\ WellFormed(Here) /\ req.at \in Nat \ {0} /\ IsList(Steps)
      /\ req.at \in DOMAIN Steps /\ req.via \in Transports /\ req.op \in Ops(req.via)
  BY <1>1, StepAt DEF Progress, Position
<1>3. /\ req.call \in Nat \ {0} /\ req.call <= Len(Here.calls) /\ IsList(Here.calls)
      /\ done = Over(Steps, req.at, req.call)
  BY <1>1, <1>2 DEF Progress, Position, WellFormed, AtStep
<1>4. CASE req.call < Len(Here.calls)
  <2>1. req' = [req EXCEPT !.call = @ + 1]
    BY <1>4 DEF CallReturns
  <2>2. /\ IsCall'
        /\ req'.pc = req.pc /\ req'.op = req.op /\ req'.via = req.via /\ req'.bad = req.bad
        /\ req'.at = req.at /\ req'.call = req.call + 1
    BY <2>1 DEF Inv, IsCall
  <2>3. Steps' = Steps /\ Here' = Here
    BY <2>2, SameSteps DEF Here
  <2>4. done' = Over(Steps', req'.at, req'.call)
    BY <1>1, <1>2, <1>3, <2>2, <2>3, OverCall DEF Here
  <2>5. req.call + 1 \in Nat \ {0} /\ req.call + 1 <= Len(Here.calls)
    BY <1>3, <1>4 DEF IsList
  <2>6. Position'
    BY <1>1, <1>2, <2>2, <2>3, <2>5 DEF Progress, Position
  <2>7. Passed' /\ OpenSince'
    BY <1>1, <1>2, <2>2, <2>3 DEF Progress, Passed, OpenSince
  <2>8. Ops(req'.via) = Ops(req.via) /\ req.pc = "handler"
    BY <1>1, <2>2 DEF AtStep, Running
  <2> QED BY <1>2, <2>2, <2>4, <2>6, <2>7, <2>8 DEF Inv, Progress, Answered
<1>5. CASE ~(req.call < Len(Here.calls)) /\ req.here
  <2>1. Advance
    BY <1>5 DEF CallReturns
  <2>2. req.call = Len(Here.calls)
    BY <1>3, <1>5 DEF IsList
  <2>3. done' = Over(Steps, req.at + 1, 1)
    BY <1>1, <1>2, <1>3, <2>2, OverLast DEF Here
  <2>4. OpenSince'
    BY <1>1, <2>1, StillOpen
  <2> QED BY <1>1, <2>1, <2>3, <2>4, AdvanceInv
<1>6. CASE ~(req.call < Len(Here.calls)) /\ ~req.here
  <2>1. Ends("ok", "none")
    BY <1>6 DEF CallReturns
  <2>2. req'.pc # "answered"
    BY <1>6, <2>1, EndsFields DEF Inv
  <2> QED BY <1>1, <1>6, <2>1, <2>2, EndsInv DEF AtStep
<1> QED BY <1>4, <1>5, <1>6

LEMMA CallFailsInv ==
    ASSUME Inv, NEW core, CallFails(core) PROVE Inv'
<1> DEFINE error == CASE Here.error # "core"    -> Here.error
                      [] req.via \in Embedded -> FfiOfCore(core)
                      [] OTHER                -> core
<1>1. /\ AtStep /\ Here.do \in {"spawn", "await"} /\ Ends("core", error)
      /\ open' = (open /\ ~CleansUp) /\ UNCHANGED done
  BY DEF CallFails, Calling
<1> HIDE DEF error
<1>2. req'.pc = "answered" => Verdict'
  <2>1. /\ req'.op = req.op /\ req'.via = req.via /\ req'.bad = req.bad /\ req'.at = req.at
        /\ req'.pc = "answered" => req'.by = "core" /\ req.here
    BY <1>1, EndsFields DEF Inv
  <2>2. Steps' = Steps /\ Here' = Here
    BY <2>1, SameSteps DEF Here
  <2> QED BY <1>1, <2>1, <2>2 DEF Verdict, AtStep, CleansUp
<1> QED BY <1>1, <1>2, EndsInv DEF AtStep

LEMMA AnswerInv ==
    ASSUME Inv, Answer PROVE Inv'
<1>1. Running /\ req.at > Len(Steps) /\ Ends("ok", "none") /\ UNCHANGED <<done, cut, open>>
  BY DEF Answer
<1>2. req'.pc = "answered" => Verdict'
  <2>1. /\ req'.op = req.op /\ req'.via = req.via /\ req'.bad = req.bad /\ req'.at = req.at
        /\ req'.pc = "answered" => req'.by = "ok"
    BY <1>1, EndsFields DEF Inv
  <2>2. Steps' = Steps
    BY <2>1, SameSteps
  <2>3. Progress /\ req.via \in Transports /\ req.op \in Ops(req.via)
    BY <1>1 DEF Inv, Running, Entered
  <2>4. Orderly(Steps)
    BY <2>3, HandlersAreFine DEF Fine, Steps
  <2>5. ~(req.at <= Len(Steps))
    BY <1>1, <2>3, <2>4 DEF Orderly, Shaped, IsList, Progress, Position
  <2> QED BY <2>1, <2>2, <2>5 DEF Verdict
<1> QED BY <1>1, <1>2, EndsInv

\* The caller that leaves, and the process that dies.
LEMMA CallerLeavesInv ==
    ASSUME Inv, CallerLeaves PROVE Inv'
<1>1. AtStep /\ UNCHANGED done /\ req.pc = "handler"
  BY DEF CallerLeaves, AtStep, Running
<1>2. Progress /\ req.via \in Transports /\ req.op \in Ops(req.via)
  BY <1>1, StepAt
<1>3. CASE Detached(Here)
  <2>1. req' = [req EXCEPT !.here = FALSE] /\ UNCHANGED <<cut, open>>
    BY <1>3 DEF CallerLeaves
  <2>2. /\ IsCall'
        /\ req'.pc = req.pc /\ req'.op = req.op /\ req'.via = req.via /\ req'.bad = req.bad
        /\ req'.at = req.at /\ req'.call = req.call
    BY <2>1 DEF Inv, IsCall
  <2>3. Steps' = Steps /\ Ops(req'.via) = Ops(req.via)
    BY <2>2, SameSteps
  <2>4. Progress'
    BY <1>1, <1>2, <2>1, <2>2, <2>3 DEF Progress, Position, Passed, OpenSince, Here
  <2> QED BY <1>1, <1>2, <2>2, <2>3, <2>4 DEF Inv, Answered
<1>4. CASE ~Detached(Here)
  <2>1. req' = [req EXCEPT !.here = FALSE, !.pc = "gone"]
    BY <1>4 DEF CallerLeaves
  <2>2. /\ IsCall'
        /\ req'.pc = "gone" /\ req'.op = req.op /\ req'.via = req.via
    BY <2>1 DEF Inv, IsCall
  <2>3. Ops(req'.via) = Ops(req.via)
    BY <2>2
  <2> QED BY <1>2, <2>2, <2>3 DEF Inv, Entered, Answered
<1> QED BY <1>3, <1>4

LEMMA DaemonDiesInv ==
    ASSUME Inv, DaemonDies PROVE Inv'
<1>1. Running /\ req' = [req EXCEPT !.pc = "died"]
  BY DEF DaemonDies
<1>2. IsCall' /\ req'.pc = "died" /\ req'.op = req.op /\ req'.via = req.via
  BY <1>1 DEF Inv, IsCall
<1>3. Ops(req'.via) = Ops(req.via)
  BY <1>2
<1> QED BY <1>1, <1>2, <1>3 DEF Inv, Running, Entered, Answered

LEMMA NextInv == Inv /\ [Next]_vars => Inv'
<1> SUFFICES ASSUME Inv, [Next]_vars PROVE Inv'
  OBVIOUS
<1>1. CASE UNCHANGED vars
  <2>1. req' = req /\ done' = done /\ cut' = cut /\ open' = open
    BY <1>1 DEF vars
  <2>2. Steps' = Steps /\ Ops(req'.via) = Ops(req.via)
    BY <2>1, SameSteps
  <2>3. Progress' <=> Progress
    BY <2>1, <2>2 DEF Progress, Position, Passed, OpenSince, Here
  <2>4. Verdict' <=> Verdict
    BY <2>1, <2>2 DEF Verdict, Here
  <2> QED BY <2>1, <2>2, <2>3, <2>4 DEF Inv, IsCall, Entered, Answered
<1>2. CASE Next
  BY <1>2, SendInv, GuardInv, EndsEarlyInv, TouchInv, CallReturnsInv, CallFailsInv,
     AnswerInv, CallerLeavesInv, DaemonDiesInv DEF Next
<1> QED BY <1>1, <1>2

LEMMA Invariance == Spec => []Inv
BY InitInv, NextInv, PTL DEF Spec

-----------------------------------------------------------------------------
(* What the invariant says of an answer.                                   *)

LEMMA AtEnd ==
    ASSUME NEW s, IsList(s) PROVE Over(s, Len(s) + 1, 1) = AllCalls(s)
<1>1. 1 .. (Len(s) + 1) - 1 = DOMAIN s /\ 1 .. 1 - 1 = {}
  BY DEF IsList
<1>2. ASSUME NEW c
      PROVE  c \in AllCalls(s)
                 <=> \E i \in DOMAIN s : \E k \in DOMAIN s[i].calls : c = s[i].calls[k]
  BY DEF AllCalls, CallsOf
<1>3. ASSUME NEW c
      PROVE  c \in Over(s, Len(s) + 1, 1) <=> c \in AllCalls(s)
  BY <1>1, <1>2, OverHas
<1> QED BY <1>3

\* An answer that is no error comes with the temporary file or the task gone; one of a
\* call into ant-core too, if what closes follows also when the call fails.
LEMMA Closed ==
    ASSUME Inv, Answered, open
    PROVE  req.by = "core" /\ req.op \in DOMAIN FfiProgressDownloads
<1>1. Verdict /\ req.via \in Transports /\ req.op \in Ops(req.via)
  BY DEF Inv, Answered
<1>2. req.by # "sdk" /\ Progress
  BY <1>1 DEF Verdict, Inv, Entered
<1>3. Orderly(Steps)
  BY <1>1, HandlersAreFine DEF Fine, Steps
<1>4. req.at \in Nat \ {0} /\ req.at <= Len(Steps) + 1 /\ IsList(Steps)
  BY <1>2, <1>3 DEF Progress, Position, Orderly, Shaped
<1>5. PICK i \in {req.at - 1, req.at - 2} : i \in DOMAIN Steps /\ Steps[i] \in Opens
  BY <1>2 DEF Progress, OpenSince
<1>6. /\ i + 2 \in DOMAIN Steps /\ Steps[i + 1].do \in {"spawn", "await"}
      /\ Steps[i + 2] \in Closes
  BY <1>3, <1>5 DEF Orderly, Nested
<1>7. i + 1 = req.at \/ i + 2 = req.at
  BY <1>4, <1>5
<1>8. req.at <= Len(Steps)
  BY <1>4, <1>6, <1>7 DEF IsList
<1>9. Steps[i + 2].do \in {"effect", "cleanup"}
  BY <1>6 DEF Closes, Unstage, Flush, FlushIfDone, Cleanup, Effect, Step
<1>10. Here.do \in {"spawn", "await", "effect", "cleanup"}
  BY <1>6, <1>7, <1>9 DEF Here
<1>11. req.by = "core" /\ Here.do \in {"spawn", "await"}
  BY <1>1, <1>2, <1>8, <1>10 DEF Verdict
<1>12. i + 1 = req.at
  BY <1>7, <1>9, <1>11 DEF Here
<1>13. ~(req.at < Len(Steps) /\ Steps[req.at + 1].do = "cleanup")
  BY <1>1, <1>11 DEF Verdict
<1>14. req.at < Len(Steps) /\ i + 2 = req.at + 1
  BY <1>4, <1>6, <1>12 DEF IsList
<1>15. Steps[i + 2] = FlushIfDone
  BY <1>6, <1>13, <1>14 DEF Closes, Unstage, Flush, Cleanup, Step
<1>16. req.op \in DOMAIN FfiProgressDownloads
  BY <1>1, <1>6, <1>15, HandlersAreFine DEF Fine, Steps
<1> QED BY <1>11, <1>16

LEMMA Fulfilled ==
    ASSUME Inv, Answered, req.by = "ok"
    PROVE  Promise(req.op) \subseteq done /\ done \cap Lasting \subseteq Promise(req.op)
<1>1. Verdict /\ req.via \in Transports /\ req.op \in Ops(req.via)
  BY DEF Inv, Answered
<1>2. Progress
  BY DEF Inv, Entered
<1>3. Fulfils(req.op, Steps)
  BY <1>1, HandlersAreFine DEF Fine, Steps
<1>4. Orderly(Steps)
  BY <1>1, HandlersAreFine DEF Fine, Steps
<1>5. req.at \in Nat \ {0} /\ req.at <= Len(Steps) + 1 /\ IsList(Steps)
  BY <1>2, <1>4 DEF Progress, Position, Orderly, Shaped
<1>6. CASE req.at <= Len(Steps)
  <2>1. Here.do = "ends" /\ Here.fact \in req.bad
    BY <1>1, <1>6 DEF Verdict
  <2>2. req.at \in DOMAIN Steps
    BY <1>5, <1>6 DEF IsList
  <2>3. req.op = "prepare_chunk_upload"
    BY <1>3, <2>1, <2>2 DEF Fulfils, Here
  <2>4. Here.fact = "new" /\ Over(Steps, req.at, 1) = {"prepare_chunk"}
    BY <1>3, <2>1, <2>2, <2>3 DEF Fulfils, EndsEarlyWell, Here
  <2>5. Promise(req.op) = {"prepare_chunk"}
    BY <2>1, <2>3, <2>4 DEF Promise
  <2>6. done = {"prepare_chunk"}
    BY <1>2, <1>6, <2>1, <2>4 DEF Progress, Position
  <2> QED BY <2>5, <2>6
<1>7. CASE ~(req.at <= Len(Steps))
  <2>1. req.at = Len(Steps) + 1
    BY <1>5, <1>7 DEF IsList
  <2>2. done = AllCalls(Steps)
    <3>1. req.call = 1 /\ done = Over(Steps, req.at, req.call)
      BY <1>2, <1>7 DEF Progress, Position
    <3> QED BY <1>5, <2>1, <3>1, AtEnd
  <2>3. CASE req.op # "prepare_chunk_upload"
    BY <1>3, <2>2, <2>3 DEF Fulfils, Kept
  <2>4. CASE req.op = "prepare_chunk_upload"
    <3>1. PICK i \in DOMAIN Steps : Steps[i].do = "ends" /\ Steps[i].fact = "new"
      BY <1>3, <2>4 DEF Fulfils, EndsEarlyWell
    <3>2. i \in 1 .. req.at - 1
      BY <1>5, <2>1 DEF IsList
    <3>3. "new" \notin req.bad
      BY <1>2, <3>1, <3>2 DEF Progress, Passed
    <3>4. Promise(req.op) = {"prepare_chunk", "insert_chunk"}
      BY <2>4, <3>3 DEF Promise
    <3>5. done = {"prepare_chunk", "insert_chunk"}
      BY <1>3, <2>2, <2>4 DEF Fulfils, EndsEarlyWell
    <3> QED BY <3>4, <3>5
  <2> QED BY <2>3, <2>4
<1> QED BY <1>6, <1>7

\* A call is answered as it deserves: a success has done what the SDK's method
\* promises and nothing else that lasts, an error has a cause, and nothing is left open
\* but by a download to a file that fails in the embedded client.
THEOREM AnswersAreDeserved == Spec => []AnswerIsDeserved
<1>1. ASSUME Inv PROVE AnswerIsDeserved
  <2>1. ASSUME Answered, req.by # "ok" PROVE req.by = "core" \/ req.bad # {}
    BY <1>1, <2>1 DEF Inv, Verdict
  <2> QED BY <1>1, <2>1, Closed, Fulfilled DEF AnswerIsDeserved
<1> QED BY <1>1, Invariance, PTL

\* A call that the SDK or a guard of its handler refuses has paid, stored and taken
\* nothing, but for the session that the finalize of a chunk takes first.
THEOREM RefusalsLeaveNothing == Spec => []RefusedLeavesNothing
<1>1. ASSUME Inv, Answered, req.by \in {"sdk", "need"}, NEW c \in done, c \in Lasting
      PROVE  c = "take_chunk"
  <2>1. Verdict /\ req.via \in Transports /\ req.op \in Ops(req.via)
    BY <1>1 DEF Inv, Answered
  <2>2. req.by = "need" /\ req.at <= Len(Steps) /\ Here.do = "need"
    BY <1>1, <2>1 DEF Verdict
  <2>3. Progress
    BY <1>1, <2>2 DEF Inv, Entered
  <2>4. Orderly(Steps)
    BY <2>1, HandlersAreFine DEF Fine, Steps
  <2>5. req.at \in Nat \ {0} /\ IsList(Steps) /\ req.at \in DOMAIN Steps
    BY <2>2, <2>3, <2>4 DEF Progress, Position, Orderly, Shaped, IsList
  <2>7. done = Over(Steps, req.at, 1)
    BY <2>2, <2>3 DEF Progress, Position
  <2>8. PICK i \in 1 .. req.at - 1 : \E k \in DOMAIN Steps[i].calls : c = Steps[i].calls[k]
    <3>1. 1 .. 1 - 1 = {}
      OBVIOUS
    <3> QED BY <1>1, <2>7, <3>1, OverHas
  <2>9. CallsOf(Steps[i]) \cap Lasting \subseteq {"take_chunk"}
    BY <2>2, <2>4, <2>5, <2>8 DEF Orderly, Ordered, Here
  <2>10. c \in CallsOf(Steps[i])
    BY <2>8 DEF CallsOf
  <2> QED BY <1>1, <2>9, <2>10
<1>2. Inv => RefusedLeavesNothing
  BY <1>1 DEF RefusedLeavesNothing
<1> QED BY <1>2, Invariance, PTL

\* No call that spends, or stores what was paid, is dropped when its caller leaves the
\* daemon or a Promise; only chunk_put, which runs in the handler.
THEOREM PaidStays == Spec => []PaidIsNotCut
<1>1. Init => PaidIsNotCut
  BY DEF Init, PaidIsNotCut
<1>2. ASSUME Inv, PaidIsNotCut, [Next]_vars PROVE PaidIsNotCut'
  <2>1. CASE \E via, op, bad : Send(op, via, bad)
    BY <1>2, <2>1 DEF Inv, Send, PaidIsNotCut
  <2>2. CASE UNCHANGED cut /\ req'.via = req.via
    BY <1>2, <2>2 DEF PaidIsNotCut
  <2>3. CASE CallerLeaves
    <3>1. AtStep /\ Awaits(Here)
      BY <2>3 DEF CallerLeaves
    <3>2. req'.via = req.via
      BY <1>2, <2>3 DEF CallerLeaves, Inv, IsCall
    <3>3. CASE UNCHANGED cut
      BY <2>2, <3>2, <3>3
    <3>4. CASE cut' = {Here.calls[req.call]} /\ Here.do \notin {"effect", "cleanup", "spawn"}
      <4>1. ASSUME req.via # "ffi", Here.calls[req.call] \in Paying
            PROVE  Here.calls[req.call] = "chunk_put"
        <5>1. req.via \in ToDaemon
          BY <1>2, <3>1, <4>1, StepAt DEF Transports, Embedded, Awaits
        <5>2. Here.do = "await"
          BY <3>1, <3>4, <5>1 DEF Awaits, ToDaemon, Stage, Effect, Step
        <5>3. Detaches(Steps) /\ req.at \in DOMAIN Steps
          BY <1>2, <3>1, <5>1, StepAt, HandlersAreFine DEF Fine, Steps
        <5>4. req.call \in DOMAIN Here.calls
          BY <1>2, <3>1, <5>2, StepAt DEF Progress, Position, WellFormed, IsList, AtStep
        <5> QED BY <4>1, <5>2, <5>3, <5>4 DEF Detaches, CallsOf, Here
      <4> QED BY <3>2, <3>4, <4>1 DEF PaidIsNotCut, Paying
    <3> QED BY <2>3, <3>3, <3>4 DEF CallerLeaves, Detached
  <2>4. CASE Guard \/ EndsEarly \/ Touch \/ CallReturns \/ Answer \/ DaemonDies
    <3>1. UNCHANGED cut
      BY <2>4 DEF Guard, EndsEarly, Touch, CallReturns, Answer, DaemonDies
    <3>2. req'.via = req.via
      BY <1>2, <2>4 DEF Guard, EndsEarly, Touch, CallReturns, Answer, DaemonDies, Ends,
         Advance, Inv, IsCall
    <3> QED BY <2>2, <3>1, <3>2
  <2>5. ASSUME NEW core \in CoreErrors, CallFails(core) PROVE PaidIsNotCut'
    <3>1. UNCHANGED cut /\ req'.via = req.via
      BY <1>2, <2>5 DEF CallFails, Ends, Inv, IsCall
    <3> QED BY <2>2, <3>1
  <2> QED BY <1>2, <2>1, <2>2, <2>3, <2>4, <2>5 DEF Next, vars
<1>3. Inv /\ PaidIsNotCut /\ [Next]_vars => PaidIsNotCut'
  BY <1>2
<1> QED BY <1>1, <1>3, Invariance, PTL DEF Spec

-----------------------------------------------------------------------------
(* The first refusal.                                                      *)

\* A set of numbers has a least one.
Below == {ss \in Nat \X Nat : ss[1] < ss[2]}

LEMMA BelowIsWellFounded == IsWellFoundedOn(Below, Nat)
<1>1. Below = OpToRel(<, Nat)
  BY DEF Below, OpToRel
<1> QED BY <1>1, NatLessThanWellFounded

LEMMA LeastElement ==
    ASSUME NEW S \in SUBSET Nat, S # {}
    PROVE  \E m \in S : \A j \in S : m <= j
<1>1. PICK m \in S : \A y \in S : ~(<<y, m>> \in Below)
  BY BelowIsWellFounded, WFMin
<1>2. ASSUME NEW j \in S PROVE m <= j
  <2>1. j \in Nat /\ m \in Nat
    OBVIOUS
  <2>2. j < m => <<j, m>> \in Below
    BY <2>1 DEF Below
  <2> QED BY <1>1, <2>1, <2>2
<1> QED BY <1>2

\* The first refusal is the least guard that fails.
LEMMA FirstRefuses ==
    ASSUME NEW s, IsList(s), NEW bad, NEW k \in DOMAIN s, s[k].do = "need", s[k].fact \in bad
    PROVE  \E r \in DOMAIN s :
              /\ FirstRefusal(s, bad) = r /\ r <= k /\ s[r].do = "need" /\ s[r].fact \in bad
              /\ \A j \in 1 .. r - 1 : s[j].do = "need" => s[j].fact \notin bad
<1> DEFINE failing == {i \in DOMAIN s : s[i].do = "need" /\ s[i].fact \in bad}
<1>1. DOMAIN s = 1 .. Len(s) /\ Len(s) \in Nat
  BY DEF IsList
<1>2. failing \in SUBSET Nat /\ k \in failing /\ failing # {}
  BY <1>1
<1>3. FirstRefusal(s, bad) = CHOOSE i \in failing : \A j \in failing : i <= j
  BY <1>2 DEF FirstRefusal
<1> DEFINE r == FirstRefusal(s, bad)
<1>4. r \in failing /\ \A j \in failing : r <= j
  <2> HIDE DEF failing
  <2>1. \E i \in failing : \A j \in failing : i <= j
    BY <1>2, LeastElement
  <2> QED BY <1>3, <2>1
<1> HIDE DEF r
<1>5. ASSUME NEW j \in 1 .. r - 1, s[j].do = "need", s[j].fact \in bad
      PROVE  FALSE
  <2>1. r \in Nat /\ r <= Len(s)
    BY <1>1, <1>4
  <2>2. j \in DOMAIN s /\ ~(r <= j)
    BY <1>1, <2>1
  <2> QED BY <1>4, <1>5, <2>2
<1> QED BY <1>2, <1>4, <1>5 DEF r

\* The SDK refuses a call itself over both transports or over neither, and by a check
\* that the two have in common.
LEMMA ChecksAgree ==
    ASSUME NEW op \in Ops("rest"), op \in Ops("grpc"), NEW bad, bad \cap Carriage = {},
           NEW via \in ToDaemon
    PROVE  LET own == FirstRefusal(OwnChecks(op), bad)
           IN  /\ FirstRefusal(Checks(op, via), bad) = own
               /\ own # 0 => Checks(op, via)[own].error = "BadRequest"
<1> DEFINE own == FirstRefusal(OwnChecks(op), bad)
<1>1. own # 0 => OwnChecks(op)[own].error = "BadRequest"
  <2>1. SUFFICES ASSUME own # 0 PROVE OwnChecks(op)[own].error = "BadRequest"
    OBVIOUS
  <2>2. /\ \A i \in DOMAIN OwnChecks(op) : OwnChecks(op)[i].error = "BadRequest"
        /\ IsList(OwnChecks(op))
    <3>1. PICK fact : OwnChecks(op) \in {<<>>, <<Need(fact, "BadRequest")>>}
      BY DEF OwnChecks
    <3> QED BY <3>1, NeedOf DEF GuardLike, IsList
  <2>3. PICK k \in DOMAIN OwnChecks(op) :
            OwnChecks(op)[k].do = "need" /\ OwnChecks(op)[k].fact \in bad
    BY <2>1 DEF FirstRefusal
  <2>4. \E r \in DOMAIN OwnChecks(op) : own = r
    BY <2>2, <2>3, FirstRefuses
  <2> QED BY <2>2, <2>4
<1>2. CASE Checks(op, via) = OwnChecks(op)
  BY <1>1, <1>2
<1>3. CASE op = "verify_quotes" /\ Checks(op, via) = <<Need("entries64", "BadRequest")>>
  <2>1. OwnChecks(op) = <<>>
    BY <1>3 DEF OwnChecks
  <2>2. FirstRefusal(<<>>, bad) = 0
    BY DEF FirstRefusal
  <2>3. FirstRefusal(<<Need("entries64", "BadRequest")>>, bad) = 0
    BY NeedOf DEF FirstRefusal, GuardLike, Carriage
  <2> QED BY <1>3, <2>1, <2>2, <2>3
<1>4. op \in DOMAIN HttpCalls /\ op \in DOMAIN Rpcs
  BY DEF Ops
<1> QED BY <1>2, <1>3, <1>4, RestChecks, GrpcChecks DEF ToDaemon

\* The two transports have the same calls.
LEMMA SameOps == Ops("rest") = Ops("grpc")
<1>1. Ops("grpc") \subseteq Ops("rest")
  BY RpcsOf, RpcsKeys, HttpCallsHas, HttpCallsKeys DEF Ops
<1>2. Ops("rest") \subseteq Ops("grpc")
  BY RefusalsAlign
<1> QED BY <1>1, <1>2

\* When one of the handlers refuses a call, both do, and answer alike.
LEMMA BothRefuse ==
    ASSUME NEW op \in Ops("rest"), NEW bad, bad \cap Carriage = {}, NEW via \in ToDaemon,
           NEW k \in DOMAIN Script(op, via), Script(op, via)[k].do = "need",
           Script(op, via)[k].fact \in bad
    PROVE  LET rest == FirstRefusal(Script(op, "rest"), bad)
               grpc == FirstRefusal(Script(op, "grpc"), bad)
           IN  /\ rest # 0 /\ grpc # 0
               /\ SameAnswer(op, Script(op, "rest")[rest].error,
                                 Script(op, "grpc")[grpc].error)
<1> DEFINE R == Script(op, "rest")
           G == Script(op, "grpc")
<1>1. op \in Ops("grpc") /\ Alike(op, R, G)
  BY RefusalsAlign
<1>2. IsList(R) /\ IsList(G)
  BY <1>1, HandlersAreFine DEF Fine, Orderly, Shaped, Transports, ToDaemon
<1>3. PICK h \in DOMAIN R : R[h].do = "need" /\ R[h].fact \in bad
  <2>1. CASE via = "rest"
    BY <2>1
  <2>2. CASE via = "grpc"
    BY <1>1, <2>2 DEF Alike, Covers
  <2> QED BY <2>1, <2>2 DEF ToDaemon
<1> HIDE DEF R, G
<1>4. PICK i \in DOMAIN R :
        /\ FirstRefusal(R, bad) = i /\ R[i].do = "need" /\ R[i].fact \in bad
        /\ \A j \in 1 .. i - 1 : R[j].do = "need" => R[j].fact \notin bad
  BY <1>2, <1>3, FirstRefuses
<1>5. PICK l \in DOMAIN G : G[l].do = "need" /\ G[l].fact = R[i].fact
  BY <1>1, <1>4 DEF Alike, Covers
<1>6. PICK m \in DOMAIN G :
        /\ FirstRefusal(G, bad) = m /\ m <= l /\ G[m].do = "need" /\ G[m].fact \in bad
  BY <1>2, <1>4, <1>5, FirstRefuses
<1>7. m \in 1 .. l /\ m # 0 /\ i # 0
  BY <1>2, <1>4, <1>6 DEF IsList
<1>8. SameAnswer(op, R[i].error, G[m].error)
  BY <1>1, <1>4, <1>5, <1>6, <1>7 DEF Alike, Agrees
<1> QED BY <1>4, <1>6, <1>7, <1>8 DEF R, G

\* The first of the SDK's checks that a call fails.
OwnRefusal == FirstRefusal(Checks(req.op, req.via), req.bad)

\* What failed a check of the SDK never reached a handler and was answered for that
\* check.
AsSent ==
    /\ Entered => OwnRefusal = 0
    /\ Running => req.by = "none"
    /\ Answered /\ req.by = "sdk"
         => OwnRefusal # 0 /\ req.error = Checks(req.op, req.via)[OwnRefusal].error

LEMMA SentStays ==
    ASSUME Inv, AsSent, [Next]_vars
    PROVE  AsSent'
<1>1. CASE UNCHANGED vars
  BY <1>1 DEF vars, AsSent, OwnRefusal, Entered, Answered, Running
<1>2. ASSUME NEW via \in Transports, NEW op \in Ops(via), NEW bad, Send(op, via, bad)
      PROVE  AsSent'
  <2> DEFINE refused == FirstRefusal(Checks(op, via), bad)
  <2>1. /\ req'.op = op /\ req'.via = via /\ req'.bad = bad
        /\ refused # 0 => /\ req'.pc = "answered" /\ req'.by = "sdk"
                          /\ req'.error = Checks(op, via)[refused].error
        /\ refused = 0 => req'.pc = "handler" /\ req'.by = "none"
    BY <1>2, SendFields
  <2> HIDE DEF refused
  <2>2. OwnRefusal' = refused /\ Checks(req.op, req.via)' = Checks(op, via)
    BY <2>1 DEF OwnRefusal, refused
  <2> QED BY <2>1, <2>2 DEF AsSent, Entered, Answered, Running
<1>3. ASSUME Running, req'.op = req.op, req'.via = req.via, req'.bad = req.bad,
             \/ req'.pc = "handler" /\ req'.by = req.by
             \/ req'.pc = "answered" /\ req'.by # "sdk"
             \/ req'.pc \in {"gone", "died"}
      PROVE  AsSent'
  <2>1. OwnRefusal' = OwnRefusal
    BY <1>3 DEF OwnRefusal
  <2>2. OwnRefusal = 0 /\ req.by = "none"
    BY <1>3 DEF AsSent, Entered, Running
  <2> QED BY <1>3, <2>1, <2>2 DEF AsSent, Entered, Answered, Running
<1>4. ASSUME Running, Advance PROVE AsSent'
  BY <1>3, <1>4, AdvanceFields DEF Inv, Running
<1>5. ASSUME Running, NEW by, by # "sdk", NEW error, Ends(by, error) PROVE AsSent'
  BY <1>3, <1>5, EndsFields DEF Inv
<1>6. CASE Guard \/ EndsEarly \/ Touch \/ Answer
  BY <1>4, <1>5, <1>6 DEF Guard, EndsEarly, Touch, Answer, AtStep
<1>7. CASE CallReturns
  <2>1. CASE req' = [req EXCEPT !.call = @ + 1]
    BY <1>3, <1>7, <2>1 DEF Inv, IsCall, CallReturns, Calling, AtStep, Running
  <2>2. CASE Advance \/ Ends("ok", "none")
    BY <1>4, <1>5, <1>7, <2>2 DEF CallReturns, Calling, AtStep
  <2> QED BY <1>7, <2>1, <2>2 DEF CallReturns
<1>8. ASSUME NEW core, CallFails(core) PROVE AsSent'
  BY <1>5, <1>8 DEF CallFails, Calling, AtStep
<1>9. CASE CallerLeaves
  BY <1>3, <1>9 DEF Inv, IsCall, CallerLeaves, AtStep, Running
<1>10. CASE DaemonDies
  BY <1>3, <1>10 DEF Inv, IsCall, DaemonDies, Running
<1> QED BY <1>1, <1>2, <1>6, <1>7, <1>8, <1>9, <1>10 DEF Next

\* What one transport refuses the other refuses, in the SDK or in the handler, and the
\* SDK reports it alike.
THEOREM TransportsAgreed == Spec => []TransportsAgree
<1>1. Init => AsSent
  BY DEF Init, Idle, AsSent, Entered, Answered
<1>2. ASSUME Inv, AsSent, Answered, req.by \in {"sdk", "need"}, req.via \in ToDaemon,
             req.bad \cap Carriage = {}
      PROVE  LET other == IF req.via = "rest" THEN "grpc" ELSE "rest"
                 own   == Report(req.op, req.via, req.by, req.error)
                 its   == Refusal(req.op, other, req.bad)
             IN /\ Refuses(req.op, other, req.bad)
                /\ IF req.via = "rest" THEN ReadAlike(req.op, own, its)
                   ELSE ReadAlike(req.op, its, own)
  <2> DEFINE other == IF req.via = "rest" THEN "grpc" ELSE "rest"
             own   == Report(req.op, req.via, req.by, req.error)
             its   == Refusal(req.op, other, req.bad)
  <2>1. /\ req.via \in ToDaemon /\ other \in ToDaemon /\ {req.via, other} = ToDaemon
        /\ req.op \in Ops("rest") /\ req.op \in Ops("grpc")
    <3>1. req.op \in Ops(req.via)
      BY <1>2 DEF Inv, Answered
    <3> QED BY <1>2, <3>1, SameOps DEF ToDaemon
  <2>2. /\ FirstRefusal(Checks(req.op, other), req.bad) = OwnRefusal
        /\ OwnRefusal # 0 => /\ Checks(req.op, other)[OwnRefusal].error = "BadRequest"
                             /\ Checks(req.op, req.via)[OwnRefusal].error = "BadRequest"
    BY <1>2, <2>1, ChecksAgree DEF OwnRefusal
  <2> HIDE DEF other
  <2>3. CASE req.by = "sdk"
    <3>1. OwnRefusal # 0 /\ req.error = "BadRequest"
      BY <1>2, <2>2, <2>3 DEF AsSent
    <3>2. own = Report(req.op, req.via, "sdk", "BadRequest")
      BY <2>3, <3>1
    <3>3. its = Report(req.op, other, "sdk", "BadRequest")
      BY <2>2, <3>1 DEF Refusal
    <3>4. own.kind = "BadRequest" /\ its.kind = "BadRequest"
      BY <3>2, <3>3 DEF Report
    <3>5. Refuses(req.op, other, req.bad)
      BY <2>2, <3>1 DEF Refuses
    <3> QED BY <3>4, <3>5 DEF ReadAlike, RestOnly, other
  <2>4. CASE req.by = "need"
    <3> DEFINE S == Script(req.op, req.via)
               k == FirstRefusal(S, req.bad)
               m == FirstRefusal(Script(req.op, other), req.bad)
    <3>1. Verdict /\ Progress /\ Steps = S /\ OwnRefusal = 0
      BY <1>2, <2>4 DEF Inv, AsSent, Entered, Steps
    <3>2. /\ req.at <= Len(Steps) /\ Here.do = "need"
          /\ Here.fact \in req.bad /\ req.error = Here.error
      BY <2>4, <3>1 DEF Verdict
    <3>3. IsList(S)
      BY <2>1, HandlersAreFine DEF Fine, Orderly, Shaped, Transports, ToDaemon
    <3> HIDE DEF S
    <3>4. PICK i \in DOMAIN S : i = req.at
      BY <3>1, <3>2, <3>3 DEF Progress, Position, IsList
    <3>5. S[i].do = "need" /\ S[i].fact \in req.bad /\ req.error = S[i].error
      BY <3>1, <3>2, <3>4 DEF Here
    <3>6. k = i
      <4>1. PICK r \in DOMAIN S :
              /\ FirstRefusal(S, req.bad) = r /\ r <= i
              /\ S[r].do = "need" /\ S[r].fact \in req.bad
        BY <3>3, <3>5, FirstRefuses
      <4>2. r = i \/ r \in 1 .. i - 1
        BY <3>3, <4>1 DEF IsList
      <4> QED BY <3>1, <3>4, <4>1, <4>2 DEF Progress, Passed
    <3>7. LET rest == FirstRefusal(Script(req.op, "rest"), req.bad)
              grpc == FirstRefusal(Script(req.op, "grpc"), req.bad)
          IN  /\ rest # 0 /\ grpc # 0
              /\ SameAnswer(req.op, Script(req.op, "rest")[rest].error,
                            Script(req.op, "grpc")[grpc].error)
      BY <1>2, <2>1, <3>5, BothRefuse DEF S
    <3>8. own = Report(req.op, req.via, "need", S[k].error)
      BY <2>4, <3>5, <3>6
    <3>9. its = Report(req.op, other, "need", Script(req.op, other)[m].error)
      BY <2>2, <3>1 DEF Refusal
    <3>10. Refuses(req.op, other, req.bad)
      BY <2>1, <3>7 DEF Refuses, ToDaemon
    <3> QED BY <2>1, <3>7, <3>8, <3>9, <3>10 DEF SameAnswer, S, other, ToDaemon
  <2> QED BY <1>2, <2>3, <2>4
<1>3. Inv /\ AsSent => TransportsAgree
  BY <1>2 DEF TransportsAgree
<1>4. Inv /\ AsSent /\ [Next]_vars => AsSent'
  BY SentStays
<1> QED BY <1>1, <1>3, <1>4, Invariance, PTL DEF Spec

=============================================================================
