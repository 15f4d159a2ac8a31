----------------------------- MODULE PointerSlot -----------------------------
(***************************************************************************)
(* What antd promises about each pointer it can write: the pointer has one *)
(* slot, at most one of the daemon's paid writes holds it, and the daemon  *)
(* changes the pointer only on behalf of that holder.  A prepared write    *)
(* takes the slot over from the request that prepared it, under a name of  *)
(* its own, and once it gives the slot up it never has it again.           *)
(***************************************************************************)
CONSTANTS
    Pointers,
    Requests,   \* requests the daemon serves
    Prepared,   \* prepared writes, each known by a name of its own
    Rival,      \* whoever else writes the pointers
    None

VARIABLES
    holder,     \* [Pointers -> the paid write that has the slot, or None]
    author,     \* [Pointers -> who signed the state the network serves]
    used        \* the prepared writes that have had a slot

vars == <<holder, author, used>>

Init ==
    /\ holder = [p \in Pointers |-> None]
    /\ author = [p \in Pointers |-> Rival]
    /\ used = {}

\* A request claims a free slot.
Claim(p, t) ==
    /\ holder[p] = None
    /\ holder' = [holder EXCEPT ![p] = t]
    /\ UNCHANGED <<author, used>>

\* The request hands its slot over to the write it prepared.
HandOver(p, u) ==
    /\ holder[p] \in Requests
    /\ u \notin used
    /\ holder' = [holder EXCEPT ![p] = u]
    /\ used' = used \cup {u}
    /\ UNCHANGED author

\* The holder's state reaches the network.
Land(p) ==
    /\ holder[p] # None
    /\ author' = [author EXCEPT ![p] = holder[p]]
    /\ UNCHANGED <<holder, used>>

\* Somebody else's state does.
RivalLands(p) ==
    /\ author' = [author EXCEPT ![p] = Rival]
    /\ UNCHANGED <<holder, used>>

\* Holders give up their slots: done, refused, swept or lost to a restart.
Release(S) ==
    /\ holder' = [p \in Pointers |-> IF p \in S THEN None ELSE holder[p]]
    /\ UNCHANGED <<author, used>>

Next ==
    \/ \E p \in Pointers :
          \/ \E t \in Requests : Claim(p, t)
          \/ \E u \in Prepared : HandOver(p, u)
          \/ Land(p)
          \/ RivalLands(p)
    \/ \E S \in SUBSET Pointers : Release(S)

Spec == Init /\ [][Next]_vars

=============================================================================
