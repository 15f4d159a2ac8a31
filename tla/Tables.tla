------------------------------- MODULE Tables -------------------------------
(***************************************************************************)
(* Tables, for the routes and handlers of a surface.  They do what :> and  *)
(* @@ of TLC do, which the proof system cannot unfold.                     *)
(***************************************************************************)

\* The function of a set of rows <<key, value>>, each key in one row.
Table(rows) == [k \in {r[1] : r \in rows} |-> (CHOOSE r \in rows : r[1] = k)[2]]

\* One table out of several that have no key in common.
Joined(tables) ==
    [k \in UNION {DOMAIN t : t \in tables} |-> (CHOOSE t \in tables : k \in DOMAIN t)[k]]

=============================================================================
