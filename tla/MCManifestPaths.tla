--------------------------- MODULE MCManifestPaths ---------------------------
(* Lists of up to four paths: names that differ in case, by an extension, by a  *)
(* number as a repair would give it, only past the cut, or not at all usable,   *)
(* at the root and below directories that leave them little or no room.         *)
EXTENDS ManifestPaths

a == Letter("a")
A == Letter("A")
b == Letter("b")
wide == [is |-> "w", n |-> 0, width |-> 1]

Names == {<<a>>, <<A>>, <<A, Extension>>, <<a>> \o Number(2), <<a, wide, wide, wide, b>>,
          <<A, wide, wide, wide>>, <<a>> \o Number(2) \o <<Extension>> \o Number(3)}

Paths == {<<name>> : name \in Names}
           \cup {<< <<A>>, <<>>, <<a>> >>, << <<a>>, <<a, Dropped>> >>, << <<Dropped>> >>,
                 << <<b, wide, wide>>, <<a>> >>, << <<b, wide, wide>>, <<b>>, <<a>> >>}

ShortLists == UNION {[1 .. k -> Paths \cup {NoPath}] : k \in 1 .. 3}
                \cup [1 .. 4 -> {<<name>> : name \in Names}]
=============================================================================
