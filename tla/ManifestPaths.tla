---------------------------- MODULE ManifestPaths ----------------------------
(***************************************************************************)
(* The paths of a manifest build with repair_paths: repair_paths of        *)
(* antd/src/manifest_paths.rs and the parts of build in                    *)
(* antd/src/manifests.rs that carry a path from its entry to the answer.   *)
(*                                                                         *)
(* A name is a sequence of symbols, each of a size: letters, an extension  *)
(* with its dot, and a number in its brackets, which a cut takes whole as  *)
(* it does a wide character.  "*" stands for what portable_component       *)
(* drops.  Names that differ in case only collide.                         *)
(***************************************************************************)
EXTENDS Integers, Sequences, FiniteSets, FiniteSetsExt, SequencesExt

CONSTANTS
    Characters,     \* what names are made of
    Inputs,         \* the lists of given paths, each a list of components or NoPath
    ComponentMax,   \* MAX_PATH_COMPONENT_BYTES
    PathMax,        \* MAX_PATH_BYTES
    WidthEnds,      \* the numbers with one digit more than the one before: 10, 100, ...
    NoPath

Symbol == [is : Characters, n : Nat, width : Nat]
Path == Seq(Seq(Symbol))

ASSUME ConstantsAssumption ==
    /\ {"a", "A", "_", "*", ".x", "#"} \subseteq Characters
    /\ ComponentMax \in Nat \ {0} /\ PathMax \in Nat \ {0}
    /\ WidthEnds \subseteq Nat
    /\ NoPath \notin Path
    /\ \A list \in Inputs : list \in Seq(Path \cup {NoPath})

-----------------------------------------------------------------------------
(* Names and ant-core's rules for them (external).                         *)

Letter(c) == [is |-> c, n |-> 0, width |-> 0]
Dropped   == Letter("*")
Extension == Letter(".x")
Placeholder == <<Letter("_")>>

\* The digits of a number.
Width(n) == 1 + Cardinality({e \in WidthEnds : e <= n})

Number(n) == <<[is |-> "#", n |-> n, width |-> Width(n)]>>
Zeros(n)  == <<[is |-> "#", n |-> 0, width |-> Width(n)]>>

Total(sizes) ==
    LET upTo[i \in 0 .. Len(sizes)] == IF i = 0 THEN 0 ELSE upTo[i - 1] + sizes[i]
    IN upTo[Len(sizes)]

Size(name) == Total([i \in DOMAIN name |-> 1 + name[i].width])

\* A path is the sequence of its components, with a separator between two.
PathSize(path) == Total([i \in DOMAIN path |-> 1 + Size(path[i])]) - 1

\* A sequence without its elements x.
Without(s, x) ==
    LET upTo[i \in 0 .. Len(s)] ==
            IF i = 0 THEN <<>>
            ELSE IF s[i] = x THEN upTo[i - 1] ELSE Append(upTo[i - 1], s[i])
    IN upTo[Len(s)]

Portable(name) == Without(name, Dropped)

FoldSymbol(symbol) == IF symbol = Letter("A") THEN Letter("a") ELSE symbol
FoldName(name) == [i \in DOMAIN name |-> FoldSymbol(name[i])]
FoldPath(path) == [i \in DOMAIN path |-> FoldName(path[i])]

ValidPath(path) ==
    /\ path # <<>> /\ PathSize(path) <= PathMax
    /\ \A i \in DOMAIN path : /\ path[i] # <<>> /\ Portable(path[i]) = path[i]
                              /\ Size(path[i]) <= ComponentMax

-----------------------------------------------------------------------------
(* One path.                                                               *)

Cut(stem, keep) == SubSeq(stem, 1, keep)

\* The stem and extension of a name: the extension stays unless it would leave no
\* room for any of the stem.
SplitAt(name, suffix, max) ==
    LET dots == {i \in DOMAIN name : name[i] = Extension}
        dot  == Max(dots)
        tail == SubSeq(name, dot, Len(name))
    IN IF dots # {} /\ dot > 1 /\ Size(tail) + Size(suffix) < max
       THEN [stem |-> Cut(name, dot - 1), ext |-> tail]
       ELSE [stem |-> name, ext |-> <<>>]

\* The fitted name, <<>> when nothing fits.
Fit(name, suffix, max) ==
    LET parts == SplitAt(name, suffix, max)
        candidate(keep) == Portable(Cut(parts.stem, keep) \o suffix \o parts.ext)
        fits == {keep \in 0 .. Len(parts.stem) :
                   /\ Size(Cut(parts.stem, keep)) + Size(suffix) + Size(parts.ext) <= max
                   /\ candidate(keep) # <<>>}
    IN IF fits = {} THEN <<>> ELSE candidate(Max(fits))

Room(dir) ==
    LET taken == IF dir = <<>> THEN 0 ELSE PathSize(dir) + 1
    IN Min({ComponentMax, IF PathMax > taken THEN PathMax - taken ELSE 0})

\* A component <<>> stands for an empty, "." or ".." one.
RepairOne(path) ==
    LET parts == Without(path, <<>>)
        dir   == [i \in 1 .. (IF parts = <<>> THEN 0 ELSE Len(parts) - 1) |->
                    IF Portable(parts[i]) = <<>> THEN Placeholder ELSE Portable(parts[i])]
        file  == IF parts = <<>> THEN <<>> ELSE Fit(Last(parts), <<>>, Room(dir))
    IN [dir  |-> dir,
        file |-> IF file = <<>> /\ Room(dir) >= Size(Placeholder) THEN Placeholder ELSE file]

DirectoryPrefixes(dir) == {SubSeq(dir, 1, i) : i \in DOMAIN dir}

\* The path of a repaired base under the name `file`.
PathWith(base, file) == Append(base.dir, file)

\* The path with number n before its extension, <<>> when nothing fits.
Numbered(base, suffix) ==
    LET file == Fit(base.file, suffix, Room(base.dir))
    IN IF file = <<>> THEN <<>> ELSE PathWith(base, file)

Family(base, n) == FoldPath(Numbered(base, Zeros(n)))

\* Where the numbers as wide as n end, at most after `last`.
WidthEnd(n, last) == Min({e \in WidthEnds : e > n} \cup {last + 1})

-----------------------------------------------------------------------------
VARIABLES
    pc,        \* "repair", "keep", "number", "embed", "built" or "refused"
    given,     \* the paths of the request's entries
    bases,     \* entry -> its path repaired on its own
    repaired,  \* entry -> its path, NoPath until it has one
    taken,     \* the folded paths given out
    clashes,   \* entries still to be numbered
    number,    \* the number the first of them is tried with next
    resume,    \* family -> where its search resumes
    errors,    \* entries that could not be repaired
    built      \* entries of the answer: [source, path, original]

vars == <<pc, given, bases, repaired, taken, clashes, number, resume, errors, built>>

Entries == DOMAIN given
WithPath == {i \in Entries : given[i] # NoPath}

Own(i) == PathWith(bases[i], bases[i].file)
Key(i) == FoldPath(Own(i))

\* Fault: the directories are kept as they are spelled.
DirsAsSpelled == UNION {DirectoryPrefixes(bases[i].dir) : i \in WithPath}

\* Every directory the paths imply, folded.
Dirs == {FoldPath(dir) : dir \in UNION {DirectoryPrefixes(bases[i].dir) : i \in WithPath}}

Init ==
    /\ given \in Inputs
    /\ pc = "repair"
    /\ bases = <<>>
    /\ repaired = [i \in Entries |-> NoPath]
    /\ taken = {} /\ clashes = {} /\ number = 2 /\ resume = <<>>
    /\ errors = {} /\ built = {}

\* Each path on its own; every entry that fails is reported.
RepairEach ==
    /\ pc = "repair"
    /\ LET own    == [i \in WithPath |-> RepairOne(given[i])]
           failed == {i \in WithPath : own[i].file = <<>>}
       IN /\ bases' = own
          /\ errors' = failed
          /\ pc' = IF failed = {} THEN "keep" ELSE "refused"
    /\ UNCHANGED <<given, repaired, taken, clashes, number, resume, built>>

\* The first entry of each distinct path that is no directory keeps it.
KeepDistinct ==
    /\ pc = "keep"
    /\ LET kept == {i \in WithPath : /\ Key(i) \notin Dirs
                                     /\ \A j \in WithPath : Key(j) = Key(i) => i <= j}
       IN /\ repaired' = [i \in Entries |-> IF i \in kept THEN Own(i) ELSE NoPath]
          /\ taken' = {Key(i) : i \in kept}
          /\ clashes' = WithPath \ kept
    /\ pc' = "number"
    /\ UNCHANGED <<given, bases, number, resume, errors, built>>

Resumed(family) == IF family \in DOMAIN resume THEN resume[family] ELSE 0

\* The search goes on to the next entry once this one has its path or cannot get
\* one.
NextClash == clashes' = clashes \ {Min(clashes)} /\ number' = 2

\* One family of numbered names of the first clash, from where its search stands:
\* the lowest free number of this width, or on to the next width.
NumberFamily ==
    /\ pc = "number" /\ clashes # {}
    /\ LET i       == Min(clashes)
           base    == bases[i]
           last    == 2 + Cardinality(taken) + Cardinality(Dirs)
           family  == Family(base, number)
           start   == Max({number, Resumed(family)})
           end     == WidthEnd(number, last)
           path(m) == Numbered(base, Number(m))
           free    == {m \in start .. end - 1 :
                         path(m) # <<>> /\ FoldPath(path(m)) \notin Dirs \cup taken}
           found   == Min(free)
           stop    == IF free # {} THEN found + 1 ELSE Max({start, end})
       IN IF number > last \/ family = <<>>
          THEN /\ errors' = errors \cup {i}
               /\ NextClash
               /\ UNCHANGED <<repaired, taken, resume>>
          ELSE /\ resume' = [f \in DOMAIN resume \cup {family} |->
                               IF f = family THEN stop ELSE resume[f]]
               /\ IF free = {}
                  THEN number' = stop /\ UNCHANGED <<repaired, taken, clashes>>
                  ELSE /\ repaired' = [repaired EXCEPT ![i] = path(found)]
                       /\ taken' = taken \cup {FoldPath(path(found))}
                       /\ NextClash
               /\ UNCHANGED errors
    /\ UNCHANGED <<pc, given, bases, built>>

Repaired ==
    /\ pc = "number" /\ clashes = {}
    /\ errors' = errors \cup {i \in Entries : repaired[i] # NoPath /\ ~ValidPath(repaired[i])}
    /\ pc' = IF errors' = {} THEN "embed" ELSE "refused"
    /\ UNCHANGED <<given, bases, repaired, taken, clashes, number, resume, built>>

\* The original reported for a path: repaired paths key the originals, and a later
\* entry would replace an earlier one.
Original(path) ==
    LET from == {i \in WithPath : repaired[i] = path}
    IN IF from = {} THEN NoPath ELSE given[Max(from)]

\* The entries' data maps are resolved, and the first that fails fails the build;
\* then the manifest is written and its entries reported.
Embed ==
    /\ pc = "embed"
    /\ \/ /\ pc' = "refused"
          /\ UNCHANGED built
       \/ /\ pc' = "built"
          /\ built' = {[source |-> i, path |-> repaired[i],
                        original |-> Original(repaired[i])] : i \in Entries}
    /\ UNCHANGED <<given, bases, repaired, taken, clashes, number, resume, errors>>

Next == RepairEach \/ KeepDistinct \/ NumberFamily \/ Repaired \/ Embed

Spec == Init /\ [][Next]_vars

-----------------------------------------------------------------------------
(* What the documentation of repair_paths promises of the whole list.      *)

Clashing == {i \in WithPath : Key(i) \in Dirs \/ \E j \in WithPath : j < i /\ Key(j) = Key(i)}

\* What clash i may not take: directories and the paths of the entries before it.
Unfree(i) ==
    Dirs \cup {FoldPath(repaired[j]) :
                 j \in {j \in WithPath : repaired[j] # NoPath /\ (j \in Clashing => j < i)}}

\* The numbers that are enough for clash i, if no two of them give it one name.
Enough(i) == 2 .. 2 + Cardinality(Unfree(i))

\* Entry i has the lowest number that is free.
LowestFree(i) ==
    \E m \in Enough(i) :
       /\ repaired[i] = Numbered(bases[i], Number(m))
       /\ FoldPath(repaired[i]) \notin Unfree(i)
       /\ \A k \in 2 .. m - 1 : FoldPath(Numbered(bases[i], Number(k))) \in Unfree(i) \cup {<<>>}

\* A numbered name shows where its number is: no number that the name had already
\* stands right before its extension, or no number is so wide that it costs it the
\* extension.  Otherwise two of its numbers can give the same name.
ShowsNumber(i) ==
    LET name == bases[i].file IN
    \/ \A k \in 1 .. Len(name) - 1 : name[k].is = "#" => name[k + 1] # Extension
    \/ \A m \in 2 .. 2 + Len(given) + Cardinality(Dirs) :
          SplitAt(name, Number(m), Room(bases[i].dir)).ext # <<>>

\* A repaired list extracts on every platform: no two paths collide and none is
\* another's directory, however they are spelled.
NoneCollide ==
    \A i, j \in WithPath :
       /\ i # j => FoldPath(repaired[i]) # FoldPath(repaired[j])
       /\ FoldPath(repaired[i]) \notin {FoldPath(dir) : dir \in DirectoryPrefixes(Front(repaired[j]))}

\* A path that clashes with nothing given is kept; a clash gets the lowest free
\* number, although its search resumed where a similar name's had stopped.
AsLittleAsPossible ==
    \A i \in WithPath :
       IF i \notin Clashing THEN repaired[i] = Own(i)
       ELSE (\A j \in Clashing : ShowsNumber(j)) => LowestFree(i)

\* What entry i may lack room for: its directories, its name, or one of the numbers
\* that are enough.
LacksRoom(i) ==
    \/ bases[i].file = <<>>
    \/ \E k \in DOMAIN bases[i].dir : Size(bases[i].dir[k]) > ComponentMax
    \/ \E m \in Enough(i) : Numbered(bases[i], Number(m)) = <<>>

\* An entry is refused only for lack of room.
RefusedForRoom ==
    \A i \in errors : LacksRoom(i) \/ \E j \in Clashing : ~ShowsNumber(j)

\* Every entry of the answer names the path that it was given.
RepairedIsExtractable ==
    /\ pc \in {"embed", "built"} => NoneCollide /\ AsLittleAsPossible
    /\ \A entry \in built : entry.original = given[entry.source]
    /\ RefusedForRoom

=============================================================================
