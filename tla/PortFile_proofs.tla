--------------------------- MODULE PortFile_proofs ---------------------------
(***************************************************************************)
(* Theorems about the port file, for any number of daemons on either       *)
(* platform, with daemons that follow one another or run at once, killed   *)
(* at any step or failing to write.                                        *)
(***************************************************************************)
EXTENDS PortFile, TLAPS

-----------------------------------------------------------------------------
(* The inductive invariant.                                                *)

TypeOK ==
    /\ platform \in Platforms /\ world \in Worlds
    /\ pc \in [Daemons -> Steps]
    /\ fd \in [Daemons -> Daemons \cup {None}]
    /\ text \in [Daemons -> Daemons \cup {Empty}]
    /\ tmp \in Daemons \cup {None}
    /\ target \in Daemons \cup {None}
    /\ listed \subseteq Daemons
    /\ look \in [step: {"idle", "opened", "read", "done"}, fd: Daemons \cup {None},
                 text: Daemons \cup {Empty}, since: SUBSET Daemons,
                 found: Daemons \cup {None}]
    /\ look.step = "opened" => look.fd \in Daemons
    /\ \A d \in Daemons : pc[d] \in {"created", "written", "cleared"} => fd[d] \in Daemons

\* Whose lines can be where: none before a daemon writes, and none under the
\* temporary name once it is past its rename or its clean-up.
LinesOK ==
    \A d \in Daemons :
        /\ pc[d] \in {"new", "bound", "created"} => \A x \in Daemons : text[x] # d
        /\ pc[d] \in {"starting", "serving", "stopping", "stopped"} /\ tmp # None =>
               text[tmp] # d

\* A daemon's own inode is new when it creates the temporary file.
Unused ==
    \A d \in Daemons : pc[d] \in {"new", "bound"} =>
        tmp # d /\ target # d /\ (look.step = "opened" => look.fd # d)

\* Only a daemon whose rename succeeded is listed.
ListedOK ==
    \A d \in listed : pc[d] \notin {"new", "bound", "created", "written", "cleared", "cleaning"}

Alone == ~world.overlap => \A d, e \in Daemons : Alive(d) /\ Alive(e) => d = e

\* With one daemon at a time, nobody truncates what the target, or a discovery
\* that opened it, has.
WholeOK ==
    ~world.overlap =>
        /\ target # None => text[target] # Empty /\ target # tmp
        /\ look.step = "opened" => text[look.fd] # Empty /\ look.fd # tmp
        /\ \A d \in Daemons :
              /\ pc[d] \in {"created", "written", "cleared"} => tmp = fd[d]
              /\ pc[d] \in {"written", "cleared"} => text[fd[d]] = d

\* With one daemon at a time, the file has the lines of the one that published
\* them, and a discovery that began meanwhile has them too.
FoundOK ==
    ~world.overlap =>
        /\ \A d \in listed : pc[d] \in {"starting", "serving"} =>
               target # None /\ text[target] = d
        /\ \A d \in look.since :
              /\ pc[d] \in {"serving", "stopping", "stopped", "killed"}
              /\ pc[d] = "serving" =>
                    /\ look.step = "opened" => text[look.fd] = d
                    /\ look.step = "read" => look.text = d
                    /\ look.step = "done" => look.found = d

\* While no daemon has ended: the target is absent only as long as nobody has
\* finished writing, and a name without lines belongs to a daemon about to write.
Undisturbed ==
    /\ platform = "unix" /\ ~world.ioErrors
    /\ \A d \in Daemons :
          pc[d] \in {"new", "bound", "created", "written", "cleaning", "starting", "serving"}

AdvertOK ==
    Undisturbed =>
        /\ target = None => \A d \in Daemons :
              /\ pc[d] \in {"new", "bound", "created", "written"}
              /\ pc[d] \in {"created", "written"} => tmp # None
        /\ \A x \in {tmp, target} \ {None} :
              text[x] # Empty \/ \E d \in Daemons : pc[d] = "created" /\ fd[d] = x

-----------------------------------------------------------------------------
(* Preservation.                                                           *)

\* The steps that leave every file and every discovery alone.
Moves(d) ==
    \/ Start(d) \/ WriteFails(d) \/ NoDirectory(d) \/ Serve(d) \/ StartupFails(d)
    \/ Stop(d) \/ Kill(d)

\* How such a step moves a process.
LEMMA MovesHow ==
    ASSUME TypeOK, NEW d \in Daemons, Moves(d)
    PROVE  /\ UNCHANGED <<platform, world, files, listed, look>>
           /\ pc' = [pc EXCEPT ![d] = pc'[d]]
           /\ <<pc[d], pc'[d]>> \in
                 {<<"new", "bound">>, <<"bound", "cleaning">>, <<"bound", "starting">>,
                  <<"created", "cleaning">>, <<"written", "cleaning">>,
                  <<"cleared", "cleaning">>, <<"starting", "serving">>,
                  <<"starting", "failed">>, <<"serving", "stopping">>}
                 \/ (Alive(d) /\ pc'[d] = "killed")
           /\ pc'[d] \in Steps
           /\ pc'[d] = "cleaning" => world.ioErrors \/ (ToRename(d) /\ tmp = None)
           /\ pc[d] = "bound" => world.ioErrors \/ pc'[d] = "killed"
           /\ pc[d] = "new" => world.overlap \/ \A e \in Daemons : ~Alive(e)
BY DEF TypeOK, Moves, Start, WriteFails, NoDirectory, Serve, StartupFails, Stop, Kill,
       Goto, ToRename, Steps, Alive, files

LEMMA Shapes ==
    ASSUME [Next]_vars
    PROVE  \/ UNCHANGED vars
           \/ \E d \in Daemons :
                Moves(d) \/ Create(d) \/ WriteAll(d) \/ Clear(d) \/ Rename(d)
                \/ Clean(d) \/ Remove(d)
           \/ Open \/ Read \/ Check
BY DEF Next, Moves
LEMMA NextType == TypeOK /\ [Next]_vars => TypeOK'
<1> SUFFICES ASSUME TypeOK, [Next]_vars PROVE TypeOK'
  OBVIOUS
<1>1. ASSUME NEW d \in Daemons, Moves(d) PROVE TypeOK'
  BY <1>1, MovesHow DEF TypeOK, files
<1>2. ASSUME NEW d \in Daemons, Create(d) PROVE TypeOK'
  BY <1>2 DEF TypeOK, Create, Goto, Steps
<1>3. ASSUME NEW d \in Daemons, WriteAll(d) PROVE TypeOK'
  BY <1>3 DEF TypeOK, WriteAll, Goto, Steps
<1>4. ASSUME NEW d \in Daemons, Clear(d) PROVE TypeOK'
  BY <1>4 DEF TypeOK, Clear, Goto, Steps
<1>5. ASSUME NEW d \in Daemons, Rename(d) PROVE TypeOK'
  BY <1>5 DEF TypeOK, Rename, Goto, Steps
<1>6. ASSUME NEW d \in Daemons, Clean(d) \/ Remove(d) PROVE TypeOK'
  BY <1>6 DEF TypeOK, Clean, Remove, Goto, Steps
<1>7. CASE Open
  BY <1>7 DEF TypeOK, Open, NoLook, Running, files
<1>8. CASE Read
  BY <1>8 DEF TypeOK, Read, files
<1>9. CASE Check
  BY <1>9 DEF TypeOK, Check, files
<1>10. CASE UNCHANGED vars
  BY <1>10 DEF TypeOK, vars, files
<1> QED BY <1>1, <1>2, <1>3, <1>4, <1>5, <1>6, <1>7, <1>8, <1>9, <1>10, Shapes

LEMMA NextLines == TypeOK /\ LinesOK /\ [Next]_vars => LinesOK'
<1> SUFFICES ASSUME TypeOK, LinesOK, [Next]_vars PROVE LinesOK'
  OBVIOUS
<1>1. ASSUME NEW d \in Daemons, Moves(d) PROVE LinesOK'
  BY <1>1, MovesHow DEF TypeOK, LinesOK, files, ToRename
<1>2. ASSUME NEW d \in Daemons, Create(d) PROVE LinesOK'
  BY <1>2, ConstantsAssumption DEF TypeOK, LinesOK, Create, Goto
<1>3. ASSUME NEW d \in Daemons, WriteAll(d) PROVE LinesOK'
  BY <1>3 DEF TypeOK, LinesOK, WriteAll, Goto
<1>4. ASSUME NEW d \in Daemons, Clear(d) \/ Rename(d) \/ Clean(d) \/ Remove(d) PROVE LinesOK'
  BY <1>4 DEF TypeOK, LinesOK, Clear, Rename, Clean, Remove, Goto
<1>5. CASE Open \/ Read \/ Check \/ UNCHANGED vars
  BY <1>5 DEF LinesOK, Open, Read, Check, vars, files
<1> QED BY <1>1, <1>2, <1>3, <1>4, <1>5, Shapes

LEMMA NextUnused == TypeOK /\ Unused /\ [Next]_vars => Unused'
<1> SUFFICES ASSUME TypeOK, Unused, [Next]_vars PROVE Unused'
  OBVIOUS
<1>1. ASSUME NEW d \in Daemons, Moves(d) PROVE Unused'
  BY <1>1, MovesHow DEF TypeOK, Unused, files
<1>2. ASSUME NEW d \in Daemons, Create(d) PROVE Unused'
  BY <1>2 DEF TypeOK, Unused, Create, Goto
<1>3. ASSUME NEW d \in Daemons,
             WriteAll(d) \/ Clear(d) \/ Rename(d) \/ Clean(d) \/ Remove(d)
      PROVE  Unused'
  BY <1>3, ConstantsAssumption
  DEF TypeOK, Unused, WriteAll, Clear, Rename, Clean, Remove, Goto
<1>4. CASE Open
  BY <1>4 DEF Unused, Open, NoLook, files
<1>5. CASE Read \/ Check \/ UNCHANGED vars
  BY <1>5 DEF TypeOK, Unused, Read, Check, vars, files
<1> QED BY <1>1, <1>2, <1>3, <1>4, <1>5, Shapes

LEMMA NextListed == TypeOK /\ ListedOK /\ [Next]_vars => ListedOK'
<1> SUFFICES ASSUME TypeOK, ListedOK, [Next]_vars PROVE ListedOK'
  OBVIOUS
<1>1. ASSUME NEW d \in Daemons, Moves(d) PROVE ListedOK'
  BY <1>1, MovesHow DEF TypeOK, ListedOK, files, Alive
<1>2. ASSUME NEW d \in Daemons,
             Create(d) \/ WriteAll(d) \/ Clear(d) \/ Rename(d) \/ Clean(d) \/ Remove(d)
      PROVE  ListedOK'
  BY <1>2 DEF TypeOK, ListedOK, Create, WriteAll, Clear, Rename, Clean, Remove, Goto, ToRename
<1>3. CASE Open \/ Read \/ Check \/ UNCHANGED vars
  BY <1>3 DEF ListedOK, Open, Read, Check, vars
<1> QED BY <1>1, <1>2, <1>3, Shapes

LEMMA NextAlone == TypeOK /\ Alone /\ [Next]_vars => Alone'
<1> SUFFICES ASSUME TypeOK, Alone, [Next]_vars PROVE Alone'
  OBVIOUS
<1>1. ASSUME NEW d \in Daemons, Moves(d) PROVE Alone'
  BY <1>1, MovesHow DEF TypeOK, Alone, Alive
<1>2. ASSUME NEW d \in Daemons,
             Create(d) \/ WriteAll(d) \/ Clear(d) \/ Rename(d) \/ Clean(d) \/ Remove(d)
      PROVE  Alone'
  BY <1>2
  DEF TypeOK, Alone, Create, WriteAll, Clear, Rename, Clean, Remove, Goto, ToRename, Alive
<1>3. CASE Open \/ Read \/ Check \/ UNCHANGED vars
  BY <1>3 DEF Alone, Alive, Open, Read, Check, vars
<1> QED BY <1>1, <1>2, <1>3, Shapes

\* A daemon that acts on its own is the only one alive.
LEMMA OnlyOne ==
    ASSUME Alone, ~world.overlap, NEW d \in Daemons, Alive(d)
    PROVE  \A e \in Daemons \ {d} : pc[e] \in {"new", "stopped", "failed", "killed"}
BY DEF Alone, Alive

LEMMA NextWhole ==
    TypeOK /\ Unused /\ Alone /\ WholeOK /\ [Next]_vars => WholeOK'
<1> SUFFICES ASSUME TypeOK, Unused, Alone, WholeOK, [Next]_vars, ~world'.overlap
             PROVE  WholeOK'
  BY DEF WholeOK
<1>0. world' = world
  BY DEF Next, vars, Start, Create, WriteAll, Clear, Rename, WriteFails, NoDirectory, Clean,
     Serve, StartupFails, Stop, Remove, Kill, Open, Read, Check
<1>1. ASSUME NEW d \in Daemons, Moves(d) PROVE WholeOK'
  BY <1>1, MovesHow DEF TypeOK, WholeOK, files
<1>2. ASSUME NEW d \in Daemons, Create(d) PROVE WholeOK'
  <2>1. \A e \in Daemons \ {d} : pc[e] \in {"new", "stopped", "failed", "killed"}
    BY <1>0, <1>2, OnlyOne DEF Create, Alive
  <2> QED BY <1>0, <1>2, <2>1, ConstantsAssumption DEF TypeOK, Unused, WholeOK, Create, Goto
<1>3. ASSUME NEW d \in Daemons, WriteAll(d) PROVE WholeOK'
  <2>1. \A e \in Daemons \ {d} : pc[e] \in {"new", "stopped", "failed", "killed"}
    BY <1>0, <1>3, OnlyOne DEF WriteAll, Alive
  <2> QED BY <1>0, <1>3, <2>1, ConstantsAssumption DEF TypeOK, WholeOK, WriteAll, Goto
<1>4. ASSUME NEW d \in Daemons, Clear(d) PROVE WholeOK'
  BY <1>0, <1>4 DEF TypeOK, WholeOK, Clear, Goto
<1>5. ASSUME NEW d \in Daemons, Rename(d) PROVE WholeOK'
  <2>1. pc[d] \in {"written", "cleared"}
    BY <1>5 DEF Rename, ToRename
  <2>2. \A e \in Daemons \ {d} : pc[e] \in {"new", "stopped", "failed", "killed"}
    BY <1>0, <2>1, OnlyOne DEF Alive
  <2>3. text[tmp] = d
    BY <1>0, <2>1 DEF WholeOK
  <2> QED BY <1>0, <1>5, <2>1, <2>2, <2>3, ConstantsAssumption DEF TypeOK, WholeOK, Rename, Goto
<1>6. ASSUME NEW d \in Daemons, Clean(d) \/ Remove(d) PROVE WholeOK'
  <2>1. \A e \in Daemons \ {d} : pc[e] \in {"new", "stopped", "failed", "killed"}
    BY <1>0, <1>6, OnlyOne DEF Clean, Remove, Alive
  <2> QED BY <1>0, <1>6, <2>1, ConstantsAssumption DEF TypeOK, WholeOK, Clean, Remove, Goto
<1>7. CASE Open
  BY <1>0, <1>7 DEF TypeOK, WholeOK, Open, NoLook, files
<1>8. CASE Read \/ Check \/ UNCHANGED vars
  BY <1>0, <1>8 DEF TypeOK, WholeOK, Read, Check, vars, files
<1> QED BY <1>1, <1>2, <1>3, <1>4, <1>5, <1>6, <1>7, <1>8, Shapes

LEMMA NextFound ==
    TypeOK /\ ListedOK /\ Alone /\ WholeOK /\ FoundOK /\ [Next]_vars => FoundOK'
<1> SUFFICES ASSUME TypeOK, ListedOK, Alone, WholeOK, FoundOK, [Next]_vars, ~world'.overlap
             PROVE  FoundOK'
  BY DEF FoundOK
<1>0. world' = world
  BY DEF Next, vars, Start, Create, WriteAll, Clear, Rename, WriteFails, NoDirectory, Clean,
     Serve, StartupFails, Stop, Remove, Kill, Open, Read, Check
<1>1. ASSUME NEW d \in Daemons, Moves(d) PROVE FoundOK'
  BY <1>0, <1>1, MovesHow DEF TypeOK, ListedOK, FoundOK, files, Alive
\* Whoever touches a file is the only one alive: nobody is being found meanwhile.
<1>2. ASSUME NEW d \in Daemons,
             pc[d] \notin {"new", "starting", "serving", "stopped", "failed", "killed"},
             UNCHANGED look, \A e \in Daemons \ {d} : pc'[e] = pc[e],
             pc'[d] # "serving", pc[d] = "stopping" => pc'[d] = "stopped",
             \/ UNCHANGED listed
             \/ listed' = listed \cup {d} /\ target' # None /\ text'[target'] = d,
             d \in listed => pc'[d] # "starting"
      PROVE  FoundOK'
  <2>1. \A e \in Daemons \ {d} : pc[e] \in {"new", "stopped", "failed", "killed"}
    BY <1>0, <1>2, OnlyOne DEF Alive
  <2>2. \A e \in look.since : e # d \/ pc[d] = "stopping"
    BY <1>0, <1>2 DEF FoundOK
  <2> QED BY <1>0, <1>2, <2>1, <2>2 DEF TypeOK, FoundOK
<1>3. ASSUME NEW d \in Daemons, Create(d) \/ WriteAll(d) \/ Clear(d) \/ Clean(d)
      PROVE  FoundOK'
  <2>1. d \notin listed
    BY <1>3 DEF ListedOK, Create, WriteAll, Clear, Clean
  <2> QED
    BY <1>2, <1>3, <2>1 DEF Create, WriteAll, Clear, Clean, Goto, TypeOK
<1>4. ASSUME NEW d \in Daemons, Rename(d) PROVE FoundOK'
  <2>1. pc[d] \in {"written", "cleared"}
    BY <1>4 DEF Rename, ToRename
  <2>2. text[tmp] = d /\ d \notin listed
    BY <1>0, <2>1 DEF WholeOK, ListedOK
  <2> QED BY <1>2, <1>4, <2>1, <2>2 DEF Rename, Goto, TypeOK
<1>5. ASSUME NEW d \in Daemons, Remove(d) PROVE FoundOK'
  BY <1>2, <1>5 DEF Remove, Goto, TypeOK
<1>6. CASE Open
  BY <1>0, <1>6 DEF TypeOK, FoundOK, Open, NoLook, Running, files
<1>7. CASE Read
  BY <1>0, <1>7 DEF TypeOK, FoundOK, Read, files
<1>8. CASE Check
  <2>1. ASSUME NEW d \in look.since, pc[d] = "serving" PROVE look'.found = d
    BY <1>0, <1>8, <2>1, ConstantsAssumption DEF TypeOK, FoundOK, Check, Alive
  <2>2. look'.step = "done" /\ look'.since = look.since
    BY <1>8 DEF TypeOK, Check
  <2> QED BY <1>0, <1>8, <2>1, <2>2 DEF FoundOK, Check, files
<1>9. CASE UNCHANGED vars
  BY <1>9 DEF FoundOK, vars, files
<1> QED BY <1>1, <1>3, <1>4, <1>5, <1>6, <1>7, <1>8, <1>9, Shapes

\* A process that has ended does not come back.
LEMMA EndIsFinal == TypeOK /\ [Next]_vars => (Undisturbed' => Undisturbed)
<1> SUFFICES ASSUME TypeOK, [Next]_vars, Undisturbed' PROVE Undisturbed
  OBVIOUS
<1>1. ASSUME NEW d \in Daemons, Moves(d) PROVE Undisturbed
  BY <1>1, MovesHow DEF TypeOK, Undisturbed, Alive, Steps, ToRename, files
<1>2. ASSUME NEW d \in Daemons,
             Create(d) \/ WriteAll(d) \/ Clear(d) \/ Rename(d) \/ Clean(d) \/ Remove(d)
      PROVE  Undisturbed
  BY <1>2
  DEF TypeOK, Undisturbed, Create, WriteAll, Clear, Rename, Clean, Remove, Goto, ToRename
<1>3. CASE Open \/ Read \/ Check \/ UNCHANGED vars
  BY <1>3 DEF Undisturbed, Open, Read, Check, vars
<1> QED BY <1>1, <1>2, <1>3, Shapes

LEMMA NextAdvert == TypeOK /\ AdvertOK /\ [Next]_vars => AdvertOK'
<1> SUFFICES ASSUME TypeOK, AdvertOK, [Next]_vars, Undisturbed' PROVE AdvertOK'
  BY DEF AdvertOK
<1>0. Undisturbed
  BY EndIsFinal
<1>1. ASSUME NEW d \in Daemons, Moves(d) PROVE AdvertOK'
  BY <1>0, <1>1, MovesHow DEF TypeOK, AdvertOK, Undisturbed, files, ToRename
<1>2. ASSUME NEW d \in Daemons, Create(d) PROVE AdvertOK'
  BY <1>0, <1>2, ConstantsAssumption DEF TypeOK, AdvertOK, Create, Goto
<1>3. ASSUME NEW d \in Daemons, WriteAll(d) PROVE AdvertOK'
  BY <1>0, <1>3, ConstantsAssumption DEF TypeOK, AdvertOK, WriteAll, Goto
<1>4. ASSUME NEW d \in Daemons, Rename(d) PROVE AdvertOK'
  BY <1>0, <1>4 DEF TypeOK, AdvertOK, Rename, Goto, ToRename
<1>5. ASSUME NEW d \in Daemons, Clean(d) PROVE AdvertOK'
  BY <1>0, <1>5 DEF TypeOK, AdvertOK, Clean, Goto
<1>6. ASSUME NEW d \in Daemons, Clear(d) \/ Remove(d) PROVE FALSE
  BY <1>0, <1>6 DEF Undisturbed, Clear, Remove
<1>7. CASE Open \/ Read \/ Check \/ UNCHANGED vars
  BY <1>0, <1>7 DEF AdvertOK, Open, Read, Check, vars, files
<1> QED BY <1>1, <1>2, <1>3, <1>4, <1>5, <1>6, <1>7, Shapes

-----------------------------------------------------------------------------
(* The theorems.                                                           *)

PortInv ==
    TypeOK /\ LinesOK /\ Unused /\ ListedOK /\ Alone /\ WholeOK /\ FoundOK /\ AdvertOK

LEMMA InitInv == Init => PortInv
<1> SUFFICES ASSUME Init PROVE PortInv
  OBVIOUS
<1>1. TypeOK
  BY DEF Init, TypeOK, NoLook, Steps
<1>2. LinesOK /\ Unused /\ ListedOK /\ Alone
  BY ConstantsAssumption DEF Init, LinesOK, Unused, ListedOK, Alone, Alive, NoLook
<1>3. WholeOK /\ FoundOK /\ AdvertOK
  BY DEF Init, WholeOK, FoundOK, AdvertOK, NoLook
<1> QED BY <1>1, <1>2, <1>3 DEF PortInv

LEMMA Inductive == Spec => []PortInv
<1>1. PortInv /\ [Next]_vars => PortInv'
  BY NextType, NextLines, NextUnused, NextListed, NextAlone, NextWhole, NextFound, NextAdvert
  DEF PortInv
<1> QED BY <1>1, InitInv, PTL DEF Spec

\* A daemon that stopped in an orderly way is never advertised again, although
\* daemons that start together share one temporary file.
THEOREM Forgotten == Spec => []StoppedIsForgotten
<1>1. ASSUME StoppedIsForgotten, PortInv, [Next]_vars PROVE StoppedIsForgotten'
  <2>1. ASSUME NEW d \in Daemons, Moves(d) PROVE StoppedIsForgotten'
    BY <1>1, <2>1, MovesHow DEF PortInv, TypeOK, StoppedIsForgotten, files
  <2>2. ASSUME NEW d \in Daemons, Create(d) PROVE StoppedIsForgotten'
    BY <1>1, <2>2, ConstantsAssumption DEF PortInv, TypeOK, StoppedIsForgotten, Create, Goto
  <2>3. ASSUME NEW d \in Daemons, WriteAll(d) PROVE StoppedIsForgotten'
    BY <1>1, <2>3 DEF PortInv, TypeOK, StoppedIsForgotten, WriteAll, Goto
  <2>4. ASSUME NEW d \in Daemons, Rename(d) PROVE StoppedIsForgotten'
    BY <1>1, <2>4 DEF PortInv, TypeOK, LinesOK, StoppedIsForgotten, Rename, Goto
  <2>5. ASSUME NEW d \in Daemons, Clear(d) \/ Clean(d) \/ Remove(d) PROVE StoppedIsForgotten'
    BY <1>1, <2>5 DEF PortInv, TypeOK, StoppedIsForgotten, Clear, Clean, Remove, Goto
  <2>6. CASE Open \/ Read \/ Check \/ UNCHANGED vars
    BY <1>1, <2>6 DEF StoppedIsForgotten, Open, Read, Check, vars, files
  <2> QED BY <1>1, <2>1, <2>2, <2>3, <2>4, <2>5, <2>6, Shapes
<1>2. Init => StoppedIsForgotten
  BY DEF Init, StoppedIsForgotten
<1> QED BY <1>1, <1>2, Inductive, PTL DEF Spec

\* Daemons that follow one another never let a discovery see a file without lines,
\* whatever a predecessor left half-written.
THEOREM ReadWhole == Spec => []AloneReadsWhole
<1>1. ASSUME AloneReadsWhole, PortInv, [Next]_vars PROVE AloneReadsWhole'
  <2>1. world' = world
    BY <1>1 DEF Next, vars, Start, Create, WriteAll, Clear, Rename, WriteFails, NoDirectory,
       Clean, Serve, StartupFails, Stop, Remove, Kill, Open, Read, Check
  <2>2. CASE Read
    BY <1>1, <2>1, <2>2 DEF PortInv, TypeOK, WholeOK, AloneReadsWhole, ReadsWhole, Read
  <2>3. CASE Open \/ Check
    BY <1>1, <2>3 DEF Open, Check, NoLook, AloneReadsWhole, ReadsWhole, PortInv, TypeOK
  <2>4. CASE look' = look
    BY <1>1, <2>1, <2>4 DEF AloneReadsWhole, ReadsWhole
  <2>5. Read \/ Open \/ Check \/ look' = look
    BY <1>1 DEF Next, vars, Start, Create, WriteAll, Clear, Rename, WriteFails, NoDirectory,
       Clean, Serve, StartupFails, Stop, Remove, Kill
  <2> QED BY <2>2, <2>3, <2>4, <2>5
<1>2. Init => AloneReadsWhole
  BY DEF Init, AloneReadsWhole, ReadsWhole, NoLook
<1> QED BY <1>1, <1>2, Inductive, PTL DEF Spec

\* Among daemons that follow one another, a discovery during which one that
\* published its ports serves throughout finds that one.
THEOREM Found == Spec => []AloneIsFound
<1>1. PortInv => AloneIsFound
  BY DEF PortInv, FoundOK, AloneIsFound
<1> QED BY <1>1, Inductive, PTL

\* Of daemons that start together on Unix, one is advertised once all have written,
\* although all but one of their renames may fail.
THEOREM Advertised == Spec => []StartedIsAdvertised
<1>1. PortInv => StartedIsAdvertised
  <2> DEFINE started == {d \in Daemons : pc[d] # "new"}
  <2> SUFFICES ASSUME PortInv, platform = "unix", ~world.ioErrors, started # {},
                      \A d \in started : pc[d] \in {"starting", "serving"}
               PROVE  target # None /\ text[target] \in started
    BY DEF StartedIsAdvertised
  <2>1. Undisturbed
    BY DEF PortInv, TypeOK, Undisturbed
  <2>2. target # None
    BY <2>1 DEF PortInv, AdvertOK
  <2>3. text[target] # Empty
    BY <2>1, <2>2 DEF PortInv, AdvertOK
  <2>4. text[target] \in Daemons /\ target \in Daemons
    BY <2>2, <2>3 DEF PortInv, TypeOK
  <2> QED BY <2>2, <2>4 DEF PortInv, LinesOK
<1> QED BY <1>1, Inductive, PTL

=============================================================================
