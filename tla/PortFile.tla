------------------------------ MODULE PortFile ------------------------------
(***************************************************************************)
(* Discovery of the daemon through daemon.port: how antd writes and        *)
(* removes the file (antd/src/port_file.rs, called from main.rs) and how   *)
(* an SDK reads it (antd-rust/src/discover.rs).  Every daemon is a process *)
(* of its own, with a pid and ports of its own, so one line stands for the *)
(* three.  Several daemons may run, e.g. in managed mode with port 0.      *)
(*                                                                         *)
(* A file is an inode under a name.  An inode is named after the daemon    *)
(* that created it; opening daemon.port.tmp again truncates what is there. *)
(***************************************************************************)
EXTENDS Naturals

CONSTANTS
    Daemons,     \* daemon processes, each run once (bound)
    Platforms,   \* subset of {"unix", "windows"}
    Worlds,      \* the settings tried: records [overlap, ioErrors]
    None

Empty == "empty"   \* a file without lines

ASSUME ConstantsAssumption ==
    /\ Platforms \subseteq {"unix", "windows"}
    /\ Worlds \subseteq [overlap: BOOLEAN, ioErrors: BOOLEAN]
    /\ None \notin Daemons /\ Empty \notin Daemons

Steps == {"new", "bound", "created", "written", "cleared", "cleaning",
          "starting", "serving", "stopping", "stopped", "failed", "killed"}

VARIABLES
    platform,
    world,    \* overlap: a daemon may start while another one runs;
              \* ioErrors: writing the file may fail by itself
    pc,       \* [Daemons -> where the process is]
    fd,       \* [Daemons -> the inode it opened as daemon.port.tmp]
    text,     \* [inode -> whose lines it holds, or Empty]
    tmp,      \* the inode called daemon.port.tmp, or None
    target,   \* the inode called daemon.port, or None
    listed,   \* daemons whose write returned a path
    look      \* one discovery by an SDK

vars == <<platform, world, pc, fd, text, tmp, target, listed, look>>

files == <<fd, text, tmp, target>>

NoLook == [step |-> "idle", fd |-> None, text |-> Empty, since |-> {}, found |-> None]

Init ==
    /\ platform \in Platforms
    /\ world \in Worlds
    /\ pc = [d \in Daemons |-> "new"]
    /\ fd = [d \in Daemons |-> None]
    /\ text = [d \in Daemons |-> Empty]
    /\ tmp = None
    /\ target = None
    /\ listed = {}
    /\ look = NoLook

Alive(d) == pc[d] \notin {"new", "stopped", "failed", "killed"}

Goto(d, step) == pc' = [pc EXCEPT ![d] = step]

-----------------------------------------------------------------------------
(* port_file::write.  Another process may act between any two system calls. *)

\* The listeners are bound, on ports nobody else has.
Start(d) ==
    /\ pc[d] = "new"
    /\ world.overlap \/ \A other \in Daemons : ~Alive(other)
    /\ Goto(d, "bound")
    /\ UNCHANGED <<platform, world, files, listed, look>>

\* Fault: the file is written in place.
CreateInPlace(d) ==
    /\ pc[d] = "bound"
    /\ LET inode == IF target = None THEN d ELSE target IN
       /\ fd' = [fd EXCEPT ![d] = inode]
       /\ target' = inode
       /\ tmp' = inode
       /\ text' = [text EXCEPT ![inode] = Empty]
    /\ Goto(d, "created")
    /\ UNCHANGED <<platform, world, listed, look>>

\* File::create(&tmp): the name does not depend on the process.
Create(d) ==
    /\ pc[d] = "bound"
    /\ LET inode == IF tmp = None THEN d ELSE tmp IN
       /\ fd' = [fd EXCEPT ![d] = inode]
       /\ tmp' = inode
       /\ text' = [text EXCEPT ![inode] = Empty]
    /\ Goto(d, "created")
    /\ UNCHANGED <<platform, world, target, listed, look>>

\* write_all, a single write of three short lines at offset 0.
WriteAll(d) ==
    /\ pc[d] = "created"
    /\ text' = [text EXCEPT ![fd[d]] = d]
    /\ Goto(d, "written")
    /\ UNCHANGED <<platform, world, fd, tmp, target, listed, look>>

\* Windows: the target is removed before the rename.
Clear(d) ==
    /\ platform = "windows"
    /\ pc[d] = "written"
    /\ target' = None
    /\ Goto(d, "cleared")
    /\ UNCHANGED <<platform, world, fd, text, tmp, listed, look>>

ToRename(d) == pc[d] = IF platform = "windows" THEN "cleared" ELSE "written"

\* Fault: a target that exists stays, and nobody looks at the error.
RenameIfAbsent(d) ==
    /\ ToRename(d)
    /\ tmp # None
    /\ target' = IF target = None THEN tmp ELSE target
    /\ tmp' = None
    /\ listed' = listed \cup {d}
    /\ Goto(d, "starting")
    /\ UNCHANGED <<platform, world, fd, text, look>>

\* fs::rename: whatever is called daemon.port.tmp by now.
Rename(d) ==
    /\ ToRename(d)
    /\ tmp # None
    /\ target' = tmp
    /\ tmp' = None
    /\ listed' = listed \cup {d}
    /\ Goto(d, "starting")
    /\ UNCHANGED <<platform, world, fd, text, look>>

\* A system call fails: the rename of a file another daemon has renamed or
\* removed, or any of them.
WriteFails(d) ==
    /\ \/ ToRename(d) /\ tmp = None
       \/ world.ioErrors /\ pc[d] \in {"bound", "created", "written", "cleared"}
    /\ Goto(d, "cleaning")
    /\ UNCHANGED <<platform, world, files, listed, look>>

\* create_dir_all fails: nothing is written and nothing cleaned up.
NoDirectory(d) ==
    /\ world.ioErrors
    /\ pc[d] = "bound"
    /\ Goto(d, "starting")
    /\ UNCHANGED <<platform, world, files, listed, look>>

\* Fault: the error path removes the target.
CleanTarget(d) ==
    /\ pc[d] = "cleaning"
    /\ target' = None
    /\ Goto(d, "starting")
    /\ UNCHANGED <<platform, world, fd, text, tmp, listed, look>>

\* The error path removes daemon.port.tmp, whosever it is.
Clean(d) ==
    /\ pc[d] = "cleaning"
    /\ tmp' = None
    /\ Goto(d, "starting")
    /\ UNCHANGED <<platform, world, fd, text, target, listed, look>>

-----------------------------------------------------------------------------
(* The daemon's life after that.                                           *)

\* The P2P node is up and the servers run.
Serve(d) ==
    /\ pc[d] = "starting"
    /\ Goto(d, "serving")
    /\ UNCHANGED <<platform, world, files, listed, look>>

\* Configuring or starting the P2P node fails: main returns from there.
StartupFails(d) ==
    /\ pc[d] = "starting"
    /\ Goto(d, "failed")
    /\ UNCHANGED <<platform, world, files, listed, look>>

\* ctrl-c and the grace period, or a server that ended.
Stop(d) ==
    /\ pc[d] = "serving"
    /\ Goto(d, "stopping")
    /\ UNCHANGED <<platform, world, files, listed, look>>

\* Fault: the file is removed only by a daemon whose own write succeeded.
RemoveIfListed(d) ==
    /\ pc[d] = "stopping"
    /\ target' = IF d \in listed THEN None ELSE target
    /\ Goto(d, "stopped")
    /\ UNCHANGED <<platform, world, fd, text, tmp, listed, look>>

\* port_file::remove, whosever lines the file has.
Remove(d) ==
    /\ pc[d] = "stopping"
    /\ target' = None
    /\ Goto(d, "stopped")
    /\ UNCHANGED <<platform, world, fd, text, tmp, listed, look>>

\* A crash, SIGKILL, or SIGTERM, which has no handler.
Kill(d) ==
    /\ Alive(d)
    /\ Goto(d, "killed")
    /\ UNCHANGED <<platform, world, files, listed, look>>

-----------------------------------------------------------------------------
(* read_port_file of an SDK.                                               *)

Running == {d \in listed : pc[d] = "serving"}

\* fs::read_to_string opens the file.  Without one the SDK takes its default.
Open ==
    /\ look.step \in {"idle", "done"}
    /\ look' = IF target = None
               THEN [NoLook EXCEPT !.step = "done", !.since = Running]
               ELSE [NoLook EXCEPT !.step = "opened", !.fd = target, !.since = Running]
    /\ UNCHANGED <<platform, world, pc, files, listed>>

Read ==
    /\ look.step = "opened"
    /\ look' = [look EXCEPT !.step = "read", !.text = text[look.fd]]
    /\ UNCHANGED <<platform, world, pc, files, listed>>

\* parse_port_contents_checked: lines without a port, or with the pid of a
\* process that is gone, are no daemon.
Check ==
    /\ look.step = "read"
    /\ look' = [look EXCEPT !.step = "done",
                  !.found = IF look.text # Empty /\ Alive(look.text)
                            THEN look.text ELSE None]
    /\ UNCHANGED <<platform, world, pc, files, listed>>

-----------------------------------------------------------------------------
Next ==
    \/ \E d \in Daemons :
          \/ Start(d) \/ Create(d) \/ WriteAll(d) \/ Clear(d) \/ Rename(d)
          \/ WriteFails(d) \/ NoDirectory(d) \/ Clean(d)
          \/ Serve(d) \/ StartupFails(d) \/ Stop(d) \/ Remove(d) \/ Kill(d)
    \/ Open \/ Read \/ Check

Spec == Init /\ [][Next]_vars

-----------------------------------------------------------------------------
(* Properties.                                                             *)

\* port_file.rs:26, "Writes the port file atomically": a discovery that finds the
\* file finds a daemon's lines in it, never a file that is still being written.
ReadsWhole == look.step = "read" => look.text # Empty

\* So it is for daemons that follow one another, on top of whatever a predecessor
\* that was killed half way, or whose write failed, has left.
AloneReadsWhole == ~world.overlap => ReadsWhole

\* With one daemon at a time, whatever its predecessors left behind (stale files
\* of killed ones, half-written temporary files), a discovery during which a
\* daemon that published its ports serves throughout finds that daemon.
AloneIsFound ==
    ~world.overlap /\ look.step = "done" =>
        \A d \in look.since : pc[d] = "serving" => look.found = d

\* A daemon that stopped in an orderly way is never advertised again, although
\* daemons that start together share one temporary file and may publish each
\* other's lines.
StoppedIsForgotten ==
    \A d \in Daemons : pc[d] = "stopped" /\ target # None => text[target] # d

\* However many daemons start together, and although all but one of their renames
\* may fail: once all have written and none has ended, one of them is advertised.
\* Not so on Windows, where a daemon may remove what another has just renamed
\* into place and then find nothing of its own to rename.
StartedIsAdvertised ==
    LET started == {d \in Daemons : pc[d] # "new"}
        settled == \A d \in started : pc[d] \in {"starting", "serving"}
    IN platform = "unix" /\ ~world.ioErrors /\ started # {} /\ settled
        => target # None /\ text[target] \in started

=============================================================================
