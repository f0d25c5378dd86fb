------------------------------- MODULE PidFile -------------------------------
(***************************************************************************)
(* The pid file of a perdition that is not run from inetd: how a starting  *)
(* process takes it (create_pid_directory() and write_pid_file() in        *)
(* perdition.c), and how the master and the children it forks leave.       *)
(*                                                                         *)
(* Every system call is a step of its own: other processes start, are      *)
(* signalled or are killed between any two of them.  A process creates at  *)
(* most one pid file, so that a file is known by the process that made it. *)
(***************************************************************************)
EXTENDS Integers, FiniteSets

CONSTANTS
  Procs,  \* processes that are started as masters, with their own pids
  None    \* no file, no process

ASSUME ProcsAssumption == None \notin Procs

VARIABLES
  pc,        \* where a process is in main() or in write_pid_file()
  dir,       \* whether the pid file's directory exists
  file,      \* the process whose file is at opt.pid_file, or None
  written,   \* the files that hold a pid, their maker's
  fd,        \* the file a process has opened to read
  pid_file,  \* the processes in which the variable pid_file is set
  child,     \* a master's latest child: "none", "forked" (its copy of pid_file
             \* is still set) or "serving"
  order      \* history: "kept" until two starts overlap or a child is signalled
             \* before it has cleared its copy of pid_file, then "broken"

vars == <<pc, dir, file, written, fd, pid_file, child, order>>

Starting == {"stat", "mkdir", "create", "open", "read", "check", "unlink",
             "write", "assign", "bind"}

Running(p) == pc[p] \notin {"off", "exited", "killed"}

-----------------------------------------------------------------------------
(* Leaving.                                                                *)

\* an early return of write_pid_file(): pid_file is not set yet
Refuse(p) ==
  /\ pc' = [pc EXCEPT ![p] = "exited"]
  /\ UNCHANGED <<dir, file, written, fd, pid_file, child, order>>

\* perdition_exit_cleanly(): unlink() goes by name, not by file
ExitCleanly(p) ==
  /\ pc' = [pc EXCEPT ![p] = "exited"]
  /\ file' = IF p \in pid_file THEN None ELSE file
  /\ pid_file' = pid_file \ {p}
  /\ UNCHANGED <<dir, written, fd, child, order>>

-----------------------------------------------------------------------------
(* Starting: write_pid_file().                                             *)

Start(p) ==
  /\ pc[p] = "off"
  /\ pc' = [pc EXCEPT ![p] = "stat"]
  /\ order' = IF \E q \in Procs : pc[q] \in Starting THEN "broken" ELSE order
  /\ UNCHANGED <<dir, file, written, fd, pid_file, child>>

\* create_pid_directory(): stat(), then mkdir() if there was none
Stat(p) ==
  /\ pc[p] = "stat"
  /\ pc' = [pc EXCEPT ![p] = IF dir THEN "create" ELSE "mkdir"]
  /\ UNCHANGED <<dir, file, written, fd, pid_file, child, order>>

Mkdir(p) ==
  /\ pc[p] = "mkdir"
  /\ \/ dir /\ Refuse(p)
     \/ /\ ~dir /\ dir' = TRUE
        /\ pc' = [pc EXCEPT ![p] = "create"]
        /\ UNCHANGED <<file, written, fd, pid_file, child, order>>

\* open() with O_CREAT|O_EXCL
Create(p) ==
  /\ pc[p] = "create"
  /\ \/ /\ file = None /\ file' = p
        /\ pc' = [pc EXCEPT ![p] = "write"]
     \/ /\ file # None /\ UNCHANGED file
        /\ pc' = [pc EXCEPT ![p] = "open"]
  /\ UNCHANGED <<dir, written, fd, pid_file, child, order>>

\* open() with O_RDONLY
Open(p) ==
  /\ pc[p] = "open"
  /\ \/ file = None /\ Refuse(p)
     \/ /\ file # None /\ fd' = [fd EXCEPT ![p] = file]
        /\ pc' = [pc EXCEPT ![p] = "read"]
        /\ UNCHANGED <<dir, file, written, pid_file, child, order>>

\* read(); an empty file is an error
Read(p) ==
  /\ pc[p] = "read"
  /\ \/ fd[p] \notin written /\ Refuse(p)
     \/ /\ fd[p] \in written
        /\ pc' = [pc EXCEPT ![p] = "check"]
        /\ UNCHANGED <<dir, file, written, fd, pid_file, child, order>>

\* kill(pid, 0) for the pid that was read
OwnerRuns(p) == Running(fd[p])

CheckWaits(p) ==  \* mutant: wait for the other process instead of exiting
  /\ pc[p] = "check"
  /\ pc' = [pc EXCEPT ![p] = IF OwnerRuns(p) THEN "create" ELSE "unlink"]
  /\ UNCHANGED <<dir, file, written, fd, pid_file, child, order>>

CheckSucceeds(p) ==  \* mutant: a running process is no error
  /\ pc[p] = "check"
  /\ pc' = [pc EXCEPT ![p] = IF OwnerRuns(p) THEN "assign" ELSE "unlink"]
  /\ UNCHANGED <<dir, file, written, fd, pid_file, child, order>>

Check(p) ==
  /\ pc[p] = "check"
  /\ \/ OwnerRuns(p) /\ Refuse(p)
     \/ /\ ~OwnerRuns(p)
        /\ pc' = [pc EXCEPT ![p] = "unlink"]
        /\ UNCHANGED <<dir, file, written, fd, pid_file, child, order>>

\* unlink() of whatever file is there by now, and the loop again
Unlink(p) ==
  /\ pc[p] = "unlink"
  /\ \/ file = None /\ Refuse(p)
     \/ /\ file # None /\ file' = None
        /\ pc' = [pc EXCEPT ![p] = "create"]
        /\ UNCHANGED <<dir, written, fd, pid_file, child, order>>

\* perdition_chown(), chmod(), write()
Write(p) ==
  /\ pc[p] = "write"
  /\ written' = written \cup {p}
  /\ pc' = [pc EXCEPT ![p] = "assign"]
  /\ UNCHANGED <<dir, file, fd, pid_file, child, order>>

\* one of them fails: the file is unlinked again
WriteFails(p) ==
  /\ pc[p] = "write"
  /\ pc' = [pc EXCEPT ![p] = "exited"]
  /\ file' = None
  /\ UNCHANGED <<dir, written, fd, pid_file, child, order>>

-----------------------------------------------------------------------------
(* Running: the rest of main().                                            *)

\* main() notes that there is a pid file to remove
Assign(p) ==
  /\ pc[p] = "assign"
  /\ pid_file' = pid_file \cup {p}
  /\ pc' = [pc EXCEPT ![p] = "bind"]
  /\ UNCHANGED <<dir, file, written, fd, child, order>>

\* vanessa_socket_server_bindv(): the port is free, or main() exits
Bind(p) ==
  /\ pc[p] = "bind"
  /\ \/ (\E q \in Procs : pc[q] = "listen") /\ ExitCleanly(p)
     \/ /\ \A q \in Procs : pc[q] # "listen"
        /\ pc' = [pc EXCEPT ![p] = "listen"]
        /\ UNCHANGED <<dir, file, written, fd, pid_file, child, order>>

\* vanessa_socket_server_acceptv() forks and returns in the child
Fork(p) ==
  /\ pc[p] = "listen" /\ child[p] = "none"
  /\ child' = [child EXCEPT ![p] = "forked"]
  /\ UNCHANGED <<pc, dir, file, written, fd, pid_file, order>>

ChildKeepsCopy(p) ==  \* mutant: pid_file = NULL forgotten
  /\ child[p] = "serving" /\ file' = None

\* only a child whose copy of pid_file is set unlinks
ChildUnlinks(p) ==
  /\ child[p] = "forked" /\ file' = None

\* "Child processes don't clean up the pid file": pid_file = NULL
ChildForgets(p) ==
  /\ child[p] = "forked"
  /\ child' = [child EXCEPT ![p] = "serving"]
  /\ UNCHANGED <<pc, dir, file, written, fd, pid_file, order>>

\* a child is signalled, or has served its client: perdition_exit_cleanly()
ChildExit(p) ==
  /\ child[p] # "none"
  /\ \/ ChildUnlinks(p)
     \/ child[p] = "serving" /\ UNCHANGED file
  /\ child' = [child EXCEPT ![p] = "none"]
  /\ order' = IF child[p] = "forked" THEN "broken" ELSE order
  /\ UNCHANGED <<pc, dir, written, fd, pid_file>>

\* SIGTERM and the like
Signal(p) == Running(p) /\ ExitCleanly(p)

\* SIGKILL, or the machine's crash: the file stays
Kill(p) ==
  /\ Running(p)
  /\ pc' = [pc EXCEPT ![p] = "killed"]
  /\ pid_file' = pid_file \ {p}
  /\ UNCHANGED <<dir, file, written, fd, child, order>>

-----------------------------------------------------------------------------
Init ==
  /\ pc = [p \in Procs |-> "off"]
  /\ dir \in BOOLEAN
  /\ file = None
  /\ written = {}
  /\ fd = [p \in Procs |-> None]
  /\ pid_file = {}
  /\ child = [p \in Procs |-> "none"]
  /\ order = "kept"

\* what a starting process does next
Step(p) ==
  \/ Stat(p) \/ Mkdir(p) \/ Create(p) \/ Open(p) \/ Read(p) \/ Check(p)
  \/ Unlink(p) \/ Write(p) \/ WriteFails(p) \/ Assign(p) \/ Bind(p)

Next == \E p \in Procs :
  \/ Start(p) \/ Step(p) \/ Fork(p) \/ ChildForgets(p) \/ ChildExit(p)
  \/ Signal(p) \/ Kill(p)

Spec == Init /\ [][Next]_vars

\* every process that runs is scheduled
FairSpec == Spec /\ \A p \in Procs : WF_vars(Step(p))

-----------------------------------------------------------------------------
\* Types: a process only ever checks the pid of a process that wrote a file.
TypeOK ==
  /\ pc \in [Procs -> Starting \cup {"off", "listen", "exited", "killed"}]
  /\ dir \in BOOLEAN
  /\ file \in Procs \cup {None}
  /\ written \subseteq Procs
  /\ fd \in [Procs -> Procs \cup {None}]
  /\ pid_file \subseteq Procs
  /\ child \in [Procs -> {"none", "forked", "serving"}]
  /\ order \in {"kept", "broken"}

\* As long as starts do not overlap and no child is signalled right after
\* fork(), the pid file of a master that accepts connections is in place and
\* names it, whatever processes were started, refused, stopped or killed since.
ListenerIsNamed ==
  order = "kept" =>
    \A p \in Procs : pc[p] = "listen" => file = p /\ p \in written

\* As long as starts do not overlap and no child is signalled right after
\* fork(), write_pid_file() lets one process at a time through: a second one
\* finds the first one's pid file, or is first itself.
OneAtATime ==
  order = "kept" =>
    \A p, q \in Procs :
      {pc[p], pc[q]} \subseteq {"assign", "bind", "listen"} => p = q

\* Every start ends, in a process that listens or in one that has given up: no
\* start goes round write_pid_file()'s loop for ever, whatever files stale and
\* living processes leave in its way, also when several start at the same time.
\* (It may end in a refusal: so does every one that finds the empty file of a
\* process that was killed between creating it and writing to it.)
StartEnds ==
  \A p \in Procs : pc[p] \in Starting ~> pc[p] \notin Starting

=============================================================================
