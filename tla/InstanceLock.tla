----------------------------- MODULE InstanceLock -----------------------------
(***************************************************************************)
(* The instance lock of the server's main() (src/src/main.cpp): each       *)
(* instance opens the lock file with O_CREAT, takes a lockf(F_TLOCK)       *)
(* record lock on it, optionally daemonizes and writes the pid file, runs  *)
(* the core, and on the way out removes the pid file, unlocks, closes and  *)
(* removes the lock file.  Several instances are started concurrently on   *)
(* one host; each is one process whose system calls interleave with the   *)
(* others'.                                                                *)
(*                                                                          *)
(* The file system is the lock path (naming an inode or nothing), the      *)
(* record lock of each inode and the pid file.  POSIX record locks belong  *)
(* to a process: they go when it exits and a fork()ed child does not       *)
(* inherit them.                                                           *)
(***************************************************************************)
EXTENDS Naturals, FiniteSets

CONSTANTS
    Procs,        \* the instances started
    None,         \* no inode / no holder / no pid file
    DaemonModes,  \* whether an instance may be started with --daemonize
    MaxLaunches   \* bound on instances started again after they left main()

ASSUME /\ DaemonModes \subseteq BOOLEAN /\ DaemonModes # {} /\ None \notin Procs
       /\ MaxLaunches \in Nat

Inodes == 1..(Cardinality(Procs) + MaxLaunches)

PCs == {"start", "parsed", "opened", "locked", "forked", "core", "running", "stopped",
        "unpid", "unlocked", "done", "failed", "dead"}

VARIABLES
    pc,         \* where each instance is in main()
    daemonize,  \* vm.count("daemonize") of each instance
    fd,         \* the inode each instance's lock_file refers to
    lockPath,   \* the inode the lock path names, or None
    created,    \* the inodes created so far
    owner,      \* the process holding the record lock of each inode
    pidFile,    \* the instance whose pid the pid file holds, or None
    launches    \* instances started again so far

vars == <<pc, daemonize, fd, lockPath, created, owner, pidFile, launches>>

\* Every record lock p holds goes (its exit, or its F_ULOCK).
Release(p) == [i \in Inodes |-> IF owner[i] = p THEN None ELSE owner[i]]

\* A process leaves main() early with EXIT_FAILURE: its locks go with it.
ExitFailure(p) ==
    /\ pc' = [pc EXCEPT ![p] = "failed"]
    /\ owner' = Release(p)

-----------------------------------------------------------------------------

\* The command line is parsed (an unknown option is only reported); --help
\* prints the usage and succeeds, a missing listen or export endpoint fails.
ParseArgs(p) ==
    /\ pc[p] = "start"
    /\ pc' \in {[pc EXCEPT ![p] = r] : r \in {"parsed", "done", "failed"}}
    /\ UNCHANGED <<daemonize, fd, lockPath, created, owner, pidFile, launches>>

\* The file the descriptor refers to: the one the path names, or one it creates.
OpenFile(p) ==
    IF lockPath = None
       THEN LET n == Cardinality(created) + 1
            IN  /\ lockPath' = n
                /\ created' = created \cup {n}
                /\ fd' = [fd EXCEPT ![p] = n]
       ELSE /\ fd' = [fd EXCEPT ![p] = lockPath]
            /\ UNCHANGED <<lockPath, created>>

\* open(lock, O_CREAT | O_RDWR): the existing file, or a new one; or it
\* fails (no access to the lock path) and main() returns.
Open(p) ==
    /\ pc[p] = "parsed"
    /\ \/ /\ pc' = [pc EXCEPT ![p] = "failed"]
          /\ UNCHANGED <<fd, lockPath, created>>
       \/ /\ pc' = [pc EXCEPT ![p] = "opened"]
          /\ OpenFile(p)
    /\ UNCHANGED <<daemonize, owner, pidFile, launches>>

\* lockf(lock_file, F_TLOCK, 0): take the lock, or fail at once when another
\* process holds it ("instance lock is active").
lockf(p) ==
    /\ pc[p] = "opened"
    /\ IF owner[fd[p]] = None
       THEN /\ owner' = [owner EXCEPT ![fd[p]] = p]
            /\ pc' = [pc EXCEPT ![p] = "locked"]
       ELSE ExitFailure(p)
    /\ UNCHANGED <<daemonize, fd, lockPath, created, pidFile, launches>>

\* daemon(0, 0) when asked for: the parent exits and takes its record lock
\* with it; the child carries on with the open descriptor and no lock.  If
\* daemon() fails, main() returns.
Daemonize(p) ==
    /\ pc[p] = "locked"
    /\ \/ /\ pc' = [pc EXCEPT ![p] = IF daemonize[p] THEN "forked" ELSE "core"]
          /\ owner' = IF daemonize[p] THEN Release(p) ELSE owner
       \/ /\ daemonize[p]
          /\ ExitFailure(p)
    /\ UNCHANGED <<daemonize, fd, lockPath, created, pidFile, launches>>

\* The daemon truncates the pid file and writes its pid; if the file cannot
\* be opened, main() returns.
WritePidFile(p) ==
    /\ pc[p] = "forked"
    /\ \/ /\ pidFile' = p
          /\ pc' = [pc EXCEPT ![p] = "core"]
       \/ /\ pc' = [pc EXCEPT ![p] = "failed"]
          /\ UNCHANGED pidFile
    /\ UNCHANGED <<daemonize, fd, lockPath, created, owner, launches>>

\* new core_t(): it runs, or fails (a network or runtime error) and main()
\* returns with the pid file and the lock file left behind.
CoreInit(p) ==
    /\ pc[p] = "core"
    /\ \/ /\ pc' = [pc EXCEPT ![p] = "running"]
          /\ UNCHANGED owner
       \/ ExitFailure(p)
    /\ UNCHANGED <<daemonize, fd, lockPath, created, pidFile, launches>>

\* core->run() returns.
Stop(p) ==
    /\ pc[p] = "running"
    /\ pc' = [pc EXCEPT ![p] = "stopped"]
    /\ UNCHANGED <<daemonize, fd, lockPath, created, owner, pidFile, launches>>

\* The instance is killed while it runs: the kernel drops its locks, the
\* files stay.
Kill(p) ==
    /\ pc[p] = "running"
    /\ pc' = [pc EXCEPT ![p] = "dead"]
    /\ owner' = Release(p)
    /\ UNCHANGED <<daemonize, fd, lockPath, created, pidFile, launches>>

\* A daemon removes the pid file, whoever's pid it holds.
RemovePidFile(p) ==
    /\ pc[p] = "stopped"
    /\ pidFile' = IF daemonize[p] THEN None ELSE pidFile
    /\ pc' = [pc EXCEPT ![p] = "unpid"]
    /\ UNCHANGED <<daemonize, fd, lockPath, created, owner, launches>>

\* lockf(F_ULOCK) and close(lock_file).
Unlock(p) ==
    /\ pc[p] = "unpid"
    /\ owner' = Release(p)
    /\ pc' = [pc EXCEPT ![p] = "unlocked"]
    /\ UNCHANGED <<daemonize, fd, lockPath, created, pidFile, launches>>

\* fs::remove(lock): the path goes, whichever file it names by now.
RemoveLockFile(p) ==
    /\ pc[p] = "unlocked"
    /\ lockPath' = None
    /\ pc' = [pc EXCEPT ![p] = "done"]
    /\ UNCHANGED <<daemonize, fd, created, owner, pidFile, launches>>

\* An instance that has left main() is started again.
Relaunch(p) ==
    /\ pc[p] \in {"done", "failed", "dead"}
    /\ launches < MaxLaunches
    /\ launches' = launches + 1
    /\ pc' = [pc EXCEPT ![p] = "start"]
    /\ fd' = [fd EXCEPT ![p] = None]
    /\ daemonize' \in {[daemonize EXCEPT ![p] = d] : d \in DaemonModes}
    /\ UNCHANGED <<lockPath, created, owner, pidFile>>

-----------------------------------------------------------------------------

Init ==
    /\ pc = [p \in Procs |-> "start"]
    /\ daemonize \in [Procs -> DaemonModes]
    /\ fd = [p \in Procs |-> None]
    /\ lockPath = None
    /\ created = {}
    /\ owner = [i \in Inodes |-> None]
    /\ pidFile = None
    /\ launches = 0

Next ==
    \E p \in Procs :
        \/ ParseArgs(p) \/ Open(p) \/ lockf(p) \/ Daemonize(p) \/ WritePidFile(p)
        \/ CoreInit(p) \/ Stop(p) \/ Kill(p)
        \/ RemovePidFile(p) \/ Unlock(p) \/ RemoveLockFile(p)
        \/ Relaunch(p)

Spec == Init /\ [][Next]_vars

-----------------------------------------------------------------------------
(* Properties *)

\* Between its lockf and its F_ULOCK an instance is licensed by the lock.
Licensed(p) == pc[p] \in {"locked", "forked", "core", "running", "stopped", "unpid"}

\* The instance lock admits one instance at a time: no two instances are
\* ever between their lockf and their unlock together.
MutualExclusion == \A p, q \in Procs : Licensed(p) /\ Licensed(q) => p = q

=============================================================================
