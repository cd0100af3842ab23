------------------------------ MODULE WriterLease ------------------------------
(***************************************************************************)
(* modules/writer-lease.ts of the fusion harness: the lock file that lets   *)
(* one harness process at a time run write-enabled agents in a checkout.    *)
(*                                                                         *)
(* acquireWriterLease is synchronous code of its own process, so one action *)
(* is one system call (open, write, read, kill, unlink) and the calls of    *)
(* different processes interleave. A process acquires for one command at a  *)
(* time and never gets the pid of a dead one.                               *)
(***************************************************************************)
EXTENDS Integers

CONSTANTS Procs, NoProc

ASSUME LeaseAssumption == NoProc \notin Procs

VARIABLES
  file,    \* the lock file: absent, or who created it and whether it is written
  pc,      \* where each process is in acquire and release
  try,     \* the loop counter of acquireWriterLease: 1 or 2
  seen,    \* the pid the process read from the lock file, NoProc when unreadable
  overlap  \* history: two acquisitions were once under way at the same time

leaseVars == <<file, pc, try, seen, overlap>>

NoFile == [by |-> NoProc, text |-> "empty"]
Lock(p, text) == [by |-> p, text |-> text]

\* Program points within acquireWriterLease.
Acquiring == {"open", "write", "read", "check", "unlink"}

LeaseInit ==
  /\ file = NoFile
  /\ pc = [p \in Procs |-> "idle"]
  /\ try = [p \in Procs |-> 1]
  /\ seen = [p \in Procs |-> NoProc]
  /\ overlap = FALSE

Goto(p, l) == pc' = [pc EXCEPT ![p] = l]

Acquire(p) ==
  /\ pc[p] = "idle"
  /\ Goto(p, "open")
  /\ try' = [try EXCEPT ![p] = 1]
  /\ overlap' = (overlap \/ \E q \in Procs : pc[q] \in Acquiring)
  /\ UNCHANGED <<file, seen>>

\* openSync(lockPath, "wx") creates the file or fails with EEXIST.
Open(p) ==
  /\ pc[p] = "open"
  /\ IF file = NoFile
     THEN file' = Lock(p, "empty") /\ Goto(p, "write")
     ELSE Goto(p, "read") /\ UNCHANGED file
  /\ UNCHANGED <<try, seen, overlap>>

\* writeFileSync goes to the file that was opened, wherever the path leads now.
Write(p) ==
  /\ pc[p] = "write"
  /\ file' = IF file.by = p THEN Lock(p, "written") ELSE file
  /\ Goto(p, "held")
  /\ UNCHANGED <<try, seen, overlap>>

\* A failed write (a full disk) is rethrown and leaves the unfinished file.
WriteFails(p) ==
  /\ pc[p] = "write"
  /\ Goto(p, "idle")
  /\ UNCHANGED <<file, try, seen, overlap>>

Read(p) ==
  /\ pc[p] = "read"
  /\ seen' = [seen EXCEPT ![p] = IF file.text = "written" THEN file.by ELSE NoProc]
  /\ Goto(p, "check")
  /\ UNCHANGED <<file, try, overlap>>

\* Mutant of Alive: process.kill(pid, 0) is taken to fail always.
NeverAlive(p) == FALSE
Alive(p) == p # NoProc /\ pc[p] # "dead"

\* "writer lease busy" when the owner lives.
Check(p) ==
  /\ pc[p] = "check"
  /\ Goto(p, IF Alive(seen[p]) THEN "idle" ELSE "unlink")
  /\ UNCHANGED <<file, try, seen, overlap>>

\* Mutant of Unlink: the stale file stays.
UnlinkNothing(p) ==
  /\ pc[p] = "unlink"
  /\ IF try[p] = 1 THEN Goto(p, "open") /\ try' = [try EXCEPT ![p] = 2]
     ELSE Goto(p, "idle") /\ UNCHANGED try
  /\ UNCHANGED <<file, seen, overlap>>

\* "could not acquire" after the second attempt.
Unlink(p) ==
  /\ pc[p] = "unlink"
  /\ file' = NoFile
  /\ IF try[p] = 1 THEN Goto(p, "open") /\ try' = [try EXCEPT ![p] = 2]
     ELSE Goto(p, "idle") /\ UNCHANGED try
  /\ UNCHANGED <<seen, overlap>>

\* release(): the command is over.
ReleaseRead(p) ==
  /\ pc[p] = "held"
  /\ Goto(p, IF file = Lock(p, "written") THEN "release" ELSE "idle")
  /\ UNCHANGED <<file, try, seen, overlap>>

ReleaseUnlink(p) ==
  /\ pc[p] = "release"
  /\ file' = NoFile
  /\ Goto(p, "idle")
  /\ UNCHANGED <<try, seen, overlap>>

Die(p) ==
  /\ pc[p] # "dead"
  /\ Goto(p, "dead")
  /\ UNCHANGED <<file, try, seen, overlap>>

LeaseNext ==
  \E p \in Procs :
    \/ Acquire(p) \/ Open(p) \/ Write(p) \/ WriteFails(p) \/ Read(p) \/ Check(p)
    \/ Unlink(p) \/ ReleaseRead(p) \/ ReleaseUnlink(p) \/ Die(p)

LeaseSpec == LeaseInit /\ [][LeaseNext]_leaseVars

-------------------------------------------------------------------------------
\* Every reachable value has its declared shape; in particular the loop of
\* acquireWriterLease never makes a third attempt.
LeaseTypeOK ==
  /\ file \in {NoFile} \cup [by : Procs, text : {"empty", "written"}]
  /\ pc \in [Procs -> Acquiring \cup {"idle", "held", "release", "dead"}]
  /\ try \in [Procs -> {1, 2}]
  /\ seen \in [Procs -> Procs \cup {NoProc}]
  /\ overlap \in BOOLEAN

AtMostOneHolder ==
  \A p, q \in Procs : pc[p] = "held" /\ pc[q] = "held" => p = q

\* The lease excludes a second writer, through crashes, failed writes and stale
\* files, as long as no two processes are in acquireWriterLease at once; and the
\* file on disk names the holder, so it can also release.
ExclusiveWhenSequential ==
  ~overlap =>
    /\ AtMostOneHolder
    /\ \A p \in Procs : pc[p] = "held" => file = Lock(p, "written")

\* Nobody is refused for ever: a written lock of a live process belongs to a
\* command that is running or releasing it right now, whatever the interleaving.
LockBacked ==
  \A p \in Procs : file = Lock(p, "written") => pc[p] \in {"held", "release", "dead"}

\* A stale or unreadable lock costs one attempt: a process alone in
\* acquireWriterLease never finds the path taken on its second one.
StaleLockTakenOver ==
  ~overlap => \A p \in Procs :
    try[p] = 2 => pc[p] \notin {"read", "check", "unlink"}

===============================================================================
