-------------------------------- MODULE Startup --------------------------------
(***************************************************************************)
(* Launching the node: main.py takes the lock of src/singleton_lock.py     *)
(* before anything else and then opens the database of --db.  The lock     *)
(* file is named relative to the directory the process is started in, and  *)
(* the operating system frees it when its holder ends, however it ends.    *)
(***************************************************************************)
EXTENDS Naturals, FiniteSets

CONSTANTS Procs,
          Dirs,        \* directories a launch may happen in
          Dbs,         \* what --db may name
          NoLocking,   \* directories whose file system has no locks
          MaxLaunches  \* bound

StartupAssumption == Dirs # {} /\ Dbs # {} /\ NoLocking \subseteq Dirs /\ MaxLaunches \in Nat

VARIABLES at,      \* where a process is
          cwd, db, \* its directory and its database
          holder,  \* who has the lock of each directory's file, {} for nobody
          launches,
          blocker  \* the processes that were up when a launch was refused: history

vars == <<at, cwd, db, holder, launches, blocker>>

TypeOK ==
  /\ at \in [Procs -> {"off", "locking", "opening", "running", "refused"}]
  /\ cwd \in [Procs -> Dirs] /\ db \in [Procs -> Dbs]
  /\ holder \in [Dirs -> {{}} \cup {{p} : p \in Procs}]
  /\ launches \in 0..MaxLaunches /\ blocker \in [Procs -> SUBSET Procs]

Init ==
  /\ at = [p \in Procs |-> "off"]
  /\ cwd = [p \in Procs |-> CHOOSE d \in Dirs : TRUE]
  /\ db = [p \in Procs |-> CHOOSE b \in Dbs : TRUE]
  /\ holder = [d \in Dirs |-> {}]
  /\ launches = 0 /\ blocker = [p \in Procs |-> {}]

Launch(p) ==
  /\ at[p] = "off" /\ launches < MaxLaunches /\ launches' = launches + 1
  /\ \E d \in Dirs, b \in Dbs : cwd' = [cwd EXCEPT ![p] = d] /\ db' = [db EXCEPT ![p] = b]
  /\ at' = [at EXCEPT ![p] = "locking"]
  /\ UNCHANGED <<holder, blocker>>

(* Mutant: the handle is closed on the way out of acquire.                 *)
AcquireAndClose(p) ==
  /\ at[p] = "locking" /\ cwd[p] \notin NoLocking
  /\ holder[cwd[p]] = {}
  /\ at' = [at EXCEPT ![p] = "opening"]
  /\ UNCHANGED <<cwd, db, holder, launches, blocker>>

(* flock succeeds: the handle is kept.                                     *)
Acquire(p) ==
  /\ at[p] = "locking" /\ cwd[p] \notin NoLocking
  /\ holder[cwd[p]] = {}
  /\ holder' = [holder EXCEPT ![cwd[p]] = {p}]
  /\ at' = [at EXCEPT ![p] = "opening"]
  /\ UNCHANGED <<cwd, db, launches, blocker>>

(* flock reports OSError: taken, or not supported, which is an OSError too.*)
Refuse(p) ==
  /\ at[p] = "locking"
  /\ cwd[p] \in NoLocking \/ holder[cwd[p]] # {}
  /\ at' = [at EXCEPT ![p] = "refused"]
  /\ blocker' = [blocker EXCEPT ![p] = {q \in Procs : at[q] \in {"opening", "running"}}]
  /\ UNCHANGED <<cwd, db, holder, launches>>

(* Node.__init__ opens the database, whichever port is taken: the UDP      *)
(* socket is bound with SO_REUSEADDR, the HTTP servers have threads of     *)
(* their own.                                                              *)
Open(p) ==
  /\ at[p] = "opening"
  /\ at' = [at EXCEPT ![p] = "running"]
  /\ UNCHANGED <<cwd, db, holder, launches, blocker>>

FreeLock(p) == holder' = [d \in Dirs |-> holder[d] \ {p}]

(* Quit, crash or kill.                                                    *)
End(p) ==
  /\ at[p] # "off"
  /\ at' = [at EXCEPT ![p] = "off"]
  /\ FreeLock(p)
  /\ blocker' = [blocker EXCEPT ![p] = {}]
  /\ UNCHANGED <<cwd, db, launches>>

Next == \E p \in Procs : Launch(p) \/ Acquire(p) \/ Refuse(p) \/ Open(p) \/ End(p)

Spec == Init /\ [][Next]_vars

-----------------------------------------------------------------------------

(* "Only one instance can run at a time, since it holds the same wallet    *)
(* key and chain database."                                                *)
SoleWriter == \A p, q \in Procs :
  p # q /\ at[p] = "running" /\ at[q] = "running" => db[p] # db[q]

(* "it only refuses to start while another instance is actually still      *)
(* alive [...] if the lock check itself fails [...] it fails open"          *)
NoStartIsBlocked == \A p \in Procs : at[p] = "refused" => blocker[p] # {}
=============================================================================
