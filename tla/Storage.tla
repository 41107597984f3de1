------------------------------- MODULE Storage -------------------------------
(***************************************************************************)
(* LocalStorage of crates/store/src/storage.rs: processes (serve, doctor)  *)
(* that prepare one data directory, and then diagnose it again and again,  *)
(* beside each other and beside an administrator.                          *)
(*                                                                         *)
(* Every call of the filesystem is a step.  A process may crash at any of  *)
(* them, and a diagnosis may be dropped by the timeout of its request; the *)
(* call in progress then takes effect or not.                              *)
(***************************************************************************)
EXTENDS Naturals, FiniteSets

CONSTANTS
  Processes,  \* processes that use the same storage.data_dir
  Trees,      \* the trees to begin with
  MaxFaults   \* bound on crashes, drops, I/O errors and interventions

\* The data directory, its parent (for all ancestors) and its subdirectories.
Paths == {"parent", "root", "blobs", "tmp"}
Private == {"root", "blobs", "tmp"}

\* What is at a path: nothing, a directory of mode 0700 or of another mode, a
\* symbolic link to a directory, or a file.  What is below a link is what is
\* below the directory that it stands for.
Kinds == {"absent", "private", "shared", "link", "file"}
Directory == {"private", "shared"}
Passable == Directory \cup {"link"}

Ancestors == [parent |-> {}, root |-> {"parent"}, blobs |-> {"parent", "root"},
              tmp |-> {"parent", "root"}]

IsTree(t) ==
  \A p \in Paths : t[p] # "absent" => \A a \in Ancestors[p] : t[a] \in Passable

ASSUME StorageAssumption ==
  /\ IsFiniteSet(Processes)
  /\ Trees \subseteq {t \in [Paths -> Kinds] : IsTree(t)}
  /\ MaxFaults \in Nat

VARIABLES
  fs,        \* what is at each path
  pc,        \* where each process is
  at,        \* the path that it is at
  preparing, \* whether it prepares, or diagnoses for a request
  verdict,   \* what the last preparation or diagnosis said
  file,      \* its probe file, or 0
  files,     \* the probe files in tmp
  abandoned, \* history: those that an interruption has left
  disturbed, \* history: the tree was not fit for use, was changed, or had an I/O error
  was,       \* history: per process, what was so at some moment of its operation
  faults     \* number of faults so far

\* Where a process owns a probe file.
Probing == {"sync", "remove", "cleanup"}

processVars == <<pc, at, preparing, verdict>>
probeVars == <<file, files, abandoned>>
vars == <<fs, processVars, probeVars, disturbed, was, faults>>

\* A tree that can be used, or completed, as it is.
Fit(t) == t["parent"] \in Directory \cup {"absent"} /\ \A p \in Private : t[p] \in {"private", "absent"}

\* What a process may find: private directories, and a data directory that is
\* reached without a link.
Facts ==
  {p \in Private : fs[p] = "private"}
    \cup {f \in {"resolved"} : fs["root"] # "absent" /\ "link" \notin {fs["parent"], fs["root"]}}

Init ==
  /\ fs \in Trees
  /\ pc = [q \in Processes |-> "down"]
  /\ at = [q \in Processes |-> "parent"]
  /\ preparing = [q \in Processes |-> FALSE]
  /\ verdict = [q \in Processes |-> "none"]
  /\ file = [q \in Processes |-> 0]
  /\ files = {}
  /\ abandoned = {}
  /\ disturbed = ~Fit(fs)
  /\ was = [q \in Processes |-> {}]
  /\ faults = 0

-----------------------------------------------------------------------------
(* The ends of an operation.                                               *)

GoTo(q, where, path) ==
  /\ pc' = [pc EXCEPT ![q] = where]
  /\ at' = [at EXCEPT ![q] = path]
  /\ UNCHANGED <<preparing, verdict>>

End(q, result) ==
  /\ pc' = [pc EXCEPT ![q] = IF preparing[q] /\ result = "refused" THEN "down" ELSE "ready"]
  /\ at' = [at EXCEPT ![q] = "parent"]
  /\ preparing' = [preparing EXCEPT ![q] = FALSE]
  /\ verdict' = [verdict EXCEPT ![q] = result]

\* A refused preparation ends its process, a refused diagnosis is reported.
Refuse(q) == End(q, "refused") /\ UNCHANGED <<fs, probeVars>>

-----------------------------------------------------------------------------
(* The tree.                                                               *)

\* There is nothing at p, and it is not because of a file in the way.
Missing(p) == fs[p] = "absent" /\ \A a \in Ancestors[p] : fs[a] # "file"

\* prepare() is called.
Prepare(q) ==
  /\ pc[q] = "down"
  /\ pc' = [pc EXCEPT ![q] = "ancestors"]
  /\ at' = [at EXCEPT ![q] = "parent"]
  /\ preparing' = [preparing EXCEPT ![q] = TRUE]
  /\ verdict' = [verdict EXCEPT ![q] = "none"]
  /\ UNCHANGED <<fs, probeVars>>

\* inspect_existing_ancestors(), down to the first path that is missing.
InspectAncestor(q) ==
  /\ pc[q] = "ancestors"
  /\ \/ /\ fs[at[q]] \in Directory /\ at[q] = "parent"
        /\ GoTo(q, "ancestors", "root") /\ UNCHANGED <<fs, probeVars>>
     \/ /\ Missing(at[q]) \/ (fs[at[q]] \in Directory /\ at[q] = "root")
        /\ GoTo(q, "ensure", "root") /\ UNCHANGED <<fs, probeVars>>
     \/ /\ fs[at[q]] \notin Directory /\ ~Missing(at[q])
        /\ Refuse(q)

\* ensure_directory() has succeeded for a path.
Ensured(q) ==
  /\ CASE at[q] = "root"  -> GoTo(q, "resolve", "root")
       [] at[q] = "blobs" -> GoTo(q, "ensure", "tmp")
       [] OTHER           -> GoTo(q, "status", "root")
  /\ UNCHANGED <<fs, probeVars>>

\* Mutant of Acceptable: any directory will do.
AcceptableShared(p) == fs[p] \in Directory

\* validate_metadata() and validate_directory_permissions().
Acceptable(p) == fs[p] = "private"

Ensure(q) ==
  /\ pc[q] = "ensure"
  /\ \/ Acceptable(at[q]) /\ Ensured(q)
     \/ Missing(at[q]) /\ GoTo(q, "create", at[q]) /\ UNCHANGED <<fs, probeVars>>
     \/ ~Acceptable(at[q]) /\ ~Missing(at[q]) /\ Refuse(q)

\* The directory that a recursive DirBuilder makes next, from the top.
Topmost(p) ==
  CHOOSE a \in Ancestors[p] \cup {p} :
    fs[a] = "absent" /\ \A b \in Ancestors[a] : fs[b] # "absent"

\* Mutant of Create: the DirBuilder is not recursive.
CreateOne(q) ==
  /\ pc[q] = "create"
  /\ IF fs[at[q]] = "absent" /\ \A a \in Ancestors[at[q]] : fs[a] \in Passable
       THEN /\ fs' = [fs EXCEPT ![at[q]] = "private"]
            /\ GoTo(q, "inspect", at[q]) /\ UNCHANGED probeVars
       ELSE Refuse(q)

\* The recursive DirBuilder: one directory after the other, and what exists already,
\* perhaps because another process has just made it, is as good.
Create(q) ==
  /\ pc[q] = "create"
  /\ \/ /\ Missing(at[q])
        /\ fs' = [fs EXCEPT ![Topmost(at[q])] = "private"]
        /\ GoTo(q, IF Topmost(at[q]) = at[q] THEN "inspect" ELSE "create", at[q])
        /\ UNCHANGED probeVars
     \/ /\ fs[at[q]] \in Passable
        /\ GoTo(q, "inspect", at[q]) /\ UNCHANGED <<fs, probeVars>>
     \/ /\ fs[at[q]] \notin Passable /\ ~Missing(at[q])
        /\ Refuse(q)

\* Mutant of Inspect: what is there after the creation passes for created.
InspectNot(q) ==
  /\ pc[q] = "inspect"
  /\ Ensured(q)

Inspect(q) ==
  /\ pc[q] = "inspect"
  /\ IF Acceptable(at[q]) THEN Ensured(q) ELSE Refuse(q)

\* Mutant of Resolved: the canonical path is not compared.
ResolvedAnyhow == fs["root"] # "absent"

\* The canonical path of the data directory is the path that was asked for.
Resolved == fs["root"] # "absent" /\ "link" \notin {fs["parent"], fs["root"]}

Resolve(q) ==
  /\ pc[q] = "resolve"
  /\ IF Resolved THEN GoTo(q, "ensure", "blobs") /\ UNCHANGED <<fs, probeVars>> ELSE Refuse(q)

-----------------------------------------------------------------------------
(* diagnose().                                                             *)

Diagnose(q) ==
  /\ pc[q] = "ready"
  /\ pc' = [pc EXCEPT ![q] = "status"]
  /\ at' = [at EXCEPT ![q] = "root"]
  /\ verdict' = [verdict EXCEPT ![q] = "none"]
  /\ UNCHANGED <<preparing, fs, probeVars>>

\* status() inspects the data directory, blobs and tmp.
Status(q) ==
  /\ pc[q] = "status"
  /\ IF Acceptable(at[q])
       THEN /\ CASE at[q] = "root"  -> GoTo(q, "status", "blobs")
                 [] at[q] = "blobs" -> GoTo(q, "status", "tmp")
                 [] OTHER           -> GoTo(q, "open", "tmp")
            /\ UNCHANGED <<fs, probeVars>>
       ELSE Refuse(q)

\* Mutant of ProbeName: all probes have the same file.
SameProbeName == 1

\* A name that nobody else has, as a UUID is: here a number.
ProbeName ==
  LET used == (files \cup {file[q] : q \in Processes}) \ {0} IN
    CHOOSE n \in 1 .. Cardinality(used) + 1 : n \notin used

\* probe_writable(): the file is created, it must be new, ...
Open(q) ==
  /\ pc[q] = "open"
  /\ IF fs["tmp"] \in Passable /\ ProbeName \notin files
       THEN /\ GoTo(q, "sync", "tmp")
            /\ file' = [file EXCEPT ![q] = ProbeName]
            /\ files' = files \cup {ProbeName}
            /\ UNCHANGED <<fs, abandoned>>
       ELSE Refuse(q)

\* ... written to disk, ...
Sync(q) ==
  /\ pc[q] = "sync"
  /\ GoTo(q, "remove", "tmp")
  /\ UNCHANGED <<fs, probeVars>>

\* Mutant of Remove: the file is closed but not removed.
RemoveNot(q) ==
  /\ pc[q] = "remove"
  /\ End(q, "ok")
  /\ file' = [file EXCEPT ![q] = 0]
  /\ UNCHANGED <<fs, files, abandoned>>

\* ... and removed.  An error is one of the diagnosis.
Remove(q) ==
  /\ pc[q] = "remove"
  /\ End(q, IF file[q] \in files THEN "ok" ELSE "refused")
  /\ file' = [file EXCEPT ![q] = 0]
  /\ files' = files \ {file[q]}
  /\ UNCHANGED <<fs, abandoned>>

\* After a failed write it is removed as well, and that error ignored.
CleanUp(q) ==
  /\ pc[q] = "cleanup"
  /\ End(q, "refused")
  /\ file' = [file EXCEPT ![q] = 0]
  /\ files' = files \ {file[q]}
  /\ UNCHANGED <<fs, abandoned>>

-----------------------------------------------------------------------------
(* Faults.                                                                 *)

Fault == faults < MaxFaults /\ faults' = faults + 1

\* The operation stops at a call of the filesystem, which takes effect or not.
Abandon(q) ==
  /\ file' = [file EXCEPT ![q] = 0]
  /\ \/ /\ pc[q] = "open" /\ fs["tmp"] \in Passable
        /\ files' = files \cup {ProbeName}
        /\ abandoned' = abandoned \cup {ProbeName}
        /\ UNCHANGED fs
     \/ /\ pc[q] \in {"remove", "cleanup"}
        /\ files' = files \ {file[q]}
        /\ UNCHANGED <<abandoned, fs>>
     \/ /\ files' = files
        /\ abandoned' = abandoned \cup (files \cap {file[q]})
        /\ \/ UNCHANGED fs
           \/ pc[q] = "create" /\ Missing(at[q]) /\ fs' = [fs EXCEPT ![Topmost(at[q])] = "private"]

\* The process dies.
Crash(q) ==
  /\ Fault
  /\ pc[q] # "down"
  /\ pc' = [pc EXCEPT ![q] = "down"]
  /\ at' = [at EXCEPT ![q] = "parent"]
  /\ preparing' = [preparing EXCEPT ![q] = FALSE]
  /\ verdict' = [verdict EXCEPT ![q] = "none"]
  /\ Abandon(q)
  /\ UNCHANGED disturbed

\* The request that waits for a diagnosis reaches its timeout or loses its client.
Drop(q) ==
  /\ Fault
  /\ pc[q] \in {"status", "open", "sync", "remove", "cleanup"}
  /\ ~preparing[q]
  /\ GoTo(q, "ready", "parent")
  /\ Abandon(q)
  /\ UNCHANGED disturbed

\* A call of the filesystem fails.
FailCall(q) ==
  /\ Fault
  /\ \/ /\ pc[q] \in {"ancestors", "ensure", "create", "inspect", "resolve", "status", "open"}
        /\ Refuse(q)
     \/ /\ pc[q] \in {"remove", "cleanup"}
        /\ End(q, "refused")
        /\ file' = [file EXCEPT ![q] = 0]
        /\ abandoned' = abandoned \cup (files \cap {file[q]})
        /\ UNCHANGED <<fs, files>>
  /\ disturbed' = TRUE

\* Mutant of FailSync: the error is returned at once.
FailSyncLeaving(q) ==
  /\ Fault
  /\ pc[q] = "sync"
  /\ End(q, "refused")
  /\ file' = [file EXCEPT ![q] = 0]
  /\ disturbed' = TRUE
  /\ UNCHANGED <<fs, files, abandoned>>

\* The probe cannot be written to disk.
FailSync(q) ==
  /\ Fault
  /\ pc[q] = "sync"
  /\ GoTo(q, "cleanup", "tmp")
  /\ disturbed' = TRUE
  /\ UNCHANGED <<fs, probeVars>>

\* An administrator changes what is at a path; what is below it stays there unless
\* it cannot.
Replace(p, kind) ==
  /\ Fault
  /\ kind # fs[p]
  /\ \A a \in Ancestors[p] : fs[a] \in Passable
  /\ LET keeps == kind \in Passable IN
       /\ fs' = [x \in Paths |->
                   IF x = p THEN kind
                   ELSE IF p \in Ancestors[x] /\ ~keeps THEN "absent" ELSE fs[x]]
       /\ files' = IF (p = "tmp" \/ p \in Ancestors["tmp"]) /\ ~keeps THEN {} ELSE files
  /\ abandoned' = abandoned \cap files'
  /\ disturbed' = TRUE
  /\ UNCHANGED <<processVars, file>>

\* The process ends when it has nothing to do, as doctor does at once.
Exit(q) ==
  /\ pc[q] = "ready"
  /\ pc' = [pc EXCEPT ![q] = "down"]
  /\ UNCHANGED <<at, preparing, verdict, fs, probeVars>>

-----------------------------------------------------------------------------
Work(q) ==
  \/ InspectAncestor(q) \/ Ensure(q) \/ Create(q) \/ Inspect(q) \/ Resolve(q)
  \/ Status(q) \/ Open(q) \/ Sync(q) \/ Remove(q) \/ CleanUp(q)

Step(q) ==
  /\ Prepare(q) \/ Work(q) \/ Diagnose(q) \/ Exit(q)
  /\ UNCHANGED <<disturbed, faults>>

\* Everybody who is at work notes what is so.
Observe ==
  was' = [q \in Processes |->
            IF pc'[q] \in {"down", "ready"} THEN {}
            ELSE Facts' \cup (IF pc[q] \in {"down", "ready"} THEN {} ELSE was[q])]

Next ==
  /\ \/ \E q \in Processes : Step(q) \/ Crash(q) \/ Drop(q) \/ FailCall(q) \/ FailSync(q)
     \/ \E p \in Paths, kind \in Kinds : Replace(p, kind)
  /\ Observe

Spec == Init /\ [][Next]_vars

\* Processes go on with what they do, one that is down is started again, and one that
\* is ready is asked again.
Fairness ==
  \A q \in Processes :
    WF_vars((Prepare(q) \/ Work(q) \/ Diagnose(q)) /\ UNCHANGED <<disturbed, faults>> /\ Observe)

FairSpec == Spec /\ Fairness

-----------------------------------------------------------------------------
(* Correctness.                                                            *)

Stops == {"down", "ready", "ancestors", "ensure", "create", "inspect", "resolve", "status", "open",
          "sync", "remove", "cleanup"}

Names == 1 .. Cardinality(Processes) + MaxFaults

\* The bound of Names says that there are never more probe files than processes and
\* faults.
TypeOK ==
  /\ fs \in [Paths -> Kinds] /\ IsTree(fs)
  /\ pc \in [Processes -> Stops]
  /\ at \in [Processes -> Paths]
  /\ preparing \in [Processes -> BOOLEAN]
  /\ verdict \in [Processes -> {"none", "ok", "refused"}]
  /\ file \in [Processes -> {0} \cup Names]
  /\ files \subseteq Names
  /\ abandoned \subseteq files
  /\ disturbed \in BOOLEAN
  /\ was \in [Processes -> SUBSET (Private \cup {"resolved"})]
  /\ faults \in 0 .. MaxFaults

\* A preparation or a diagnosis that succeeds has not been deceived: each directory was
\* private at some moment since it began, and in a preparation there was a moment at
\* which the data directory was reached without a link.
SuccessWasSo ==
  [][\A q \in Processes :
       pc[q] \notin {"down", "ready"} /\ pc'[q] = "ready" /\ verdict'[q] = "ok" =>
         Private \subseteq was[q] /\ (preparing[q] => "resolved" \in was[q])]_vars

\* Subdirectories are created only for a process that has found, since it began, a
\* private data directory reached without a link: a preparation that is going to be
\* refused for its data directory leaves it as it is.
CreatesOnlyInside ==
  [][\A p \in {"blobs", "tmp"} :
       fs[p] = "absent" /\ fs'[p] # "absent" /\ pc' # pc =>
         \E q \in Processes : pc'[q] # pc[q] /\ {"root", "resolved"} \subseteq was[q]]_vars

\* Processes that use a tree that is fit for use, which nobody else touches, never
\* refuse it, whoever of them has made which part of it, crashed or was dropped where.
FitIsNotRefused == ~disturbed => \A q \in Processes : verdict[q] # "refused"

\* A probe file that no running probe owns was left by a crash, a dropped request or
\* a failed removal.
FilesHaveOwners ==
  files \subseteq abandoned \cup {file[q] : q \in {r \in Processes : pc[r] \in Probing}}

\* Whatever has been done to the tree, and left in it, if it is fit in the end processes
\* use it again and again, unless they go on without a restart: only prepare() completes
\* a tree.
FitIsUsed ==
  <>[]Fit(fs) =>
    \A q \in Processes :
      []<>(verdict[q] = "ok") \/ <>[](pc[q] # "down" /\ ~preparing[q])

\* What the tree is to its users, and what each of them is doing with it.
Stage ==
  IF ~Fit(fs) THEN "unfit"
  ELSE IF fs["root"] = "absent" THEN "absent"
  ELSE IF \A p \in Private : fs[p] = "private" THEN "ready" ELSE "partial"

Use(q) == IF pc[q] \in {"down", "ready"} THEN verdict[q] ELSE "at work"
Uses == [q \in Processes |-> Use(q)]

\* All that, and more: processes complete a fit tree in two stages and never spoil one, and
\* one that succeeds where nobody has interfered leaves a tree that is ready.  This is the
\* data directory as Startup has it.
Shared ==
  INSTANCE DataDirectory
    WITH Users <- Processes, tree <- Stage, interfered <- disturbed, use <- Uses
SharedDirectory == Shared!Spec

-----------------------------------------------------------------------------
(* The inductive invariant behind the action properties and FilesHaveOwners. *)

Places ==
  { <<"down", "parent">>, <<"ready", "parent">>, <<"ancestors", "parent">>, <<"ancestors", "root">>,
    <<"resolve", "root">>, <<"open", "tmp">>, <<"sync", "tmp">>, <<"remove", "tmp">>,
    <<"cleanup", "tmp">> }
    \cup {"ensure", "create", "inspect", "status"} \X Private

\* Where a process can be, and with what.
PlaceOf(q) ==
  /\ <<pc[q], at[q]>> \in Places
  /\ pc[q] \in {"ancestors", "ensure", "create", "inspect", "resolve"} => preparing[q]
  /\ IF pc[q] \in {"down", "ready"} THEN ~preparing[q] ELSE verdict[q] = "none"

\* What it knows there, of those that it has ensured and of those that it has inspected.
SeenBy(q) ==
  /\ pc[q] \notin {"down", "ready"} => Facts \subseteq was[q]
  /\ pc[q] = "resolve" => "root" \in was[q]
  /\ pc[q] \in {"ensure", "create", "inspect"} /\ at[q] # "root" => {"root", "resolved"} \subseteq was[q]
  /\ pc[q] \in {"status", "open"} \cup Probing /\ preparing[q] => {"root", "resolved"} \subseteq was[q]
  /\ pc[q] = "status" /\ at[q] \in {"blobs", "tmp"} => "root" \in was[q]
  /\ pc[q] = "status" /\ at[q] = "tmp" => "blobs" \in was[q]
  /\ pc[q] \in {"open"} \cup Probing => Private \subseteq was[q]

ProcessInv ==
  /\ fs \in [Paths -> Kinds]
  /\ pc \in [Processes -> Stops] /\ at \in [Processes -> Paths]
  /\ preparing \in [Processes -> BOOLEAN]
  /\ verdict \in [Processes -> {"none", "ok", "refused"}]
  /\ file = [q \in Processes |-> file[q]]
  /\ was \in [Processes -> SUBSET (Private \cup {"resolved"})]
  /\ \A q \in Processes : PlaceOf(q) /\ SeenBy(q)

IInv == ProcessInv /\ FilesHaveOwners

-----------------------------------------------------------------------------
(* The inductive invariant behind TypeOK and FitIsNotRefused, beside IInv. *)

\* What is there is below a directory or a link.
TreeInv == fs \in [Paths -> Kinds] /\ IsTree(fs) /\ disturbed \in BOOLEAN /\ faults \in 0 .. MaxFaults

\* Running probes have files of their own.  What has been abandoned is nobody's, and a
\* fault abandons one file at most.
ProbeInv ==
  /\ \A q \in Processes : IF pc[q] \in Probing THEN file[q] \in Names ELSE file[q] = 0
  /\ \A q, r \in Processes : pc[q] \in Probing /\ pc[r] \in Probing /\ file[q] = file[r] => q = r
  /\ files \subseteq Names
  /\ abandoned \subseteq files
  /\ \A q \in Processes : file[q] \notin abandoned
  /\ Cardinality(abandoned) <= faults

\* The directories that a process has ensured, or need not ensure any more, where it is.
Passed(where, path) ==
  {p \in Private :
     \/ where \in {"ready", "status", "open"} \cup Probing
     \/ where \in {"inspect", "resolve"} /\ p = path
     \/ where \in {"ensure", "create", "inspect"} /\ path # "root" /\ p = "root"
     \/ where \in {"ensure", "create", "inspect"} /\ path = "tmp" /\ p = "blobs"}

Secured(t, where, path) == \A p \in Passed(where, path) : t[p] = "private"

SatisfiedWith(q) ==
  /\ verdict[q] # "refused" /\ pc[q] # "cleanup"
  /\ Secured(fs, pc[q], at[q])
  /\ pc[q] \in Probing => file[q] \in files

\* In a tree that is fit and left alone, what has been ensured stays, and so does the file
\* of a running probe.
UseInv == ~disturbed => Fit(fs) /\ \A q \in Processes : SatisfiedWith(q)

UInv == TreeInv /\ ProbeInv /\ UseInv

=============================================================================
