--------------------------- MODULE StorageProofs ---------------------------
(***************************************************************************)
(* For any number of processes, any trees and any number of faults: what a *)
(* successful preparation or diagnosis says was so; every probe file has   *)
(* an owner or an excuse, and a name of its own; a tree that is fit and    *)
(* left alone is never refused; and Storage implements DataDirectory.      *)
(***************************************************************************)
EXTENDS Storage, FiniteSetTheorems, TLAPS

\* Nobody has done anything at the beginning.
LEMMA InitIInv == Init => IInv
<1> SUFFICES ASSUME Init PROVE IInv
  OBVIOUS
<1>1. fs \in [Paths -> Kinds]
  BY StorageAssumption DEF Init
<1>2. ASSUME NEW q \in Processes PROVE PlaceOf(q) /\ SeenBy(q)
  BY <1>2 DEF Init, PlaceOf, SeenBy, Places, Probing
<1>3. ProcessInv
  <2>1. pc \in [Processes -> Stops] /\ at \in [Processes -> Paths]
    BY DEF Init, Paths, Stops
  <2>2. preparing \in [Processes -> BOOLEAN] /\ file = [q \in Processes |-> file[q]]
    BY DEF Init
  <2>3. was \in [Processes -> SUBSET (Private \cup {"resolved"})]
    BY DEF Init
  <2>4. verdict \in [Processes -> {"none", "ok", "refused"}]
    BY DEF Init
  <2> QED
    BY <1>1, <1>2, <2>1, <2>2, <2>3, <2>4 DEF ProcessInv
<1>4. FilesHaveOwners
  BY DEF Init, FilesHaveOwners
<1> QED
  BY <1>3, <1>4 DEF IInv

\* What a step of q has to show: the other processes only see more.
LEMMA Frame ==
  ASSUME IInv, NEW q \in Processes, Observe,
         fs' \in [Paths -> Kinds],
         NEW where, pc' = [pc EXCEPT ![q] = where],
         NEW path, at' = [at EXCEPT ![q] = path],
         NEW prepares \in BOOLEAN, preparing' = [preparing EXCEPT ![q] = prepares],
         NEW result \in {"none", "ok", "refused"}, verdict' = [verdict EXCEPT ![q] = result],
         NEW name, file' = [file EXCEPT ![q] = name],
         PlaceOf(q)', SeenBy(q)', FilesHaveOwners'
  PROVE  IInv'
<1>0. ProcessInv
  BY DEF IInv
<1>1. /\ pc' \in [Processes -> Stops] /\ at' \in [Processes -> Paths]
      /\ preparing' \in [Processes -> BOOLEAN] /\ file' = [r \in Processes |-> file'[r]]
      /\ verdict' \in [Processes -> {"none", "ok", "refused"}]
  <2>1. <<where, path>> \in Places
    BY <1>0 DEF ProcessInv, PlaceOf
  <2>2. where \in Stops /\ path \in Paths
    BY <2>1 DEF Places, Stops, Paths, Private
  <2> QED
    BY <1>0, <2>2 DEF ProcessInv
<1>2. was' \in [Processes -> SUBSET (Private \cup {"resolved"})]
  BY <1>0 DEF ProcessInv, Observe, Facts
<1>3. ASSUME NEW r \in Processes, r # q PROVE PlaceOf(r)' /\ SeenBy(r)'
  <2>1. /\ pc'[r] = pc[r] /\ at'[r] = at[r] /\ preparing'[r] = preparing[r] /\ file'[r] = file[r]
        /\ verdict'[r] = verdict[r]
        /\ PlaceOf(r) /\ SeenBy(r)
    BY <1>0, <1>3 DEF ProcessInv
  <2>2. PlaceOf(r)'
    BY <2>1 DEF PlaceOf
  <2>3. pc[r] \notin {"down", "ready"} => was'[r] = Facts' \cup was[r]
    BY <2>1 DEF Observe
  <2>4. SeenBy(r)'
    BY <2>1, <2>3 DEF SeenBy, Probing
  <2> QED
    BY <2>2, <2>4
<1>4. ProcessInv'
  BY <1>1, <1>2, <1>3 DEF ProcessInv
<1> QED
  BY <1>4 DEF IInv

\* A step of q that moves it on, with its probe file or without one.
LEMMA GoToStep ==
  ASSUME IInv, NEW q \in Processes, Observe,
         fs' \in [Paths -> Kinds], UNCHANGED probeVars,
         NEW where, NEW path, GoTo(q, where, path),
         <<where, path>> \in Places,
         where \in {"ancestors", "ensure", "create", "inspect", "resolve"} => preparing[q],
         {pc[q], where} \cap {"down", "ready"} = {}, where \in Probing <=> pc[q] \in Probing,
         SeenBy(q)'
  PROVE  IInv'
<1>0. ProcessInv /\ PlaceOf(q) /\ FilesHaveOwners
  BY DEF IInv, ProcessInv
<1>1. /\ pc'[q] = where /\ at'[q] = path /\ preparing'[q] = preparing[q]
      /\ verdict'[q] = verdict[q] /\ verdict[q] = "none"
      /\ preparing[q] \in BOOLEAN
  BY <1>0 DEF GoTo, ProcessInv, PlaceOf
<1>2. /\ pc' = [pc EXCEPT ![q] = where] /\ at' = [at EXCEPT ![q] = path]
      /\ preparing' = [preparing EXCEPT ![q] = preparing[q]]
      /\ verdict' = [verdict EXCEPT ![q] = "none"]
      /\ file' = [file EXCEPT ![q] = file[q]]
  BY <1>0, <1>1 DEF GoTo, ProcessInv, probeVars
<1>3. PlaceOf(q)'
  BY <1>1 DEF PlaceOf
<1>4. {r \in Processes : pc[r] \in Probing} = {r \in Processes : pc'[r] \in Probing}
  BY <1>0, <1>2 DEF ProcessInv
<1>5. FilesHaveOwners'
  BY <1>0, <1>4 DEF FilesHaveOwners, probeVars
<1> QED
  BY <1>1, <1>2, <1>3, <1>5, Frame

\* A step of q that ends its operation without a probe file.
LEMMA EndStep ==
  ASSUME IInv, NEW q \in Processes, Observe,
         fs' \in [Paths -> Kinds],
         NEW where \in {"down", "ready"}, pc' = [pc EXCEPT ![q] = where],
         at' = [at EXCEPT ![q] = "parent"],
         preparing' = [preparing EXCEPT ![q] = FALSE],
         NEW result \in {"none", "ok", "refused"}, verdict' = [verdict EXCEPT ![q] = result],
         NEW name, file' = [file EXCEPT ![q] = name],
         files' \subseteq abandoned' \cup {file[r] : r \in {x \in Processes \ {q} : pc[x] \in Probing}}
  PROVE  IInv'
<1>0. ProcessInv
  BY DEF IInv
<1>1. pc'[q] = where /\ at'[q] = "parent" /\ ~preparing'[q]
  BY <1>0 DEF ProcessInv
<1>2. PlaceOf(q)' /\ SeenBy(q)'
  BY <1>1 DEF PlaceOf, SeenBy, Places, Probing
<1>3. ASSUME NEW x \in Processes \ {q}, pc[x] \in Probing
      PROVE  file[x] \in {file'[r] : r \in {y \in Processes : pc'[y] \in Probing}}
  BY <1>0, <1>3 DEF ProcessInv
<1>4. FilesHaveOwners'
  BY <1>3 DEF FilesHaveOwners
<1> QED
  BY <1>2, <1>4, Frame

\* A refusal where there is no probe file.
LEMMA RefuseStep ==
  ASSUME IInv, NEW q \in Processes, Observe, Refuse(q), pc[q] \notin Probing
  PROVE  IInv'
<1>0. ProcessInv /\ FilesHaveOwners
  BY DEF IInv
<1>1. file' = [file EXCEPT ![q] = file[q]] /\ fs' \in [Paths -> Kinds]
  BY <1>0 DEF Refuse, probeVars, ProcessInv
<1>3. files' \subseteq abandoned' \cup {file[r] : r \in {x \in Processes \ {q} : pc[x] \in Probing}}
  BY <1>0 DEF Refuse, probeVars, FilesHaveOwners
<1>2. /\ at' = [at EXCEPT ![q] = "parent"]
      /\ preparing' = [preparing EXCEPT ![q] = FALSE]
      /\ verdict' = [verdict EXCEPT ![q] = "refused"]
      /\ \E where \in {"down", "ready"} : pc' = [pc EXCEPT ![q] = where]
  BY DEF Refuse, End
<1> QED
  BY <1>1, <1>2, <1>3, EndStep

\* The directory that is made next is an ancestor or the path itself.
LEMMA TopmostIsThere ==
  ASSUME NEW p \in Paths, Missing(p)
  PROVE  /\ Topmost(p) \in Ancestors[p] \cup {p} /\ fs[Topmost(p)] = "absent"
         /\ \A a \in Ancestors[Topmost(p)] : fs[a] # "absent"
<1> DEFINE Top(a) == fs[a] = "absent" /\ \A b \in Ancestors[a] : fs[b] # "absent"
<1>1. \E a \in Ancestors[p] \cup {p} : Top(a)
  <2>1. CASE fs["parent"] = "absent"
    BY <2>1 DEF Missing, Paths, Ancestors
  <2>2. CASE fs["parent"] # "absent" /\ fs["root"] = "absent"
    BY <2>2 DEF Missing, Paths, Ancestors
  <2>3. CASE fs["parent"] # "absent" /\ fs["root"] # "absent"
    BY <2>3 DEF Missing, Paths, Ancestors
  <2> QED
    BY <2>1, <2>2, <2>3
<1> QED
  BY <1>1 DEF Topmost

\* The successor of an ensured directory.
LEMMA EnsuredStep ==
  ASSUME IInv, NEW q \in Processes, Observe, Ensured(q), Acceptable(at[q]),
         pc[q] \in {"ensure", "inspect"}
  PROVE  IInv'
<1>0. ProcessInv /\ PlaceOf(q) /\ SeenBy(q)
  BY DEF IInv, ProcessInv
<1>1. /\ preparing[q] /\ pc[q] \notin Probing /\ at[q] \in Private /\ at[q] \in was[q]
      /\ was'[q] = Facts' \cup was[q]
      /\ fs' \in [Paths -> Kinds] /\ UNCHANGED probeVars
  BY <1>0 DEF PlaceOf, SeenBy, Places, Facts, Acceptable, Ensured, Observe, GoTo, ProcessInv, Private, Probing
<1>2. CASE at[q] = "root"
  <2>1. GoTo(q, "resolve", "root")
    BY <1>2 DEF Ensured
  <2>2. SeenBy(q)'
    BY <1>0, <1>1, <1>2, <2>1 DEF GoTo, SeenBy, ProcessInv, Probing
  <2> QED
    BY <1>1, <2>1, <2>2, GoToStep DEF Places, Probing
<1>3. CASE at[q] = "blobs"
  <2>1. GoTo(q, "ensure", "tmp")
    BY <1>3 DEF Ensured
  <2>2. SeenBy(q)'
    BY <1>0, <1>1, <1>3, <2>1 DEF GoTo, SeenBy, ProcessInv, Probing
  <2> QED
    BY <1>1, <2>1, <2>2, GoToStep DEF Places, Private, Probing
<1>4. CASE at[q] = "tmp"
  <2>1. GoTo(q, "status", "root")
    BY <1>4 DEF Ensured
  <2>2. SeenBy(q)'
    BY <1>0, <1>1, <1>4, <2>1 DEF GoTo, SeenBy, ProcessInv, Probing
  <2>3. <<"status", "root">> \in Places
    BY DEF Places, Private
  <2> QED
    BY <1>1, <2>1, <2>2, <2>3, GoToStep DEF Probing
<1> QED
  BY <1>1, <1>2, <1>3, <1>4 DEF Private

\* Every step that belongs to prepare() alone preserves the invariant.
LEMMA PrepareStep ==
  ASSUME IInv, NEW q \in Processes, Observe,
         InspectAncestor(q) \/ Ensure(q) \/ Create(q) \/ Inspect(q) \/ Resolve(q)
  PROVE  IInv'
<1>0. ProcessInv /\ PlaceOf(q) /\ SeenBy(q)
  BY DEF IInv, ProcessInv
<1>1. /\ pc[q] \in {"ancestors", "ensure", "create", "inspect", "resolve"}
      /\ preparing[q] /\ pc[q] \notin Probing /\ at[q] \in Paths
      /\ was'[q] = IF pc'[q] \in {"down", "ready"} THEN {} ELSE Facts' \cup was[q]
  BY <1>0 DEF InspectAncestor, Ensure, Create, Inspect, Resolve, PlaceOf, Observe, ProcessInv, Probing
<1>2. CASE Refuse(q)
  BY <1>1, <1>2, RefuseStep
<1>3. CASE Ensured(q) /\ Acceptable(at[q]) /\ pc[q] \in {"ensure", "inspect"}
  BY <1>3, EnsuredStep
<1>4. CASE InspectAncestor(q) /\ ~Refuse(q)
  <2>1. PICK where \in {"ancestors", "ensure"} : GoTo(q, where, "root") /\ UNCHANGED <<fs, probeVars>>
    BY <1>4 DEF InspectAncestor
  <2>2. SeenBy(q)'
    BY <1>0, <1>1, <2>1 DEF GoTo, SeenBy, ProcessInv, Probing
  <2>3. <<where, "root">> \in Places
    BY DEF Places, Private
  <2> QED
    BY <1>0, <1>1, <2>1, <2>2, <2>3, GoToStep DEF ProcessInv, Probing
<1>5. CASE pc[q] = "ensure" /\ GoTo(q, "create", at[q]) /\ UNCHANGED <<fs, probeVars>>
  <2>1. GoTo(q, "create", at[q]) /\ UNCHANGED <<fs, probeVars>> /\ pc[q] = "ensure"
    BY <1>5
  <2>2. SeenBy(q)'
    BY <1>0, <1>1, <2>1 DEF GoTo, SeenBy, ProcessInv, Probing
  <2>3. <<"create", at[q]>> \in Places
    BY <1>0, <2>1 DEF PlaceOf, Places, Private
  <2> QED
    BY <1>0, <1>1, <2>1, <2>2, <2>3, GoToStep DEF ProcessInv, Probing
<1>6. CASE Create(q) /\ ~Refuse(q)
  <2>1. PICK where \in {"create", "inspect"} : GoTo(q, where, at[q]) /\ UNCHANGED probeVars
    BY <1>6 DEF Create
  <2>2. pc[q] = "create" /\ fs' \in [Paths -> Kinds]
    BY <1>0, <1>6 DEF Create, ProcessInv, Kinds
  <2>3. SeenBy(q)'
    BY <1>0, <1>1, <2>1, <2>2 DEF GoTo, SeenBy, ProcessInv, Probing
  <2>4. <<where, at[q]>> \in Places
    BY <1>0, <2>2 DEF PlaceOf, Places, Private
  <2> QED
    BY <1>1, <2>1, <2>2, <2>3, <2>4, GoToStep DEF Probing
<1>7. CASE Resolve(q) /\ ~Refuse(q)
  <2>1. /\ GoTo(q, "ensure", "blobs") /\ UNCHANGED <<fs, probeVars>> /\ pc[q] = "resolve"
        /\ Resolved
    BY <1>7 DEF Resolve
  <2>2. "resolved" \in was[q] /\ "root" \in was[q]
    BY <1>0, <2>1 DEF SeenBy, Facts, Resolved
  <2>3. SeenBy(q)'
    BY <1>0, <1>1, <2>1, <2>2 DEF GoTo, SeenBy, ProcessInv, Probing
  <2>4. <<"ensure", "blobs">> \in Places
    BY DEF Places, Private
  <2> QED
    BY <1>0, <1>1, <2>1, <2>3, <2>4, GoToStep DEF ProcessInv, Probing
<1>8. CASE Ensure(q)
  BY <1>2, <1>3, <1>5, <1>8 DEF Ensure
<1>9. CASE Inspect(q)
  BY <1>2, <1>3, <1>9 DEF Inspect
<1> QED
  BY <1>2, <1>4, <1>6, <1>7, <1>8, <1>9

\* Every step of diagnose() preserves the invariant.
LEMMA DiagnoseStep ==
  ASSUME IInv, NEW q \in Processes, Observe,
         Status(q) \/ Open(q) \/ Sync(q) \/ Remove(q) \/ CleanUp(q)
  PROVE  IInv'
<1>0. ProcessInv /\ PlaceOf(q) /\ SeenBy(q) /\ FilesHaveOwners
  BY DEF IInv, ProcessInv
<1>1. /\ was'[q] = IF pc'[q] \in {"down", "ready"} THEN {} ELSE Facts' \cup was[q]
      /\ fs' = fs
  BY DEF Status, Open, Sync, Remove, CleanUp, Refuse, Observe
<1>2. CASE Refuse(q) /\ (Status(q) \/ Open(q))
  BY <1>0, <1>2, RefuseStep DEF Status, Open, Probing
<1>3. CASE Status(q) /\ ~Refuse(q)
  <2>1. /\ pc[q] = "status" /\ at[q] \in Private /\ at[q] \in was[q]
        /\ UNCHANGED probeVars
    BY <1>0, <1>3 DEF Status, PlaceOf, SeenBy, Places, Acceptable, Facts, Private
  <2>2. \E where \in {"status", "open"}, path \in {"blobs", "tmp"} :
          /\ GoTo(q, where, path) /\ (where = "open" => path = "tmp")
          /\ (path = "blobs" => at[q] = "root")
          /\ (where = "status" /\ path = "tmp" => at[q] = "blobs")
          /\ (where = "open" => at[q] = "tmp")
    BY <1>3, <2>1 DEF Status, Private
  <2>3. PICK where \in {"status", "open"}, path \in {"blobs", "tmp"} :
          /\ GoTo(q, where, path) /\ (where = "open" => path = "tmp")
          /\ (path = "blobs" => at[q] = "root")
          /\ (where = "status" /\ path = "tmp" => at[q] = "blobs")
          /\ (where = "open" => at[q] = "tmp")
    BY <2>2
  <2>4. SeenBy(q)'
    BY <1>0, <1>1, <2>1, <2>3 DEF GoTo, SeenBy, ProcessInv, Private, Probing
  <2>5. <<where, path>> \in Places
    BY <2>3 DEF Places, Private
  <2> QED
    BY <1>0, <1>1, <2>1, <2>3, <2>4, <2>5, GoToStep DEF ProcessInv, Probing
<1>4. CASE Open(q) /\ ~Refuse(q)
  <2>1. /\ pc[q] = "open" /\ GoTo(q, "sync", "tmp")
        /\ file' = [file EXCEPT ![q] = ProbeName] /\ files' = files \cup {ProbeName}
        /\ abandoned' = abandoned
    BY <1>0, <1>4 DEF Open
  <2>2. FilesHaveOwners'
    <3>1. ASSUME NEW x \in Processes, pc[x] \in Probing
          PROVE  file[x] \in {file'[r] : r \in {y \in Processes : pc'[y] \in Probing}}
      BY <1>0, <2>1, <3>1 DEF GoTo, ProcessInv, Probing
    <3>2. ProbeName \in {file'[r] : r \in {y \in Processes : pc'[y] \in Probing}}
      BY <1>0, <2>1 DEF GoTo, ProcessInv, Probing
    <3> QED
      BY <1>0, <2>1, <3>1, <3>2 DEF FilesHaveOwners
  <2>3. PlaceOf(q)' /\ SeenBy(q)'
    BY <1>0, <1>1, <2>1 DEF GoTo, PlaceOf, SeenBy, Places, ProcessInv, Probing
  <2>4. /\ preparing' = [preparing EXCEPT ![q] = preparing[q]] /\ preparing[q] \in BOOLEAN
        /\ verdict' = [verdict EXCEPT ![q] = "none"]
    BY <1>0, <2>1 DEF GoTo, ProcessInv, PlaceOf
  <2> QED
    BY <1>0, <1>1, <2>1, <2>2, <2>3, <2>4, Frame DEF GoTo, ProcessInv
<1>5. CASE Sync(q)
  <2>1. pc[q] = "sync" /\ GoTo(q, "remove", "tmp") /\ UNCHANGED probeVars
    BY <1>5 DEF Sync
  <2>2. SeenBy(q)'
    BY <1>0, <1>1, <2>1 DEF GoTo, SeenBy, ProcessInv, Probing
  <2> QED
    BY <1>0, <1>1, <2>1, <2>2, GoToStep DEF Places, ProcessInv, Probing
<1>6. CASE Remove(q) \/ CleanUp(q)
  <2>1. \E result \in {"ok", "refused"} : End(q, result)
    BY <1>6 DEF Remove, CleanUp
  <2>2. /\ file' = [file EXCEPT ![q] = 0] /\ files' = files \ {file[q]} /\ abandoned' = abandoned
    BY <1>6 DEF Remove, CleanUp
  <2>3. files' \subseteq abandoned' \cup {file[r] : r \in {x \in Processes \ {q} : pc[x] \in Probing}}
    BY <1>0, <2>2 DEF FilesHaveOwners
  <2>4. /\ at' = [at EXCEPT ![q] = "parent"]
        /\ preparing' = [preparing EXCEPT ![q] = FALSE]
        /\ \E where \in {"down", "ready"} : pc' = [pc EXCEPT ![q] = where]
        /\ \E result \in {"ok", "refused"} : verdict' = [verdict EXCEPT ![q] = result]
    BY <2>1 DEF End
  <2> QED
    BY <1>0, <1>1, <2>2, <2>3, <2>4, EndStep DEF ProcessInv
<1> QED
  BY <1>2, <1>3, <1>4, <1>5, <1>6 DEF Status, Open

\* The beginning of an operation, and the end of a process.
LEMMA BeginStep ==
  ASSUME IInv, NEW q \in Processes, Observe, Prepare(q) \/ Diagnose(q) \/ Exit(q)
  PROVE  IInv'
<1>0. ProcessInv /\ PlaceOf(q) /\ FilesHaveOwners
  BY DEF IInv, ProcessInv
<1>1. /\ fs' \in [Paths -> Kinds] /\ UNCHANGED probeVars /\ pc[q] \in {"down", "ready"}
      /\ file' = [file EXCEPT ![q] = file[q]]
  BY <1>0 DEF Prepare, Diagnose, Exit, ProcessInv, probeVars
<1>2. {r \in Processes : pc[r] \in Probing} = {r \in Processes : pc'[r] \in Probing}
  BY <1>0 DEF Prepare, Diagnose, Exit, ProcessInv, Probing
<1>3. FilesHaveOwners'
  BY <1>0, <1>1, <1>2 DEF FilesHaveOwners, probeVars
<1>4. CASE Prepare(q)
  <2>1. PlaceOf(q)' /\ SeenBy(q)'
    BY <1>0, <1>4 DEF Prepare, PlaceOf, SeenBy, Places, ProcessInv, Probing, Observe
  <2> QED
    BY <1>1, <1>3, <1>4, <2>1, Frame DEF Prepare
<1>5. CASE Diagnose(q)
  <2>1. ~preparing[q]
    BY <1>0, <1>5 DEF Diagnose, PlaceOf
  <2>2. PlaceOf(q)' /\ SeenBy(q)'
    BY <1>0, <1>5, <2>1 DEF Diagnose, PlaceOf, SeenBy, Places, ProcessInv, Probing, Observe, Private
  <2>3. preparing' = [preparing EXCEPT ![q] = FALSE]
    BY <1>0, <1>5, <2>1 DEF Diagnose, ProcessInv
  <2> QED
    BY <1>1, <1>3, <1>5, <2>2, <2>3, Frame DEF Diagnose
<1>6. CASE Exit(q)
  <2>1. at[q] = "parent"
    BY <1>0, <1>6 DEF Exit, PlaceOf, Places
  <2>2. PlaceOf(q)' /\ SeenBy(q)'
    BY <1>0, <1>6, <2>1 DEF Exit, PlaceOf, SeenBy, Places, ProcessInv, Probing
  <2>3. /\ preparing' = [preparing EXCEPT ![q] = preparing[q]] /\ preparing[q] \in BOOLEAN
        /\ at' = [at EXCEPT ![q] = at[q]]
        /\ verdict' = [verdict EXCEPT ![q] = verdict[q]] /\ verdict[q] \in {"none", "ok", "refused"}
    BY <1>0, <1>6 DEF Exit, ProcessInv
  <2> QED
    BY <1>1, <1>3, <1>6, <2>2, <2>3, Frame DEF Exit
<1> QED
  BY <1>4, <1>5, <1>6

\* An interrupted process has no probe file any more: it is gone or abandoned.
LEMMA AbandonStep ==
  ASSUME IInv, NEW q \in Processes, Abandon(q)
  PROVE  /\ fs' \in [Paths -> Kinds] /\ file' = [file EXCEPT ![q] = 0]
         /\ files' \subseteq abandoned' \cup {file[r] : r \in {x \in Processes \ {q} : pc[x] \in Probing}}
<1>0. ProcessInv /\ FilesHaveOwners
  BY DEF IInv
<1>1. fs' \in [Paths -> Kinds] /\ file' = [file EXCEPT ![q] = 0]
  BY <1>0 DEF Abandon, ProcessInv, Kinds
<1>2. \/ pc[q] = "open" /\ files' = files \cup {ProbeName} /\ abandoned' = abandoned \cup {ProbeName}
      \/ files' = files \ {file[q]} /\ abandoned' = abandoned
      \/ files' = files /\ abandoned' = abandoned \cup (files \cap {file[q]})
  BY DEF Abandon
<1>3. files' \subseteq abandoned' \cup {file[r] : r \in {x \in Processes \ {q} : pc[x] \in Probing}}
  BY <1>0, <1>2 DEF FilesHaveOwners, Probing
<1> QED
  BY <1>1, <1>3

\* Crashes, dropped requests and I/O errors preserve the invariant.
LEMMA FaultStep ==
  ASSUME IInv, NEW q \in Processes, Observe, Crash(q) \/ Drop(q) \/ FailCall(q) \/ FailSync(q)
  PROVE  IInv'
<1>0. ProcessInv /\ PlaceOf(q) /\ SeenBy(q) /\ FilesHaveOwners
  BY DEF IInv, ProcessInv
<1>1. CASE Crash(q)
  BY <1>1, AbandonStep, EndStep DEF Crash
<1>2. CASE Drop(q)
  <2>1. preparing' = [preparing EXCEPT ![q] = FALSE] /\ verdict' = [verdict EXCEPT ![q] = "none"]
    BY <1>0, <1>2 DEF Drop, GoTo, ProcessInv, PlaceOf
  <2> QED
    BY <1>2, <2>1, AbandonStep, EndStep DEF Drop, GoTo
<1>3. CASE FailCall(q) /\ Refuse(q) /\ pc[q] \notin Probing
  BY <1>3, RefuseStep
<1>4. CASE FailCall(q) /\ pc[q] \in Probing
  <2>1. /\ End(q, "refused") /\ file' = [file EXCEPT ![q] = 0] /\ fs' = fs /\ files' = files
        /\ abandoned' = abandoned \cup (files \cap {file[q]})
    BY <1>4 DEF FailCall, Probing
  <2>2. files' \subseteq abandoned' \cup {file[r] : r \in {x \in Processes \ {q} : pc[x] \in Probing}}
    BY <1>0, <2>1 DEF FilesHaveOwners
  <2>3. /\ at' = [at EXCEPT ![q] = "parent"]
        /\ preparing' = [preparing EXCEPT ![q] = FALSE]
        /\ \E where \in {"down", "ready"} : pc' = [pc EXCEPT ![q] = where]
        /\ \E result \in {"ok", "refused"} : verdict' = [verdict EXCEPT ![q] = result]
    BY <2>1 DEF End
  <2> QED
    BY <1>0, <2>1, <2>2, <2>3, EndStep DEF ProcessInv
<1>5. CASE FailSync(q)
  <2>1. pc[q] = "sync" /\ GoTo(q, "cleanup", "tmp") /\ UNCHANGED probeVars /\ fs' = fs
    BY <1>5 DEF FailSync
  <2>2. was'[q] = Facts' \cup was[q]
    BY <1>0, <2>1 DEF GoTo, Observe, ProcessInv
  <2>3. SeenBy(q)'
    BY <1>0, <2>1, <2>2 DEF GoTo, SeenBy, ProcessInv, Probing
  <2> QED
    BY <1>0, <2>1, <2>3, GoToStep DEF Places, ProcessInv, Probing
<1>6. CASE FailCall(q)
  BY <1>3, <1>4, <1>6 DEF FailCall, Probing
<1> QED
  BY <1>1, <1>2, <1>5, <1>6

\* So do interventions of an administrator.
LEMMA ReplaceStep ==
  ASSUME IInv, NEW p \in Paths, NEW kind \in Kinds, Replace(p, kind), Observe
  PROVE  IInv'
<1>0. ProcessInv /\ FilesHaveOwners
  BY DEF IInv
<1>1. fs' \in [Paths -> Kinds]
  BY <1>0 DEF Replace, ProcessInv, Kinds
<1>2. UNCHANGED <<pc, at, preparing, verdict, file>>
  BY DEF Replace, processVars
<1>3. was' \in [Processes -> SUBSET (Private \cup {"resolved"})]
  BY <1>0 DEF ProcessInv, Observe, Facts
<1>4. ASSUME NEW r \in Processes PROVE PlaceOf(r)' /\ SeenBy(r)'
  <2>1. PlaceOf(r) /\ SeenBy(r)
    BY <1>0 DEF ProcessInv
  <2>2. pc[r] \notin {"down", "ready"} => was'[r] = Facts' \cup was[r]
    BY <1>2 DEF Observe
  <2>3. SeenBy(r)'
    BY <1>2, <2>1, <2>2 DEF SeenBy, Probing
  <2> QED
    BY <1>2, <2>1, <2>3 DEF PlaceOf
<1>5. FilesHaveOwners'
  <2>1. files' \subseteq files /\ abandoned' = abandoned \cap files'
    BY DEF Replace
  <2> QED
    BY <1>0, <1>2, <2>1 DEF FilesHaveOwners
<1> QED
  BY <1>0, <1>1, <1>2, <1>3, <1>4, <1>5 DEF IInv, ProcessInv

\* Every step preserves the invariant.
LEMMA NextIInv == IInv /\ [Next]_vars => IInv'
<1> SUFFICES ASSUME IInv, [Next]_vars PROVE IInv'
  OBVIOUS
<1>1. CASE UNCHANGED vars
  BY <1>1 DEF vars, processVars, probeVars, IInv, ProcessInv, FilesHaveOwners, PlaceOf, SeenBy, Facts
<1>2. ASSUME NEW q \in Processes, Step(q), Observe PROVE IInv'
  BY <1>2, PrepareStep, DiagnoseStep, BeginStep DEF Step, Work
<1> QED
  BY <1>1, <1>2, FaultStep, ReplaceStep DEF Next

\* A step of a process moves no other.
LEMMA OnlyOneMoves ==
  ASSUME ProcessInv, NEW q \in Processes,
         Step(q) \/ Crash(q) \/ Drop(q) \/ FailCall(q) \/ FailSync(q)
  PROVE  \E where : pc' = [pc EXCEPT ![q] = where]
<1> USE DEF GoTo, End, Refuse
<1>1. CASE Prepare(q) \/ Diagnose(q) \/ Exit(q) \/ Crash(q) \/ Drop(q) \/ FailCall(q) \/ FailSync(q)
  BY <1>1 DEF Prepare, Diagnose, Exit, Crash, Drop, FailCall, FailSync
<1>2. CASE Ensured(q)
  BY <1>2 DEF Ensured
<1>3. CASE InspectAncestor(q) \/ Ensure(q) \/ Create(q) \/ Inspect(q) \/ Resolve(q)
  BY <1>2, <1>3 DEF InspectAncestor, Ensure, Create, Inspect, Resolve
<1>4. CASE Status(q) \/ Open(q) \/ Sync(q) \/ Remove(q) \/ CleanUp(q)
  BY <1>4 DEF Status, Open, Sync, Remove, CleanUp
<1> QED
  BY <1>1, <1>3, <1>4 DEF Step, Work

\* The invariant holds in every state.
LEMMA Invariance == Spec => []IInv
  BY InitIInv, NextIInv, PTL DEF Spec

\* A probe file that no running probe owns was left by a crash, a dropped request or a
\* failed removal, and by nothing else.
THEOREM ProbeFilesAreOwned == Spec => []FilesHaveOwners
<1>1. IInv => FilesHaveOwners
  BY DEF IInv
<1> QED
  BY <1>1, Invariance, PTL

\* A preparation or a diagnosis that succeeds has seen each directory private, and a
\* preparation the data directory without a link on the way to it.
THEOREM SuccessIsTrue == Spec => SuccessWasSo
<1> DEFINE Success(q) ==
      pc[q] \notin {"down", "ready"} /\ pc'[q] = "ready" /\ verdict'[q] = "ok"
<1>1. ASSUME IInv, Next, NEW q \in Processes, Success(q)
      PROVE  Private \subseteq was[q] /\ (preparing[q] => "resolved" \in was[q])
  <2>0. ProcessInv /\ PlaceOf(q) /\ SeenBy(q)
    BY <1>1 DEF IInv, ProcessInv
  <2>1. ASSUME NEW where, NEW path, GoTo(q, where, path) PROVE FALSE
    BY <1>1, <2>0, <2>1 DEF GoTo, ProcessInv, PlaceOf
  <2>2. ~End(q, "refused") /\ ~Refuse(q)
    BY <1>1, <2>0 DEF Refuse, End, ProcessInv
  <2>3. ~Prepare(q) /\ ~Diagnose(q) /\ ~Exit(q) /\ ~Crash(q)
    BY <1>1, <2>0 DEF Prepare, Diagnose, Exit, Crash, ProcessInv
  <2>4. ~InspectAncestor(q) /\ ~Ensure(q) /\ ~Create(q) /\ ~Inspect(q) /\ ~Resolve(q)
    BY <2>1, <2>2 DEF InspectAncestor, Ensure, Create, Inspect, Resolve, Ensured
  <2>5. ~Status(q) /\ ~Open(q) /\ ~Sync(q) /\ ~CleanUp(q) /\ ~Drop(q) /\ ~FailCall(q) /\ ~FailSync(q)
    BY <2>1, <2>2 DEF Status, Open, Sync, CleanUp, Drop, FailCall, FailSync
  <2>6. ASSUME NEW r \in Processes, Step(r) \/ Crash(r) \/ Drop(r) \/ FailCall(r) \/ FailSync(r)
        PROVE  r = q
    <3>1. PICK where : pc' = [pc EXCEPT ![r] = where]
      BY <2>0, <2>6, OnlyOneMoves
    <3> QED
      BY <1>1, <2>0, <3>1 DEF ProcessInv
  <2>7. ~(\E p \in Paths, kind \in Kinds : Replace(p, kind))
    BY <1>1 DEF Replace, processVars
  <2>8. Remove(q)
    BY <1>1, <2>3, <2>4, <2>5, <2>6, <2>7 DEF Next, Step, Work
  <2> QED
    BY <2>0, <2>8 DEF Remove, SeenBy, Probing
<1>2. IInv /\ [Next]_vars =>
        [\A q \in Processes :
           Success(q) => Private \subseteq was[q] /\ (preparing[q] => "resolved" \in was[q])]_vars
  BY <1>1
<1> QED
  BY <1>2, Invariance, PTL DEF Spec, SuccessWasSo

\* blobs and tmp are created only inside a data directory that was found private, and
\* reached without a link, by the process that creates them.
THEOREM CreatesInside == Spec => CreatesOnlyInside
<1> DEFINE Inside(p) ==
      fs[p] = "absent" /\ fs'[p] # "absent" /\ pc' # pc =>
        \E q \in Processes : pc'[q] # pc[q] /\ {"root", "resolved"} \subseteq was[q]
<1>1. ASSUME IInv, Next, NEW p \in {"blobs", "tmp"}, fs[p] = "absent", fs'[p] # "absent", pc' # pc
      PROVE  \E q \in Processes : pc'[q] # pc[q] /\ {"root", "resolved"} \subseteq was[q]
  <2>0. ProcessInv
    BY <1>1 DEF IInv
  <2>1. ~(\E x \in Paths, kind \in Kinds : Replace(x, kind))
    BY <1>1 DEF Replace, processVars
  <2>2. PICK q \in Processes :
          /\ Step(q) \/ Crash(q) \/ Drop(q) \/ FailCall(q) \/ FailSync(q)
    BY <1>1, <2>1 DEF Next
  <2>3. pc[q] = "create" /\ Missing(at[q]) /\ fs' = [fs EXCEPT ![Topmost(at[q])] = "private"]
    <3>1. fs' # fs
      BY <1>1
    <3>2. CASE Step(q)
      <4>1. ~Refuse(q) /\ ~Ensured(q)
        BY <3>1 DEF Refuse, Ensured
      <4>2. Create(q)
        BY <3>1, <3>2, <4>1 DEF Step, Work, Prepare, Diagnose, Exit, InspectAncestor, Ensure, Inspect,
          Resolve, Status, Open, Sync, Remove, CleanUp
      <4> QED
        BY <3>1, <4>1, <4>2 DEF Create
    <3>3. ~FailCall(q) /\ ~FailSync(q)
      BY <3>1 DEF FailCall, FailSync, Refuse
    <3>4. CASE Crash(q) \/ Drop(q)
      BY <3>1, <3>4 DEF Crash, Drop, Abandon
    <3> QED
      BY <2>2, <3>2, <3>3, <3>4
  <2>4. at[q] \in Paths /\ p \in Ancestors[at[q]] \cup {at[q]}
    BY <1>1, <2>0, <2>3, TopmostIsThere DEF ProcessInv
  <2>5. at[q] # "root"
    BY <2>4, <1>1 DEF Paths, Ancestors
  <2>6. {"root", "resolved"} \subseteq was[q]
    BY <2>0, <2>3, <2>5 DEF ProcessInv, SeenBy
  <2>7. pc'[q] # pc[q]
    BY <1>1, <2>0, <2>2, OnlyOneMoves DEF ProcessInv
  <2> QED
    BY <2>6, <2>7
<1>2. IInv /\ [Next]_vars => [\A p \in {"blobs", "tmp"} : Inside(p)]_vars
  BY <1>1
<1> QED
  BY <1>2, Invariance, PTL DEF Spec, CreatesOnlyInside

-----------------------------------------------------------------------------
(* Names, fitness for use, and the abstract data directory.                *)

\* A process grows the tree, if it changes it: it makes a private directory below
\* directories or links.
Grows ==
  \/ fs' = fs
  \/ \E p \in Paths :
       /\ fs[p] = "absent" /\ \A a \in Ancestors[p] : fs[a] \in Passable
       /\ fs' = [fs EXCEPT ![p] = "private"]

\* The directory that is made next has all that is above it.
LEMMA TopmostHasAncestors ==
  ASSUME TreeInv, NEW p \in Paths, Missing(p)
  PROVE  /\ Topmost(p) \in Paths /\ fs[Topmost(p)] = "absent"
         /\ \A a \in Ancestors[Topmost(p)] : fs[a] \in Passable
<1>1. /\ Topmost(p) \in Paths
      /\ Ancestors[Topmost(p)] \subseteq Ancestors[p] /\ Ancestors[p] \subseteq Paths
  BY TopmostIsThere DEF Paths, Ancestors
<1>2. ASSUME NEW a \in Ancestors[Topmost(p)] PROVE fs[a] \in Passable
  BY TopmostIsThere, <1>1, <1>2 DEF Missing, TreeInv, Kinds, Passable, Directory
<1> QED
  BY TopmostIsThere, <1>1, <1>2

\* A tree that grows stays a tree, and stays fit or unfit, and keeps what is private.
LEMMA GrowingIsSafe ==
  ASSUME TreeInv, Grows
  PROVE  /\ fs' \in [Paths -> Kinds] /\ IsTree(fs')
         /\ Fit(fs') <=> Fit(fs)
         /\ \A p \in Paths : fs[p] = "private" => fs'[p] = "private"
<1>1. fs \in [Paths -> Kinds] /\ IsTree(fs)
  BY DEF TreeInv
<1>2. CASE fs' = fs
  BY <1>1, <1>2
<1>3. ASSUME NEW p \in Paths, fs[p] = "absent", \A a \in Ancestors[p] : fs[a] \in Passable,
             fs' = [fs EXCEPT ![p] = "private"]
      PROVE  /\ fs' \in [Paths -> Kinds] /\ IsTree(fs')
             /\ Fit(fs') <=> Fit(fs)
             /\ \A x \in Paths : fs[x] = "private" => fs'[x] = "private"
  <2>1. fs' \in [Paths -> Kinds]
    BY <1>1, <1>3 DEF Kinds
  <2>2. \A x \in Paths : fs'[x] = IF x = p THEN "private" ELSE fs[x]
    BY <1>1, <1>3
  <2>3. IsTree(fs')
    <3>1. \A x \in Paths : Ancestors[x] \subseteq Paths
      BY DEF Paths, Ancestors
    <3> QED
      BY <1>1, <1>3, <2>2, <3>1 DEF IsTree, Passable, Directory
  <2>4. Fit(fs') <=> Fit(fs)
    BY <1>3, <2>2 DEF Fit, Directory, Private, Paths
  <2> QED
    BY <2>1, <2>2, <2>3, <2>4
<1> QED
  BY <1>2, <1>3 DEF Grows

\* There are finitely many names, and what has been abandoned can be counted.
LEMMA AbandonedIsFinite ==
  ASSUME ProbeInv
  PROVE  IsFiniteSet(abandoned) /\ Cardinality(abandoned) \in Nat
<1>1. Cardinality(Processes) \in Nat /\ MaxFaults \in Nat
  BY StorageAssumption, FS_CardinalityType
<1>2. IsFiniteSet(1 .. Cardinality(Processes) + MaxFaults)
  BY <1>1, FS_Interval
<1>3. abandoned \in SUBSET Names
  BY DEF ProbeInv
<1> QED
  BY <1>2, <1>3, FS_Subset, FS_CardinalityType DEF Names

\* The name of a new probe file is new, and there is one.
LEMMA NewNameIsNew ==
  ASSUME IInv, UInv, NEW q \in Processes, pc[q] \notin Probing
  PROVE  ProbeName \in Names \ files /\ \A r \in Processes : file[r] # ProbeName
<1> DEFINE P == Cardinality(Processes)
           others == Processes \ {q}
           owned == {file[r] : r \in others}
           used == (files \cup {file[r] : r \in Processes}) \ {0}
           k == Cardinality(used)
<1>1. /\ P \in Nat /\ MaxFaults \in Nat /\ faults \in Nat /\ faults <= MaxFaults
      /\ IsFiniteSet(others) /\ Cardinality(others) = P - 1
  BY StorageAssumption, FS_CardinalityType, FS_RemoveElement DEF UInv, TreeInv
<1>2. IsFiniteSet(owned) /\ Cardinality(owned) <= P - 1
  <2> DEFINE f == [r \in others |-> file[r]]
  <2>1. f \in Surjection(others, owned)
    BY DEF Surjection
  <2> QED
    BY <1>1, <2>1, FS_Surjection
<1>3. IsFiniteSet(abandoned) /\ Cardinality(abandoned) \in Nat /\ Cardinality(abandoned) <= faults
  BY AbandonedIsFinite DEF UInv, ProbeInv
<1>4. used \subseteq abandoned \cup owned
  <2>1. file[q] = 0
    BY DEF UInv, ProbeInv
  <2>2. files \subseteq abandoned \cup owned
    BY DEF IInv, FilesHaveOwners
  <2> QED
    BY <2>1, <2>2
<1>5. IsFiniteSet(used) /\ k \in Nat /\ k <= P - 1 + faults
  <2>1. /\ IsFiniteSet(abandoned \cup owned)
        /\ Cardinality(abandoned \cup owned) =
             Cardinality(abandoned) + Cardinality(owned) - Cardinality(abandoned \cap owned)
    BY <1>2, <1>3, FS_Union
  <2>2. Cardinality(abandoned \cap owned) \in Nat /\ Cardinality(owned) \in Nat
    BY <1>2, <1>3, FS_CardinalityType, FS_Subset
  <2>3. IsFiniteSet(used) /\ k <= Cardinality(abandoned \cup owned)
    BY <1>4, <2>1, FS_Subset
  <2>4. k \in Nat
    BY <2>3, FS_CardinalityType
  <2> QED
    BY <1>1, <1>2, <1>3, <2>1, <2>2, <2>3, <2>4
<1>6. \E n \in 1 .. k + 1 : n \notin used
  <2>1. Cardinality(1 .. k + 1) = k + 1
    BY <1>5, FS_Interval
  <2>2. ~(1 .. k + 1 \subseteq used)
    <3> SUFFICES ASSUME 1 .. k + 1 \subseteq used PROVE FALSE
      OBVIOUS
    <3>1. (1 .. k + 1) \in SUBSET used
      OBVIOUS
    <3>2. Cardinality(1 .. k + 1) <= Cardinality(used)
      BY <1>5, <3>1, FS_Subset
    <3> QED
      BY <1>5, <2>1, <3>2
  <2> QED
    BY <2>2
<1>7. ProbeName \in 1 .. k + 1 /\ ProbeName \notin used
  BY <1>6 DEF ProbeName
<1>8. ProbeName \in Names /\ ProbeName # 0
  BY <1>1, <1>5, <1>7 DEF Names
<1> QED
  BY <1>7, <1>8

\* What a step of q does to the probe files, and what it may not.
LEMMA ProbeFrame ==
  ASSUME IInv, UInv, NEW q \in Processes,
         NEW where, pc' = [pc EXCEPT ![q] = where],
         NEW name, file' = [file EXCEPT ![q] = name],
         IF where \in Probing THEN name \in Names /\ \A r \in Processes : r # q => file[r] # name
                              ELSE name = 0,
         files' \subseteq Names, abandoned' \subseteq files',
         \A r \in Processes : r # q => file[r] \notin abandoned', name \notin abandoned',
         Cardinality(abandoned') <= faults'
  PROVE  ProbeInv'
<1>1. ProcessInv /\ ProbeInv
  BY DEF IInv, UInv
<1>2. \A r \in Processes : /\ pc'[r] = (IF r = q THEN where ELSE pc[r])
                           /\ file'[r] = (IF r = q THEN name ELSE file[r])
  BY <1>1 DEF ProcessInv
<1>3. \A r \in Processes : IF pc'[r] \in Probing THEN file'[r] \in Names ELSE file'[r] = 0
  BY <1>1, <1>2 DEF ProbeInv
<1>4. \A r, s \in Processes :
        pc'[r] \in Probing /\ pc'[s] \in Probing /\ file'[r] = file'[s] => r = s
  BY <1>1, <1>2 DEF ProbeInv
<1>5. \A r \in Processes : file'[r] \notin abandoned'
  BY <1>2
<1> QED
  BY <1>3, <1>4, <1>5 DEF ProbeInv

\* A process that has no probe file of its own stays out of the others' way.
LEMMA FilesDiffer ==
  ASSUME UInv, NEW q \in Processes, NEW r \in Processes, r # q, pc[r] \in Probing
  PROVE  file[r] # file[q]
<1>1. 0 \notin Names
  BY DEF Names
<1> QED
  BY <1>1 DEF UInv, ProbeInv

\* What a step of q has to show: the others stay as satisfied as they were.
LEMMA UseFrame ==
  ASSUME IInv, UInv, NEW q \in Processes, Grows,
         NEW where, pc' = [pc EXCEPT ![q] = where],
         NEW path, at' = [at EXCEPT ![q] = path],
         NEW result, verdict' = [verdict EXCEPT ![q] = result],
         NEW name, file' = [file EXCEPT ![q] = name],
         disturbed' \in BOOLEAN, disturbed => disturbed', faults' \in 0 .. MaxFaults,
         files \ {file[q]} \subseteq files',
         ProbeInv', ~disturbed' => SatisfiedWith(q)'
  PROVE  UInv'
<1>1. ProcessInv /\ TreeInv /\ ProbeInv /\ UseInv
  BY DEF IInv, UInv
<1>2. TreeInv'
  BY <1>1, GrowingIsSafe DEF TreeInv
<1>3. ASSUME ~disturbed', NEW r \in Processes, r # q PROVE SatisfiedWith(r)'
  <2>1. ~disturbed /\ SatisfiedWith(r)
    BY <1>1, <1>3 DEF UseInv
  <2>2. pc'[r] = pc[r] /\ at'[r] = at[r] /\ verdict'[r] = verdict[r] /\ file'[r] = file[r]
    BY <1>1, <1>3 DEF ProcessInv
  <2>3. Secured(fs', pc'[r], at'[r])
    <3>1. Passed(pc[r], at[r]) \subseteq Paths
      BY DEF Passed, Private, Paths
    <3> QED
      BY <1>1, <2>1, <2>2, <3>1, GrowingIsSafe DEF SatisfiedWith, Secured
  <2>4. pc[r] \in Probing => file[r] \in files'
    BY <1>3, <2>1, FilesDiffer DEF SatisfiedWith
  <2> QED
    BY <2>1, <2>2, <2>3, <2>4 DEF SatisfiedWith
<1>4. UseInv'
  BY <1>1, <1>3, GrowingIsSafe DEF UseInv
<1> QED
  BY <1>2, <1>4 DEF UInv

\* A step of q that leaves the probe files alone.
LEMMA QuietStep ==
  ASSUME IInv, UInv, NEW q \in Processes, Grows,
         NEW where, pc' = [pc EXCEPT ![q] = where],
         NEW path, at' = [at EXCEPT ![q] = path],
         NEW result, verdict' = [verdict EXCEPT ![q] = result],
         UNCHANGED probeVars, where \in Probing <=> pc[q] \in Probing,
         disturbed' \in BOOLEAN, disturbed => disturbed', faults' \in 0 .. MaxFaults, faults <= faults',
         ~disturbed' => /\ result # "refused" /\ where # "cleanup"
                        /\ Secured(fs', where, path)
  PROVE  UInv'
<1>1. ProcessInv /\ TreeInv /\ ProbeInv /\ UseInv
  BY DEF IInv, UInv
<1>2. file' = [file EXCEPT ![q] = file[q]] /\ file' = file /\ files' = files /\ abandoned' = abandoned
  BY <1>1 DEF probeVars, ProcessInv
<1>3. IsFiniteSet(abandoned) /\ Cardinality(abandoned) \in Nat
  BY <1>1, AbandonedIsFinite
<1>4. Cardinality(abandoned') <= faults'
  <2>1. faults \in Nat /\ faults' \in Nat
    BY <1>1, StorageAssumption DEF TreeInv
  <2> QED
    BY <1>1, <1>2, <1>3, <2>1 DEF ProbeInv
<1>5. ProbeInv'
  <2>1. IF where \in Probing THEN file[q] \in Names /\ \A r \in Processes : r # q => file[r] # file[q]
                             ELSE file[q] = 0
    <3>1. 0 \notin Names
      BY DEF Names
    <3> QED
      BY <1>1, <3>1 DEF ProbeInv
  <2> QED
    BY <1>1, <1>2, <1>4, <2>1, ProbeFrame DEF ProbeInv
<1>6. ASSUME ~disturbed' PROVE SatisfiedWith(q)'
  <2>1. pc'[q] = where /\ at'[q] = path /\ verdict'[q] = result
    BY <1>1 DEF ProcessInv
  <2>2. ~disturbed /\ SatisfiedWith(q)
    BY <1>1, <1>6 DEF UseInv
  <2> QED
    BY <1>2, <1>6, <2>1, <2>2 DEF SatisfiedWith
<1> QED
  BY <1>2, <1>5, <1>6, UseFrame

\* What a fit tree has at a path: a directory that is fit, or nothing, which then is missing.
LEMMA FitPath ==
  ASSUME Fit(fs), NEW p \in Paths
  PROVE  /\ fs[p] \in Directory \cup {"absent"}
         /\ fs[p] = "absent" => Missing(p)
         /\ p \in Private => fs[p] \in {"private", "absent"}
<1>1. Ancestors[p] \subseteq Paths /\ \A x \in Paths : fs[x] \in Directory \cup {"absent"}
  BY DEF Fit, Paths, Ancestors, Private, Directory
<1> QED
  BY <1>1 DEF Fit, Missing, Directory

\* A process that goes on.
LEMMA QuietGoTo ==
  ASSUME IInv, UInv, NEW q \in Processes, Grows,
         NEW where, NEW path, GoTo(q, where, path), pc[q] \notin {"down", "ready"},
         UNCHANGED <<probeVars, disturbed, faults>>,
         where \in Probing <=> pc[q] \in Probing, where # "cleanup",
         ~disturbed => Secured(fs', where, path)
  PROVE  UInv'
<1>1. ProcessInv /\ TreeInv /\ PlaceOf(q)
  BY DEF IInv, UInv, ProcessInv
<1>2. verdict[q] = "none"
  BY <1>1 DEF PlaceOf
<1>3. verdict' = [verdict EXCEPT ![q] = "none"]
  BY <1>1, <1>2 DEF GoTo, ProcessInv
<1>4. /\ disturbed' \in BOOLEAN /\ (disturbed => disturbed')
      /\ faults' \in 0 .. MaxFaults /\ faults <= faults'
  BY <1>1, StorageAssumption DEF TreeInv
<1>5. pc' = [pc EXCEPT ![q] = where] /\ at' = [at EXCEPT ![q] = path] /\ UNCHANGED probeVars
  BY DEF GoTo
<1>6. ~disturbed' => /\ "none" # "refused" /\ where # "cleanup"
                     /\ Secured(fs', where, path)
  OBVIOUS
<1> QED
  BY <1>3, <1>4, <1>5, <1>6, QuietStep

\* A process that refuses, where it has no probe file.
LEMMA QuietRefusal ==
  ASSUME IInv, UInv, NEW q \in Processes, Refuse(q), pc[q] \notin Probing,
         disturbed', faults' \in 0 .. MaxFaults, faults <= faults'
  PROVE  UInv'
<1>1. \E where \in {"down", "ready"} : pc' = [pc EXCEPT ![q] = where]
  BY DEF Refuse, End
<1>2. PICK where \in {"down", "ready"} : pc' = [pc EXCEPT ![q] = where]
  BY <1>1
<1>3. at' = [at EXCEPT ![q] = "parent"] /\ verdict' = [verdict EXCEPT ![q] = "refused"]
  BY DEF Refuse, End
<1>4. Grows /\ UNCHANGED probeVars
  BY DEF Refuse, Grows
<1> QED
  BY <1>2, <1>3, <1>4, QuietStep DEF Probing

\* What an undisturbed step of q starts from.
LEMMA Undisturbed ==
  ASSUME UInv, ~disturbed, NEW q \in Processes
  PROVE  Fit(fs) /\ SatisfiedWith(q)
BY DEF UInv, UseInv

\* Preparing does not refuse what is fit, and ensures one directory after the other.
LEMMA PreparingUse ==
  ASSUME IInv, UInv, NEW q \in Processes, UNCHANGED <<disturbed, faults>>,
         InspectAncestor(q) \/ Ensure(q) \/ Create(q) \/ Inspect(q) \/ Resolve(q)
  PROVE  UInv' /\ Grows
<1>1. /\ ProcessInv /\ TreeInv /\ PlaceOf(q)
      /\ pc[q] \in {"ancestors", "ensure", "create", "inspect", "resolve"} /\ pc[q] \notin Probing
      /\ at[q] \in Paths
  BY DEF IInv, UInv, ProcessInv, InspectAncestor, Ensure, Create, Inspect, Resolve, Probing
<1>2. faults' \in 0 .. MaxFaults /\ faults <= faults'
  BY <1>1, StorageAssumption DEF TreeInv
<1>3. CASE Refuse(q) /\ disturbed
  BY <1>1, <1>2, <1>3, QuietRefusal DEF Grows, Refuse
<1>4. ASSUME NEW where \in {"ancestors", "ensure", "create", "inspect", "resolve", "status"}, NEW path,
             GoTo(q, where, path), Grows, UNCHANGED probeVars,
             ~disturbed => Secured(fs', where, path)
      PROVE  UInv' /\ Grows
  <2>1. where \notin Probing /\ where # "cleanup" /\ pc[q] \notin {"down", "ready"}
    BY <1>1 DEF Probing
  <2> QED
    BY <1>1, <1>4, <2>1, QuietGoTo
<1>5. Ensured(q) /\ Acceptable(at[q]) /\ pc[q] \in {"ensure", "inspect"} => UInv' /\ Grows
  <2> SUFFICES ASSUME Ensured(q), Acceptable(at[q]), pc[q] \in {"ensure", "inspect"} PROVE UInv' /\ Grows
    OBVIOUS
  <2>1. at[q] \in Private /\ fs[at[q]] = "private" /\ fs' = fs /\ UNCHANGED probeVars /\ Grows
    BY <1>1 DEF Ensured, Acceptable, PlaceOf, Places, Private, Grows
  <2>2. ~disturbed => Secured(fs, pc[q], at[q])
    BY Undisturbed DEF SatisfiedWith
  <2>3. CASE at[q] = "root"
    BY <1>4, <2>1, <2>3 DEF Ensured, Secured, Passed, Probing
  <2>4. CASE at[q] = "blobs"
    BY <1>4, <2>1, <2>2, <2>4 DEF Ensured, Secured, Passed, Probing, Private
  <2>5. CASE at[q] = "tmp"
    BY <1>4, <2>1, <2>2, <2>5 DEF Ensured, Secured, Passed, Probing, Private
  <2> QED
    BY <2>1, <2>3, <2>4, <2>5 DEF Private
<1>6. CASE InspectAncestor(q)
  <2>1. CASE GoTo(q, "ancestors", "root") /\ UNCHANGED <<fs, probeVars>>
    BY <1>4, <2>1 DEF Grows, Secured, Passed, Probing
  <2>2. CASE GoTo(q, "ensure", "root") /\ UNCHANGED <<fs, probeVars>>
    BY <1>4, <2>2 DEF Grows, Secured, Passed, Probing
  <2>3. CASE fs[at[q]] \notin Directory /\ ~Missing(at[q]) /\ Refuse(q)
    BY <1>1, <1>3, <2>3, Undisturbed, FitPath
  <2> QED
    BY <1>6, <2>1, <2>2, <2>3 DEF InspectAncestor
<1>7. CASE Ensure(q)
  <2>1. at[q] \in Private /\ pc[q] = "ensure"
    BY <1>1, <1>7 DEF Ensure, PlaceOf, Places
  <2>2. CASE GoTo(q, "create", at[q]) /\ UNCHANGED <<fs, probeVars>>
    <3>1. ~disturbed => Secured(fs, "ensure", at[q])
      BY <2>1, Undisturbed DEF SatisfiedWith
    <3>2. Passed("create", at[q]) = Passed("ensure", at[q])
      BY DEF Passed, Probing
    <3>3. Grows
      BY <2>2 DEF Grows
    <3> QED
      BY <1>4, <2>2, <3>1, <3>2, <3>3 DEF Secured
  <2>3. CASE ~Acceptable(at[q]) /\ ~Missing(at[q]) /\ Refuse(q)
    BY <1>1, <1>3, <2>1, <2>3, Undisturbed, FitPath DEF Acceptable
  <2> QED
    BY <1>5, <1>7, <2>1, <2>2, <2>3 DEF Ensure
<1>8. CASE Create(q)
  <2>1. at[q] \in Private /\ pc[q] = "create"
    BY <1>1, <1>8 DEF Create, PlaceOf, Places
  <2>2. ~disturbed => Secured(fs, "create", at[q])
    BY <2>1, Undisturbed DEF SatisfiedWith
  <2>3. /\ Passed("inspect", at[q]) \subseteq Passed("create", at[q]) \cup {at[q]}
        /\ Passed("create", at[q]) \subseteq Paths
    BY DEF Passed, Probing, Private, Paths
  <2>4. CASE Missing(at[q]) /\ fs' = [fs EXCEPT ![Topmost(at[q])] = "private"] /\ UNCHANGED probeVars
             /\ GoTo(q, IF Topmost(at[q]) = at[q] THEN "inspect" ELSE "create", at[q])
    <3>1. Grows
      BY <1>1, <2>4, TopmostHasAncestors DEF Grows
    <3>2. ~disturbed => Secured(fs', "create", at[q])
      BY <1>1, <2>2, <2>3, <3>1, GrowingIsSafe DEF Secured
    <3>3. CASE Topmost(at[q]) = at[q]
      <4>1. fs'[at[q]] = "private"
        BY <1>1, <2>4, <3>3 DEF TreeInv
      <4>2. ~disturbed => Secured(fs', "inspect", at[q])
        BY <2>3, <3>2, <4>1 DEF Secured
      <4> QED
        BY <1>4, <2>4, <3>1, <3>3, <4>2
    <3>4. CASE Topmost(at[q]) # at[q]
      BY <1>4, <2>4, <3>1, <3>2, <3>4
    <3> QED
      BY <3>3, <3>4
  <2>5. CASE fs[at[q]] \in Passable /\ GoTo(q, "inspect", at[q]) /\ UNCHANGED <<fs, probeVars>>
    <3>1. ~disturbed => fs[at[q]] = "private"
      BY <1>1, <2>1, <2>5, Undisturbed, FitPath DEF Passable, Directory
    <3>2. ~disturbed => Secured(fs', "inspect", at[q])
      BY <2>2, <2>3, <2>5, <3>1 DEF Secured
    <3> QED
      BY <1>4, <2>5, <3>2 DEF Grows
  <2>6. CASE fs[at[q]] \notin Passable /\ ~Missing(at[q]) /\ Refuse(q)
    BY <1>1, <1>3, <2>6, Undisturbed, FitPath DEF Passable
  <2> QED
    BY <1>8, <2>4, <2>5, <2>6 DEF Create
<1>9. CASE Inspect(q)
  <2>1. at[q] \in Private /\ pc[q] = "inspect"
    BY <1>1, <1>9 DEF Inspect, PlaceOf, Places
  <2>2. ~disturbed => Acceptable(at[q])
    BY <2>1, Undisturbed DEF SatisfiedWith, Secured, Passed, Acceptable
  <2> QED
    BY <1>3, <1>5, <1>9, <2>1, <2>2 DEF Inspect
<1>10. CASE Resolve(q)
  <2>1. at[q] = "root" /\ pc[q] = "resolve"
    BY <1>1, <1>10 DEF Resolve, PlaceOf, Places
  <2>2. ~disturbed => fs["root"] = "private" /\ Fit(fs)
    BY <2>1, Undisturbed DEF SatisfiedWith, Secured, Passed, Private
  <2>3. ~disturbed => Resolved
    BY <2>2 DEF Resolved, Fit, Directory
  <2>4. CASE GoTo(q, "ensure", "blobs") /\ UNCHANGED <<fs, probeVars>>
    <3>1. ~disturbed => Secured(fs, "ensure", "blobs")
      BY <2>2 DEF Secured, Passed, Probing
    <3> QED
      BY <1>4, <2>4, <3>1 DEF Grows
  <2> QED
    BY <1>3, <1>10, <2>3, <2>4 DEF Resolve
<1> QED
  BY <1>6, <1>7, <1>8, <1>9, <1>10

\* The end of an operation of q, which gives up its probe file, if it has one.
LEMMA LeavingUse ==
  ASSUME IInv, UInv, NEW q \in Processes, Grows,
         NEW where \in {"down", "ready"}, pc' = [pc EXCEPT ![q] = where],
         at' = [at EXCEPT ![q] = "parent"],
         NEW result, verdict' = [verdict EXCEPT ![q] = result],
         file' = [file EXCEPT ![q] = 0],
         files' \subseteq Names, files \ {file[q]} \subseteq files',
         abandoned' \subseteq files', \A r \in Processes : r # q => file[r] \notin abandoned',
         Cardinality(abandoned') <= faults',
         disturbed' \in BOOLEAN, disturbed => disturbed', faults' \in 0 .. MaxFaults,
         ~disturbed' => result # "refused" /\ (where = "down" \/ Secured(fs', "ready", "parent"))
  PROVE  UInv'
<1>1. ProcessInv
  BY DEF IInv
<1>2. 0 \notin abandoned' /\ where \notin Probing
  BY DEF Names, Probing
<1>3. ProbeInv'
  BY <1>2, ProbeFrame
<1>4. ASSUME ~disturbed' PROVE SatisfiedWith(q)'
  <2>1. pc'[q] = where /\ at'[q] = "parent" /\ verdict'[q] = result
    BY <1>1 DEF ProcessInv
  <2>2. Secured(fs', "down", "parent")
    BY DEF Secured, Passed, Probing
  <2> QED
    BY <1>2, <1>4, <2>1, <2>2 DEF SatisfiedWith
<1> QED
  BY <1>3, <1>4, UseFrame

\* A diagnosis does not refuse what is fit, and finds its file again.
LEMMA DiagnosingUse ==
  ASSUME IInv, UInv, NEW q \in Processes, UNCHANGED <<disturbed, faults>>,
         Status(q) \/ Open(q) \/ Sync(q) \/ Remove(q) \/ CleanUp(q)
  PROVE  UInv' /\ Grows
<1>1. /\ ProcessInv /\ TreeInv /\ ProbeInv /\ PlaceOf(q)
      /\ fs' = fs /\ Grows
  BY DEF IInv, UInv, ProcessInv, Status, Open, Sync, Remove, CleanUp, Refuse, Grows
<1>2. /\ disturbed' \in BOOLEAN /\ (disturbed => disturbed')
      /\ faults' \in 0 .. MaxFaults /\ faults <= faults'
  BY <1>1, StorageAssumption DEF TreeInv
<1>3. ~disturbed => Fit(fs) /\ Secured(fs, pc[q], at[q]) /\ (pc[q] \in Probing => file[q] \in files)
                    /\ pc[q] # "cleanup"
  BY Undisturbed DEF SatisfiedWith
<1>4. \A where \in {"ready", "status", "open"} \cup Probing : \A path : Passed(where, path) = Private
  BY DEF Passed, Probing
<1>5. CASE Status(q)
  <2>1. pc[q] = "status" /\ at[q] \in Private
    BY <1>1, <1>5 DEF Status, PlaceOf, Places
  <2>2. ~disturbed => Acceptable(at[q])
    BY <1>3, <1>4, <2>1 DEF Secured, Acceptable
  <2>3. CASE Refuse(q) /\ ~Acceptable(at[q])
    BY <1>1, <1>2, <2>1, <2>2, <2>3, QuietRefusal DEF Probing
  <2>4. ASSUME NEW where \in {"status", "open"}, NEW path, GoTo(q, where, path), UNCHANGED <<fs, probeVars>>
        PROVE  UInv'
    <3>1. ~disturbed => Secured(fs', where, path)
      BY <1>3, <1>4, <2>1, <2>4 DEF Secured
    <3> QED
      BY <1>1, <2>1, <2>4, <3>1, QuietGoTo DEF Probing
  <2> QED
    BY <1>1, <1>5, <2>3, <2>4 DEF Status
<1>6. CASE Open(q)
  <2>1. pc[q] = "open" /\ pc[q] \notin Probing
    BY <1>6 DEF Open, Probing
  <2>2. ProbeName \in Names \ files /\ \A r \in Processes : file[r] # ProbeName
    BY <2>1, NewNameIsNew
  <2>3. CASE Refuse(q) /\ ~(fs["tmp"] \in Passable /\ ProbeName \notin files)
    <3>1. disturbed
      BY <1>3, <1>4, <2>1, <2>2, <2>3 DEF Secured, Private, Passable, Directory
    <3> QED
      BY <1>1, <1>2, <2>1, <2>3, <3>1, QuietRefusal
  <2>4. CASE /\ GoTo(q, "sync", "tmp")
             /\ file' = [file EXCEPT ![q] = ProbeName] /\ files' = files \cup {ProbeName}
             /\ abandoned' = abandoned
    <3>1. ProbeInv'
      <4>1. Cardinality(abandoned') <= faults'
        BY <1>1, <2>4 DEF ProbeInv
      <4> QED
        BY <1>1, <2>2, <2>4, <4>1, ProbeFrame DEF GoTo, Probing, ProbeInv
    <3>2. /\ pc'[q] = "sync" /\ at'[q] = "tmp" /\ verdict'[q] = "none" /\ file'[q] \in files'
          /\ verdict' = [verdict EXCEPT ![q] = "none"]
      BY <1>1, <2>1, <2>4 DEF GoTo, ProcessInv, PlaceOf
    <3>3. ~disturbed => Secured(fs', "sync", "tmp")
      BY <1>1, <1>3, <1>4, <2>1 DEF Secured, Probing
    <3>4. ~disturbed' => SatisfiedWith(q)'
      BY <3>2, <3>3 DEF SatisfiedWith
    <3> QED
      BY <1>1, <1>2, <2>4, <3>1, <3>2, <3>4, UseFrame DEF GoTo
  <2> QED
    BY <1>1, <1>6, <2>3, <2>4 DEF Open
<1>7. CASE Sync(q)
  <2>1. pc[q] = "sync" /\ GoTo(q, "remove", "tmp") /\ UNCHANGED probeVars
    BY <1>7 DEF Sync
  <2>2. ~disturbed => Secured(fs', "remove", "tmp")
    BY <1>1, <1>3, <1>4, <2>1 DEF Secured, Probing
  <2> QED
    BY <1>1, <2>1, <2>2, QuietGoTo DEF Probing
<1>8. CASE Remove(q) \/ CleanUp(q)
  <2>1. \E result \in {"ok", "refused"} : End(q, result) /\ (~disturbed => result = "ok")
    BY <1>3, <1>8 DEF Remove, CleanUp, Probing
  <2>2. PICK result \in {"ok", "refused"} : End(q, result) /\ (~disturbed => result = "ok")
    BY <2>1
  <2>3. PICK where \in {"down", "ready"} : pc' = [pc EXCEPT ![q] = where]
    BY <2>2 DEF End
  <2>4. /\ at' = [at EXCEPT ![q] = "parent"] /\ verdict' = [verdict EXCEPT ![q] = result]
        /\ file' = [file EXCEPT ![q] = 0] /\ files' = files \ {file[q]} /\ abandoned' = abandoned
        /\ pc[q] \in Probing
    BY <1>8, <2>2 DEF End, Remove, CleanUp, Probing
  <2>5. /\ files' \subseteq Names /\ files \ {file[q]} \subseteq files' /\ abandoned' \subseteq files'
        /\ \A r \in Processes : r # q => file[r] \notin abandoned'
        /\ Cardinality(abandoned') <= faults'
    BY <1>1, <2>4 DEF ProbeInv
  <2>6. ~disturbed' => result # "refused" /\ (where = "down" \/ Secured(fs', "ready", "parent"))
    BY <1>1, <1>3, <1>4, <2>2, <2>4 DEF Secured
  <2> QED
    BY <1>1, <1>2, <2>3, <2>4, <2>5, <2>6, LeavingUse
<1> QED
  BY <1>1, <1>5, <1>6, <1>7, <1>8

\* The beginning of an operation, and the end of a process.
LEMMA BeginningUse ==
  ASSUME IInv, UInv, NEW q \in Processes, UNCHANGED <<disturbed, faults>>,
         Prepare(q) \/ Diagnose(q) \/ Exit(q)
  PROVE  UInv' /\ Grows
<1>1. ProcessInv /\ TreeInv /\ PlaceOf(q) /\ Grows /\ UNCHANGED probeVars /\ fs' = fs
  BY DEF IInv, UInv, ProcessInv, Prepare, Diagnose, Exit, Grows
<1>2. /\ disturbed' \in BOOLEAN /\ (disturbed => disturbed')
      /\ faults' \in 0 .. MaxFaults /\ faults <= faults'
  BY <1>1, StorageAssumption DEF TreeInv
<1>3. ~disturbed => verdict[q] # "refused" /\ Secured(fs, pc[q], at[q])
  BY Undisturbed DEF SatisfiedWith
<1>4. CASE Prepare(q)
  <2>1. Secured(fs', "ancestors", "parent")
    BY DEF Secured, Passed, Probing
  <2> QED
    BY <1>1, <1>2, <1>4, <2>1, QuietStep DEF Prepare, Probing
<1>5. CASE Diagnose(q)
  <2>1. ~disturbed' => Secured(fs', "status", "root")
    BY <1>1, <1>3, <1>5 DEF Diagnose, Secured, Passed
  <2> QED
    BY <1>1, <1>2, <1>5, <2>1, QuietStep DEF Diagnose, Probing
<1>6. CASE Exit(q)
  <2>1. Secured(fs', "down", "parent")
    BY DEF Secured, Passed, Probing
  <2>2. /\ pc' = [pc EXCEPT ![q] = "down"] /\ pc[q] \notin Probing /\ "down" \notin Probing
        /\ at' = [at EXCEPT ![q] = "parent"] /\ verdict' = [verdict EXCEPT ![q] = verdict[q]]
    BY <1>1, <1>6 DEF Exit, ProcessInv, PlaceOf, Places, Probing
  <2>3. ~disturbed' => verdict[q] # "refused" /\ "down" # "cleanup" /\ Secured(fs', "down", "parent")
    BY <1>3, <2>1
  <2> QED
    BY <1>1, <1>2, <2>2, <2>3, QuietStep
<1> QED
  BY <1>1, <1>4, <1>5, <1>6

\* A fault abandons one probe file at most.
LEMMA OneMoreAbandoned ==
  ASSUME UInv, Fault, NEW name, abandoned' \subseteq abandoned \cup {name}
  PROVE  Cardinality(abandoned') <= faults' /\ faults' \in 0 .. MaxFaults /\ faults <= faults'
<1>1. faults \in Nat /\ MaxFaults \in Nat /\ faults' = faults + 1 /\ faults < MaxFaults
  BY StorageAssumption DEF UInv, TreeInv, Fault
<1>2. IsFiniteSet(abandoned) /\ Cardinality(abandoned) \in Nat /\ Cardinality(abandoned) <= faults
  BY AbandonedIsFinite DEF UInv, ProbeInv
<1>3. /\ IsFiniteSet(abandoned \cup {name})
      /\ \/ Cardinality(abandoned \cup {name}) = Cardinality(abandoned)
         \/ Cardinality(abandoned \cup {name}) = Cardinality(abandoned) + 1
  BY <1>2, FS_AddElement
<1>4. IsFiniteSet(abandoned') /\ Cardinality(abandoned') <= Cardinality(abandoned \cup {name})
  BY <1>3, FS_Subset
<1>5. Cardinality(abandoned') \in Nat
  BY <1>4, FS_CardinalityType
<1> QED
  BY <1>1, <1>2, <1>3, <1>4, <1>5

\* What an interruption does to the tree and to the probe files.
LEMMA AbandonUse ==
  ASSUME IInv, UInv, NEW q \in Processes, Fault, Abandon(q)
  PROVE  /\ Grows /\ file' = [file EXCEPT ![q] = 0]
         /\ files' \subseteq Names /\ files \ {file[q]} \subseteq files' /\ abandoned' \subseteq files'
         /\ \A r \in Processes : r # q => file[r] \notin abandoned'
         /\ Cardinality(abandoned') <= faults' /\ faults' \in 0 .. MaxFaults /\ faults <= faults'
<1>1. ProcessInv /\ TreeInv /\ ProbeInv
  BY DEF IInv, UInv
<1>2. 0 \notin Names /\ \A r \in Processes : pc[r] \notin Probing => file[r] = 0
  BY <1>1 DEF Names, ProbeInv
<1>3. Grows
  <2>1. at[q] \in Paths
    BY <1>1 DEF ProcessInv
  <2> QED
    BY <1>1, <2>1, TopmostHasAncestors DEF Abandon, Grows
<1>4. CASE pc[q] = "open" /\ files' = files \cup {ProbeName} /\ abandoned' = abandoned \cup {ProbeName}
  <2>1. ProbeName \in Names \ files /\ \A r \in Processes : file[r] # ProbeName
    BY <1>4, NewNameIsNew DEF Probing
  <2> QED
    BY <1>1, <1>3, <1>4, <2>1, OneMoreAbandoned DEF ProbeInv, Abandon
<1>5. CASE files' = files \ {file[q]} /\ abandoned' = abandoned
  BY <1>1, <1>3, <1>5, OneMoreAbandoned DEF ProbeInv, Abandon
<1>6. CASE files' = files /\ abandoned' = abandoned \cup (files \cap {file[q]})
  <2>1. ASSUME NEW r \in Processes, r # q PROVE file[r] \notin abandoned'
    <3>1. file[r] \notin abandoned
      BY <1>1 DEF ProbeInv
    <3>2. CASE pc[r] \in Probing
      BY <1>6, <2>1, <3>1, <3>2, FilesDiffer
    <3>3. CASE pc[r] \notin Probing
      BY <1>1, <1>2, <1>6, <3>1, <3>3 DEF ProbeInv
    <3> QED
      BY <3>2, <3>3
  <2>2. abandoned' \subseteq abandoned \cup {file[q]}
    BY <1>6
  <2> QED
    BY <1>1, <1>3, <1>6, <2>1, <2>2, OneMoreAbandoned DEF ProbeInv, Abandon
<1> QED
  BY <1>4, <1>5, <1>6 DEF Abandon

\* Crashes and dropped requests leave a tree that is fit, failures count as disturbances.
LEMMA FaultUse ==
  ASSUME IInv, UInv, NEW q \in Processes, Crash(q) \/ Drop(q) \/ FailCall(q) \/ FailSync(q)
  PROVE  UInv' /\ Grows
<1>1. ProcessInv /\ TreeInv /\ ProbeInv /\ PlaceOf(q) /\ Fault
  BY DEF IInv, UInv, ProcessInv, Crash, Drop, FailCall, FailSync
<1>2. /\ faults' \in 0 .. MaxFaults /\ faults <= faults'
  BY StorageAssumption, <1>1 DEF TreeInv, Fault
<1>3. disturbed \in BOOLEAN
  BY <1>1 DEF TreeInv
<1>4. CASE Crash(q)
  <2>1. /\ pc' = [pc EXCEPT ![q] = "down"] /\ at' = [at EXCEPT ![q] = "parent"]
        /\ verdict' = [verdict EXCEPT ![q] = "none"] /\ Abandon(q) /\ disturbed' = disturbed
    BY <1>4 DEF Crash
  <2> QED
    BY <1>1, <1>3, <2>1, AbandonUse, LeavingUse
<1>5. CASE Drop(q)
  <2>1. /\ pc' = [pc EXCEPT ![q] = "ready"] /\ at' = [at EXCEPT ![q] = "parent"]
        /\ verdict' = [verdict EXCEPT ![q] = "none"] /\ Abandon(q) /\ disturbed' = disturbed
        /\ fs' = fs /\ pc[q] \in {"status", "open"} \cup Probing
    BY <1>1, <1>5 DEF Drop, GoTo, Abandon, PlaceOf, ProcessInv, Probing
  <2>2. ~disturbed' => Secured(fs', "ready", "parent")
    BY <2>1, Undisturbed DEF SatisfiedWith, Secured, Passed
  <2> QED
    BY <1>1, <1>3, <2>1, <2>2, AbandonUse, LeavingUse
<1>6. CASE FailCall(q) /\ pc[q] \notin Probing
  <2>1. Refuse(q) /\ disturbed'
    BY <1>6 DEF FailCall, Probing
  <2> QED
    BY <1>2, <1>6, <2>1, QuietRefusal DEF Refuse, Grows
<1>7. CASE FailCall(q) /\ pc[q] \in Probing
  <2>1. /\ End(q, "refused") /\ file' = [file EXCEPT ![q] = 0] /\ fs' = fs /\ files' = files
        /\ abandoned' = abandoned \cup (files \cap {file[q]}) /\ disturbed' = TRUE
    BY <1>7 DEF FailCall, Probing
  <2>2. Abandon(q)
    BY <2>1 DEF Abandon
  <2>3. PICK where \in {"down", "ready"} : pc' = [pc EXCEPT ![q] = where]
    BY <2>1 DEF End
  <2>4. at' = [at EXCEPT ![q] = "parent"] /\ verdict' = [verdict EXCEPT ![q] = "refused"]
    BY <2>1 DEF End
  <2> QED
    BY <1>1, <2>1, <2>2, <2>3, <2>4, AbandonUse, LeavingUse
<1>8. CASE FailSync(q)
  <2>1. /\ pc[q] = "sync" /\ GoTo(q, "cleanup", "tmp") /\ UNCHANGED probeVars /\ fs' = fs
        /\ disturbed' = TRUE /\ Grows
    BY <1>8 DEF FailSync, Grows
  <2>2. verdict' = [verdict EXCEPT ![q] = verdict[q]]
    BY <1>1, <2>1 DEF GoTo, ProcessInv
  <2> QED
    BY <1>2, <2>1, <2>2, QuietStep DEF GoTo, Probing
<1> QED
  BY <1>4, <1>5, <1>6, <1>7, <1>8

\* After an intervention there is a tree, and the probe files are the ones that are left.
LEMMA ReplaceUse ==
  ASSUME IInv, UInv, NEW p \in Paths, NEW kind \in Kinds, Replace(p, kind)
  PROVE  UInv'
<1>1. ProcessInv /\ TreeInv /\ ProbeInv /\ IsTree(fs) /\ fs \in [Paths -> Kinds]
  BY DEF IInv, UInv, TreeInv
<1> DEFINE keeps == kind \in Passable
<1>2. \A x \in Paths : fs'[x] = IF x = p THEN kind
                                ELSE IF p \in Ancestors[x] /\ ~keeps THEN "absent" ELSE fs[x]
  BY DEF Replace
<1>3. fs' \in [Paths -> Kinds]
  BY <1>1 DEF Replace, Kinds
<1>4. IsTree(fs')
  <2> SUFFICES ASSUME NEW x \in Paths, fs'[x] # "absent", NEW a \in Ancestors[x]
               PROVE  fs'[a] \in Passable
    BY DEF IsTree
  <2>1. /\ a \in Paths /\ x # a /\ Ancestors[a] \subseteq Ancestors[x] /\ a \notin Ancestors[a]
        /\ x \notin Ancestors[a]
    BY DEF Paths, Ancestors
  <2>2. CASE x = p
    BY <1>2, <2>1, <2>2 DEF Replace
  <2>3. CASE x # p
    <3>1. fs[x] # "absent" /\ (p \in Ancestors[x] => keeps)
      BY <1>2, <2>3
    <3>2. fs[a] \in Passable
      BY <1>1, <3>1 DEF IsTree
    <3> QED
      BY <1>2, <2>1, <3>1, <3>2
  <2> QED
    BY <2>2, <2>3
<1>5. TreeInv'
  BY <1>1, <1>3, <1>4, StorageAssumption DEF TreeInv, Replace, Fault
<1>6. ProbeInv'
  <2>1. files' \subseteq files /\ abandoned' \subseteq abandoned /\ abandoned' \subseteq files'
    BY DEF Replace
  <2>2. Cardinality(abandoned') <= faults'
    <3>1. abandoned' \subseteq abandoned \cup {0} /\ Fault
      BY <2>1 DEF Replace
    <3> QED
      BY <3>1, OneMoreAbandoned
  <2>3. pc' = pc /\ file' = file
    BY DEF Replace, processVars
  <2> QED
    BY <1>1, <2>1, <2>2, <2>3 DEF ProbeInv
<1>7. UseInv'
  BY DEF UseInv, Replace
<1> QED
  BY <1>5, <1>6, <1>7 DEF UInv

\* Nobody uses anything at the beginning.
LEMMA InitUInv == Init => UInv
<1> SUFFICES ASSUME Init PROVE UInv
  OBVIOUS
<1>1. TreeInv
  BY StorageAssumption DEF Init, TreeInv
<1>2. ProbeInv
  <2>1. Cardinality({}) = 0
    BY FS_EmptySet
  <2> QED
    BY <2>1 DEF Init, ProbeInv, Probing
<1>3. UseInv
  BY DEF Init, UseInv, SatisfiedWith, Secured, Passed, Probing
<1> QED
  BY <1>1, <1>2, <1>3 DEF UInv

\* Every step preserves it.
LEMMA NextUInv == IInv /\ UInv /\ [Next]_vars => UInv'
<1> SUFFICES ASSUME IInv, UInv, [Next]_vars PROVE UInv'
  OBVIOUS
<1>1. CASE UNCHANGED vars
  BY <1>1 DEF vars, processVars, probeVars, UInv, TreeInv, ProbeInv, UseInv, SatisfiedWith
<1>2. ASSUME NEW q \in Processes, Step(q) PROVE UInv'
  BY <1>2, PreparingUse, DiagnosingUse, BeginningUse DEF Step, Work
<1> QED
  BY <1>1, <1>2, FaultUse, ReplaceUse DEF Next

\* It holds in every state.
LEMMA UseInvariance == Spec => []UInv
  BY InitUInv, NextUInv, Invariance, PTL DEF Spec

\* Names and probe files are as they should be, and the directory is a tree: there are never
\* more probe files than processes and faults.
THEOREM TypeCorrect == Spec => []TypeOK
<1>1. IInv /\ UInv => TypeOK
  <2> SUFFICES ASSUME IInv, UInv PROVE TypeOK
    OBVIOUS
  <2>1. ProcessInv /\ TreeInv /\ ProbeInv
    BY DEF IInv, UInv
  <2>2. file \in [Processes -> {0} \cup Names]
    BY <2>1 DEF ProcessInv, ProbeInv
  <2> QED
    BY <2>1, <2>2 DEF TypeOK, ProcessInv, TreeInv, ProbeInv
<1> QED
  BY <1>1, Invariance, UseInvariance, PTL

\* Processes that use a tree that is fit for use, which nobody else touches, never refuse it.
THEOREM FitIsNeverRefused == Spec => []FitIsNotRefused
<1>1. UInv => FitIsNotRefused
  BY DEF UInv, UseInv, SatisfiedWith, FitIsNotRefused
<1> QED
  BY <1>1, UseInvariance, PTL

\* A tree that grows is completed in two stages.
LEMMA GrowingCompletes ==
  ASSUME TreeInv, Grows
  PROVE  Shared!Completes
<1>1. IsTree(fs) /\ fs \in [Paths -> Kinds] /\ (Fit(fs') <=> Fit(fs))
  BY GrowingIsSafe DEF TreeInv
<1>2. CASE fs' = fs
  BY <1>2 DEF Shared!Completes, Stage
<1>3. CASE ~Fit(fs)
  BY <1>1, <1>3 DEF Shared!Completes, Stage
<1>4. ASSUME Fit(fs), NEW p \in Paths, fs[p] = "absent", \A a \in Ancestors[p] : fs[a] \in Passable,
             fs' = [fs EXCEPT ![p] = "private"]
      PROVE  Shared!Completes
  <2>1. \A x \in Paths : fs'[x] = IF x = p THEN "private" ELSE fs[x]
    BY <1>1, <1>4
  <2>2. \A x \in Private : fs[x] \in {"private", "absent"}
    BY <1>4 DEF Fit
  <2>3. Fit(fs') /\ Private \subseteq Paths
    BY <1>1, <1>4 DEF Private, Paths
  <2>4. CASE p = "parent"
    <3>1. fs["root"] = "absent" /\ fs'["root"] = "absent"
      BY <1>1, <1>4, <2>1, <2>4 DEF IsTree, Paths, Ancestors, Passable, Directory
    <3> QED
      BY <1>4, <2>3, <3>1 DEF Stage, Shared!Completes
  <2>5. CASE p = "root"
    <3>1. fs["root"] = "absent" /\ fs["blobs"] = "absent" /\ fs["tmp"] = "absent"
      BY <1>1, <1>4, <2>5 DEF IsTree, Paths, Ancestors, Passable, Directory
    <3>2. fs'["root"] = "private" /\ fs'["blobs"] = "absent"
      BY <2>1, <2>5, <3>1 DEF Paths
    <3> QED
      BY <1>4, <2>3, <3>1, <3>2 DEF Stage, Shared!Completes, Private
  <2>6. CASE p \in {"blobs", "tmp"}
    <3>1. fs["root"] = "private" /\ fs'["root"] = "private"
      BY <1>4, <2>1, <2>2, <2>6 DEF Ancestors, Private, Paths, Passable, Directory
    <3>2. Stage = "partial" /\ Stage' \in {"partial", "ready"}
      BY <1>4, <2>3, <2>6, <3>1 DEF Stage, Private
    <3> QED
      BY <3>2 DEF Shared!Completes
  <2> QED
    BY <2>4, <2>5, <2>6 DEF Paths
<1> QED
  BY <1>2, <1>3, <1>4 DEF Grows

\* How a step of q shows in its use of the directory.
LEMMA UseBecomes ==
  ASSUME ProcessInv, NEW q \in Processes,
         NEW where, pc' = [pc EXCEPT ![q] = where],
         NEW result, verdict' = [verdict EXCEPT ![q] = result]
  PROVE  /\ Uses[q] = Use(q)
         /\ Uses' = [Uses EXCEPT ![q] = IF where \in {"down", "ready"} THEN result ELSE "at work"]
<1>1. \A r \in Processes : /\ pc'[r] = (IF r = q THEN where ELSE pc[r])
                           /\ verdict'[r] = (IF r = q THEN result ELSE verdict[r])
  BY DEF ProcessInv
<1>2. Uses = [r \in Processes |-> Use(r)] /\ Uses' = [r \in Processes |-> Use(r)']
  BY DEF Uses
<1> QED
  BY <1>1, <1>2 DEF Use

\* A process that goes on completes the directory, or does nothing that shows.
LEMMA GoingOnIsWork ==
  ASSUME IInv, UInv, NEW q \in Processes, Grows, UNCHANGED disturbed,
         NEW where, NEW path, GoTo(q, where, path),
         where \notin {"down", "ready"}, pc[q] \notin {"down", "ready"}
  PROVE  Shared!Next
<1>1. ProcessInv /\ TreeInv
  BY DEF IInv, UInv
<1>2. pc' = [pc EXCEPT ![q] = where] /\ verdict' = [verdict EXCEPT ![q] = verdict[q]]
  BY <1>1 DEF GoTo, ProcessInv
<1>3. Uses[q] = "at work" /\ Uses' = [Uses EXCEPT ![q] = "at work"]
  BY <1>1, <1>2, UseBecomes DEF Use
<1>4. Uses' = Uses
  BY <1>3 DEF Uses
<1>5. Shared!Work(q)
  BY <1>1, <1>3, <1>4, GrowingCompletes DEF Shared!Work
<1> QED
  BY <1>5 DEF Shared!Next

\* The end of an operation is success or a refusal.
LEMMA EndingIsResult ==
  ASSUME IInv, UInv, UInv', NEW q \in Processes, UNCHANGED <<fs, disturbed>>,
         NEW result \in {"ok", "refused"}, End(q, result), pc[q] \notin {"down", "ready"},
         result = "ok" => pc[q] = "remove"
  PROVE  Shared!Next
<1>1. ProcessInv /\ PlaceOf(q)
  BY DEF IInv, ProcessInv
<1>2. PICK where \in {"down", "ready"} : pc' = [pc EXCEPT ![q] = where]
  BY DEF End
<1>3. verdict' = [verdict EXCEPT ![q] = result] /\ verdict'[q] = result
  BY <1>1 DEF End, ProcessInv
<1>4. Uses[q] = "at work" /\ Uses' = [Uses EXCEPT ![q] = result]
  BY <1>1, <1>2, <1>3, UseBecomes DEF Use
<1>5. Stage' = Stage
  BY DEF Stage, Fit
<1>6. CASE result = "refused"
  <2>1. disturbed
    BY <1>3, <1>6 DEF UInv, TreeInv, UseInv, SatisfiedWith
  <2>2. Shared!Refuse(q)
    BY <1>4, <1>5, <1>6, <2>1 DEF Shared!Refuse, Shared!Becomes
  <2> QED
    BY <2>2 DEF Shared!Next
<1>7. CASE result = "ok"
  <2>1. ~disturbed => Fit(fs) /\ \A p \in Private : fs[p] = "private"
    BY <1>7, Undisturbed DEF SatisfiedWith, Secured, Passed, Probing
  <2>2. ~disturbed => Stage = "ready"
    BY <2>1 DEF Stage, Private
  <2>3. Shared!Succeed(q)
    BY <1>4, <1>5, <1>7, <2>2 DEF Shared!Succeed, Shared!Becomes
  <2> QED
    BY <2>3 DEF Shared!Next
<1> QED
  BY <1>6, <1>7

\* The steps of an operation.
LEMMA WorkIsShared ==
  ASSUME IInv, UInv, UInv', NEW q \in Processes, Work(q), Grows, UNCHANGED disturbed
  PROVE  Shared!Next
<1>1. pc[q] \notin {"down", "ready"}
  BY DEF Work, InspectAncestor, Ensure, Create, Inspect, Resolve, Status, Open, Sync, Remove, CleanUp
<1>2. CASE \E where \in Stops \ {"down", "ready"}, path \in Paths : GoTo(q, where, path)
  BY <1>1, <1>2, GoingOnIsWork
<1>3. CASE \E result \in {"ok", "refused"} :
             End(q, result) /\ fs' = fs /\ (result = "ok" => pc[q] = "remove")
  BY <1>1, <1>3, EndingIsResult
<1>4. CASE Refuse(q)
  BY <1>3, <1>4 DEF Refuse
<1>5. at[q] \in Paths
  BY DEF IInv, ProcessInv
<1>6. CASE Ensured(q)
  BY <1>2, <1>6 DEF Ensured, Stops, Paths
<1>7. CASE InspectAncestor(q)
  BY <1>2, <1>4, <1>7 DEF InspectAncestor, Stops, Paths
<1>8. CASE Ensure(q) \/ Create(q) \/ Inspect(q)
  BY <1>2, <1>4, <1>5, <1>6, <1>8 DEF Ensure, Create, Inspect, Stops
<1>9. CASE Resolve(q) \/ Status(q) \/ Open(q) \/ Sync(q)
  BY <1>2, <1>4, <1>9 DEF Resolve, Status, Open, Sync, Stops, Paths
<1>10. CASE Remove(q) \/ CleanUp(q)
  BY <1>3, <1>10 DEF Remove, CleanUp
<1> QED
  BY <1>7, <1>8, <1>9, <1>10 DEF Work

\* What happens between the operations.
LEMMA BeginningIsShared ==
  ASSUME IInv, UInv, NEW q \in Processes, UNCHANGED disturbed,
         Prepare(q) \/ Diagnose(q) \/ Exit(q)
  PROVE  [Shared!Next]_(Shared!vars)
<1>1. ProcessInv /\ pc[q] \in {"down", "ready"} /\ Stage' = Stage /\ verdict[q] # "at work"
  BY DEF IInv, ProcessInv, Prepare, Diagnose, Exit, Stage, Fit
<1>2. CASE Prepare(q) \/ Diagnose(q)
  <2>1. PICK where \in {"ancestors", "status"} :
          pc' = [pc EXCEPT ![q] = where] /\ verdict' = [verdict EXCEPT ![q] = "none"]
    BY <1>2 DEF Prepare, Diagnose
  <2>2. Uses[q] # "at work" /\ Uses' = [Uses EXCEPT ![q] = "at work"]
    BY <1>1, <2>1, UseBecomes DEF Use
  <2>3. Shared!Begin(q)
    BY <1>1, <2>2 DEF Shared!Begin, Shared!Becomes
  <2> QED
    BY <2>3 DEF Shared!Next
<1>3. CASE Exit(q)
  <2>1. pc' = [pc EXCEPT ![q] = "down"] /\ verdict' = [verdict EXCEPT ![q] = verdict[q]]
    BY <1>1, <1>3 DEF Exit, ProcessInv
  <2>2. Uses[q] = verdict[q] /\ Uses' = [Uses EXCEPT ![q] = verdict[q]]
    BY <1>1, <2>1, UseBecomes DEF Use
  <2>3. Uses' = Uses
    BY <2>2 DEF Uses
  <2> QED
    BY <1>1, <2>3 DEF Shared!vars
<1> QED
  BY <1>2, <1>3

\* Faults and interventions.
LEMMA FaultIsShared ==
  ASSUME IInv, UInv, NEW q \in Processes, Grows, Crash(q) \/ Drop(q) \/ FailCall(q) \/ FailSync(q)
  PROVE  Shared!Next
<1>1. ProcessInv /\ TreeInv /\ PlaceOf(q)
  BY DEF IInv, UInv, ProcessInv
<1>2. CASE Crash(q) \/ Drop(q)
  <2>1. PICK where \in {"down", "ready"} :
          pc' = [pc EXCEPT ![q] = where] /\ verdict' = [verdict EXCEPT ![q] = "none"]
    BY <1>1, <1>2 DEF Crash, Drop, GoTo, PlaceOf, ProcessInv
  <2>2. Uses[q] = Use(q) /\ Uses' = [Uses EXCEPT ![q] = "none"] /\ disturbed' = disturbed
    BY <1>1, <1>2, <2>1, UseBecomes DEF Crash, Drop
  <2>3. fs' = fs \/ pc[q] = "create"
    BY <1>2 DEF Crash, Drop, Abandon
  <2>4. Stage' = Stage \/ (Uses[q] = "at work" /\ Shared!Completes)
    BY <1>1, <2>2, <2>3, GrowingCompletes DEF Use, Stage, Fit
  <2>5. Shared!Leave(q)
    BY <2>2, <2>4 DEF Shared!Leave, Shared!Becomes
  <2> QED
    BY <2>5 DEF Shared!Next
<1>3. CASE FailCall(q)
  <2>1. /\ End(q, "refused") /\ fs' = fs /\ disturbed' = TRUE
        /\ pc[q] \notin {"down", "ready"}
    BY <1>3 DEF FailCall, Refuse
  <2>2. PICK where \in {"down", "ready"} : pc' = [pc EXCEPT ![q] = where]
    BY <2>1 DEF End
  <2>3. verdict' = [verdict EXCEPT ![q] = "refused"]
    BY <2>1 DEF End
  <2>4. Uses[q] = "at work" /\ Uses' = [Uses EXCEPT ![q] = "refused"]
    BY <1>1, <2>1, <2>2, <2>3, UseBecomes DEF Use
  <2>5. Shared!Fail(q)
    BY <2>1, <2>4 DEF Shared!Fail, Shared!Becomes, Stage, Fit
  <2> QED
    BY <2>5 DEF Shared!Next
<1>4. CASE FailSync(q)
  <2>1. pc[q] = "sync" /\ GoTo(q, "cleanup", "tmp") /\ disturbed' = TRUE
    BY <1>4 DEF FailSync
  <2>2. pc' = [pc EXCEPT ![q] = "cleanup"] /\ verdict' = [verdict EXCEPT ![q] = verdict[q]]
    BY <1>1, <2>1 DEF GoTo, ProcessInv
  <2>3. Uses[q] = "at work" /\ Uses' = [Uses EXCEPT ![q] = "at work"]
    BY <1>1, <2>1, <2>2, UseBecomes DEF Use
  <2>4. Uses' = Uses
    BY <2>3 DEF Uses
  <2> QED
    BY <2>1, <2>4 DEF Shared!Next, Shared!Interfere, Shared!Conditions, Stage
<1> QED
  BY <1>2, <1>3, <1>4

\* Every step of Storage is one of the directory, or does not show.
LEMMA NextIsShared == IInv /\ UInv /\ UInv' /\ [Next]_vars => [Shared!Next]_(Shared!vars)
<1> SUFFICES ASSUME IInv, UInv, UInv', [Next]_vars PROVE [Shared!Next]_(Shared!vars)
  OBVIOUS
<1>1. CASE UNCHANGED vars
  BY <1>1 DEF vars, processVars, Shared!vars, Stage, Fit, Uses, Use
<1>2. ASSUME NEW q \in Processes, Step(q) PROVE [Shared!Next]_(Shared!vars)
  <2>1. CASE Work(q)
    BY <1>2, <2>1, PreparingUse, DiagnosingUse, WorkIsShared DEF Step, Work
  <2>2. CASE Prepare(q) \/ Diagnose(q) \/ Exit(q)
    BY <1>2, <2>2, BeginningIsShared DEF Step
  <2> QED
    BY <1>2, <2>1, <2>2 DEF Step
<1>3. ASSUME NEW q \in Processes, Crash(q) \/ Drop(q) \/ FailCall(q) \/ FailSync(q)
      PROVE  Shared!Next
  BY <1>3, FaultUse, FaultIsShared
<1>4. ASSUME NEW p \in Paths, NEW kind \in Kinds, Replace(p, kind) PROVE Shared!Next
  <2>1. Uses' = Uses /\ disturbed' = TRUE
    BY <1>4 DEF Replace, processVars, Uses, Use
  <2> QED
    BY <2>1 DEF Shared!Next, Shared!Interfere, Shared!Conditions, Stage
<1> QED
  BY <1>1, <1>2, <1>3, <1>4 DEF Next

\* prepare() and diagnose() by any number of processes implement the data directory that Startup
\* is built on: it is completed in two stages and never spoilt, and as long as nobody interferes
\* with it a use of it succeeds only when it is ready, and is never refused.
THEOREM ImplementsDirectory == Spec => SharedDirectory
<1>1. Init => Shared!Init
  BY DEF Init, Shared!Init, Shared!Conditions, Stage, Fit, Uses, Use
<1> QED
  BY <1>1, NextIsShared, Invariance, UseInvariance, PTL DEF Spec, SharedDirectory, Shared!Spec

=============================================================================
