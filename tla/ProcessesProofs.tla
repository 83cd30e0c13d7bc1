---------------------------- MODULE ProcessesProofs ----------------------------
(***************************************************************************)
(* Proofs about processes, for any number of process structures, page      *)
(* directories, exit codes and exceptions.                                 *)
(***************************************************************************)
EXTENDS Processes, TLAPS

\* The inductive invariant: the properties themselves, and what holds before
\* init has been started.  SpacesIntact makes address spaces distinct (a
\* directory maps the pages of one process), which Destroy needs; the two
\* halves of the parent relation need each other.
IInv ==
  /\ TypeOK
  /\ OneRunsOthersWait
  /\ ParentsFormChain
  /\ SpacesIntact
  /\ current = None => alive = {} /\ dirs = {} /\ active = KernelDir

\* A status fits a byte.
LEMMA StatusRange ==
  /\ \A code \in ExitCodes : ExitStatus(code) \in Status
  /\ \A x \in Exceptions : FaultStatus(x) \in Status
  /\ ExitStatus(130) \in Status
<1>1. ASSUME NEW c \in Int PROVE c % 256 \in 0 .. 255
  OBVIOUS
<1>2. QED
  BY <1>1, ProcessesAssumption DEF ExitStatus, FaultStatus, Status

\* The invariant holds before init starts.
LEMMA InitIInv == Init => IInv
BY ProcessesAssumption
   DEF Init, IInv, TypeOK, OneRunsOthersWait, ParentsFormChain, SpacesIntact, Running, Status

\* Starting a process, init or a child of the running one.
LEMMA CreateIInv ==
  ASSUME IInv, NEW p \in Proc, NEW d \in Dir, NEW q, panic = "no",
         CreateAndRun(p, d, q),
         \/ current = None /\ q = None
         \/ Running /\ q = current
  PROVE  IInv'
<1> USE ProcessesAssumption
<1>1. /\ p \notin alive /\ d \notin dirs
      /\ alive' = alive \cup {p} /\ dirs' = dirs \cup {d}
      /\ current' = p /\ active' = d /\ panic' = panic
  BY DEF CreateAndRun
<1>2. TypeOK
  BY DEF IInv
<1>3. q \in Proc \cup {None} /\ p # q /\ (q # None => q \in alive)
  BY <1>1, <1>2 DEF IInv, TypeOK, OneRunsOthersWait, Running
<1>4. /\ parent'[p] = q /\ space'[p] = d /\ state'[p] = "RUNNING" /\ image'[d] = p
      /\ \A r \in Proc : r # p => parent'[r] = parent[r] /\ space'[r] = space[r]
      /\ \A r \in Proc : r # p => state'[r] = IF r = q THEN "WAITING" ELSE state[r]
      /\ \A e \in Dir : e # d => image'[e] = image[e]
  BY <1>2 DEF CreateAndRun, TypeOK
<1>5. TypeOK'
  <2>1. pid' \in [Proc -> Nat] /\ pid_next' \in Nat /\ eax' \in [Proc -> Status \cup {-1}]
    BY <1>2 DEF CreateAndRun, TakePid, TypeOK, Status
  <2>2. /\ state' \in [Proc -> {"READY", "RUNNING", "WAITING"}]
        /\ parent' \in [Proc -> Proc \cup {None}]
        /\ space' \in [Proc -> Dir \cup {None}]
        /\ image' \in [Dir -> Proc \cup {None}]
    BY <1>2, <1>3 DEF CreateAndRun, TypeOK
  <2>3. QED
    BY <1>1, <1>2, <2>1, <2>2 DEF TypeOK
<1>6. alive \subseteq Proc /\ \A r \in alive : r # p
  BY <1>1, <1>2 DEF TypeOK
<1>7. \/ alive = {} /\ q = None
      \/ /\ q = current /\ q \in alive
         /\ \A r \in alive : state[r] = IF r = q THEN "RUNNING" ELSE "WAITING"
         /\ \A r \in alive \ {q} : \E c \in alive : parent[c] = r
         /\ \A r \in alive : parent[r] # q
         /\ \A r, s \in alive : parent[r] = parent[s] => r = s
         /\ \A r \in alive : parent[r] # None => parent[r] \in alive
         /\ \E r \in alive : parent[r] = None
         /\ \A r \in alive : space[r] \in dirs /\ image[space[r]] = r
  BY DEF IInv, OneRunsOthersWait, ParentsFormChain, SpacesIntact, Running
<1>8. OneRunsOthersWait'
  <2>1. \A r \in alive' : state'[r] = IF r = p THEN "RUNNING" ELSE "WAITING"
    BY <1>1, <1>4, <1>6, <1>7
  <2>2. \A r \in alive' \ {p} : \E c \in alive' : parent'[c] = r
    BY <1>1, <1>4, <1>6, <1>7
  <2>3. \A r \in alive' : parent'[r] # p
    BY <1>1, <1>3, <1>4, <1>6, <1>7
  <2>4. QED
    BY <1>1, <2>1, <2>2, <2>3 DEF OneRunsOthersWait
<1>9. ParentsFormChain'
  <2>1. \A r, s \in alive' : parent'[r] = parent'[s] => r = s
    BY <1>1, <1>4, <1>6, <1>7
  <2>2. \A r \in alive' : parent'[r] # None => parent'[r] \in alive'
    BY <1>1, <1>3, <1>4, <1>6, <1>7
  <2>3. \E r \in alive' : parent'[r] = None
    BY <1>1, <1>4, <1>6, <1>7
  <2>4. QED
    BY <2>1, <2>2, <2>3 DEF ParentsFormChain
<1>10. SpacesIntact'
  <2>1. \A r \in alive : space[r] \in dirs /\ image[space[r]] = r
    BY <1>7
  <2>2. \A r \in alive : space[r] \in Dir /\ space[r] # d
    BY <1>1, <1>2, <2>1 DEF TypeOK
  <2>3. \A r \in alive' : space'[r] \in dirs' /\ image'[space'[r]] = r
    BY <1>1, <1>4, <1>6, <2>1, <2>2
  <2>4. QED
    BY <1>1, <1>4, <2>3 DEF SpacesIntact
<1>11. QED
  BY <1>1, <1>5, <1>8, <1>9, <1>10 DEF IInv

\* Ending the running process.
LEMMA TerminateIInv ==
  ASSUME IInv, Running, NEW status \in Status, Terminate(status)
  PROVE  IInv'
<1> USE ProcessesAssumption
<1> DEFINE p == current
           q == parent[p]
<1>1. /\ TypeOK /\ p \in alive /\ p \in Proc /\ alive \subseteq Proc
      /\ \A r \in alive : state[r] = IF r = p THEN "RUNNING" ELSE "WAITING"
      /\ \A r \in alive \ {p} : \E c \in alive : parent[c] = r
      /\ \A r \in alive : parent[r] # p
      /\ \A r, s \in alive : parent[r] = parent[s] => r = s
      /\ \A r \in alive : parent[r] # None => parent[r] \in alive
      /\ \E r \in alive : parent[r] = None
      /\ active = space[p]
      /\ \A r \in alive : space[r] \in dirs /\ image[space[r]] = r
  BY DEF IInv, OneRunsOthersWait, ParentsFormChain, SpacesIntact, TypeOK, Running
<1>2. /\ image' \in [Dir -> Proc \cup {None}]
      /\ dirs' \subseteq Dir
      /\ \A e \in Dir : e # active => image'[e] = image[e]
      /\ dirs' = dirs \ {space[p]}
  <2>1. PICK next : Destroy(current, next)
    BY DEF Terminate, TerminateToParent, TerminateInit
  <2>2. QED
    BY <1>1, <2>1 DEF Destroy, TypeOK
<1>3. CASE TerminateToParent(status)
  <2>1. /\ q # None /\ alive' = alive \ {p} /\ current' = q
        /\ eax' = [eax EXCEPT ![q] = status] /\ state' = [state EXCEPT ![q] = "RUNNING"]
        /\ active' = space[q] /\ parent' = parent /\ space' = space
        /\ pid' = pid /\ pid_next' = pid_next /\ panic' = panic
    BY <1>3 DEF TerminateToParent, Destroy
  <2>2. q \in alive /\ q # p /\ q \in Proc
    BY <1>1, <2>1
  <2>3. TypeOK'
    <3>1. space[q] \in Dir
      BY <1>1, <2>2 DEF TypeOK
    <3>2. eax' \in [Proc -> Status \cup {-1}] /\ state' \in [Proc -> {"READY", "RUNNING", "WAITING"}]
      BY <1>1, <2>1, <2>2 DEF TypeOK
    <3>3. QED
      BY <1>1, <1>2, <2>1, <2>2, <3>1, <3>2 DEF TypeOK
  <2>4. state'[q] = "RUNNING" /\ \A r \in Proc : r # q => state'[r] = state[r]
    BY <1>1, <2>1, <2>2 DEF TypeOK
  <2> HIDE DEF p
  <2>5. OneRunsOthersWait'
    <3>1. \A r \in alive' : state'[r] = IF r = q THEN "RUNNING" ELSE "WAITING"
      BY <1>1, <2>1, <2>2, <2>4
    <3>2. \A r \in alive' \ {q} : \E c \in alive' : parent'[c] = r
      BY <1>1, <2>1
    <3>3. \A r \in alive' : parent'[r] # q
      BY <1>1, <2>1
    <3>4. QED
      BY <2>1, <2>2, <3>1, <3>2, <3>3 DEF OneRunsOthersWait
  <2>6. ParentsFormChain'
    <3>1. \A r \in alive' : parent'[r] # None => parent'[r] \in alive'
      BY <1>1, <2>1
    <3>2. QED
      BY <1>1, <2>1, <3>1 DEF ParentsFormChain
  <2>7. SpacesIntact'
    <3>1. \A r \in alive' : space[r] \in Dir /\ space[r] # space[p] /\ space[r] \in dirs
      <4>1. \A r \in alive' : r \in alive /\ r # p
        BY <2>1
      <4>2. dirs \subseteq Dir
        BY <1>1 DEF TypeOK
      <4>3. QED
        BY <1>1, <4>1, <4>2
    <3>2. \A r \in alive' : space'[r] \in dirs' /\ image'[space'[r]] = r
      BY <1>1, <1>2, <2>1, <3>1
    <3>3. QED
      BY <2>1, <3>2 DEF SpacesIntact
  <2>8. QED
    BY <2>1, <2>2, <2>3, <2>5, <2>6, <2>7 DEF IInv
<1>4. CASE TerminateInit
  <2>1. /\ alive' = alive \ {p} /\ active' = KernelDir /\ panic' = "init died"
        /\ UNCHANGED <<pid, state, parent, space, eax, pid_next, current>>
    BY <1>4 DEF TerminateInit, Destroy
  <2>2. TypeOK'
    BY <1>1, <1>2, <2>1 DEF TypeOK, PanicReason
  <2>3. panic' # "no"
    BY <2>1
  <2>4. QED
    BY <1>1, <2>1, <2>2, <2>3 DEF IInv, OneRunsOthersWait, ParentsFormChain, SpacesIntact, Running
<1>5. QED
  BY <1>3, <1>4 DEF Terminate

\* The spawns that fail: nothing that the properties speak of changes but a
\* leaked directory and the caller's result.
LEMMA FailedSpawnIInv ==
  ASSUME IInv, Running,
         \/ SpawnMissing \/ SpawnInvalid
         \/ \E d \in Dir : SpawnUnloadable(d)
  PROVE  IInv'
<1> USE ProcessesAssumption
<1>1. /\ TypeOK /\ current \in Proc
      /\ UNCHANGED <<alive, pid, state, parent, space, current, image, active, panic>>
      /\ dirs \subseteq dirs' /\ dirs' \subseteq Dir
      /\ eax' = [eax EXCEPT ![current] = -1]
      /\ pid_next' \in Nat
  BY DEF SpawnMissing, SpawnInvalid, SpawnUnloadable, TakePid, spaceVars, IInv, TypeOK, Running
<1>2. TypeOK'
  <2>1. eax' \in [Proc -> Status \cup {-1}]
    BY <1>1 DEF TypeOK
  <2>2. QED
    BY <1>1, <2>1 DEF TypeOK
<1>3. OneRunsOthersWait' /\ ParentsFormChain'
  BY <1>1 DEF IInv, OneRunsOthersWait, ParentsFormChain, Running
<1>4. SpacesIntact'
  BY <1>1 DEF IInv, SpacesIntact, Running
<1>5. QED
  BY <1>1, <1>2, <1>3, <1>4 DEF IInv, Running

\* A panic stops the kernel with everything as it is.
LEMMA HaltIInv ==
  ASSUME IInv, NEW why \in PanicReason, Halt(why)
  PROVE  IInv'
<1>1. UNCHANGED <<procVars, pid_next, current, spaceVars>> /\ panic' = why
  BY DEF Halt
<1>2. panic' # "no"
  BY <1>1 DEF PanicReason
<1>3. TypeOK'
  BY <1>1 DEF IInv, TypeOK, procVars, spaceVars
<1>4. QED
  BY <1>1, <1>2, <1>3
     DEF IInv, OneRunsOthersWait, ParentsFormChain, SpacesIntact, Running, procVars, spaceVars

\* Every system call, fault and key keeps the invariant.
LEMMA NextIInv == IInv /\ [Next]_vars => IInv'
<1> SUFFICES ASSUME IInv, [Next]_vars PROVE IInv'
  OBVIOUS
<1>1. ASSUME NEW p \in Proc, NEW d \in Dir, BootInit(p, d) PROVE IInv'
  <2>1. CreateAndRun(p, d, None) /\ panic = "no" /\ current = None
    BY <1>1 DEF BootInit
  <2>2. QED
    BY <2>1, CreateIInv
<1>2. ASSUME NEW p \in Proc, NEW d \in Dir, Spawn(p, d) PROVE IInv'
  <2>1. CreateAndRun(p, d, current) /\ Running /\ panic = "no"
    BY <1>2 DEF Spawn, Running
  <2>2. QED
    BY <2>1, CreateIInv
<1>3. CASE SpawnMissing \/ SpawnInvalid \/ \E d \in Dir : SpawnUnloadable(d)
  <2>1. Running
    BY <1>3 DEF SpawnMissing, SpawnInvalid, SpawnUnloadable
  <2>2. QED
    BY <1>3, <2>1, FailedSpawnIInv
<1>4. CASE SpawnOutOfMemory \/ SpawnOutside \/ BootInitFails
  <2>1. \E why \in PanicReason : Halt(why)
    BY <1>4 DEF SpawnOutOfMemory, SpawnOutside, BootInitFails, PanicReason
  <2>2. QED
    BY <2>1, HaltIInv
<1>5. ASSUME NEW code \in ExitCodes, Exit(code) PROVE IInv'
  BY <1>5, StatusRange, TerminateIInv DEF Exit
<1>6. ASSUME NEW x \in Exceptions, Fault(x) PROVE IInv'
  BY <1>6, StatusRange, TerminateIInv DEF Fault
<1>7. CASE CtrlC
  BY <1>7, StatusRange, TerminateIInv DEF CtrlC
<1>8. CASE UNCHANGED vars
  BY <1>8 DEF vars, procVars, spaceVars, IInv, TypeOK, OneRunsOthersWait, ParentsFormChain,
              SpacesIntact, Running
<1>9. QED
  BY <1>1, <1>2, <1>3, <1>4, <1>5, <1>6, <1>7, <1>8 DEF Next

\* Whatever programs do, the chain of parents, the running process and the page
\* directories of process.c stay consistent: IInv always holds.
THEOREM ProcessInvariant == Spec => []IInv
BY InitIInv, NextIInv, PTL DEF Spec

\* process.c keeps one process running and every other one waiting for a live
\* child, along one chain of parents that starts at init.
THEOREM ProcessChain == Spec => [](TypeOK /\ OneRunsOthersWait /\ ParentsFormChain)
<1>1. IInv => TypeOK /\ OneRunsOthersWait /\ ParentsFormChain
  BY DEF IInv
<1>2. QED
  BY <1>1, ProcessInvariant, PTL

\* Neither the end of a process nor a failed spawn touches the address space
\* of another process, and the active one is always the running process's.
THEOREM ProcessSpacesIntact == Spec => []SpacesIntact
<1>1. IInv => SpacesIntact
  BY DEF IInv
<1>2. QED
  BY <1>1, ProcessInvariant, PTL

\* A step resumes a waiting process only with a status that fits a byte, also
\* when the child faulted.
LEMMA StepResumes ==
  ASSUME IInv, Next, NEW p \in alive, state[p] = "WAITING", state'[p] = "RUNNING"
  PROVE  eax'[p] \in Status
<1>1. /\ TypeOK /\ p \in Proc
      /\ Running => current # p /\ current \in alive
  BY DEF IInv, TypeOK, OneRunsOthersWait
<1>2. ASSUME NEW r \in Proc, NEW d \in Dir, NEW q, CreateAndRun(r, d, q) PROVE FALSE
  <2>1. state'[p] = IF p = q THEN "WAITING" ELSE state[p]
    BY <1>1, <1>2 DEF CreateAndRun, TypeOK
  <2>2. QED
    BY <2>1
<1>3. ASSUME NEW status \in Status, Running, Terminate(status) PROVE eax'[p] \in Status
  <2>1. CASE TerminateToParent(status)
    <3>1. /\ state' = [state EXCEPT ![parent[current]] = "RUNNING"]
          /\ eax' = [eax EXCEPT ![parent[current]] = status]
      BY <2>1 DEF TerminateToParent
    <3>2. p = parent[current]
      BY <1>1, <3>1 DEF TypeOK
    <3>3. QED
      BY <1>1, <3>1, <3>2 DEF TypeOK
  <2>2. CASE TerminateInit
    BY <2>2 DEF TerminateInit
  <2>3. QED
    BY <1>3, <2>1, <2>2 DEF Terminate
<1>4. CASE UNCHANGED state
  BY <1>4
<1>5. QED
  <2>1. ASSUME NEW r \in Proc, NEW d \in Dir, BootInit(r, d) \/ Spawn(r, d) PROVE FALSE
    BY <1>2, <2>1 DEF BootInit, Spawn
  <2>2. ASSUME \/ SpawnMissing \/ SpawnInvalid \/ SpawnOutOfMemory \/ SpawnOutside
               \/ BootInitFails \/ \E d \in Dir : SpawnUnloadable(d)
        PROVE  UNCHANGED state
    BY <2>2 DEF SpawnMissing, SpawnInvalid, SpawnOutOfMemory, SpawnOutside, SpawnUnloadable,
                BootInitFails, Halt, procVars
  <2>3. ASSUME NEW code \in ExitCodes, Exit(code) PROVE eax'[p] \in Status
    BY <1>3, <2>3, StatusRange DEF Exit
  <2>4. ASSUME NEW x \in Exceptions, Fault(x) PROVE eax'[p] \in Status
    BY <1>3, <2>4, StatusRange DEF Fault
  <2>5. CASE CtrlC
    BY <1>3, <2>5, StatusRange DEF CtrlC
  <2>6. QED
    BY <1>4, <2>1, <2>2, <2>3, <2>4, <2>5 DEF Next

\* Whatever the exit code of a child that exits or is interrupted, its parent's
\* spawn returns a status in 0 .. 255, and so never what a failed spawn returns.
THEOREM ProcessStatus == Spec => ResumedWithStatus
<1>1. IInv /\ [Next]_vars =>
        [\A p \in alive :
           /\ state[p] = "WAITING" /\ state'[p] = "RUNNING"
           /\ \A x \in Exceptions : ~Fault(x)
           => eax'[p] \in Status]_vars
  BY StepResumes
<1>2. QED
  BY <1>1, ProcessInvariant, PTL DEF Spec, ResumedWithStatus

===============================================================================
