------------------------------- MODULE Processes -------------------------------
(***************************************************************************)
(* Processes and their address spaces (kernel/src/system/process.c, the    *)
(* spawn and exit system calls of syscall.c, the exception path of         *)
(* isr_stage2.c, the Ctrl+C path of tty.c).                                *)
(*                                                                         *)
(* There is no scheduler: spawn blocks its caller and runs the child, and  *)
(* the end of a process resumes its parent.  System calls, exceptions and  *)
(* interrupts are entered with interrupts disabled and do not block, so    *)
(* that each is one step; which of them comes next is up to the program    *)
(* that runs and to the keyboard.                                          *)
(*                                                                         *)
(* A process structure and a page directory live on the kernel heap: Proc  *)
(* and Dir are the addresses kmalloc can give them, and are reused.        *)
(***************************************************************************)
EXTENDS Integers

CONSTANTS
  Proc,        \* addresses of process_t
  Dir,         \* addresses of page_directory_t
  KernelDir,   \* kernel_page_directory
  None,        \* the NULL pointer
  Images,      \* what a path given to spawn may lead to, see ImageKind
  ExitCodes,   \* the arguments of exit, int32_t
  Exceptions,  \* the CPU exceptions a program may raise
  MaxPid       \* bound: the pid counter stops here

\* missing      no such file, or file_read returns less than its size
\* empty        a file of no bytes: kmalloc(0) returns NULL
\* invalid      elf_is_valid refuses it
\* overlapping  elf_load fails: a page of a segment is mapped already
\* outside      a segment lies in kernel space
\* good         an executable that loads
ImageKind == {"missing", "empty", "invalid", "overlapping", "outside", "good"}

ASSUME ProcessesAssumption ==
  /\ KernelDir \notin Dir
  /\ None \notin Proc /\ None \notin Dir /\ None # KernelDir
  /\ Images \subseteq ImageKind
  /\ ExitCodes \subseteq Int
  /\ Exceptions \subseteq 0 .. 31
  /\ MaxPid \in Nat \ {0}

VARIABLES
  alive,     \* the process structures in use
  pid,       \* pid[p]
  state,     \* state[p]
  parent,    \* parent[p]
  space,     \* address_space of p
  eax,       \* saved_state.eax of p: what its last spawn returned
  pid_next,  \* the static counter of process_next_pid
  current,   \* current_process
  dirs,      \* the page directories in use, KernelDir apart
  image,     \* image[d]: the process whose user pages d maps, or None
  active,    \* current_page_directory
  panic      \* why the kernel has halted, "no" while it runs

procVars == <<alive, pid, state, parent, space, eax>>
spaceVars == <<dirs, image, active>>
vars == <<procVars, pid_next, current, spaceVars, panic>>

Init ==
  /\ alive = {}
  /\ pid = [p \in Proc |-> 0]
  /\ state = [p \in Proc |-> "READY"]
  /\ parent = [p \in Proc |-> None]
  /\ space = [p \in Proc |-> None]
  /\ eax = [p \in Proc |-> 0]
  /\ pid_next = 0
  /\ current = None
  /\ dirs = {}
  /\ image = [d \in Dir |-> None]
  /\ active = KernelDir
  /\ panic = "no"

Running == panic = "no" /\ current # None

PanicReason == {"out of memory", "bounds violation", "init died", "init not started"}

\* KPANIC: the machine halts with everything as it is.
Halt(why) ==
  /\ panic' = why
  /\ UNCHANGED <<procVars, pid_next, current, spaceVars>>

\* process_next_pid, which every process_create calls that finds its file.
TakePid == pid_next' = IF pid_next < MaxPid THEN pid_next + 1 ELSE pid_next

-----------------------------------------------------------------------------
(* process_create and process_run.                                         *)

\* process_create makes process p with page directory d; the caller makes q
\* its parent and runs it (q is None for init).  vmm_create_address_space,
\* the switch to the new address space for loading and the switch back leave
\* d with the pages of p; process_run then switches to d.
CreateAndRun(p, d, q) ==
  /\ p \in Proc \ alive
  /\ d \in Dir \ dirs
  /\ alive' = alive \cup {p}
  /\ pid' = [pid EXCEPT ![p] = pid_next]
  /\ state' = [r \in Proc |-> IF r = p THEN "RUNNING"
                              ELSE IF r = q THEN "WAITING" ELSE state[r]]
  /\ parent' = [parent EXCEPT ![p] = q]
  /\ space' = [space EXCEPT ![p] = d]
  /\ eax' = [eax EXCEPT ![p] = 0]
  /\ TakePid
  /\ current' = p
  /\ dirs' = dirs \cup {d}
  /\ image' = [image EXCEPT ![d] = p]
  /\ active' = d
  /\ UNCHANGED panic

\* init_console starts init, or panics.
BootInit(p, d) ==
  /\ current = None /\ panic = "no"
  /\ CreateAndRun(p, d, None)

BootInitFails ==
  /\ current = None /\ panic = "no"
  /\ \/ Images \cap {"missing", "invalid", "overlapping"} # {} /\ Halt("init not started")
     \/ "empty" \in Images /\ Halt("out of memory")
     \/ "outside" \in Images /\ Halt("bounds violation")

Spawn(p, d) ==
  /\ Running /\ "good" \in Images
  /\ CreateAndRun(p, d, current)

\* process_create returns NULL before it has allocated anything that stays.
SpawnMissing ==
  /\ Running /\ "missing" \in Images
  /\ eax' = [eax EXCEPT ![current] = -1]
  /\ UNCHANGED <<alive, pid, state, parent, space, pid_next, current, spaceVars, panic>>

SpawnInvalid ==
  /\ Running /\ "invalid" \in Images
  /\ eax' = [eax EXCEPT ![current] = -1]
  /\ TakePid
  /\ UNCHANGED <<alive, pid, state, parent, space, current, spaceVars, panic>>

\* elf_load fails after the new address space d was made and switched to: the
\* process structure is freed and the former address space active again, but
\* d is never destroyed.
SpawnUnloadable(d) ==
  /\ Running /\ "overlapping" \in Images
  /\ d \in Dir \ dirs
  /\ eax' = [eax EXCEPT ![current] = -1]
  /\ TakePid
  /\ dirs' = dirs \cup {d}
  /\ UNCHANGED <<alive, pid, state, parent, space, current, image, active, panic>>

\* kmalloc(0) or a full heap where a structure or a directory is needed.
SpawnOutOfMemory ==
  /\ Running
  /\ \/ "empty" \in Images
     \/ Images \cap {"good", "invalid", "overlapping", "outside"} # {} /\ alive = Proc
     \/ Images \cap {"good", "overlapping", "outside"} # {} /\ dirs = Dir
  /\ Halt("out of memory")

\* vmm_map_page refuses to map kernel space for a program.
SpawnOutside ==
  /\ Running /\ "outside" \in Images
  /\ Halt("bounds violation")

-----------------------------------------------------------------------------
(* process_terminate.                                                      *)

\* Mutant: the exit code is handed over unmasked.
RawStatus(code) == code

\* The status the parent's spawn returns.
ExitStatus(code) == code % 256

FaultStatus(exception) == 128 + exception

\* Mutant: the parent's address space is made active before the process is
\* destroyed.
DestroyAfterSwitch(p, next) ==
  /\ dirs' = dirs \ {space[p]}
  /\ image' = [d \in Dir |-> IF d = next THEN None ELSE image[d]]
  /\ active' = next

\* process_destroy(p), then the switch to address space next.
\* vmm_destroy_address_space unmaps the user space of the ACTIVE directory and
\* frees the directory of p.
Destroy(p, next) ==
  /\ dirs' = dirs \ {space[p]}
  /\ image' = [d \in Dir |-> IF d = active THEN None ELSE image[d]]
  /\ active' = next

\* Mutant: the state of the parent is not updated.
TerminateLeavesWaiting(status) ==
  LET p == current
      q == parent[p]
  IN /\ q # None
     /\ Destroy(p, space[q])
     /\ alive' = alive \ {p}
     /\ current' = q
     /\ eax' = [eax EXCEPT ![q] = status]
     /\ UNCHANGED <<pid, state, parent, space, pid_next, panic>>

\* Mutant: the grandparent is resumed where there is one.
TerminateSkipsParent(status) ==
  LET p == current
      q == IF parent[parent[p]] = None THEN parent[p] ELSE parent[parent[p]]
  IN /\ parent[p] # None
     /\ Destroy(p, space[q])
     /\ alive' = alive \ {p}
     /\ current' = q
     /\ state' = [state EXCEPT ![q] = "RUNNING"]
     /\ eax' = [eax EXCEPT ![q] = status]
     /\ UNCHANGED <<pid, parent, space, pid_next, panic>>

\* process_terminate(current_process) for a process with a parent: the parent
\* goes on behind its spawn, which returns status.
TerminateToParent(status) ==
  LET p == current
      q == parent[p]
  IN /\ q # None
     /\ Destroy(p, space[q])
     /\ alive' = alive \ {p}
     /\ current' = q
     /\ state' = [state EXCEPT ![q] = "RUNNING"]
     /\ eax' = [eax EXCEPT ![q] = status]
     /\ UNCHANGED <<pid, parent, space, pid_next, panic>>

\* process_terminate for init.
TerminateInit ==
  /\ parent[current] = None
  /\ Destroy(current, KernelDir)
  /\ alive' = alive \ {current}
  /\ panic' = "init died"
  /\ UNCHANGED <<pid, state, parent, space, eax, pid_next, current>>

Terminate(status) == TerminateToParent(status) \/ TerminateInit

\* syscall_exit
Exit(code) == Running /\ Terminate(ExitStatus(code))

\* isr_stage2 on an exception in user mode
Fault(exception) == Running /\ Terminate(FaultStatus(exception))

\* tty_keyboard_listener on Ctrl+C: only a process whose parent has a parent
\* is interrupted, with exit code 130.
CtrlC ==
  /\ Running
  /\ parent[current] # None
  /\ parent[parent[current]] # None
  /\ Terminate(ExitStatus(130))

\* The running process ends in one way or another.
Ends == (\E code \in ExitCodes : Exit(code)) \/ (\E x \in Exceptions : Fault(x)) \/ CtrlC

Next ==
  \/ \E p \in Proc, d \in Dir : BootInit(p, d) \/ Spawn(p, d)
  \/ BootInitFails
  \/ \E d \in Dir : SpawnUnloadable(d)
  \/ SpawnMissing \/ SpawnInvalid \/ SpawnOutOfMemory \/ SpawnOutside
  \/ \E code \in ExitCodes : Exit(code)
  \/ \E x \in Exceptions : Fault(x)
  \/ CtrlC

Spec == Init /\ [][Next]_vars

\* Every program but init ends at some point of its own time: whoever runs
\* again and again does not do so for ever.  This is an assumption on the
\* programs; the kernel has no other way to take the CPU from them.
ProgramsEnd == \A p \in Proc : SF_vars(current = p /\ parent[p] # None /\ Ends)

FairSpec == Spec /\ ProgramsEnd

-----------------------------------------------------------------------------
(* Properties.                                                             *)

Status == 0 .. 255

TypeOK ==
  /\ alive \subseteq Proc
  /\ pid \in [Proc -> Nat]
  /\ state \in [Proc -> {"READY", "RUNNING", "WAITING"}]
  /\ parent \in [Proc -> Proc \cup {None}]
  /\ space \in [Proc -> Dir \cup {None}]
  /\ eax \in [Proc -> Status \cup {-1}]
  /\ pid_next \in Nat
  /\ current \in Proc \cup {None}
  /\ dirs \subseteq Dir
  /\ image \in [Dir -> Proc \cup {None}]
  /\ active \in Dir \cup {KernelDir}
  /\ panic \in {"no"} \cup PanicReason

\* Exactly one process runs, the one current_process names, and every other
\* one waits for a child of its own that exists: nobody is left waiting for a
\* process that is gone, and no freed process_t is current.
OneRunsOthersWait ==
  Running =>
    /\ current \in alive
    /\ \A p \in alive : state[p] = IF p = current THEN "RUNNING" ELSE "WAITING"
    /\ \A p \in alive \ {current} : \E c \in alive : parent[c] = p
    /\ \A p \in alive : parent[p] # current

\* The processes waiting form one chain of ancestors: no two share a parent,
\* only one has none (init), and every parent pointer leads to a live process.
ParentsFormChain ==
  Running =>
    /\ \A p, q \in alive : parent[p] = parent[q] => p = q
    /\ \A p \in alive : parent[p] # None => parent[p] \in alive
    /\ \E p \in alive : parent[p] = None

\* The address space in use is the running process's, every process has one of
\* its own, and it still maps that process's pages: ending a process never
\* unmaps the pages of another (vmm_destroy_address_space unmaps whatever is
\* active), and a failed spawn returns to the caller's address space.
SpacesIntact ==
  Running =>
    /\ active = space[current]
    /\ \A p \in alive : space[p] \in dirs /\ image[space[p]] = p

\* A parent whose child exits or is interrupted is resumed with a status in
\* 0 .. 255, whatever the exit code was: -1 does not look like a spawn that
\* failed.  Nothing is said of a child that faults: of the two comments in
\* process_terminate the first promises -1, "a child that faulted is reported
\* as -1", and the second 128 + the exception number, which the code returns.
ResumedWithStatus ==
  [][\A p \in alive :
       /\ state[p] = "WAITING" /\ state'[p] = "RUNNING"
       /\ \A x \in Exceptions : ~Fault(x)
       => eax'[p] \in Status]_vars

\* Whoever waits runs again, unless the kernel halts: no order of spawns and
\* ends loses a parent.
WaitingIsResumed ==
  \A p \in Proc :
    p \in alive /\ state[p] = "WAITING" ~> current = p \/ panic # "no"
================================================================================
