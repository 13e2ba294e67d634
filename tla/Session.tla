------------------------------ MODULE Session ------------------------------
(***************************************************************************)
(* project_2: how a session begins.  The creator maps the file, resets its *)
(* contents and makes the semaphores anew (init_shr_mem); clients of any   *)
(* kind may connect meanwhile, or still be there from an earlier session   *)
(* (connect_shr_mem).  The file and the names of the semaphores survive    *)
(* all processes; a semaphore survives its name as long as it is open.     *)
(*                                                                         *)
(* A step is one system call, one access or one loop-free block without    *)
(* any.  A semaphore is known by the session that created it.  Of the      *)
(* eight semaphores of sync.c the module has the two mutexes that a client *)
(* uses to connect, and of those of events.c the one a client waits for.   *)
(***************************************************************************)
EXTENDS Integers, Sequences

CONSTANTS Clients,
          Finalizers,   \* those of them that raise the halt
          SizeOf        \* the size of the buffer that each creator is given

ASSUME SessionAssumption ==
  Finalizers \subseteq Clients /\ SizeOf \in Seq(Nat \ {0})

MaxSessions == Len(SizeOf)

\* The names in the order in which they are unlinked, created and attached.
Names == <<"proc_counter_mut", "halt_mut">>
Last == Len(Names)
Event == "sem_send"
AllNames == {Names[k] : k \in 1 .. Last} \cup {Event}
Missing == 0
NoFile == -2
Empty == -1    \* there is a file, without any contents

VARIABLES
  file,       \* the number of slots the file has room for, NoFile or Empty
  sizedAt,    \* the session whose size that is
  resetAt,    \* the last session that reset the shared memory
  buffSize,   \* shared: sh_vars->buff_size
  isHalted,   \* shared: sh_vars->is_halted
  named,      \* the semaphore behind a name, by the session that created it
  haltMut,    \* the value of halt_mut, by session
  session,    \* the number of the creator
  creator,    \* where it is
  k,          \* which of the names it is at
  pc,         \* where a client is
  next,       \* which of the names it attaches next
  sems,       \* the semaphores it has opened
  g_buff_sz,  \* the size it has read, or NoFile
  readAt      \* resetAt at that moment

memory == <<file, sizedAt, resetAt, buffSize, isHalted>>
semaphores == <<named, haltMut>>
creators == <<session, creator, k>>

size == SizeOf[session]
opened == <<next, sems>>
sized == <<g_buff_sz, readAt>>
clients == <<pc, opened, sized>>
vars == <<memory, semaphores, creators, clients>>

Init ==
  /\ file = NoFile /\ sizedAt = 0 /\ resetAt = 0
  /\ buffSize = 0 /\ isHalted = FALSE
  /\ named = [n \in AllNames |-> Missing]
  /\ haltMut = [s \in 1 .. MaxSessions |-> 1]
  /\ session = 0 /\ creator = "closed" /\ k = 1
  /\ pc = [c \in Clients |-> "access"] /\ next = [c \in Clients |-> 1]
  /\ sems = [c \in Clients |-> [n \in AllNames |-> Missing]]
  /\ g_buff_sz = [c \in Clients |-> NoFile] /\ readAt = [c \in Clients |-> 0]

-----------------------------------------------------------------------------
(* The creator                                                             *)

\* Mutant: the semaphores are made before the memory is reset.
SemaphoresFirst == <<"truncate", "unlink", "create", "reset", "unlink event", "event",
                     "wait halt", "post halt", "ready">>
\* What the creator does, in order.
init_shr_mem == <<"truncate", "reset", "unlink event", "event", "unlink", "create",
                  "wait halt", "post halt", "ready">>

Do(phase) ==
  /\ creator = phase
  /\ \E i \in 2 .. Len(init_shr_mem) :
       phase = init_shr_mem[i - 1] /\ creator' = init_shr_mem[i]

DoForName(phase) ==
  \/ k = Last /\ k' = 1 /\ Do(phase)
  \/ k < Last /\ k' = k + 1 /\ creator = phase /\ UNCHANGED creator

\* A user starts a creator; open(O_CREAT) leaves an old file as it is.
Start ==
  /\ creator = "closed" /\ session < MaxSessions
  /\ session' = session + 1
  /\ file' = IF file = NoFile THEN Empty ELSE file
  /\ creator' = "truncate"
  /\ UNCHANGED <<sizedAt, resetAt, buffSize, isHalted, semaphores, k, clients>>

\* Mutant: the file is used with the length it has.
KeepLength ==
  /\ Do("truncate")
  /\ sizedAt' = session
  /\ UNCHANGED <<file, resetAt, buffSize, isHalted, semaphores, session, k, clients>>
\* ftruncate and mmap in init_mmap.
Truncate ==
  /\ Do("truncate")
  /\ file' = size /\ sizedAt' = session
  /\ UNCHANGED <<resetAt, buffSize, isHalted, semaphores, session, k, clients>>

reset_shr_mem ==
  /\ Do("reset")
  /\ buffSize' = size /\ resetAt' = session
  /\ isHalted' = FALSE
  /\ UNCHANGED <<file, sizedAt, semaphores, session, k, clients>>

init_events ==
  /\ \/ Do("unlink event") /\ named' = [named EXCEPT ![Event] = Missing]
     \/ Do("event") /\ named' = [named EXCEPT ![Event] = session]
  /\ UNCHANGED <<memory, haltMut, session, k, clients>>

\* Mutant: the names of the earlier session stay.
KeepOld ==
  /\ DoForName("unlink")
  /\ UNCHANGED <<memory, semaphores, session, clients>>
unlink_semaphores ==
  /\ DoForName("unlink")
  /\ named' = [named EXCEPT ![Names[k]] = Missing]
  /\ UNCHANGED <<memory, haltMut, session, clients>>

\* sem_open(O_CREAT) opens the semaphore that has the name, if there is one.
init_semaphores ==
  /\ DoForName("create")
  /\ named' = [named EXCEPT ![Names[k]] = IF @ = Missing THEN session ELSE @]
  /\ UNCHANGED <<memory, haltMut, session, clients>>

\* write_halt(false), with the semaphore behind the name: the creator is the
\* only one that changes it.
WriteHaltFalse ==
  LET mut == named["halt_mut"]
  IN  \/ /\ Do("wait halt") /\ haltMut[mut] > 0
         /\ haltMut' = [haltMut EXCEPT ![mut] = @ - 1]
         /\ UNCHANGED <<memory, named, session, k, clients>>
      \/ /\ Do("post halt")
         /\ haltMut' = [haltMut EXCEPT ![mut] = @ + 1]
         /\ isHalted' = FALSE
         /\ UNCHANGED <<file, sizedAt, resetAt, buffSize, named, session, k, clients>>

\* The user closes the window, or the session is over.
Close ==
  /\ creator # "closed"
  /\ creator' = "closed" /\ k' = 1
  /\ UNCHANGED <<memory, semaphores, session, clients>>

-----------------------------------------------------------------------------
(* The clients                                                             *)

At(c, here, there) == pc[c] = here /\ pc' = [pc EXCEPT ![c] = there]

Access(c) ==
  /\ At(c, "access", IF file = NoFile THEN "failed" ELSE "attach")
  /\ UNCHANGED <<memory, semaphores, creators, opened, sized>>

\* sem_open without O_CREAT: a missing name gives a null pointer, and the
\* results are not looked at.
attach_semaphores(c) ==
  /\ At(c, "attach", IF next[c] = Last THEN "size" ELSE "attach")
  /\ next' = [next EXCEPT ![c] = @ + 1]
  /\ sems' = [sems EXCEPT ![c][Names[next[c]]] = named[Names[next[c]]]]
  /\ UNCHANGED <<memory, semaphores, creators, sized>>

\* pread leaves size alone when the file has nothing to read yet, and nothing
\* initializes it.
read_buff_size(c) ==
  /\ At(c, "size", "map")
  /\ \E value \in IF file = Empty THEN 0 .. SizeOf[1] ELSE {buffSize} :
       g_buff_sz' = [g_buff_sz EXCEPT ![c] = value]
  /\ readAt' = [readAt EXCEPT ![c] = resetAt]
  /\ UNCHANGED <<memory, semaphores, creators, opened>>

\* init_mmap of a client gives the file the size that the client has read.
MapFile(c) ==
  /\ At(c, "map", "attach event")
  /\ file' = g_buff_sz[c] /\ sizedAt' = readAt[c]
  /\ UNCHANGED <<resetAt, buffSize, isHalted, semaphores, creators, opened, sized>>

attach_events(c) ==
  /\ At(c, "attach event", "get_halted")
  /\ sems' = [sems EXCEPT ![c][Event] = named[Event]]
  /\ UNCHANGED <<memory, semaphores, creators, next, sized>>

\* A null pointer ends the process.
WaitHalt(c, here, inside) ==
  LET mut == sems[c]["halt_mut"]
  IN  IF mut = Missing
        THEN At(c, here, "crashed") /\ UNCHANGED haltMut
        ELSE /\ haltMut[mut] > 0
             /\ At(c, here, inside)
             /\ haltMut' = [haltMut EXCEPT ![mut] = @ - 1]

PostHalt(c) == haltMut' = [haltMut EXCEPT ![sems[c]["halt_mut"]] = @ + 1]

get_halted(c) ==
  /\ \/ WaitHalt(c, "get_halted", "in get_halted")
     \/ /\ At(c, "in get_halted", IF isHalted THEN "failed" ELSE "register")
        /\ PostHalt(c)
  /\ UNCHANGED <<memory, named, creators, opened, sized>>

\* register_process: what it does to the counters is in SharedBuffer.
Register(c) ==
  /\ At(c, "register", IF sems[c]["proc_counter_mut"] = Missing THEN "crashed"
                                                                 ELSE "connected")
  /\ UNCHANGED <<memory, semaphores, creators, opened, sized>>

\* write_halt(true) in finalize.
RaiseHalt(c) ==
  /\ c \in Finalizers
  /\ \/ WaitHalt(c, "connected", "in write_halt") /\ UNCHANGED isHalted
     \/ At(c, "in write_halt", "finalizing") /\ PostHalt(c) /\ isHalted' = TRUE
  /\ UNCHANGED <<file, sizedAt, resetAt, buffSize, named, creators, opened, sized>>

\* A client is killed with the mutex; one that is killed elsewhere is like one
\* that does nothing more.
Kill(c) ==
  /\ \/ At(c, "in get_halted", "killed inside")
     \/ At(c, "in write_halt", "killed inside")
  /\ UNCHANGED <<memory, semaphores, creators, opened, sized>>

-----------------------------------------------------------------------------
Creator == \/ Truncate \/ reset_shr_mem \/ init_events \/ unlink_semaphores
           \/ init_semaphores \/ WriteHaltFalse

Connect(c) == \/ attach_semaphores(c) \/ read_buff_size(c) \/ MapFile(c)
              \/ attach_events(c) \/ get_halted(c) \/ Register(c)

Next == \/ Start \/ Close \/ Creator
        \/ \E c \in Clients : Access(c) \/ Connect(c) \/ RaiseHalt(c) \/ Kill(c)

Spec == Init /\ [][Next]_vars

\* What a user starts goes on; nobody has to start, to close, to kill or to
\* raise the halt.
FairSpec ==
  /\ Spec
  /\ WF_vars(Creator)
  /\ \A c \in Clients :
       WF_vars(Connect(c) \/ (pc[c] = "in write_halt" /\ RaiseHalt(c)))

-----------------------------------------------------------------------------
Current(c) == sems[c]["proc_counter_mut"] = session /\ session # 0

(* A client needs no signal that the session is ready: one that got hold   *)
(* of the first semaphore of the session has the size of its buffer and    *)
(* the semaphores of its events, although it may have come in the middle   *)
(* of init_shr_mem.  The memory and the events are there before the        *)
(* semaphore, and it opens the semaphore before it looks at them.          *)
AttachedIsUpToDate ==
  \A c \in Clients : Current(c) =>
    /\ g_buff_sz[c] \in {NoFile, size}
    /\ pc[c] \in {"get_halted", "in get_halted", "register", "connected"} =>
         sems[c][Event] = session

(* The file is too small for the buffer of a running creator only when a   *)
(* client gave it the size of an earlier session, read before the memory   *)
(* was reset.  The next access beyond the end of the file then ends the    *)
(* process that makes it, the creator as well.                             *)
ShrunkOnlyByStale ==
  creator \notin {"closed", "truncate", "reset"} /\ file < size =>
    sizedAt < session

(* A new creator is not held up by what an earlier session left behind, a  *)
(* mutex that a killed client holds for ever among them: it gets ready     *)
(* unless it is closed, or a client took the new mutex already and was     *)
(* killed with it.                                                         *)
RestartRecovers ==
  creator # "closed" ~>
    \/ creator \in {"ready", "closed"}
    \/ \E c \in Clients : pc[c] = "killed inside" /\ sems[c]["halt_mut"] = session
=============================================================================
