--------------------------- MODULE Session_proofs ---------------------------
(***************************************************************************)
(* Proofs about Session, for any number of sessions and any set of         *)
(* clients: what a client that got hold of a session's semaphore finds,    *)
(* and when the file is too small.                                         *)
(***************************************************************************)
EXTENDS Session, TLAPS

Phases == {"closed", "truncate", "reset", "unlink event", "event", "unlink", "create",
           "wait halt", "post halt", "ready"}
ClientPcs == {"access", "attach", "size", "map", "attach event", "get_halted",
              "in get_halted", "register", "connected", "in write_halt", "finalizing",
              "failed", "crashed", "killed inside"}
SemaphoreNames == {"proc_counter_mut", "halt_mut", "sem_send"}

-----------------------------------------------------------------------------
(* The inductive invariant                                                 *)

CreatorTypes ==
  /\ session \in 0 .. MaxSessions /\ creator \in Phases /\ k \in 1 .. 2
  /\ session = 0 => creator = "closed"
  /\ file \in Int /\ buffSize \in Nat
  /\ sizedAt \in 0 .. session /\ resetAt \in 0 .. session
  /\ named \in [SemaphoreNames -> 0 .. session]

ClientTypes ==
  /\ pc \in [Clients -> ClientPcs] /\ next \in [Clients -> Nat]
  /\ sems \in [Clients -> [SemaphoreNames -> 0 .. session]]
  /\ g_buff_sz \in [Clients -> Nat \cup {NoFile}]
  /\ readAt \in [Clients -> 0 .. session]

Types == CreatorTypes /\ ClientTypes

\* Where a client is, and what it has read by then.
ClientInv ==
  \A c \in Clients :
    /\ pc[c] \in {"access", "attach"} => next[c] \in 1 .. 2
    /\ pc[c] \in {"access", "attach", "size"} => g_buff_sz[c] = NoFile
    /\ pc[c] = "map" => g_buff_sz[c] \in Nat

\* What the creator has done by each phase.
PhaseInv ==
  /\ creator \notin {"closed", "truncate"} => file # Empty
  /\ creator \notin {"closed", "truncate", "reset"} => resetAt = session
  /\ creator \notin {"closed", "truncate", "reset", "unlink event", "event"} =>
       named["sem_send"] = session
  /\ creator \in {"truncate", "reset", "unlink event", "event", "unlink"} =>
       named["proc_counter_mut"] < session

\* The memory of the session, once it was reset, and the file.
MemoryInv ==
  session # 0 =>
    /\ resetAt = session => file # Empty /\ buffSize = size
    /\ sizedAt = session => file = size
    /\ \A c \in Clients : readAt[c] = session /\ g_buff_sz[c] # NoFile =>
                            g_buff_sz[c] = size

\* The session's first mutex was made, and all that comes before it.
Made ==
  /\ resetAt = session /\ named["sem_send"] = session
  /\ creator \in {"closed", "create", "wait halt", "post halt", "ready"}

MutexInv ==
  /\ session # 0 /\ named["proc_counter_mut"] = session => Made
  /\ \A c \in Clients : Current(c) => Made

IInv == Types /\ ClientInv /\ PhaseInv /\ MemoryInv /\ MutexInv /\ AttachedIsUpToDate

-----------------------------------------------------------------------------
(* The tuples of the module, spelled out                                   *)

LEMMA NamesFacts ==
  /\ Last = 2 /\ Names[1] = "proc_counter_mut" /\ Names[2] = "halt_mut"
  /\ AllNames = SemaphoreNames
<1>1. Last = 2 /\ Names[1] = "proc_counter_mut" /\ Names[2] = "halt_mut"
  BY DEF Last, Names
<1>2. 1 .. Last = {1, 2}
  BY <1>1
<1> QED
  BY <1>1, <1>2 DEF AllNames, SemaphoreNames, Event

LEMMA SizeType == ASSUME NEW s \in 1 .. MaxSessions PROVE SizeOf[s] \in Nat \ {0}
BY SessionAssumption DEF MaxSessions

LEMMA SessionsType == MaxSessions \in Nat
BY SessionAssumption DEF MaxSessions

\* The phase after each phase.
LEMMA DoFacts ==
  /\ Do("truncate") => creator = "truncate" /\ creator' = "reset"
  /\ Do("reset") => creator = "reset" /\ creator' = "unlink event"
  /\ Do("unlink event") => creator = "unlink event" /\ creator' = "event"
  /\ Do("event") => creator = "event" /\ creator' = "unlink"
  /\ Do("unlink") => creator = "unlink" /\ creator' = "create"
  /\ Do("create") => creator = "create" /\ creator' = "wait halt"
  /\ Do("wait halt") => creator = "wait halt" /\ creator' = "post halt"
  /\ Do("post halt") => creator = "post halt" /\ creator' = "ready"
<1>1. ASSUME NEW i \in 2 .. Len(init_shr_mem)
      PROVE  \/ init_shr_mem[i - 1] = "truncate" /\ init_shr_mem[i] = "reset"
             \/ init_shr_mem[i - 1] = "reset" /\ init_shr_mem[i] = "unlink event"
             \/ init_shr_mem[i - 1] = "unlink event" /\ init_shr_mem[i] = "event"
             \/ init_shr_mem[i - 1] = "event" /\ init_shr_mem[i] = "unlink"
             \/ init_shr_mem[i - 1] = "unlink" /\ init_shr_mem[i] = "create"
             \/ init_shr_mem[i - 1] = "create" /\ init_shr_mem[i] = "wait halt"
             \/ init_shr_mem[i - 1] = "wait halt" /\ init_shr_mem[i] = "post halt"
             \/ init_shr_mem[i - 1] = "post halt" /\ init_shr_mem[i] = "ready"
  <2>1. Len(init_shr_mem) = 9
    BY DEF init_shr_mem
  <2>2. i \in {2, 3, 4, 5, 6, 7, 8, 9}
    BY <2>1
  <2>3. /\ init_shr_mem[1] = "truncate" /\ init_shr_mem[2] = "reset"
        /\ init_shr_mem[3] = "unlink event" /\ init_shr_mem[4] = "event"
        /\ init_shr_mem[5] = "unlink" /\ init_shr_mem[6] = "create"
        /\ init_shr_mem[7] = "wait halt" /\ init_shr_mem[8] = "post halt"
        /\ init_shr_mem[9] = "ready"
    BY DEF init_shr_mem
  <2>4. /\ i = 2 => i - 1 = 1
        /\ i = 3 => i - 1 = 2
        /\ i = 4 => i - 1 = 3
        /\ i = 5 => i - 1 = 4
        /\ i = 6 => i - 1 = 5
        /\ i = 7 => i - 1 = 6
        /\ i = 8 => i - 1 = 7
        /\ i = 9 => i - 1 = 8
    OBVIOUS
  <2> QED
    BY <2>2, <2>3, <2>4, Zenon
<1> QED
  BY <1>1 DEF Do

LEMMA DoForNameFacts ==
  ASSUME k \in 1 .. 2
  PROVE  /\ DoForName("unlink") =>
              creator = "unlink" /\ creator' \in {"unlink", "create"} /\ k' \in 1 .. 2
         /\ DoForName("create") =>
              creator = "create" /\ creator' \in {"create", "wait halt"} /\ k' \in 1 .. 2
<1>1. k < 2 => k + 1 \in 1 .. 2
  OBVIOUS
<1>2. 1 \in 1 .. 2 /\ (k < Last => k + 1 \in 1 .. 2)
  BY <1>1, NamesFacts
<1>3. ASSUME DoForName("unlink")
      PROVE  creator = "unlink" /\ creator' \in {"unlink", "create"} /\ k' \in 1 .. 2
  BY <1>2, <1>3, DoFacts, Zenon DEF DoForName
<1>4. ASSUME DoForName("create")
      PROVE  creator = "create" /\ creator' \in {"create", "wait halt"} /\ k' \in 1 .. 2
  BY <1>2, <1>4, DoFacts, Zenon DEF DoForName
<1> QED
  BY <1>3, <1>4

-----------------------------------------------------------------------------
(* The inductive invariant is kept: the creator                            *)

LEMMA InitIInv == Init => IInv
BY NamesFacts, SessionsType
   DEF Init, IInv, Types, CreatorTypes, ClientTypes, ClientInv, PhaseInv, MemoryInv,
       MutexInv, Made, Current,
       AttachedIsUpToDate, Phases, ClientPcs, SemaphoreNames, NoFile, Missing, Empty

LEMMA StartStep == IInv /\ Start => IInv'
<1> SUFFICES ASSUME IInv, Start PROVE IInv'
  OBVIOUS
<1> USE NamesFacts, SessionsType DEF IInv, Start, semaphores, clients, opened, sized
<1>1. Types'
  BY DEF Types, CreatorTypes, ClientTypes, Phases, Empty, NoFile
<1>2. \A c \in Clients : sems'[c]["proc_counter_mut"] # session' /\ readAt'[c] # session'
  BY DEF Types, CreatorTypes, ClientTypes, SemaphoreNames
<1>3. named'["proc_counter_mut"] < session' /\ resetAt' < session' /\ sizedAt' < session'
  BY DEF Types, CreatorTypes, ClientTypes, SemaphoreNames
<1>4. named'["proc_counter_mut"] # session' /\ resetAt' # session' /\ sizedAt' # session'
  BY DEF Types, CreatorTypes, ClientTypes, SemaphoreNames
<1>5. ClientInv' /\ PhaseInv'
  BY <1>3 DEF ClientInv, PhaseInv
<1>6. MemoryInv'
  BY <1>2, <1>4 DEF MemoryInv
<1>7. MutexInv' /\ AttachedIsUpToDate'
  BY <1>2, <1>4 DEF MutexInv, AttachedIsUpToDate, Current
<1> QED
  BY <1>1, <1>5, <1>6, <1>7

LEMMA CreatorStep == IInv /\ (Creator \/ Close) => IInv'
<1> SUFFICES ASSUME IInv, Creator \/ Close PROVE IInv'
  OBVIOUS
<1> USE NamesFacts, SessionsType
    DEF IInv, memory, semaphores, clients, opened, sized
<1>1. session # 0 => size \in Nat \ {0}
  BY SizeType DEF Types, CreatorTypes, ClientTypes, size
<1>. session \in Nat /\ 0 \in 0 .. session /\ session \in 0 .. session
  BY DEF Types, CreatorTypes
<1>2. session' = session /\ size' = size /\ UNCHANGED clients
  BY DEF Creator, Close, Truncate, reset_shr_mem, init_events, unlink_semaphores,
         init_semaphores, WriteHaltFalse, size
<1>0. ClientTypes'
  BY <1>2 DEF Types, ClientTypes
<1>3. CASE Truncate
  <2>1. creator = "truncate" /\ creator' = "reset"
    BY <1>3, DoFacts DEF Truncate
  <2>3. Types'
    BY <1>0, <1>1, <1>2, <1>3, <2>1
    DEF Truncate, Types, CreatorTypes, ClientTypes, Phases, SemaphoreNames
  <2>4. ClientInv' /\ PhaseInv'
    BY <1>1, <1>2, <1>3, <2>1
    DEF Truncate, Types, CreatorTypes, ClientTypes, ClientInv, PhaseInv, Empty, SemaphoreNames
  <2>5. MemoryInv'
    BY <1>1, <1>2, <1>3, <2>1
    DEF Truncate, Types, CreatorTypes, ClientTypes, MemoryInv, PhaseInv, Empty
  <2>6. MutexInv'
    BY <1>1, <1>2, <1>3, <2>1
    DEF Truncate, Types, CreatorTypes, ClientTypes, MutexInv, PhaseInv, Made, Current,
        SemaphoreNames
  <2>7. AttachedIsUpToDate'
    BY <1>1, <1>2, <1>3, <2>1 DEF Truncate, AttachedIsUpToDate, Current
  <2> QED
    BY <2>3, <2>4, <2>5, <2>6, <2>7
<1>4. CASE reset_shr_mem
  <2>1. creator = "reset" /\ creator' = "unlink event"
    BY <1>4, DoFacts DEF reset_shr_mem
  <2>2. session # 0
    BY <2>1 DEF Types, CreatorTypes, ClientTypes
  <2>3. Types'
    BY <1>0, <1>1, <1>2, <1>4, <2>1, <2>2
    DEF reset_shr_mem, Types, CreatorTypes, ClientTypes, Phases, SemaphoreNames
  <2>4. ClientInv' /\ PhaseInv'
    BY <1>1, <1>2, <1>4, <2>1
    DEF reset_shr_mem, Types, CreatorTypes, ClientTypes, ClientInv, PhaseInv, Empty,
        SemaphoreNames
  <2>5. MemoryInv'
    BY <1>1, <1>2, <1>4, <2>1
    DEF reset_shr_mem, Types, CreatorTypes, ClientTypes, MemoryInv, PhaseInv, Empty
  <2>6. MutexInv'
    BY <1>1, <1>2, <1>4, <2>1
    DEF reset_shr_mem, Types, CreatorTypes, ClientTypes, MutexInv, PhaseInv, Made, Current,
        SemaphoreNames
  <2>7. AttachedIsUpToDate'
    BY <1>1, <1>2, <1>4, <2>1 DEF reset_shr_mem, AttachedIsUpToDate, Current
  <2> QED
    BY <2>3, <2>4, <2>5, <2>6, <2>7
<1>5. CASE init_events
  <2>1. \/ /\ creator = "unlink event" /\ creator' = "event"
           /\ named' = [named EXCEPT !["sem_send"] = 0]
        \/ /\ creator = "event" /\ creator' = "unlink"
           /\ named' = [named EXCEPT !["sem_send"] = session]
    BY <1>5, DoFacts DEF init_events, Event, Missing
  <2>2. named' \in [SemaphoreNames -> 0 .. session]
    BY <2>1 DEF Types, CreatorTypes, ClientTypes, SemaphoreNames
  <2>3. Types'
    BY <1>0, <1>2, <1>5, <2>1, <2>2 DEF init_events, Types, CreatorTypes, ClientTypes, Phases
  <2>4. ClientInv' /\ PhaseInv'
    BY <1>1, <1>2, <1>5, <2>1
    DEF init_events, Types, CreatorTypes, ClientTypes, ClientInv, PhaseInv, Empty,
        SemaphoreNames
  <2>5. MemoryInv'
    BY <1>1, <1>2, <1>5, <2>1
    DEF init_events, Types, CreatorTypes, ClientTypes, MemoryInv, PhaseInv, Empty
  <2>6. MutexInv'
    BY <1>1, <1>2, <1>5, <2>1
    DEF init_events, Types, CreatorTypes, ClientTypes, MutexInv, PhaseInv, Made, Current,
        SemaphoreNames
  <2>7. AttachedIsUpToDate'
    BY <1>1, <1>2, <1>5, <2>1 DEF init_events, AttachedIsUpToDate, Current
  <2> QED
    BY <2>3, <2>4, <2>5, <2>6, <2>7
<1>6. CASE unlink_semaphores
  <2>1. creator = "unlink" /\ creator' \in {"unlink", "create"} /\ k' \in 1 .. 2
    BY <1>6, DoForNameFacts DEF unlink_semaphores, Types, CreatorTypes
  <2>2. PICK n \in {"proc_counter_mut", "halt_mut"} :
          named' = [named EXCEPT ![n] = 0]
    <3>1. k = 1 \/ k = 2
      BY DEF Types, CreatorTypes, ClientTypes
    <3>2. Names[k] \in {"proc_counter_mut", "halt_mut"}
      BY <3>1
    <3> QED
      BY <1>6, <3>2 DEF unlink_semaphores, Missing
  <2>3. named' \in [SemaphoreNames -> 0 .. session] /\ named'["sem_send"] = named["sem_send"]
    BY <2>1, <2>2 DEF Types, CreatorTypes, ClientTypes, SemaphoreNames
  <2>4. Types'
    BY <1>0, <1>2, <1>6, <2>1, <2>3
    DEF unlink_semaphores, Types, CreatorTypes, ClientTypes, Phases
  <2>5. UNCHANGED <<memory, clients>> /\ session' = session /\ session # 0
    BY <1>6, <2>1 DEF unlink_semaphores, Types, CreatorTypes, ClientTypes
  <2>6. ClientInv' /\ PhaseInv'
    <3>1. creator = "unlink" => named'["proc_counter_mut"] < session
      BY <2>1, <2>2, <2>5 DEF Types, CreatorTypes, PhaseInv, SemaphoreNames
    <3> QED
      BY <2>1, <2>3, <2>5, <3>1 DEF ClientInv, PhaseInv
  <2>7. MemoryInv'
    BY <1>2, <2>5 DEF MemoryInv
  <2>8. MutexInv'
    BY <2>1, <2>2, <2>3, <2>5
    DEF Types, CreatorTypes, ClientTypes, MutexInv, PhaseInv, Made, Current, SemaphoreNames
  <2>9. AttachedIsUpToDate'
    BY <1>2, <2>5 DEF AttachedIsUpToDate, Current
  <2> QED
    BY <2>4, <2>6, <2>7, <2>8, <2>9
<1>7. CASE init_semaphores
  <2>1. creator = "create" /\ creator' \in {"create", "wait halt"} /\ k' \in 1 .. 2
    BY <1>7, DoForNameFacts DEF init_semaphores, Types, CreatorTypes
  <2>2. PICK n \in {"proc_counter_mut", "halt_mut"} :
          named' = [named EXCEPT ![n] = IF @ = 0 THEN session ELSE @]
    <3>1. k = 1 \/ k = 2
      BY DEF Types, CreatorTypes, ClientTypes
    <3>2. Names[k] \in {"proc_counter_mut", "halt_mut"}
      BY <3>1
    <3> QED
      BY <1>7, <3>2 DEF init_semaphores, Missing
  <2>3. named' \in [SemaphoreNames -> 0 .. session] /\ named'["sem_send"] = named["sem_send"]
    BY <2>1, <2>2 DEF Types, CreatorTypes, ClientTypes, SemaphoreNames
  <2>4. Types'
    BY <1>0, <1>2, <1>7, <2>1, <2>3
    DEF init_semaphores, Types, CreatorTypes, ClientTypes, Phases
  <2>5. UNCHANGED <<memory, clients>> /\ session' = session /\ session # 0
    BY <1>7, <2>1 DEF init_semaphores, Types, CreatorTypes, ClientTypes
  <2>6. ClientInv' /\ PhaseInv'
    BY <2>1, <2>3, <2>5 DEF ClientInv, PhaseInv
  <2>7. MemoryInv'
    BY <1>2, <2>5 DEF MemoryInv
  <2>8. MutexInv'
    BY <2>1, <2>2, <2>3, <2>5
    DEF Types, CreatorTypes, ClientTypes, MutexInv, PhaseInv, Made, Current, SemaphoreNames
  <2>9. AttachedIsUpToDate'
    BY <1>2, <2>5 DEF AttachedIsUpToDate, Current
  <2> QED
    BY <2>4, <2>6, <2>7, <2>8, <2>9
<1>8. CASE WriteHaltFalse
  <2>1. \/ creator = "wait halt" /\ creator' = "post halt"
        \/ creator = "post halt" /\ creator' = "ready"
    BY <1>8, DoFacts DEF WriteHaltFalse
  <2>2. UNCHANGED <<file, sizedAt, resetAt, buffSize, named, k>>
    BY <1>8 DEF WriteHaltFalse
  <2> QED
    BY <1>1, <1>2, <2>1, <2>2
       DEF Types, CreatorTypes, ClientTypes, ClientInv, PhaseInv, MemoryInv, MutexInv, Made,
           Current,
           AttachedIsUpToDate, Phases
<1>9. CASE Close
  <2>1. creator' = "closed" /\ k' = 1 /\ session' = session /\ session # 0
    BY <1>9 DEF Close, Types, CreatorTypes, ClientTypes
  <2>2. UNCHANGED <<memory, semaphores, clients>>
    BY <1>9 DEF Close
  <2>3. Types'
    <3>1. creator' \in Phases /\ k' \in 1 .. 2
      BY <2>1 DEF Phases
    <3>2. UNCHANGED <<session, file, buffSize, sizedAt, resetAt, named>>
      BY <2>1, <2>2
    <3> QED
      BY <1>0, <2>1, <3>1, <3>2 DEF Types, CreatorTypes
  <2>4. ClientInv' /\ PhaseInv' /\ MemoryInv'
    BY <1>2, <2>1, <2>2 DEF ClientInv, PhaseInv, MemoryInv
  <2>5. MutexInv' /\ AttachedIsUpToDate'
    BY <1>2, <2>1, <2>2 DEF MutexInv, Made, Current, AttachedIsUpToDate
  <2> QED
    BY <2>3, <2>4, <2>5
<1> QED
  BY <1>3, <1>4, <1>5, <1>6, <1>7, <1>8, <1>9 DEF Creator

-----------------------------------------------------------------------------
(* The clients                                                             *)

LEMMA ClientStep ==
  ASSUME IInv, NEW c \in Clients, Access(c) \/ Connect(c) \/ RaiseHalt(c) \/ Kill(c)
  PROVE  IInv'
<1> USE NamesFacts, SessionsType
    DEF IInv, memory, semaphores, creators, opened, sized, At
<1>1. session # 0 => size \in Nat \ {0}
  BY SizeType DEF Types, CreatorTypes, ClientTypes, size
<1>2. UNCHANGED <<creators, resetAt, buffSize, named>> /\ size' = size
  BY DEF Access, Connect, RaiseHalt, Kill, attach_semaphores, read_buff_size, MapFile,
         attach_events, get_halted, Register, size
<1>3. CASE Access(c)
  BY <1>1, <1>2, <1>3
     DEF Access, Types, CreatorTypes, ClientTypes, ClientInv, PhaseInv, MemoryInv, MutexInv,
         Made, Current,
         AttachedIsUpToDate, ClientPcs
<1>4. CASE attach_semaphores(c)
  <2>1. PICK n \in {"proc_counter_mut", "halt_mut"} :
          sems' = [sems EXCEPT ![c][n] = named[n]]
    <3>1. next[c] = 1 \/ next[c] = 2
      BY <1>4 DEF attach_semaphores, ClientInv
    <3>2. Names[next[c]] \in {"proc_counter_mut", "halt_mut"}
      BY <3>1
    <3> QED
      BY <1>4, <3>2 DEF attach_semaphores
  <2>2. pc[c] = "attach" /\ pc'[c] \in {"attach", "size"} /\ g_buff_sz[c] = NoFile
    BY <1>4 DEF attach_semaphores, ClientInv, Types, CreatorTypes, ClientTypes
  <2>3. Types'
    <3>1. sems' \in [Clients -> [SemaphoreNames -> 0 .. session]]
      BY <2>1 DEF Types, CreatorTypes, ClientTypes, SemaphoreNames
    <3>2. pc' \in [Clients -> ClientPcs]
      BY <2>2, <1>4 DEF attach_semaphores, Types, ClientTypes, ClientPcs
    <3>3. next[c] + 1 \in Nat
      BY DEF Types, ClientTypes
    <3>4. next' \in [Clients -> Nat]
      BY <1>4, <3>3 DEF attach_semaphores, Types, ClientTypes
    <3> QED
      BY <1>2, <1>4, <3>1, <3>2, <3>4 DEF attach_semaphores, Types, CreatorTypes, ClientTypes
  <2>4. ClientInv'
    BY <1>4 DEF attach_semaphores, Types, CreatorTypes, ClientTypes, ClientInv
  <2>5. PhaseInv' /\ MemoryInv'
    BY <1>2, <1>4 DEF attach_semaphores, PhaseInv, MemoryInv
  <2>6. MutexInv'
    BY <1>2, <2>1 DEF Types, CreatorTypes, ClientTypes, MutexInv, Made, Current, SemaphoreNames
  <2>7. \A d \in Clients : d # c => /\ sems'[d] = sems[d] /\ pc'[d] = pc[d]
                                    /\ g_buff_sz'[d] = g_buff_sz[d]
    BY <1>4, <2>1 DEF attach_semaphores, Types, CreatorTypes, ClientTypes
  <2>8. AttachedIsUpToDate'
    <3>1. ~(pc'[c] \in {"attach event", "get_halted", "in get_halted", "register", "connected"})
      BY <2>2
    <3> QED
      BY <1>2, <1>4, <2>2, <2>7, <3>1
         DEF attach_semaphores, AttachedIsUpToDate, Current, Event
  <2> QED
    BY <2>3, <2>4, <2>5, <2>6, <2>8
<1>5. CASE read_buff_size(c)
  <2>1. PICK value \in IF file = Empty THEN 0 .. SizeOf[1] ELSE {buffSize} :
          g_buff_sz' = [g_buff_sz EXCEPT ![c] = value]
    BY <1>5 DEF read_buff_size
  <2>2. value \in Nat /\ (file # Empty => value = buffSize)
    BY <2>1 DEF Types, CreatorTypes, ClientTypes
  <2>3. session # 0 /\ resetAt = session => value = size
    BY <2>2 DEF MemoryInv
  <2>4. Types'
    BY <1>2, <1>5, <2>1, <2>2 DEF read_buff_size, Types, CreatorTypes, ClientTypes, ClientPcs
  <2>5. ClientInv'
    BY <1>5, <2>1, <2>2 DEF read_buff_size, Types, CreatorTypes, ClientTypes, ClientInv
  <2>6. PhaseInv' /\ MutexInv'
    BY <1>2, <1>5 DEF read_buff_size, PhaseInv, MutexInv, Made, Current
  <2>7. MemoryInv'
    BY <1>2, <1>5, <2>1, <2>3 DEF read_buff_size, MemoryInv, Types, CreatorTypes, ClientTypes
  <2>8. AttachedIsUpToDate'
    <3>1. Current(c) => value = size
      BY <2>3 DEF MutexInv, Made, Current
    <3> QED
      BY <1>2, <1>5, <2>1, <3>1
      DEF read_buff_size, Types, CreatorTypes, ClientTypes, AttachedIsUpToDate, Current
  <2> QED
    BY <2>4, <2>5, <2>6, <2>7, <2>8
<1>6. CASE MapFile(c)
  <2>1. /\ g_buff_sz[c] \in Nat /\ file' = g_buff_sz[c] /\ sizedAt' = readAt[c]
        /\ pc[c] = "map" /\ pc' = [pc EXCEPT ![c] = "attach event"]
        /\ UNCHANGED <<resetAt, buffSize, creators, opened, sized>>
    BY <1>6 DEF MapFile, ClientInv
  <2>2. file' \in Int /\ file' # Empty /\ g_buff_sz[c] # NoFile
    <3>1. \A n \in Nat : n \in Int /\ n # Empty /\ n # NoFile
      BY DEF Empty, NoFile
    <3> QED
      BY <2>1, <3>1
  <2>3. Types'
    BY <1>2, <2>1, <2>2 DEF Types, CreatorTypes, ClientTypes, ClientPcs
  <2>4. ClientInv' /\ PhaseInv'
    BY <1>2, <2>1, <2>2 DEF Types, CreatorTypes, ClientTypes, ClientInv, PhaseInv
  <2>5. MemoryInv'
    BY <1>2, <2>1, <2>2 DEF MemoryInv
  <2>6. MutexInv'
    BY <1>2, <2>1 DEF MutexInv, Made, Current
  <2>7. AttachedIsUpToDate'
    BY <1>2, <2>1 DEF Types, CreatorTypes, ClientTypes, AttachedIsUpToDate, Current
  <2> QED
    BY <2>3, <2>4, <2>5, <2>6, <2>7
<1>7. CASE attach_events(c)
  <2>1. sems' = [sems EXCEPT ![c]["sem_send"] = named["sem_send"]]
    BY <1>7 DEF attach_events, Event
  <2>2. Types'
    <3>1. sems' \in [Clients -> [SemaphoreNames -> 0 .. session]]
      BY <2>1 DEF Types, CreatorTypes, ClientTypes, SemaphoreNames
    <3>2. pc' \in [Clients -> ClientPcs]
      BY <1>7 DEF attach_events, Types, CreatorTypes, ClientTypes, ClientPcs
    <3> QED
      BY <1>2, <1>7, <3>1, <3>2 DEF attach_events, Types, CreatorTypes, ClientTypes
  <2>3. ClientInv' /\ PhaseInv' /\ MemoryInv'
    BY <1>2, <1>7
    DEF attach_events, Types, CreatorTypes, ClientTypes, ClientInv, PhaseInv, MemoryInv
  <2>4. \A d \in Clients : Current(d)' <=> Current(d)
    BY <1>2, <2>1 DEF Types, CreatorTypes, ClientTypes, Current, SemaphoreNames
  <2>5. MutexInv'
    BY <1>2, <2>4 DEF MutexInv, Made
  <2>6. AttachedIsUpToDate'
    <3>1. Current(c) => named["sem_send"] = session
      BY DEF MutexInv, Made
    <3>2. sems'[c]["sem_send"] = named["sem_send"]
      BY <2>1 DEF Types, CreatorTypes, ClientTypes, SemaphoreNames
    <3>3. \A d \in Clients : d # c => sems'[d] = sems[d]
      BY <2>1 DEF Types, CreatorTypes, ClientTypes
    <3> QED
      BY <1>2, <1>7, <2>4, <3>1, <3>2, <3>3
         DEF attach_events, Types, CreatorTypes, ClientTypes, AttachedIsUpToDate, Event
  <2> QED
    BY <2>2, <2>3, <2>5, <2>6
<1>8. CASE get_halted(c) \/ Register(c) \/ RaiseHalt(c) \/ Kill(c)
  <2>1. /\ UNCHANGED <<file, sizedAt, opened, sized>>
        /\ \E there \in ClientPcs : pc' = [pc EXCEPT ![c] = there]
        /\ pc[c] \notin {"access", "attach", "size", "map", "attach event"}
        /\ pc'[c] \notin {"access", "attach", "size", "map"}
        /\ pc'[c] \in {"get_halted", "in get_halted", "register", "connected"} =>
             pc[c] \in {"get_halted", "in get_halted", "register", "connected"}
    BY <1>8
    DEF get_halted, Register, RaiseHalt, Kill, WaitHalt, ClientPcs, Types, CreatorTypes,
        ClientTypes
  <2>2. UNCHANGED <<named, sems, g_buff_sz, readAt, next>>
    BY <1>8 DEF get_halted, Register, RaiseHalt, Kill
  <2>3. Types'
    BY <1>2, <2>1, <2>2 DEF Types, CreatorTypes, ClientTypes
  <2>4. \A d \in Clients : d # c => pc'[d] = pc[d]
    BY <2>1 DEF Types, ClientTypes
  <2>5. ClientInv'
    BY <2>1, <2>2, <2>4 DEF ClientInv
  <2>6. PhaseInv' /\ MemoryInv' /\ MutexInv'
    BY <1>2, <2>1, <2>2 DEF PhaseInv, MemoryInv, MutexInv, Made, Current
  <2>7. AttachedIsUpToDate'
    BY <1>2, <2>1, <2>2, <2>4 DEF AttachedIsUpToDate, Current
  <2> QED
    BY <2>3, <2>5, <2>6, <2>7
<1> QED
  BY <1>3, <1>4, <1>5, <1>6, <1>7, <1>8 DEF Connect

LEMMA StepIInv == IInv /\ [Next]_vars => IInv'
<1>1. IInv /\ UNCHANGED vars => IInv'
  BY DEF vars, memory, semaphores, creators, clients, opened, sized, size, IInv, Types,
         CreatorTypes, ClientTypes,
         ClientInv, PhaseInv, MemoryInv, MutexInv, Made, Current, AttachedIsUpToDate
<1> QED
  BY <1>1, StartStep, CreatorStep, ClientStep DEF Next

-----------------------------------------------------------------------------
LEMMA IInvHolds == Spec => []IInv
BY InitIInv, StepIInv, PTL DEF Spec

(* A client that opened the first semaphore of the running session has the *)
(* size of its buffer and the semaphores of its events, whatever it found  *)
(* the creator doing (connect_shr_mem, sync.c:380-424), for any number of  *)
(* clients and of earlier sessions.                                        *)
THEOREM ConnectedAreUpToDate == Spec => []AttachedIsUpToDate
BY IInvHolds, PTL DEF IInv

(* Once the creator has reset the memory, the file is smaller than its     *)
(* buffer only after a client gave it the size of an earlier session       *)
(* (init_mmap, sync.c:116, as called in line 399).                         *)
THEOREM OnlyStaleClientsShrink == Spec => []ShrunkOnlyByStale
<1>1. IInv => ShrunkOnlyByStale
  BY SizeType DEF IInv, Types, CreatorTypes, ClientTypes, MemoryInv, ShrunkOnlyByStale, size
<1> QED
  BY <1>1, IInvHolds, PTL
=============================================================================
