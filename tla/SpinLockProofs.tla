--------------------------- MODULE SpinLockProofs ---------------------------
(***************************************************************************)
(* LockInv is inductive, and what follows from it, for any number of CPUs, *)
(* threads and locks and any order Below in which threads nest them.       *)
(***************************************************************************)
EXTENDS SpinLockInv, FiniteSetTheorems, TLAPS

USE LockAssumption

Moves(c, a) == LockStep(c, a) \/ UnlockStep(c, a) \/ CreateStep(c, a)

\* Every step of an actor inside the lock operations and kmt_create.
LEMMA MovesCases ==
    ASSUME NEW c \in Cpus, NEW a \in Actors, Moves(c, a)
    PROVE \/ PushRead(c, a) \/ PushCli(c, a) \/ PushCount(c, a) \/ HoldingLocked(c, a)
          \/ HoldingCpu(c, a) \/ Xchg(c, a) \/ Spin(c, a) \/ Own(c, a)
          \/ UnlockLocked(c, a) \/ UnlockCpu(c, a) \/ Clear(c, a) \/ Release(c, a)
          \/ Pop(c, a) \/ CreateRead(c, a) \/ CreateCli(c, a) \/ CreateSti(c, a)
BY DEF Moves, LockStep, UnlockStep, CreateStep

\* An actor executes on one CPU only.
LEMMA OnUnique ==
    ASSUME TypeOK, PlaceInv, NEW c \in Cpus, NEW d \in Cpus, On(c) = On(d), On(c) # Idle
    PROVE c = d
BY DEF TypeOK, PlaceInv, On

LEMMA OnActor ==
    ASSUME TypeOK, NEW c \in Cpus PROVE On(c) \in Actors \cup {Idle}
BY DEF TypeOK, On, Actors

\* The types are preserved by every step.
LEMMA TypeNext == ASSUME LockInv, Next PROVE TypeOK'
<1> USE DEF TypeOK, Actors, Acquiring, Releasing, Phases
<1>1. ASSUME NEW c \in Cpus, Trap(c) PROVE TypeOK'
  BY <1>1 DEF Trap, lockVars, LockInv
<1>2. ASSUME NEW c \in Cpus, Resume(c) PROVE TypeOK'
  BY <1>2 DEF Resume, lockVars, LockInv
<1>3. ASSUME NEW c \in Cpus, NEW a \in Actors, Moves(c, a) PROVE TypeOK'
  <2> USE DEF LockInv, At, Goto, cpuVars, lockVars
  <2>1. CASE PushRead(c, a) BY <2>1 DEF PushRead
  <2>2. CASE PushCli(c, a) BY <2>2 DEF PushCli
  <2>3. CASE PushCount(c, a) BY <2>3 DEF PushCount, Nested
  <2>4. CASE HoldingLocked(c, a) BY <2>4 DEF HoldingLocked
  <2>5. CASE HoldingCpu(c, a) BY <2>5 DEF HoldingCpu
  <2>6. CASE Xchg(c, a) BY <2>6 DEF Xchg
  <2>7. CASE Spin(c, a) BY <2>7 DEF Spin, vars, actorVars
  <2>8. CASE Own(c, a) BY <2>8 DEF Own
  <2>9. CASE UnlockLocked(c, a) BY <2>9 DEF UnlockLocked
  <2>10. CASE UnlockCpu(c, a) BY <2>10 DEF UnlockCpu
  <2>11. CASE Clear(c, a) BY <2>11 DEF Clear, OwnerCleared
  <2>12. CASE Release(c, a) BY <2>12 DEF Release, Freed
  <2>13. CASE Pop(c, a)
    <3>1. pc[a] = "pop" /\ phase[a] \in DOMAIN After
      BY <2>13 DEF Pop, LocalInv, LocalAt, After
    <3>2. ncli[c] >= 1
      <4>1. a = On(c) /\ a # Idle
        BY <2>13 DEF Pop
      <4>2. ncli[c] = Cardinality(held[a]) + 1 /\ IsFiniteSet(held[a])
        BY <3>1, <4>1 DEF CountInv, CountAt, Counted, LocalInv, LocalAt
      <4> QED BY <4>2, FS_CardinalityType
    <3>3. phase' \in [Actors -> Phases]
      BY <2>13, <3>1 DEF Pop, After
    <3>4. ncli' \in [Cpus -> Nat]
      BY <2>13, <3>2 DEF Pop
    <3>5. intr' \in [Cpus -> BOOLEAN]
      <4>1. (Restores(c) \/ intr[c]) \in BOOLEAN
        BY DEF Restores
      <4> QED BY <2>13, <4>1 DEF Pop
    <3> QED BY <2>13, <3>3, <3>4, <3>5 DEF Pop
  <2>14. CASE CreateRead(c, a) BY <2>14 DEF CreateRead
  <2>15. CASE CreateCli(c, a) BY <2>15 DEF CreateCli
  <2>16. CASE CreateSti(c, a) BY <2>16 DEF CreateSti
  <2> QED BY <1>3, <2>1, <2>2, <2>3, <2>4, <2>5, <2>6, <2>7, <2>8, <2>9, <2>10, <2>11,
             <2>12, <2>13, <2>14, <2>15, <2>16, MovesCases
<1> QED BY <1>1, <1>2, <1>3 DEF Next, Moves

\* A step of the actor a on CPU c changes nothing of other actors and CPUs,
\* and who is on which CPU not at all.
LEMMA MovesLocal ==
    ASSUME LockInv, NEW c \in Cpus, NEW a \in Actors, Moves(c, a)
    PROVE /\ a = On(c) /\ run' = run
          /\ \A d \in Cpus \ {c} :
                intr'[d] = intr[d] /\ ncli'[d] = ncli[d] /\ intena'[d] = intena[d]
          /\ \A b \in Actors \ {a} :
                /\ pc'[b] = pc[b] /\ lock'[b] = lock[b] /\ flag'[b] = flag[b]
                /\ held'[b] = held[b] /\ phase'[b] = phase[b]
<1> USE DEF LockInv, TypeOK, At, Goto, cpuVars, lockVars
<1>1. CASE PushRead(c, a) BY <1>1 DEF PushRead
<1>2. CASE PushCli(c, a) BY <1>2 DEF PushCli
<1>3. CASE PushCount(c, a) BY <1>3 DEF PushCount
<1>4. CASE HoldingLocked(c, a) BY <1>4 DEF HoldingLocked
<1>5. CASE HoldingCpu(c, a) BY <1>5 DEF HoldingCpu
<1>6. CASE Xchg(c, a) BY <1>6 DEF Xchg
<1>7. CASE Spin(c, a) BY <1>7 DEF Spin, vars, actorVars
<1>8. CASE Own(c, a) BY <1>8 DEF Own
<1>9. CASE UnlockLocked(c, a) BY <1>9 DEF UnlockLocked
<1>10. CASE UnlockCpu(c, a) BY <1>10 DEF UnlockCpu
<1>11. CASE Clear(c, a) BY <1>11 DEF Clear
<1>12. CASE Release(c, a) BY <1>12 DEF Release
<1>13. CASE Pop(c, a) BY <1>13 DEF Pop
<1>14. CASE CreateRead(c, a) BY <1>14 DEF CreateRead
<1>15. CASE CreateCli(c, a) BY <1>15 DEF CreateCli
<1>16. CASE CreateSti(c, a) BY <1>16 DEF CreateSti
<1> QED BY <1>1, <1>2, <1>3, <1>4, <1>5, <1>6, <1>7, <1>8, <1>9, <1>10, <1>11,
           <1>12, <1>13, <1>14, <1>15, <1>16, MovesCases

\* Nor does it begin or end a trap.
LEMMA MovesStay ==
    ASSUME LockInv, NEW c \in Cpus, NEW a \in Actors, Moves(c, a)
    PROVE \A d \in Cpus : InTrap(d)' = InTrap(d) /\ On(d)' = On(d)
<1>1. a = On(c) /\ run' = run /\ \A b \in Actors \ {a} : phase'[b] = phase[b]
  BY MovesLocal
<1>2. ASSUME NEW d \in Cpus PROVE InTrap(d)' = InTrap(d)
  <2>1. CASE d # a
    BY <1>1, <2>1 DEF InTrap, Actors
  <2>2. CASE d = a
    <3>1. c = d /\ InTrap(c)
      BY <1>1, <2>2 DEF On, LockInv, TypeOK
    <3>2. phase[a] \in {"save", "sched", "done"} /\ a \notin Threads
      BY <3>1, <2>2 DEF InTrap, LockInv, PlaceInv
    <3>3. phase'[a] # "none"
      <4> USE DEF LockInv, TypeOK
      <4>1. CASE phase' = phase
        BY <3>2, <4>1
      <4>2. CASE Pop(c, a)
        <5>1. pc[a] = "pop"
          BY <4>2 DEF Pop, At
        <5>2. phase[a] \in {"save", "sched"}
          BY <3>2, <5>1 DEF LocalInv, LocalAt
        <5> QED BY <4>2, <5>2 DEF Pop, After
      <4> QED BY <3>2, <4>1, <4>2, MovesCases DEF PushRead, PushCli, PushCount, HoldingLocked,
              HoldingCpu, Xchg, Spin, Own, UnlockLocked, UnlockCpu, Clear, Release, CreateRead,
              CreateCli, CreateSti, vars, actorVars
    <3> QED BY <2>2, <3>1, <3>3 DEF InTrap
  <2> QED BY <2>1, <2>2
<1> QED BY <1>1, <1>2 DEF On

\* A thread that is past its _intr_write(0) executes with interrupts off.
LEMMA PinnedOff ==
    ASSUME LockInv, NEW c \in Cpus, On(c) \in Threads, Pinned(On(c))
    PROVE ~intr[c]
<1>1. ~InTrap(c) /\ run[c] = On(c)
  BY DEF On, LockInv, TypeOK
<1>2. PICK d \in Cpus : run[d] = On(c) /\ ~InTrap(d) /\ ~intr[d]
  BY DEF LockInv, PlaceInv
<1> QED BY <1>1, <1>2 DEF LockInv, PlaceInv

\* ncli is zero exactly outside of all lock operations.
LEMMA CountFacts ==
    ASSUME LockInv, NEW c \in Cpus, NEW a \in Actors, a = On(c)
    PROVE /\ ncli[c] \in Nat /\ Cardinality(held[a]) \in Nat /\ IsFiniteSet(held[a])
          /\ Cardinality(held[a]) = 0 <=> held[a] = {}
          /\ ncli[c] = Cardinality(held[a]) + (IF pc[a] \in Counted THEN 1 ELSE 0)
          /\ ncli[c] > 0 => intena[c] = FlagOutside(a) /\ ~intr[c]
          /\ pc[a] \in {"out", "cli"} /\ held[a] = {}
                => intr[c] = (a \in Threads /\ phase[a] \in {"none", "cli"})
          /\ pc[a] = "count" => ~intr[c]
          /\ LocalAt(a)
<1>1. CountAt(c, a) /\ LocalAt(a) /\ a # Idle
  BY DEF LockInv, CountInv, LocalInv, Actors
<1>2. IsFiniteSet(held[a])
  BY <1>1 DEF LocalAt
<1> QED BY <1>1, <1>2, FS_CardinalityType, FS_EmptySet DEF CountAt, LockInv, TypeOK

\* Pop turns interrupts on only in a thread outside of kmt_create that has
\* released its last lock.
LEMMA PopFlag ==
    ASSUME LockInv, NEW c \in Cpus, NEW a \in Actors, Pop(c, a)
    PROVE /\ intr'[c] = (a \in Threads /\ phase[a] = "none" /\ held[a] = {})
          /\ ~intr[c] /\ ncli[c] >= 1 /\ ncli'[c] = ncli[c] - 1
          /\ ncli[c] = Cardinality(held[a]) + 1
<1>1. a = On(c) /\ pc[a] = "pop"
  BY DEF Pop, At
<1>2. /\ ncli[c] = Cardinality(held[a]) + 1 /\ Cardinality(held[a]) \in Nat
      /\ Cardinality(held[a]) = 0 <=> held[a] = {}
      /\ ncli[c] > 0 => intena[c] = FlagOutside(a) /\ ~intr[c]
  BY <1>1, CountFacts DEF Counted
<1>3. intena[c] = FlagOutside(a) /\ ~intr[c] /\ (ncli[c] = 1 <=> held[a] = {})
  BY <1>2
<1>4. intr'[c] = (Restores(c) \/ intr[c]) /\ ncli'[c] = ncli[c] - 1
  BY DEF Pop, LockInv, TypeOK
<1>5. intr'[c] = (held[a] = {} /\ FlagOutside(a))
  BY <1>3, <1>4 DEF Restores
<1> QED BY <1>2, <1>3, <1>4, <1>5 DEF FlagOutside

\* Where the actor that moves, its phase and its interrupt flag may get to.
LEMMA PlaceAt ==
    ASSUME LockInv, NEW c \in Cpus, NEW a \in Actors, Moves(c, a)
    PROVE /\ a \in Cpus => phase'[a] \in {"none", "save", "sched", "done"}
          /\ a \in Threads => phase'[a] \in {"none", "cli", "create", "created"}
          /\ a \in Cpus => ~intr'[c]
          /\ a \in Threads /\ Pinned(a)' => ~intr'[c]
<1>1. a = On(c)
  BY MovesLocal
<1>2. /\ a \in Cpus => phase[a] \in {"none", "save", "sched", "done"} /\ ~intr[c]
      /\ a \in Threads => phase[a] \in {"none", "cli", "create", "created"}
      /\ a \in Threads /\ Pinned(a) => ~intr[c]
      /\ Cpus \cap Threads = {}
      /\ pc \in [Actors -> {"out"} \cup Acquiring \cup Releasing]
      /\ phase \in [Actors -> Phases] /\ intr \in [Cpus -> BOOLEAN]
      /\ held \in [Actors -> SUBSET Locks]
  BY <1>1, PinnedOff DEF LockInv, PlaceInv, On, InTrap, TypeOK
<1>3. LocalAt(a) /\ (pc[a] = "count" => ~intr[c])
  BY <1>1, CountFacts
<1> USE <1>2 DEF At, Goto, Pinned, cpuVars, lockVars
<1>4. CASE PushRead(c, a) BY <1>4 DEF PushRead
<1>5. CASE PushCli(c, a) BY <1>5 DEF PushCli
<1>6. CASE PushCount(c, a) BY <1>3, <1>6 DEF PushCount
<1>7. CASE HoldingLocked(c, a) BY <1>7 DEF HoldingLocked
<1>8. CASE HoldingCpu(c, a) BY <1>8 DEF HoldingCpu
<1>9. CASE Xchg(c, a) BY <1>9 DEF Xchg
<1>10. CASE Spin(c, a) BY <1>10 DEF Spin, vars, actorVars
<1>11. CASE Own(c, a) BY <1>11 DEF Own
<1>12. CASE UnlockLocked(c, a) BY <1>12 DEF UnlockLocked
<1>13. CASE UnlockCpu(c, a) BY <1>13 DEF UnlockCpu
<1>14. CASE Clear(c, a) BY <1>14 DEF Clear
<1>15. CASE Release(c, a) BY <1>15 DEF Release
<1>16. CASE Pop(c, a)
  <2>1. intr'[c] = (a \in Threads /\ phase[a] = "none" /\ held[a] = {})
    BY <1>16, PopFlag
  <2>2. phase[a] \in DOMAIN After /\ phase' = [phase EXCEPT ![a] = After[phase[a]]]
        /\ held' = held /\ pc' = [pc EXCEPT ![a] = "out"]
    BY <1>3, <1>16 DEF Pop, LocalAt, After
  <2> QED BY <2>1, <2>2 DEF After
<1>17. CASE CreateRead(c, a) BY <1>17 DEF CreateRead
<1>18. CASE CreateCli(c, a) BY <1>18 DEF CreateCli
<1>19. CASE CreateSti(c, a) BY <1>3, <1>19 DEF CreateSti, LocalAt
<1> QED BY <1>4, <1>5, <1>6, <1>7, <1>8, <1>9, <1>10, <1>11, <1>12, <1>13, <1>14,
           <1>15, <1>16, <1>17, <1>18, <1>19, MovesCases

LEMMA PlaceNext == ASSUME LockInv, Next PROVE PlaceInv'
<1>1. ASSUME NEW c \in Cpus, NEW a \in Actors, Moves(c, a) PROVE PlaceInv'
  <2> USE <1>1
  <2>1. /\ a = On(c) /\ run' = run
        /\ \A d \in Cpus \ {c} : intr'[d] = intr[d]
        /\ \A b \in Actors \ {a} :
              pc'[b] = pc[b] /\ held'[b] = held[b] /\ phase'[b] = phase[b]
        /\ \A d \in Cpus : InTrap(d)' = InTrap(d)
    BY MovesLocal, MovesStay
  <2>2. ASSUME NEW d \in Cpus
        PROVE /\ phase'[d] \in {"none", "save", "sched", "done"}
              /\ InTrap(d) => ~intr'[d]
              /\ ~InTrap(d) => pc'[d] = "out" /\ held'[d] = {}
    <3>1. CASE d = a
      <4>1. d = c /\ InTrap(d)
        BY <2>1, <3>1 DEF On, LockInv, TypeOK
      <4> QED BY <3>1, <4>1, PlaceAt
    <3>2. CASE d # a
      <4>1. d = c => ~InTrap(d)
        BY <2>1, <3>2 DEF On
      <4> QED BY <2>1, <3>2, <4>1 DEF LockInv, PlaceInv, Actors
    <3> QED BY <3>1, <3>2
  <2>3. ASSUME NEW t \in Threads
        PROVE /\ phase'[t] \in {"none", "cli", "create", "created"}
              /\ Pinned(t)' => \E d \in Cpus : run[d] = t /\ ~InTrap(d) /\ ~intr'[d]
    <3>1. CASE t = a
      <4>1. run[c] = t /\ ~InTrap(c)
        BY <2>1, <3>1 DEF On
      <4> QED BY <3>1, <4>1, PlaceAt
    <3>2. CASE t # a
      <4>1. Pinned(t)' = Pinned(t) /\ phase'[t] = phase[t]
        BY <2>1, <3>2 DEF Pinned, Actors
      <4>2. ASSUME Pinned(t) PROVE \E d \in Cpus : run[d] = t /\ ~InTrap(d) /\ ~intr'[d]
        <5>1. PICK d \in Cpus : run[d] = t /\ ~InTrap(d) /\ ~intr[d]
          BY <4>2 DEF LockInv, PlaceInv
        <5>2. d # c
          BY <2>1, <3>2, <5>1 DEF On
        <5> QED BY <2>1, <5>1, <5>2
      <4> QED BY <4>1, <4>2 DEF LockInv, PlaceInv
    <3> QED BY <3>1, <3>2
  <2> QED BY <2>1, <2>2, <2>3 DEF LockInv, PlaceInv
<1>2. ASSUME NEW c \in Cpus, Trap(c) PROVE PlaceInv'
  <2>1. \A t \in Threads : Pinned(t)' = Pinned(t)
    BY <1>2 DEF Trap, Pinned, LockInv, TypeOK, Actors
  <2> QED BY <1>2, <2>1 DEF Trap, LockInv, PlaceInv, InTrap, TypeOK, Actors, lockVars
<1>3. ASSUME NEW c \in Cpus, Resume(c) PROVE PlaceInv'
  <2>1. \A t \in Threads : Pinned(t)' = Pinned(t)
    BY <1>3 DEF Resume, Pinned, LockInv, TypeOK, Actors
  <2>2. \A d \in Cpus, e \in Cpus : run'[d] = run'[e] /\ run'[d] # Idle => d = e
    BY <1>3 DEF Resume, LockInv, PlaceInv, TypeOK
  <2>3. held[c] = {}
    BY <1>3 DEF Resume, LockInv, LocalInv, LocalAt, Actors
  <2>4. \A t \in Threads :
          Pinned(t)' => \E d \in Cpus : run'[d] = t /\ ~InTrap(d)' /\ ~intr'[d]
    <3> TAKE t \in Threads
    <3> HAVE Pinned(t)'
    <3>1. PICK d \in Cpus : run[d] = t /\ ~InTrap(d) /\ ~intr[d]
      BY <2>1 DEF LockInv, PlaceInv
    <3>2. d # c
      BY <1>3, <3>1 DEF Resume, InTrap
    <3> QED BY <1>3, <3>1, <3>2 DEF Resume, InTrap, LockInv, TypeOK
  <2> QED BY <1>3, <2>2, <2>3, <2>4 DEF Resume, LockInv, PlaceInv, InTrap, TypeOK, Actors,
          lockVars
<1> QED BY <1>1, <1>2, <1>3 DEF Next, Moves

-----------------------------------------------------------------------------
(* The local variables of the operations, and the counters of the CPUs. *)

LEMMA LocalMoves ==
    ASSUME LockInv, NEW c \in Cpus, NEW a \in Actors, Moves(c, a)
    PROVE LocalAt(a)'
<1>1. a = On(c) /\ LocalAt(a) /\ IsFiniteSet(held[a])
      /\ (pc[a] \in {"out", "cli"} /\ held[a] = {}
            => intr[c] = (a \in Threads /\ phase[a] \in {"none", "cli"}))
      /\ (ncli[c] > 0 => ~intr[c]) /\ (held[a] # {} => ncli[c] > 0)
  BY MovesLocal, CountFacts DEF Counted
<1>2. /\ pc \in [Actors -> {"out"} \cup Acquiring \cup Releasing]
      /\ phase \in [Actors -> Phases] /\ intr \in [Cpus -> BOOLEAN]
      /\ held \in [Actors -> SUBSET Locks] /\ lock \in [Actors -> Locks]
      /\ flag \in [Actors -> BOOLEAN] /\ Cpus \cap Threads = {}
      /\ a \in Threads => phase[a] \in {"none", "cli", "create", "created"}
      /\ a \in Cpus => phase[a] \in {"save", "sched", "done"}
  BY <1>1 DEF LockInv, PlaceInv, On, InTrap, TypeOK
<1> USE <1>1, <1>2 DEF At, Goto, LocalAt, FlagOutside, Acquiring, Releasing, Phases,
        cpuVars, lockVars
<1>3. CASE PushRead(c, a)
  <2>1. PICK l \in Locks : MayLock(a, l) /\ lock' = [lock EXCEPT ![a] = l]
    BY <1>3 DEF PushRead
  <2>2. /\ phase[a] \in {"none", "create", "save", "sched"} /\ l \notin held[a]
        /\ phase[a] # "none" => held[a] = {}
    BY <2>1 DEF MayLock
  <2>3. flag'[a] = intr[c] /\ pc'[a] = "cli" /\ held' = held /\ phase' = phase /\ pc[a] = "out"
        /\ lock'[a] = l
    BY <1>3, <2>1 DEF PushRead
  <2>4. intr[c] = (a \in Threads /\ phase[a] = "none" /\ held[a] = {})
    BY <2>2, <2>3
  <2> QED BY <2>2, <2>3, <2>4
<1>4. CASE PushCli(c, a) BY <1>4 DEF PushCli
<1>5. CASE PushCount(c, a) BY <1>5 DEF PushCount
<1>6. CASE HoldingLocked(c, a) BY <1>6 DEF HoldingLocked
<1>7. CASE HoldingCpu(c, a) BY <1>7 DEF HoldingCpu
<1>8. CASE Xchg(c, a) BY <1>8 DEF Xchg
<1>9. CASE Spin(c, a) BY <1>9 DEF Spin, vars, actorVars
<1>10. CASE Own(c, a)
  <2>1. /\ held'[a] = held[a] \cup {lock[a]} /\ pc'[a] = "out"
        /\ phase' = phase /\ lock' = lock /\ flag' = flag /\ pc[a] = "own"
    BY <1>10 DEF Own
  <2>2. IsFiniteSet(held'[a])
    BY <2>1, FS_AddElement
  <2> QED BY <2>1, <2>2
<1>11. CASE UnlockLocked(c, a) BY <1>11 DEF UnlockLocked
<1>12. CASE UnlockCpu(c, a) BY <1>12 DEF UnlockCpu
<1>13. CASE Clear(c, a) BY <1>13 DEF Clear
<1>14. CASE Release(c, a)
  <2>1. /\ held'[a] = held[a] \ {lock[a]} /\ pc'[a] = "pop"
        /\ phase' = phase /\ lock' = lock /\ flag' = flag /\ pc[a] = "release"
    BY <1>14 DEF Release
  <2>2. IsFiniteSet(held'[a])
    BY <2>1, FS_RemoveElement
  <2> QED BY <2>1, <2>2
<1>15. CASE Pop(c, a)
  <2>1. /\ held' = held /\ pc'[a] = "out" /\ phase'[a] = After[phase[a]]
        /\ pc[a] = "pop"
    BY <1>15 DEF Pop
  <2>2. /\ phase[a] \in DOMAIN After
        /\ phase[a] # "none" => held[a] = {}
    BY <2>1 DEF After
  <2> QED BY <2>1, <2>2 DEF After
<1>16. CASE CreateRead(c, a) BY <1>16 DEF CreateRead
<1>17. CASE CreateCli(c, a) BY <1>17 DEF CreateCli
<1>18. CASE CreateSti(c, a) BY <1>18 DEF CreateSti
<1> QED BY <1>3, <1>4, <1>5, <1>6, <1>7, <1>8, <1>9, <1>10, <1>11, <1>12, <1>13, <1>14,
           <1>15, <1>16, <1>17, <1>18, MovesCases

LEMMA LocalNext == ASSUME LockInv, Next PROVE LocalInv'
<1>1. ASSUME NEW c \in Cpus, NEW a \in Actors, Moves(c, a) PROVE LocalInv'
  <2>1. ASSUME NEW b \in Actors, b # a PROVE LocalAt(b)'
    BY <1>1, <2>1, MovesLocal DEF LocalAt, LockInv, LocalInv, FlagOutside
  <2> QED BY <1>1, <2>1, LocalMoves DEF LocalInv
<1>2. ASSUME NEW c \in Cpus, Trap(c) \/ Resume(c) PROVE LocalInv'
  <2>1. ASSUME NEW b \in Actors PROVE LocalAt(b)'
    <3>1. LocalAt(b) /\ UNCHANGED <<pc, lock, flag, held>>
      BY <1>2 DEF LockInv, LocalInv, Trap, Resume
    <3>2. CASE b # c
      BY <1>2, <3>1, <3>2 DEF LocalAt, FlagOutside, Trap, Resume, LockInv, TypeOK
    <3>3. CASE b = c
      <4>1. pc[b] = "out" /\ held[b] = {} /\ IsFiniteSet(held[b])
        BY <1>2, <3>1, <3>3 DEF LocalAt, Trap, Resume, LockInv, PlaceInv
      <4> QED BY <3>1, <4>1 DEF LocalAt, Acquiring
    <3> QED BY <3>2, <3>3
  <2> QED BY <2>1 DEF LocalInv
<1> QED BY <1>1, <1>2 DEF Next, Moves

LEMMA CountMoves ==
    ASSUME LockInv, NEW c \in Cpus, NEW a \in Actors, Moves(c, a)
    PROVE CountAt(c, a)'
<1>1. a = On(c) /\ a # Idle
  BY MovesLocal DEF Actors
<1>2. /\ ncli[c] \in Nat /\ Cardinality(held[a]) \in Nat /\ IsFiniteSet(held[a])
      /\ Cardinality(held[a]) = 0 <=> held[a] = {}
      /\ ncli[c] = Cardinality(held[a]) + (IF pc[a] \in Counted THEN 1 ELSE 0)
      /\ ncli[c] > 0 => intena[c] = FlagOutside(a) /\ ~intr[c]
      /\ pc[a] \in {"out", "cli"} /\ held[a] = {}
            => intr[c] = (a \in Threads /\ phase[a] \in {"none", "cli"})
      /\ pc[a] = "count" => ~intr[c]
      /\ LocalAt(a)
  BY <1>1, CountFacts
<1>3. /\ pc \in [Actors -> {"out"} \cup Acquiring \cup Releasing]
      /\ phase \in [Actors -> Phases] /\ intr \in [Cpus -> BOOLEAN]
      /\ held \in [Actors -> SUBSET Locks] /\ lock \in [Actors -> Locks]
      /\ flag \in [Actors -> BOOLEAN] /\ ncli \in [Cpus -> Nat]
      /\ intena \in [Cpus -> BOOLEAN] /\ Cpus \cap Threads = {}
  BY DEF LockInv, TypeOK
<1> USE <1>1, <1>3 DEF At, Goto, CountAt, FlagOutside, Counted, cpuVars, lockVars
<1>4. CASE PushRead(c, a) BY <1>2, <1>4 DEF PushRead
<1>5. CASE PushCli(c, a) BY <1>2, <1>5 DEF PushCli
<1>6. CASE PushCount(c, a)
  <2>1. /\ pc[a] = "count" /\ pc'[a] = "held1" /\ ncli'[c] = ncli[c] + 1
        /\ intena'[c] = IF ncli[c] = 0 THEN flag[a] ELSE intena[c]
        /\ UNCHANGED <<intr, held, phase>>
    BY <1>6 DEF PushCount, Outermost, Nested
  <2>2. ncli[c] = 0 => held[a] = {} /\ flag[a] = FlagOutside(a)
    BY <1>2, <2>1 DEF LocalAt
  <2> QED BY <1>2, <2>1, <2>2
<1>7. CASE HoldingLocked(c, a) BY <1>2, <1>7 DEF HoldingLocked
<1>8. CASE HoldingCpu(c, a) BY <1>2, <1>8 DEF HoldingCpu
<1>9. CASE Xchg(c, a) BY <1>2, <1>9 DEF Xchg
<1>10. CASE Spin(c, a) BY <1>2, <1>10 DEF Spin, vars, actorVars
<1>11. CASE Own(c, a)
  <2>1. /\ pc[a] = "own" /\ pc'[a] = "out" /\ held'[a] = held[a] \cup {lock[a]}
        /\ UNCHANGED <<intr, ncli, intena, phase>>
    BY <1>11 DEF Own
  <2>2. IsFiniteSet(held[a]) /\ lock[a] \notin held[a]
    BY <1>2, <2>1 DEF LocalAt, Acquiring
  <2>3. Cardinality(held[a] \cup {lock[a]}) = Cardinality(held[a]) + 1
    BY ONLY <2>2, FS_AddElement
  <2> QED BY <1>2, <2>1, <2>2, <2>3
<1>12. CASE UnlockLocked(c, a) BY <1>2, <1>12 DEF UnlockLocked
<1>13. CASE UnlockCpu(c, a) BY <1>2, <1>13 DEF UnlockCpu
<1>14. CASE Clear(c, a) BY <1>2, <1>14 DEF Clear
<1>15. CASE Release(c, a)
  <2>1. /\ pc[a] = "release" /\ pc'[a] = "pop" /\ held'[a] = held[a] \ {lock[a]}
        /\ UNCHANGED <<intr, ncli, intena, phase>>
    BY <1>15 DEF Release
  <2>2. IsFiniteSet(held[a]) /\ lock[a] \in held[a]
    BY <1>2, <2>1 DEF LocalAt
  <2>3. Cardinality(held[a] \ {lock[a]}) = Cardinality(held[a]) - 1
    BY ONLY <2>2, FS_RemoveElement
  <2> QED BY <1>2, <2>1, <2>2, <2>3
<1>16. CASE Pop(c, a)
  <2>1. /\ pc[a] = "pop" /\ pc'[a] = "out" /\ phase'[a] = After[phase[a]]
        /\ UNCHANGED <<held, intena>>
    BY <1>16 DEF Pop
  <2>2. /\ intr'[c] = (FlagOutside(a) /\ held[a] = {})
        /\ ncli'[c] = Cardinality(held[a]) /\ ncli[c] = Cardinality(held[a]) + 1
    BY <1>2, <1>16, PopFlag
  <2>3. /\ phase[a] \in DOMAIN After
        /\ phase[a] # "none" => held[a] = {}
    BY <1>2, <2>1 DEF LocalAt, After
  <2>4. FlagOutside(a)' = FlagOutside(a)
    BY <2>1, <2>3 DEF After
  <2>5. (a \in Threads /\ phase'[a] \in {"none", "cli"}) = FlagOutside(a)
    BY <2>1, <2>3 DEF After
  <2> QED BY <1>2, <2>1, <2>2, <2>4, <2>5
<1>17. CASE CreateRead(c, a) BY <1>2, <1>17 DEF CreateRead
<1>18. CASE CreateCli(c, a) BY <1>2, <1>18 DEF CreateCli, LocalAt
<1>19. CASE CreateSti(c, a)
  <2>1. phase[a] = "created" /\ held[a] = {} /\ a \in Threads
    BY <1>2, <1>19 DEF CreateSti, LocalAt, LockInv, PlaceInv, Actors
  <2>2. /\ intr'[c] = TRUE /\ phase'[a] = "none" /\ pc'[a] = "out" /\ pc[a] = "out"
        /\ UNCHANGED <<ncli, intena, held>>
    BY <1>19 DEF CreateSti
  <2>3. ncli[c] = 0 /\ Cardinality(held[a]) = 0
    BY <1>2, <2>1, <2>2
  <2>4. ncli'[c] = 0 /\ Cardinality(held'[a]) = 0 /\ pc'[a] \notin Counted
    BY <2>2, <2>3
  <2>5. intr'[c] = (a \in Threads /\ phase'[a] \in {"none", "cli"})
    BY <2>1, <2>2
  <2> QED BY <1>2, <2>2, <2>4, <2>5
<1> QED BY <1>4, <1>5, <1>6, <1>7, <1>8, <1>9, <1>10, <1>11, <1>12, <1>13, <1>14,
           <1>15, <1>16, <1>17, <1>18, <1>19, MovesCases

LEMMA CountNext == ASSUME LockInv, Next PROVE CountInv'
<1>1. ASSUME NEW c \in Cpus, NEW a \in Actors, Moves(c, a) PROVE CountInv'
  <2>1. \A d \in Cpus : On(d)' = On(d)
    BY <1>1, MovesStay
  <2>2. a = On(c) /\ CountAt(c, a)'
    BY <1>1, MovesLocal, CountMoves
  <2>3. ASSUME NEW d \in Cpus, d # c PROVE CountAt(d, On(d))'
    <3>1. CountAt(d, On(d))
      BY DEF LockInv, CountInv
    <3>2. CASE On(d) = Idle
      <4>1. ncli'[d] = ncli[d] /\ intr'[d] = intr[d]
        BY <1>1, <2>3, MovesLocal
      <4> QED BY <2>1, <3>1, <3>2, <4>1 DEF CountAt
    <3>3. CASE On(d) # Idle
      <4>1. On(d) \in Actors \ {a}
        BY <2>2, <2>3, <3>3, OnUnique, OnActor DEF LockInv
      <4>2. /\ ncli'[d] = ncli[d] /\ intr'[d] = intr[d] /\ intena'[d] = intena[d]
            /\ pc'[On(d)] = pc[On(d)] /\ held'[On(d)] = held[On(d)]
            /\ phase'[On(d)] = phase[On(d)]
        BY <1>1, <2>3, <4>1, MovesLocal
      <4> QED BY <2>1, <3>1, <3>3, <4>2 DEF CountAt, FlagOutside
    <3> QED BY <3>2, <3>3
  <2> QED BY <2>1, <2>2, <2>3 DEF CountInv
<1>2. ASSUME NEW c \in Cpus, Trap(c) PROVE CountInv'
  <2>1. /\ ~InTrap(c) /\ intr[c] /\ intr' = [intr EXCEPT ![c] = FALSE]
        /\ phase'[c] \in {"save", "sched"} /\ \A b \in Actors \ {c} : phase'[b] = phase[b]
        /\ UNCHANGED <<ncli, intena, run, pc, held>>
    BY <1>2 DEF Trap, LockInv, TypeOK, Actors
  <2>2. /\ On(c)' = c
        /\ \A d \in Cpus \ {c} : On(d)' = On(d)
    BY <2>1 DEF On, InTrap, Actors
  <2>3. pc[c] = "out" /\ held[c] = {}
    BY <2>1 DEF LockInv, PlaceInv
  <2>4. ncli[c] = 0
    <3>1. CASE On(c) = Idle
      BY <3>1 DEF LockInv, CountInv, CountAt
    <3>2. CASE On(c) # Idle
      <4>1. On(c) \in Actors
        BY <3>2, OnActor DEF LockInv
      <4>2. ncli[c] \in Nat /\ (ncli[c] > 0 => ~intr[c])
        BY <4>1, CountFacts
      <4> QED BY <2>1, <4>2
    <3> QED BY <3>1, <3>2
  <2>5. CountAt(c, c)'
    <3>1. Cardinality(held'[c]) = 0
      BY <2>1, <2>3, FS_EmptySet
    <3>2. intr'[c] = FALSE /\ pc'[c] = "out" /\ ncli'[c] = 0 /\ c \notin Threads /\ c # Idle
      BY <2>1, <2>3, <2>4 DEF LockInv, TypeOK
    <3>3. intr'[c] = (c \in Threads /\ phase'[c] \in {"none", "cli"})
      BY <3>2
    <3> QED BY <3>1, <3>2, <3>3 DEF CountAt, Counted
  <2>6. ASSUME NEW d \in Cpus, d # c PROVE CountAt(d, On(d))'
    <3>1. CountAt(d, On(d)) /\ On(d) \in Actors \cup {Idle} /\ On(d) # c
      BY <2>6, OnActor DEF LockInv, CountInv, On, TypeOK
    <3>2. intr'[d] = intr[d] /\ On(d)' = On(d)
          /\ (On(d) # Idle => phase'[On(d)] = phase[On(d)])
      BY <2>1, <2>2, <2>6, <3>1 DEF LockInv, TypeOK
    <3> QED BY <2>1, <3>1, <3>2 DEF CountAt, FlagOutside
  <2> QED BY <2>2, <2>5, <2>6 DEF CountInv
<1>3. ASSUME NEW c \in Cpus, Resume(c) PROVE CountInv'
  <2>1. PICK t \in Threads \cup {Idle} :
          /\ t = Idle \/ \A d \in Cpus \ {c} : run[d] # t
          /\ run' = [run EXCEPT ![c] = t]
    BY <1>3 DEF Resume
  <2>2. /\ phase[c] = "done" /\ pc[c] = "out" /\ intr' = [intr EXCEPT ![c] = TRUE]
        /\ phase'[c] = "none" /\ \A b \in Actors \ {c} : phase'[b] = phase[b]
        /\ UNCHANGED <<ncli, intena, pc, held>>
    BY <1>3 DEF Resume, LockInv, TypeOK, Actors
  <2>3. /\ On(c) = c /\ On(c)' = t
        /\ \A d \in Cpus \ {c} : On(d)' = On(d)
    BY <2>1, <2>2 DEF On, InTrap, Actors, LockInv, TypeOK
  <2>4. ncli[c] = 0
    <3>1. held[c] = {}
      BY <2>2 DEF LockInv, LocalInv, LocalAt, Actors
    <3> QED BY <2>2, <2>3, <3>1, CountFacts DEF Counted, Actors
  <2>5. t # Idle => ~Pinned(t)
    <3> SUFFICES ASSUME t # Idle, Pinned(t) PROVE FALSE
      OBVIOUS
    <3>1. PICK d \in Cpus : run[d] = t /\ ~InTrap(d)
      BY DEF LockInv, PlaceInv
    <3> QED BY <2>1, <2>2, <3>1 DEF InTrap
  <2>6. CountAt(c, t)'
    <3>1. intr'[c] = TRUE /\ ncli'[c] = 0
      BY <2>2, <2>4 DEF LockInv, TypeOK
    <3>2. CASE t = Idle
      BY <3>1, <3>2 DEF CountAt
    <3>3. CASE t # Idle
      <4>1. pc[t] \in {"out", "cli"} /\ held[t] = {} /\ phase[t] \in {"none", "cli"}
            /\ t \in Threads /\ t # c
        BY <2>5, <3>3 DEF Pinned, LockInv, PlaceInv
      <4>2. Cardinality(held'[t]) = 0 /\ pc'[t] \notin Counted /\ pc'[t] # "count"
        BY <2>2, <4>1, FS_EmptySet DEF Counted
      <4>3. intr'[c] = (t \in Threads /\ phase'[t] \in {"none", "cli"})
        BY <2>2, <3>1, <4>1 DEF Actors
      <4> QED BY <3>1, <3>3, <4>2, <4>3 DEF CountAt
    <3> QED BY <3>2, <3>3
  <2>7. ASSUME NEW d \in Cpus, d # c PROVE CountAt(d, On(d))'
    <3>1. CountAt(d, On(d)) /\ On(d) \in Actors \cup {Idle} /\ On(d) # c
      BY <2>7, OnActor DEF LockInv, CountInv, On, TypeOK
    <3>2. intr'[d] = intr[d] /\ On(d)' = On(d)
          /\ (On(d) # Idle => phase'[On(d)] = phase[On(d)])
      BY <2>2, <2>3, <2>7, <3>1 DEF LockInv, TypeOK
    <3> QED BY <2>2, <3>1, <3>2 DEF CountAt, FlagOutside
  <2> QED BY <2>3, <2>6, <2>7 DEF CountInv
<1> QED BY <1>1, <1>2, <1>3 DEF Next, Moves

-----------------------------------------------------------------------------
(* The locks. *)

\* What a step does to the locks its actor holds and to locked.
HoldsKept == \A a \in Actors, l \in Locks : Holds(a, l)' = Holds(a, l)

LEMMA HoldsMoves ==
    ASSUME LockInv, NEW c \in Cpus, NEW a \in Actors, Moves(c, a)
    PROVE \/ HoldsKept /\ locked' = locked
          \/ Xchg(c, a) \/ Release(c, a)
<1>1. ASSUME ~Xchg(c, a), ~Release(c, a)
      PROVE locked' = locked /\ \A l \in Locks : Holds(a, l)' = Holds(a, l)
  <2> USE DEF LockInv, TypeOK, At, Goto, cpuVars, lockVars, Holds
  <2>1. CASE PushRead(c, a) BY <2>1 DEF PushRead
  <2>2. CASE PushCli(c, a) BY <2>2 DEF PushCli
  <2>3. CASE PushCount(c, a) BY <2>3 DEF PushCount
  <2>4. CASE HoldingLocked(c, a) BY <2>4 DEF HoldingLocked
  <2>5. CASE HoldingCpu(c, a) BY <2>5 DEF HoldingCpu
  <2>6. CASE Spin(c, a) BY <2>6 DEF Spin, vars, actorVars
  <2>7. CASE Own(c, a) BY <2>7 DEF Own
  <2>8. CASE UnlockLocked(c, a) BY <2>8 DEF UnlockLocked
  <2>9. CASE UnlockCpu(c, a) BY <2>9 DEF UnlockCpu
  <2>10. CASE Clear(c, a) BY <2>10 DEF Clear
  <2>11. CASE Pop(c, a) BY <2>11 DEF Pop
  <2>12. CASE CreateRead(c, a) BY <2>12 DEF CreateRead
  <2>13. CASE CreateCli(c, a) BY <2>13 DEF CreateCli
  <2>14. CASE CreateSti(c, a) BY <2>14 DEF CreateSti
  <2> QED BY <1>1, <2>1, <2>2, <2>3, <2>4, <2>5, <2>6, <2>7, <2>8, <2>9, <2>10, <2>11,
             <2>12, <2>13, <2>14, MovesCases
<1>2. \A b \in Actors \ {a}, l \in Locks : Holds(b, l)' = Holds(b, l)
  BY MovesLocal DEF Holds
<1> QED BY <1>1, <1>2 DEF HoldsKept

\* locked and the holders agree, and there is one holder at most.
LockedInv == \A l \in Locks : locked[l] <=> \E a \in Actors : Holds(a, l)

LEMMA MutexNext == ASSUME LockInv, Next PROVE MutualExclusion' /\ LockedInv'
<1>0. MutualExclusion /\ LockedInv
  BY DEF LockInv, OwnerInv, LockedInv
<1>1. ASSUME NEW c \in Cpus, NEW a \in Actors, Xchg(c, a)
      PROVE MutualExclusion' /\ LockedInv'
  <2>1. /\ ~locked[lock[a]] /\ locked' = [locked EXCEPT ![lock[a]] = TRUE]
        /\ pc' = [pc EXCEPT ![a] = "own"] /\ UNCHANGED <<held, lock>> /\ pc[a] = "spin"
        /\ lock[a] \in Locks
    BY <1>1 DEF Xchg, Free, At, Goto, LockInv, TypeOK
  <2>2. \A b \in Actors, l \in Locks :
          Holds(b, l)' <=> Holds(b, l) \/ (b = a /\ l = lock[a])
    BY <2>1 DEF Holds, LockInv, TypeOK
  <2>3. \A b \in Actors : ~Holds(b, lock[a])
    BY <1>0, <2>1 DEF LockedInv
  <2>4. MutualExclusion'
    BY <1>0, <2>2, <2>3 DEF MutualExclusion
  <2>5. LockedInv'
    BY <1>0, <2>1, <2>2 DEF LockedInv, LockInv, TypeOK
  <2> QED BY <2>4, <2>5
<1>2. ASSUME NEW c \in Cpus, NEW a \in Actors, Release(c, a)
      PROVE MutualExclusion' /\ LockedInv'
  <2>1. /\ locked' = [locked EXCEPT ![lock[a]] = FALSE]
        /\ pc' = [pc EXCEPT ![a] = "pop"] /\ lock' = lock /\ pc[a] = "release"
        /\ held' = [held EXCEPT ![a] = held[a] \ {lock[a]}]
        /\ lock[a] \in held[a] /\ lock[a] \in Locks
    BY <1>2 DEF Release, Freed, At, Goto, LockInv, TypeOK, LocalInv, LocalAt
  <2>2. \A b \in Actors, l \in Locks :
          Holds(b, l)' <=> Holds(b, l) /\ ~(b = a /\ l = lock[a])
    BY <2>1 DEF Holds, LockInv, TypeOK
  <2>3. \A b \in Actors : Holds(b, lock[a]) => b = a
    BY <1>0, <2>1 DEF MutualExclusion, Holds
  <2>4. MutualExclusion'
    BY <1>0, <2>2 DEF MutualExclusion
  <2>5. LockedInv'
    BY <1>0, <2>1, <2>2, <2>3 DEF LockedInv, LockInv, TypeOK
  <2> QED BY <2>4, <2>5
<1>3. ASSUME HoldsKept, locked' = locked PROVE MutualExclusion' /\ LockedInv'
  BY <1>0, <1>3 DEF HoldsKept, MutualExclusion, LockedInv
<1>4. ASSUME NEW c \in Cpus, Trap(c) \/ Resume(c) PROVE HoldsKept /\ locked' = locked
  BY <1>4 DEF Trap, Resume, HoldsKept, Holds, lockVars
<1> QED BY <1>1, <1>2, <1>3, <1>4, HoldsMoves DEF Next, Moves

\* Other CPUs' claims to a lock are untouched by a step.
LEMMA OwnerOthers ==
    ASSUME LockInv, NEW c \in Cpus, NEW a \in Actors, Moves(c, a),
           NEW d \in Cpus, d # c, NEW l \in Locks
    PROVE OwnedBy(d, l)' <=> OwnedBy(d, l)
<1>1. On(d)' = On(d) /\ a = On(c) /\ On(d) \in Actors \cup {Idle}
  BY MovesStay, MovesLocal, OnActor DEF LockInv
<1>2. On(d) # Idle => On(d) # a
  BY <1>1, OnUnique DEF LockInv
<1> QED BY <1>1, <1>2, MovesLocal DEF OwnedBy

LEMMA OwnerNext ==
    ASSUME LockInv, Next PROVE \A d \in Cpus, l \in Locks : (owner[l] = d <=> OwnedBy(d, l))'
<1>0. \A d \in Cpus, l \in Locks : owner[l] = d <=> OwnedBy(d, l)
  BY DEF LockInv, OwnerInv
<1>1. ASSUME NEW c \in Cpus, NEW a \in Actors, Moves(c, a)
      PROVE \A d \in Cpus, l \in Locks : (owner[l] = d <=> OwnedBy(d, l))'
  <2>1. a = On(c) /\ On(c)' = On(c) /\ a # Idle
    BY <1>1, MovesStay, MovesLocal DEF Actors
  <2>2. /\ pc \in [Actors -> {"out"} \cup Acquiring \cup Releasing]
        /\ held \in [Actors -> SUBSET Locks] /\ lock \in [Actors -> Locks]
        /\ owner \in [Locks -> Cpus \cup {Idle}]
    BY DEF LockInv, TypeOK
  <2>3. \A d \in Cpus \ {c}, l \in Locks : Holds(a, l) => ~OwnedBy(d, l)
    <3> TAKE d \in Cpus \ {c}, l \in Locks
    <3> SUFFICES ASSUME Holds(a, l), OwnedBy(d, l) PROVE FALSE
      OBVIOUS
    <3>1. On(d) \in Actors /\ Holds(On(d), l)
      BY OnActor DEF OwnedBy, Holds, LockInv
    <3>2. On(d) = a
      BY <3>1 DEF LockInv, MutualExclusion
    <3> QED BY <2>1, <3>2, OnUnique DEF LockInv
  <2>4. CASE Own(c, a)
    <3>1. /\ owner' = [owner EXCEPT ![lock[a]] = c] /\ pc[a] = "own" /\ pc'[a] = "out"
          /\ held'[a] = held[a] \cup {lock[a]}
      BY <2>2, <2>4 DEF Own, At, Goto
    <3>2. Holds(a, lock[a]) /\ lock[a] \in Locks
      BY <2>2, <3>1 DEF Holds
    <3>3. ASSUME NEW l \in Locks PROVE owner'[l] = c <=> OwnedBy(c, l)'
      BY <1>0, <2>1, <2>2, <3>1, <3>2 DEF OwnedBy
    <3>4. ASSUME NEW d \in Cpus, d # c, NEW l \in Locks PROVE owner'[l] = d <=> OwnedBy(d, l)
      BY <1>0, <2>2, <2>3, <3>1, <3>2, <3>4
    <3> QED BY <1>1, <3>3, <3>4, OwnerOthers
  <2>5. CASE Clear(c, a)
    <3>1. /\ owner' = [owner EXCEPT ![lock[a]] = Idle] /\ pc[a] = "clear" /\ pc'[a] = "release"
          /\ held' = held /\ lock' = lock /\ lock[a] \in Locks
      BY <2>2, <2>5 DEF Clear, At, Goto, OwnerCleared
    <3>2. lock[a] \in held[a] /\ Holds(a, lock[a]) /\ Idle \notin Cpus
      BY <3>1 DEF LockInv, LocalInv, LocalAt, Holds
    <3>3. ASSUME NEW l \in Locks PROVE owner'[l] = c <=> OwnedBy(c, l)'
      BY <1>0, <2>1, <2>2, <3>1, <3>2 DEF OwnedBy
    <3>4. ASSUME NEW d \in Cpus, d # c, NEW l \in Locks PROVE owner'[l] = d <=> OwnedBy(d, l)
      BY <1>0, <2>2, <2>3, <3>1, <3>2, <3>4
    <3> QED BY <1>1, <3>3, <3>4, OwnerOthers
  <2>6. CASE owner' = owner /\ \A l \in Locks : OwnedBy(c, l)' <=> OwnedBy(c, l)
    BY <1>0, <1>1, <2>6, OwnerOthers
  <2>7. CASE Release(c, a)
    <3>1. /\ owner' = owner /\ pc[a] = "release" /\ pc'[a] = "pop"
          /\ held'[a] = held[a] \ {lock[a]} /\ lock' = lock
      BY <2>2, <2>7 DEF Release, At, Goto
    <3>2. \A l \in Locks : OwnedBy(c, l)' <=> OwnedBy(c, l)
      BY <2>1, <3>1 DEF OwnedBy
    <3> QED BY <2>6, <3>1, <3>2
  <2>8. CASE ~Own(c, a) /\ ~Clear(c, a) /\ ~Release(c, a)
    <3>1. /\ owner' = owner /\ held' = held
          /\ pc[a] # "release" /\ pc'[a] # "release"
      <4> USE <2>2 DEF At, Goto, cpuVars, lockVars
      <4>1. CASE PushRead(c, a) BY <4>1 DEF PushRead
      <4>2. CASE PushCli(c, a) BY <4>2 DEF PushCli
      <4>3. CASE PushCount(c, a) BY <4>3 DEF PushCount
      <4>4. CASE HoldingLocked(c, a) BY <4>4 DEF HoldingLocked
      <4>5. CASE HoldingCpu(c, a) BY <4>5 DEF HoldingCpu
      <4>6. CASE Xchg(c, a) BY <4>6 DEF Xchg
      <4>7. CASE Spin(c, a) BY <4>7 DEF Spin, vars, actorVars
      <4>8. CASE UnlockLocked(c, a) BY <4>8 DEF UnlockLocked
      <4>9. CASE UnlockCpu(c, a) BY <4>9 DEF UnlockCpu
      <4>10. CASE Pop(c, a) BY <4>10 DEF Pop
      <4>11. CASE CreateRead(c, a) BY <4>11 DEF CreateRead
      <4>12. CASE CreateCli(c, a) BY <4>12 DEF CreateCli
      <4>13. CASE CreateSti(c, a) BY <4>13 DEF CreateSti
      <4> QED BY <1>1, <2>8, <4>1, <4>2, <4>3, <4>4, <4>5, <4>6, <4>7, <4>8, <4>9, <4>10,
                 <4>11, <4>12, <4>13, MovesCases
    <3>2. \A l \in Locks : OwnedBy(c, l)' <=> OwnedBy(c, l)
      BY <2>1, <3>1 DEF OwnedBy
    <3> QED BY <2>6, <3>1, <3>2
  <2> QED BY <2>4, <2>5, <2>7, <2>8
<1>2. ASSUME NEW c \in Cpus, Trap(c) \/ Resume(c)
      PROVE \A d \in Cpus, l \in Locks : (owner[l] = d <=> OwnedBy(d, l))'
  <2>1. UNCHANGED <<owner, pc, lock, held>> /\ \A d \in Cpus \ {c} : On(d)' = On(d)
    BY <1>2 DEF Trap, Resume, lockVars, On, InTrap, LockInv, TypeOK, Actors
  <2>2. ASSUME NEW d \in Cpus, d # c, NEW l \in Locks PROVE OwnedBy(d, l)' <=> OwnedBy(d, l)
    BY <2>1, <2>2 DEF OwnedBy
  <2>3. \A l \in Locks : ~OwnedBy(c, l) /\ ~OwnedBy(c, l)'
    <3>1. CASE Trap(c)
      <4>1. ~InTrap(c) /\ intr[c] /\ On(c)' = c
        BY <3>1 DEF Trap, On, InTrap, LockInv, TypeOK, Actors
      <4>2. held[c] = {} /\ On(c) \in Threads \cup {Idle}
        BY <4>1 DEF LockInv, PlaceInv, On, TypeOK
      <4>3. On(c) # Idle => held[On(c)] = {}
        BY <4>1, <4>2, PinnedOff DEF Pinned
      <4> QED BY <2>1, <4>1, <4>2, <4>3 DEF OwnedBy
    <3>2. CASE Resume(c)
      <4>1. PICK t \in Threads \cup {Idle} :
              /\ t = Idle \/ \A d \in Cpus \ {c} : run[d] # t
              /\ run' = [run EXCEPT ![c] = t]
        BY <3>2 DEF Resume
      <4>2. InTrap(c) /\ On(c) = c /\ On(c)' = t
        BY <3>2, <4>1 DEF Resume, On, InTrap, LockInv, TypeOK, Actors
      <4>3. held[c] = {}
        BY <3>2 DEF Resume, LockInv, LocalInv, LocalAt, Actors
      <4>4. t # Idle => held[t] = {}
        <5> SUFFICES ASSUME t # Idle, Pinned(t) PROVE FALSE
          BY DEF Pinned
        <5>1. PICK d \in Cpus : run[d] = t /\ ~InTrap(d)
          BY DEF LockInv, PlaceInv
        <5> QED BY <4>1, <4>2, <5>1
      <4> QED BY <2>1, <4>2, <4>3, <4>4 DEF OwnedBy
    <3> QED BY <1>2, <3>1, <3>2
  <2> QED BY <1>0, <2>1, <2>2, <2>3
<1> QED BY <1>1, <1>2 DEF Next, Moves

\* No step panics: a CPU finds its own name in a lock exactly when it is the
\* one that holds it.
LEMMA PanicNext == ASSUME LockInv, Next PROVE ~panicked'
<1>1. ASSUME NEW c \in Cpus, NEW a \in Actors, HoldingCpu(c, a) PROVE ~panicked'
  <2>1. a = On(c) /\ pc[a] = "held2" /\ lock[a] \in Locks
    BY <1>1 DEF HoldingCpu, At, LockInv, TypeOK
  <2>2. lock[a] \notin held[a]
    BY <2>1 DEF LockInv, LocalInv, LocalAt, Acquiring
  <2> QED BY <1>1, <2>1, <2>2 DEF HoldingCpu, LockInv, OwnerInv, OwnedBy
<1>2. ASSUME NEW c \in Cpus, NEW a \in Actors, UnlockLocked(c, a) PROVE ~panicked'
  <2>1. PICK l \in held[a] : panicked' = ~locked[l]
    BY <1>2 DEF UnlockLocked
  <2>2. l \in Locks /\ Holds(a, l)
    BY DEF LockInv, TypeOK, Holds
  <2> QED BY <2>1, <2>2 DEF LockInv, OwnerInv
<1>3. ASSUME NEW c \in Cpus, NEW a \in Actors, UnlockCpu(c, a) PROVE ~panicked'
  <2>1. a = On(c) /\ pc[a] = "rel2" /\ lock[a] \in Locks /\ a # Idle
    BY <1>3 DEF UnlockCpu, At, LockInv, TypeOK, Actors
  <2>2. lock[a] \in held[a]
    BY <2>1 DEF LockInv, LocalInv, LocalAt
  <2>3. owner[lock[a]] = c
    BY <2>1, <2>2 DEF LockInv, OwnerInv, OwnedBy
  <2> QED BY <1>3, <2>3 DEF UnlockCpu
<1>4. ASSUME NEW c \in Cpus, NEW a \in Actors, Pop(c, a) PROVE ~panicked'
  <2>1. ~intr[c] /\ ncli[c] >= 1 /\ ncli[c] \in Nat
    BY <1>4, PopFlag DEF LockInv, TypeOK
  <2>2. ~(ncli[c] < 1)
    BY <2>1
  <2>3. panicked' = (intr[c] \/ ncli[c] < 1)
    BY <1>4 DEF Pop
  <2> QED BY <2>1, <2>2, <2>3
<1>5. ASSUME NEW c \in Cpus, NEW a \in Actors, Moves(c, a),
             ~HoldingCpu(c, a), ~UnlockLocked(c, a), ~UnlockCpu(c, a), ~Pop(c, a)
      PROVE panicked' = panicked
  BY <1>5, MovesCases DEF PushRead, PushCli, PushCount, HoldingLocked, Xchg, Spin, Own, Clear,
     Release, CreateRead, CreateCli, CreateSti, vars
<1>6. ASSUME NEW c \in Cpus, Trap(c) \/ Resume(c) PROVE panicked' = panicked
  BY <1>6 DEF Trap, Resume
<1> QED BY <1>1, <1>2, <1>3, <1>4, <1>5, <1>6 DEF Next, Moves, LockInv

-----------------------------------------------------------------------------
(* The theorems. *)

LEMMA LockInit == ASSUME Init PROVE LockInv
<1> USE DEF Init
<1>1. TypeOK
  BY DEF TypeOK, Actors, Phases
<1>2. \A c \in Cpus : On(c) = Idle /\ ~InTrap(c)
  BY DEF On, InTrap, Actors
<1>3. \A a \in Actors, l \in Locks : ~Holds(a, l)
  BY DEF Holds
<1>4. PlaceInv
  BY <1>2 DEF PlaceInv, Pinned, Actors, InTrap
<1>5. CountInv
  BY <1>2 DEF CountInv, CountAt
<1>6. LocalInv
  BY FS_EmptySet DEF LocalInv, LocalAt, Acquiring
<1>7. OwnerInv
  BY <1>2, <1>3 DEF OwnerInv, OwnedBy
<1>8. MutualExclusion
  BY <1>3 DEF MutualExclusion
<1> QED BY <1>1, <1>4, <1>5, <1>6, <1>7, <1>8 DEF LockInv

LEMMA LockNext == ASSUME LockInv, [Next]_vars PROVE LockInv'
<1>1. CASE Next
  BY <1>1, TypeNext, PlaceNext, LocalNext, CountNext, MutexNext, OwnerNext, PanicNext
     DEF LockInv, OwnerInv, LockedInv
<1>2. CASE UNCHANGED vars
  BY <1>2 DEF vars, cpuVars, lockVars, actorVars, LockInv, TypeOK, MutualExclusion, Holds,
     PlaceInv, InTrap, Pinned, CountInv, CountAt, On, FlagOutside, LocalInv, LocalAt,
     OwnerInv, OwnedBy
<1> QED BY <1>1, <1>2

THEOREM LockInvariant == Spec => []LockInv
<1> QED BY LockInit, LockNext, PTL DEF Spec

\* kmt_spin_lock and kmt_spin_unlock exclude one another, with types intact.
THEOREM LockMutualExclusion == Spec => [](TypeOK /\ MutualExclusion)
<1>1. LockInv => TypeOK /\ MutualExclusion
  BY DEF LockInv
<1> QED BY <1>1, LockInvariant, PTL

\* "acquire", "release" and "popcli" never panic.
THEOREM LockNeverPanics == Spec => []NoPanic
<1>1. LockInv => NoPanic
  BY DEF LockInv, NoPanic
<1> QED BY <1>1, LockInvariant, PTL

\* The holder of a lock is executing with interrupts off.
THEOREM HolderNotPreempted == Spec => []HolderKeepsCpu
<1>1. LockInv => HolderKeepsCpu
  <2> SUFFICES ASSUME LockInv, NEW a \in Actors, NEW l \in Locks, Holds(a, l)
               PROVE \E c \in Cpus : On(c) = a /\ ~intr[c]
    BY DEF HolderKeepsCpu
  <2>1. pc[a] = "own" \/ held[a] # {}
    BY DEF Holds
  <2>2. CASE a \in Cpus
    BY <2>1, <2>2 DEF LockInv, PlaceInv, On
  <2>3. CASE a \in Threads
    BY <2>1, <2>3 DEF LockInv, PlaceInv, Pinned, On
  <2> QED BY <2>2, <2>3 DEF Actors
<1> QED BY <1>1, LockInvariant, PTL

\* Threads run with interrupts on and handlers with interrupts off whenever
\* they are outside of the lock operations.
THEOREM FlagRestored == Spec => []InterruptsRestored
<1>1. LockInv => InterruptsRestored
  <2> SUFFICES ASSUME LockInv, NEW c \in Cpus,
                      On(c) = Idle \/ (pc[On(c)] = "out" /\ held[On(c)] = {})
               PROVE intr[c] = (On(c) = Idle \/ phase[On(c)] \in {"none", "cli"})
    BY DEF InterruptsRestored
  <2>1. CASE On(c) = Idle
    BY <2>1 DEF LockInv, CountInv, CountAt, TypeOK
  <2>2. CASE On(c) # Idle
    <3>1. On(c) \in Actors
      BY <2>2, OnActor DEF LockInv
    <3>2. intr[c] = (On(c) \in Threads /\ phase[On(c)] \in {"none", "cli"})
      BY <2>2, <3>1, CountFacts
    <3>3. On(c) \in Cpus => phase[On(c)] \notin {"none", "cli"}
      BY DEF LockInv, PlaceInv, On, InTrap, TypeOK
    <3>4. phase[On(c)] \in {"none", "cli"} =>
             On(c) \in Threads
      BY <3>1, <3>3 DEF Actors
    <3>5. intr[c] <=> phase[On(c)] \in {"none", "cli"}
      BY <3>2, <3>4
    <3>6. intr[c] \in BOOLEAN /\ (On(c) = Idle) = FALSE
      BY <2>2 DEF LockInv, TypeOK
    <3> QED BY <2>2, <3>5, <3>6
  <2> QED BY <2>1, <2>2
<1> QED BY <1>1, LockInvariant, PTL
=============================================================================
