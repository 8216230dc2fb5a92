------------------------- MODULE ClientLifecycleProofs -------------------------
(***************************************************************************)
(* Proofs about ClientLifecycle, for any number of callers and goroutines, *)
(* whatever callbacks call.                                                *)
(***************************************************************************)
EXTENDS ClientLifecycle, TLAPS

\* Who is between Lock and Unlock, and who between RLock and RUnlock.
LockOK ==
    \A p \in Procs :
        /\ at[p] \in {"held", "runlock"} => holds[p] > 0
        /\ at[p] = "running" => op[p] = "task" \/ (op[p] = "resolve" /\ holds[p] > 0)
        /\ at[p] \in {"drain", "locked", "closing", "unlock"} => writer = p
        /\ at[p] \in {"locked", "closing", "unlock"} => \A q \in Procs : holds[q] = 0

\* A client that is no longer started has been stopped by one Close, which
\* found no reader in its way, and lets no resolution in.
StopOK ==
    /\ ClosedOnce
    /\ updater = "gone" => ~started
    /\ ~started => \A p \in Procs : at[p] = "running" => op[p] = "task"
    /\ \A p \in Procs : at[p] = "closing" => ~started
    /\ updater # "gone" => started \/ \E p \in Procs : at[p] = "closing"

Inv == TypeOK /\ LockOK /\ StopOK

LEMMA InitOK == Init => Inv
  <1> SUFFICES ASSUME Init PROVE Inv
    OBVIOUS
  <1>1. started \in BOOLEAN /\ tick \in BOOLEAN
    BY DEF Init
  <1>2. TypeOK
    BY <1>1 DEF Init, TypeOK, Labels
  <1>3. LockOK
    BY DEF Init, LockOK
  <1>4. StopOK
    BY DEF Init, StopOK, ClosedOnce
  <1> QED
    BY <1>2, <1>3, <1>4 DEF Inv

LEMMA CallOK ==
    ASSUME Inv, NEW p \in Procs, NEW o \in Ops, Call(p, o)
    PROVE  Inv'
  <1> USE LifecycleAssumption
  <1>1. at[p] \in {"idle", "callback"}
    BY DEF Call, MayCall
  <1>2. CASE writer = NoProc
    <2>1. TypeOK'
      BY <1>2 DEF Call, RLock, Move, Inv, TypeOK, Labels, stopVars, updaterVars
    <2>2. LockOK'
      BY <1>1, <1>2 DEF Call, RLock, Move, Inv, TypeOK, LockOK, Labels, stopVars, updaterVars, Procs
    <2>3. StopOK'
      BY <1>1, <1>2 DEF Call, RLock, Move, Inv, TypeOK, StopOK, ClosedOnce, stopVars, updaterVars
    <2> QED
      BY <2>1, <2>2, <2>3 DEF Inv
  <1>3. CASE writer # NoProc
    <2>1. TypeOK'
      BY <1>3 DEF Call, RLock, Move, Inv, TypeOK, Labels, stopVars, updaterVars
    <2>2. LockOK'
      BY <1>1, <1>3 DEF Call, RLock, Move, Inv, TypeOK, LockOK, Labels, stopVars, updaterVars, Procs
    <2>3. StopOK'
      BY <1>1, <1>3 DEF Call, RLock, Move, Inv, TypeOK, StopOK, ClosedOnce, stopVars, updaterVars
    <2> QED
      BY <2>1, <2>2, <2>3 DEF Inv
  <1> QED
    BY <1>2, <1>3

LEMMA ReaderOK ==
    ASSUME Inv, NEW p \in Procs,
           Resolve(p) \/ Read(p) \/ ResolveAsync(p) \/ Finish(p)
             \/ CallbackReturns(p) \/ RUnlock(p)
    PROVE  Inv'
  <1> USE LifecycleAssumption
  <1>1. CASE Resolve(p)
    BY <1>1 DEF Resolve, Move, Inv, TypeOK, LockOK, StopOK, ClosedOnce, Labels, stopVars, updaterVars
  <1>2. CASE Read(p)
    BY <1>2 DEF Read, Move, Inv, TypeOK, LockOK, StopOK, ClosedOnce, Labels, stopVars, updaterVars
  <1>3. CASE ResolveAsync(p)
    <2>1. CASE ~started /\ Move(p, "callback") /\ UNCHANGED op
      BY <1>3, <2>1 DEF ResolveAsync, Move, Inv, TypeOK, LockOK, StopOK, ClosedOnce, Labels, stopVars, updaterVars
    <2>2. ASSUME started, NEW t \in Tasks, at[t] = "idle",
                 at' = [at EXCEPT ![t] = "running", ![p] = "runlock"],
                 op' = [op EXCEPT ![t] = "task", ![p] = "none"]
          PROVE  Inv'
      <3>1. t \in Procs /\ t # p
        BY <1>3, <2>2 DEF ResolveAsync, Procs
      <3>2. UNCHANGED <<started, stopCloses, updater, tick, writer, holds>> /\ at[p] = "held"
        BY <1>3 DEF ResolveAsync, stopVars, updaterVars
      <3>3. TypeOK'
        BY <2>2, <3>1, <3>2 DEF Inv, TypeOK, Labels
      <3>4. LockOK'
        BY <2>2, <3>1, <3>2 DEF Inv, TypeOK, LockOK
      <3>5. StopOK'
        BY <2>2, <3>1, <3>2 DEF Inv, TypeOK, StopOK, ClosedOnce
      <3> QED
        BY <3>3, <3>4, <3>5 DEF Inv
    <2> QED
      BY <1>3, <2>1, <2>2 DEF ResolveAsync
  <1>4. CASE Finish(p)
    BY <1>4 DEF Finish, Move, Inv, TypeOK, LockOK, StopOK, ClosedOnce, Labels, stopVars, updaterVars
  <1>5. CASE CallbackReturns(p)
    BY <1>5 DEF CallbackReturns, Leave, Move, Inv, TypeOK, LockOK, StopOK, ClosedOnce, Labels, stopVars, updaterVars
  <1>6. CASE RUnlock(p)
    <2>1. holds[p] \in Nat \ {0} /\ holds[p] - 1 \in Nat
      BY <1>6 DEF RUnlock, Inv, TypeOK, LockOK
    <2>2. UNCHANGED <<started, stopCloses, updater, tick, writer>> /\ at[p] = "runlock"
      BY <1>6 DEF RUnlock, stopVars, updaterVars
    <2>3. TypeOK'
      BY <1>6, <2>1, <2>2 DEF RUnlock, Leave, Move, Inv, TypeOK, Labels
    <2>4. LockOK'
      BY <1>6, <2>1, <2>2 DEF RUnlock, Leave, Move, Inv, TypeOK, LockOK
    <2>5. StopOK'
      BY <1>6, <2>1, <2>2 DEF RUnlock, Leave, Move, Inv, TypeOK, StopOK, ClosedOnce
    <2> QED
      BY <2>3, <2>4, <2>5 DEF Inv
  <1> QED
    BY <1>1, <1>2, <1>3, <1>4, <1>5, <1>6

LEMMA WriterOK ==
    ASSUME Inv, NEW p \in Procs,
           AnnounceWriter(p) \/ Lock(p) \/ Close(p) \/ Waited(p) \/ Unlock(p)
    PROVE  Inv'
  <1> USE LifecycleAssumption
  <1>1. CASE AnnounceWriter(p)
    BY <1>1 DEF AnnounceWriter, Move, Inv, TypeOK, LockOK, StopOK, ClosedOnce, Labels, stopVars, updaterVars, Procs
  <1>2. CASE Lock(p)
    BY <1>2 DEF Lock, Move, Inv, TypeOK, LockOK, StopOK, ClosedOnce, Labels, stopVars, updaterVars
  <1>3. CASE Close(p)
    <2>1. UNCHANGED <<updater, tick, writer, holds, op>> /\ at[p] = "locked"
          /\ writer = p /\ \A q \in Procs : holds[q] = 0
      BY <1>3 DEF Close, updaterVars, Inv, LockOK
    <2>2. TypeOK'
      <3>1. started' \in BOOLEAN
        BY <1>3 DEF Close, Inv, TypeOK, stopVars
      <3>2. stopCloses' \in Nat
        BY <1>3 DEF Close, Inv, TypeOK, stopVars
      <3> QED
        BY <1>3, <2>1, <3>1, <3>2 DEF Close, Move, Inv, TypeOK, Labels
    <2>3. LockOK'
      BY <1>3, <2>1 DEF Close, Move, Inv, TypeOK, LockOK, stopVars
    <2>4. StopOK'
      <3>1. \A q \in Procs : at[q] = "running" => op[q] = "task"
        BY <2>1 DEF Inv, LockOK, TypeOK
      <3> QED
        BY <1>3, <2>1, <3>1 DEF Close, Move, Inv, TypeOK, StopOK, ClosedOnce, stopVars
    <2> QED
      BY <2>2, <2>3, <2>4 DEF Inv
  <1>4. CASE Waited(p)
    BY <1>4 DEF Waited, Move, Inv, TypeOK, LockOK, StopOK, ClosedOnce, Labels, stopVars, updaterVars
  <1>5. CASE Unlock(p)
    <2>1. UNCHANGED <<started, stopCloses, updater, tick>> /\ at[p] = "unlock"
          /\ writer = p /\ \A q \in Procs : holds[q] = 0
      BY <1>5 DEF Unlock, stopVars, updaterVars, Inv, LockOK
    <2>2. TypeOK'
      BY <1>5, <2>1 DEF Unlock, Inv, TypeOK, Labels
    <2>3. \A q \in Procs :
             /\ at[q] \notin {"drain", "locked", "closing"}
             /\ at[q] = "unlock" => q = p
      BY <2>1 DEF Inv, LockOK
    <2>4. LockOK'
      BY <1>5, <2>1, <2>3 DEF Unlock, Inv, TypeOK, LockOK
    <2>5. StopOK'
      BY <1>5, <2>1, <2>3 DEF Unlock, Inv, TypeOK, StopOK, ClosedOnce
    <2> QED
      BY <2>2, <2>4, <2>5 DEF Inv
  <1> QED
    BY <1>1, <1>2, <1>3, <1>4, <1>5

LEMMA UpdaterOK ==
    ASSUME Inv, TickerFires \/ PeriodicFetch \/ PeriodicFetched \/ PeriodicStops
    PROVE  Inv'
  <1>1. UNCHANGED <<started, stopCloses, writer, holds, at, op>>
    BY DEF TickerFires, PeriodicFetch, PeriodicFetched, PeriodicStops, stopVars
  <1>2. tick' \in BOOLEAN
    BY DEF TickerFires, PeriodicFetch, PeriodicFetched, PeriodicStops, Inv, TypeOK
  <1>3. updater' \in {"select", "fetch", "gone"}
    BY DEF TickerFires, PeriodicFetch, PeriodicFetched, PeriodicStops, Inv, TypeOK
  <1>4. TypeOK'
    BY <1>1, <1>2, <1>3 DEF Inv, TypeOK
  <1>5. LockOK'
    BY <1>1 DEF Inv, LockOK
  <1>6. StopOK'
    <2>1. updater' = "gone" => ~started
      BY DEF TickerFires, PeriodicFetch, PeriodicFetched, PeriodicStops, Inv,
             StopOK, ClosedOnce
    <2>2. updater' # "gone" => updater # "gone"
      BY DEF TickerFires, PeriodicFetch, PeriodicFetched, PeriodicStops
    <2> QED
      BY <1>1, <2>1, <2>2 DEF Inv, StopOK, ClosedOnce
  <1> QED
    BY <1>4, <1>5, <1>6 DEF Inv

LEMMA NextOK == Inv /\ [Next]_vars => Inv'
  <1> SUFFICES ASSUME Inv, [Next]_vars PROVE Inv'
    OBVIOUS
  <1>1. CASE UNCHANGED vars
    BY <1>1 DEF vars, Inv, TypeOK, LockOK, StopOK, ClosedOnce
  <1>2. CASE Next
    BY <1>2, CallOK, ReaderOK, WriterOK, UpdaterOK DEF Next, Run
  <1> QED
    BY <1>1, <1>2

LEMMA Invariance == Spec => []Inv
  BY InitOK, NextOK, PTL DEF Spec

-----------------------------------------------------------------------------

\* Type correctness; in particular no read lock is released twice.
THEOREM TypeCorrect == Spec => []TypeOK
  <1>1. Inv => TypeOK
    BY DEF Inv
  <1> QED
    BY <1>1, Invariance, PTL

\* However many goroutines close the client, at the same time or one after
\* the other, stopCh is closed once: Close never panics.
THEOREM StopChClosedOnce == Spec => []ClosedOnce
  <1>1. Inv => ClosedOnce
    BY DEF Inv, StopOK
  <1> QED
    BY <1>1, Invariance, PTL

\* After Close no call resolves, but for goroutines calls have left behind,
\* and the periodic goroutine is gone.
THEOREM QuietWhenClosed == Spec => []ClosedIsQuiet
  <1>1. Inv => ClosedIsQuiet
    BY DEF Inv, StopOK, ClosedIsQuiet
  <1> QED
    BY <1>1, Invariance, PTL

-----------------------------------------------------------------------------
\* The refinement: the client keeps ClientContract.

Open == started \/ \E p \in Procs : at[p] = "closing"
Inside == {p \in Procs : at[p] = "running" /\ op[p] = "resolve"}
Background == {t \in Tasks : at[t] # "idle"}
Fetching == updater = "fetch"

Stutter ==
    /\ Open' = Open
    /\ Inside' = Inside
    /\ Background' = Background
    /\ Fetching' = Fetching

\* What the instance's definitions say, in the names above.
LEMMA Steps ==
    ASSUME \/ Stutter
           \/ Contract!Fetch
           \/ Contract!Shut
           \/ \E p \in Procs : Contract!Accept(p) \/ Contract!Complete(p)
           \/ \E t \in Tasks : Contract!HandOver(t) \/ Contract!Retire(t)
    PROVE  [Contract!ContractNext]_(Contract!contractVars)
  BY DEF Contract!ContractNext, Contract!contractVars, Stutter, Open, Inside,
         Background, Fetching

\* A step of p that neither resolves nor closes, and in which no task begins
\* or ends, changes nothing the contract speaks of.
LEMMA Unseen ==
    ASSUME TypeOK, NEW p \in Procs, NEW label \in Labels, Move(p, label),
           at[p] # "closing", label # "closing",
           \A q \in Procs \ {p} : op'[q] = op[q],
           at[p] = "running" => op[p] = "task",
           label # "running",
           p \in Tasks => (at[p] = "idle" <=> label = "idle"),
           UNCHANGED <<started, updater>>
    PROVE  Stutter
  <1>1. \A q \in Procs : at'[q] = IF q = p THEN label ELSE at[q]
    BY DEF Move, TypeOK
  <1>2. Open' = Open
    BY <1>1 DEF Open
  <1>3. Inside' = Inside
    BY <1>1 DEF Inside
  <1>4. Background' = Background
    BY <1>1 DEF Background, Procs
  <1> QED
    BY <1>2, <1>3, <1>4 DEF Stutter, Fetching

\* A task ends.
LEMMA TaskEnds ==
    ASSUME TypeOK, NEW p \in Tasks, Move(p, "idle"),
           at[p] # "closing", at[p] # "running", at[p] # "idle",
           \A q \in Procs \ {p} : op'[q] = op[q],
           UNCHANGED <<started, updater>>
    PROVE  Contract!Retire(p)
  <1>1. \A q \in Procs : at'[q] = IF q = p THEN "idle" ELSE at[q]
    BY DEF Move, TypeOK
  <1>2. p \in Procs
    BY DEF Procs
  <1>3. Open' = Open
    BY <1>1, <1>2 DEF Open
  <1>4. Inside' = Inside
    BY <1>1, <1>2 DEF Inside
  <1>5. Background' = Background \ {p}
    BY <1>1 DEF Background, Procs
  <1>6. p \in Background
    BY DEF Background
  <1> QED
    BY <1>3, <1>4, <1>5, <1>6 DEF Contract!Retire, Open, Inside, Background, Fetching

\* Leaving the outermost call or callback.
LEMMA LeaveRefines ==
    ASSUME Inv, NEW p \in Procs, NEW left, Leave(p, left),
           at[p] \in {"callback", "runlock"}, UNCHANGED <<started, updater>>
    PROVE  Stutter \/ (p \in Tasks /\ Contract!Retire(p))
  <1>1. \A q \in Procs \ {p} : op'[q] = op[q]
    BY DEF Leave, Inv, TypeOK
  <1>2. CASE left = 0 /\ p \in Tasks
    BY <1>1, <1>2, TaskEnds DEF Leave, Inv
  <1>3. CASE ~(left = 0 /\ p \in Tasks)
    <2>1. PICK label \in {"idle", "runlock"} :
             Move(p, label) /\ (p \in Tasks => label # "idle")
      BY <1>3 DEF Leave
    <2>2. label \in Labels
      BY DEF Labels
    <2> QED
      BY <1>1, <2>1, <2>2, Unseen DEF Inv
  <1> QED
    BY <1>2, <1>3

LEMMA CallRefines ==
    ASSUME Inv, NEW p \in Procs, NEW o \in Ops, Call(p, o)
    PROVE  Stutter
  <1>1. PICK label \in {"held", "rwait", "wwait"} : Move(p, label)
    BY DEF Call, RLock
  <1>2. label \in Labels
    BY DEF Labels
  <1>3. /\ at[p] \in {"idle", "callback"}
        /\ p \in Tasks => at[p] # "idle"
    BY LifecycleAssumption DEF Call, MayCall
  <1>4. /\ \A q \in Procs \ {p} : op'[q] = op[q]
        /\ UNCHANGED <<started, updater>>
    BY DEF Call, stopVars, updaterVars, Inv, TypeOK
  <1> QED
    BY <1>1, <1>2, <1>3, <1>4, Unseen DEF Inv

LEMMA RunRefines ==
    ASSUME Inv, NEW p \in Procs, Run(p) \/ AnnounceWriter(p)
    PROVE  [Contract!ContractNext]_(Contract!contractVars)
  <1> USE DEF Inv
  <1>1. CASE Resolve(p)
    <2>1. UNCHANGED <<started, updater, op>> /\ at[p] = "held" /\ op[p] = "resolve"
      BY <1>1 DEF Resolve, stopVars, updaterVars
    <2>2. CASE Move(p, "runlock")
      <3>1. Stutter
        BY <2>1, <2>2, Unseen DEF Labels
      <3> QED
        BY <3>1, Steps
    <2>3. CASE started /\ Move(p, "running")
      <3>1. \A q \in Procs : at'[q] = IF q = p THEN "running" ELSE at[q]
        BY <2>3 DEF Move, TypeOK
      <3>2. Inside' = Inside \cup {p}
        BY <2>1, <3>1 DEF Inside
      <3>3. Background' = Background
        BY <2>1, <3>1 DEF Background, Procs
      <3>4. Open /\ Open' /\ p \notin Inside /\ Fetching' = Fetching
        BY <2>1, <2>3 DEF Open, Inside, Fetching
      <3>5. Open = TRUE /\ Open' = TRUE
        BY <3>4 DEF Open
      <3>6. Contract!Accept(p)
        BY <3>2, <3>3, <3>4, <3>5 DEF Contract!Accept, Open, Inside, Background, Fetching
      <3> QED
        BY <3>6, Steps
    <2> QED
      BY <1>1, <2>2, <2>3 DEF Resolve
  <1>2. CASE Read(p)
    <2>1. Stutter
      BY <1>2, Unseen DEF Read, stopVars, updaterVars, Labels
    <2> QED
      BY <2>1, Steps
  <1>3. CASE ResolveAsync(p)
    <2>1. UNCHANGED <<started, updater>> /\ at[p] = "held"
      BY <1>3 DEF ResolveAsync, stopVars, updaterVars
    <2>2. CASE Move(p, "callback") /\ UNCHANGED op
      <3>1. Stutter
        BY <2>1, <2>2, Unseen DEF Labels
      <3> QED
        BY <3>1, Steps
    <2>3. ASSUME started, NEW t \in Tasks, at[t] = "idle",
                 at' = [at EXCEPT ![t] = "running", ![p] = "runlock"],
                 op' = [op EXCEPT ![t] = "task", ![p] = "none"]
          PROVE  Contract!HandOver(t)
      <3>1. t \in Procs /\ t # p /\ at[t] = "idle" /\ at[p] = "held"
        BY <2>1, <2>3 DEF Procs
      <3>2. \A q \in Procs : at'[q] = IF q = t THEN "running"
                                      ELSE IF q = p THEN "runlock" ELSE at[q]
        BY <2>3, <3>1 DEF TypeOK
      <3>3. \A q \in Procs : op'[q] = IF q = t THEN "task"
                                      ELSE IF q = p THEN "none" ELSE op[q]
        <4>1. op \in [Procs -> Ops \cup {"none", "task"}]
          BY DEF TypeOK
        <4> QED
          BY <2>3, <3>1, <4>1
      <3>4. Inside' = Inside
        <4>1. \A q \in Procs : at'[q] = "running" /\ op'[q] = "resolve"
                               <=> at[q] = "running" /\ op[q] = "resolve"
          BY <3>1, <3>2, <3>3
        <4> QED
          BY <4>1 DEF Inside
      <3>5. Background' = Background \cup {t} /\ t \notin Background
        BY <3>1, <3>2 DEF Background, Procs
      <3>6. Open = TRUE /\ Open' = TRUE /\ Fetching' = Fetching
        BY <2>1, <2>3 DEF Open, Fetching
      <3> QED
        BY <3>4, <3>5, <3>6 DEF Contract!HandOver, Open, Inside, Background, Fetching
    <2> QED
      BY <1>3, <2>2, <2>3, Steps DEF ResolveAsync
  <1>4. CASE Finish(p)
    <2>1. UNCHANGED <<started, updater, op>> /\ at[p] = "running"
      BY <1>4 DEF Finish, stopVars, updaterVars
    <2>2. CASE op[p] = "task"
      <3>1. Stutter
        BY <1>4, <2>1, <2>2, Unseen DEF Finish, Labels
      <3> QED
        BY <3>1, Steps
    <2>3. CASE op[p] = "resolve"
      <3>1. \A q \in Procs : at'[q] = IF q = p THEN "runlock" ELSE at[q]
        BY <1>4, <2>3 DEF Finish, Move, TypeOK
      <3>2. Inside' = Inside \ {p} /\ p \in Inside
        BY <2>1, <2>3, <3>1 DEF Inside
      <3>3. Background' = Background
        BY <2>1, <3>1 DEF Background, Procs
      <3>4. Open' = Open /\ Fetching' = Fetching
        BY <2>1, <3>1 DEF Open, Fetching
      <3>5. Contract!Complete(p)
        BY <3>2, <3>3, <3>4 DEF Contract!Complete, Open, Inside, Background, Fetching
      <3> QED
        BY <3>5, Steps
    <2> QED
      BY <2>1, <2>2, <2>3 DEF LockOK
  <1>5. CASE CallbackReturns(p)
    <2>1. Leave(p, holds[p]) /\ at[p] = "callback" /\ UNCHANGED <<started, updater>>
      BY <1>5 DEF CallbackReturns, stopVars, updaterVars
    <2>2. Stutter \/ (p \in Tasks /\ Contract!Retire(p))
      BY <2>1, LeaveRefines
    <2> QED
      BY <2>2, Steps
  <1>6. CASE RUnlock(p)
    <2>1. Leave(p, holds[p] - 1) /\ at[p] = "runlock" /\ UNCHANGED <<started, updater>>
      BY <1>6 DEF RUnlock, stopVars, updaterVars
    <2>2. Stutter \/ (p \in Tasks /\ Contract!Retire(p))
      BY <2>1, LeaveRefines
    <2> QED
      BY <2>2, Steps
  <1>7. CASE AnnounceWriter(p) \/ Lock(p)
    <2>1. Stutter
      BY <1>7, Unseen DEF AnnounceWriter, Lock, stopVars, updaterVars, Labels
    <2> QED
      BY <2>1, Steps
  <1>8. CASE Close(p)
    <2>1. UNCHANGED <<updater, op>> /\ at[p] = "locked"
      BY <1>8 DEF Close, updaterVars
    <2>2. CASE Move(p, "unlock") /\ UNCHANGED stopVars
      <3>1. Stutter
        BY <2>1, <2>2, Unseen DEF Labels, stopVars
      <3> QED
        BY <3>1, Steps
    <2>3. CASE started /\ Move(p, "closing")
      <3>1. \A q \in Procs : at'[q] = IF q = p THEN "closing" ELSE at[q]
        BY <2>3 DEF Move, TypeOK
      <3>2. Open' = TRUE /\ Open = TRUE
        BY <2>3, <3>1 DEF Open
      <3>3. Inside' = Inside
        BY <2>1, <3>1 DEF Inside
      <3>4. Background' = Background
        BY <2>1, <3>1 DEF Background, Procs
      <3>5. Stutter
        BY <2>1, <3>2, <3>3, <3>4 DEF Stutter, Fetching
      <3> QED
        BY <3>5, Steps
    <2> QED
      BY <1>8, <2>2, <2>3 DEF Close
  <1>9. CASE Waited(p)
    <2>1. UNCHANGED <<started, updater, op>> /\ at[p] = "closing" /\ updater = "gone"
      BY <1>9 DEF Waited, stopVars, updaterVars
    <2>2. \A q \in Procs : at'[q] = IF q = p THEN "unlock" ELSE at[q]
      BY <1>9 DEF Waited, Move, TypeOK
    <2>3. ~started /\ \A q \in Procs : at[q] = "closing" => q = p
      BY <2>1 DEF StopOK, LockOK
    <2>4. Open = TRUE /\ Open' = FALSE
      BY <2>1, <2>2, <2>3 DEF Open
    <2>5. Inside = {} /\ Inside' = {}
      BY <2>1, <2>2, <2>3 DEF Inside, StopOK
    <2>6. Background' = Background
      BY <2>1, <2>2 DEF Background, Procs
    <2>7. Fetching = FALSE /\ Fetching' = FALSE
      BY <2>1 DEF Fetching
    <2>8. Contract!Shut
      BY <2>4, <2>5, <2>6, <2>7 DEF Contract!Shut, Open, Inside, Background, Fetching
    <2> QED
      BY <2>8, Steps
  <1>10. CASE Unlock(p)
    <2>1. UNCHANGED <<started, updater>> /\ at[p] = "unlock"
          /\ \A q \in Procs \ {p} : op'[q] = op[q]
      BY <1>10 DEF Unlock, stopVars, updaterVars, TypeOK
    <2>2. \A q \in Procs : at'[q] = IF q = p THEN "idle"
                                    ELSE IF at[q] = "rwait" THEN "held" ELSE at[q]
      BY <1>10 DEF Unlock
    <2>3. Open' = Open
      BY <2>1, <2>2 DEF Open
    <2>4. Inside' = Inside
      BY <2>1, <2>2 DEF Inside
    <2>5. Fetching' = Fetching
      BY <2>1 DEF Fetching
    <2>6. CASE p \in Tasks
      <3>1. Background' = Background \ {p} /\ p \in Background
        BY <2>1, <2>2, <2>6 DEF Background, Procs
      <3>2. Contract!Retire(p)
        BY <2>3, <2>4, <2>5, <3>1 DEF Contract!Retire, Open, Inside, Background, Fetching
      <3> QED
        BY <2>6, <3>2, Steps
    <2>7. CASE p \notin Tasks
      <3>1. Background' = Background
        BY <2>1, <2>2, <2>7 DEF Background, Procs
      <3>2. Stutter
        BY <2>3, <2>4, <2>5, <3>1 DEF Stutter
      <3> QED
        BY <3>2, Steps
    <2> QED
      BY <2>6, <2>7
  <1> QED
    BY <1>1, <1>2, <1>3, <1>4, <1>5, <1>6, <1>7, <1>8, <1>9, <1>10 DEF Run

LEMMA UpdaterRefines ==
    ASSUME Inv, TickerFires \/ PeriodicFetch \/ PeriodicFetched \/ PeriodicStops
    PROVE  [Contract!ContractNext]_(Contract!contractVars)
  <1>1. UNCHANGED <<started, at, op>>
    BY DEF TickerFires, PeriodicFetch, PeriodicFetched, PeriodicStops, stopVars
  <1>2. Open' = Open /\ Inside' = Inside /\ Background' = Background
    BY <1>1 DEF Open, Inside, Background
  <1>3. CASE TickerFires \/ PeriodicStops
    <2>1. Stutter
      BY <1>2, <1>3 DEF Stutter, Fetching, TickerFires, PeriodicStops
    <2> QED
      BY <2>1, Steps
  <1>4. CASE PeriodicFetch \/ PeriodicFetched
    <2>1. Open
      BY <1>4 DEF PeriodicFetch, PeriodicFetched, Inv, StopOK, Open
    <2>2. Fetching' = ~Fetching
      BY <1>4 DEF PeriodicFetch, PeriodicFetched, Fetching
    <2>3. Contract!Fetch
      BY <1>2, <2>1, <2>2 DEF Contract!Fetch, Open, Inside, Background, Fetching
    <2> QED
      BY <2>3, Steps
  <1> QED
    BY <1>3, <1>4

\* Whatever the application and its callbacks do, the client keeps the
\* contract: calls are accepted only while it is open, it is shut once and
\* only when no accepted call and no periodic fetch is under way.
THEOREM Refinement == Spec => ImplementsContract
  <1>1. Init => Contract!ContractInit
    BY DEF Init, Contract!ContractInit, Procs
  <1>2. Inv /\ [Next]_vars => [Contract!ContractNext]_(Contract!contractVars)
    <2> SUFFICES ASSUME Inv, [Next]_vars
                 PROVE  [Contract!ContractNext]_(Contract!contractVars)
      OBVIOUS
    <2>1. CASE UNCHANGED vars
      <3>1. Stutter
        BY <2>1 DEF vars, Stutter, Open, Inside, Background, Fetching
      <3> QED
        BY <3>1, Steps
    <2>2. CASE Next
      BY <2>2, CallRefines, RunRefines, UpdaterRefines, Steps DEF Next
    <2> QED
      BY <2>1, <2>2
  <1> QED
    BY <1>1, <1>2, Invariance, PTL DEF Spec, ImplementsContract, Contract!ContractSpec
=============================================================================
