------------------------- MODULE EngineLocksProofs -------------------------
(***************************************************************************)
(* Proofs about EngineLocks for any threads and any engines: who holds     *)
(* what, that callbacks are those of attached engines, and that nobody     *)
(* deadlocks.                                                              *)
(***************************************************************************)
EXTENDS EngineLocks, TLAPS

(* MutexOut is taken by the threads that are in PreparePacket or Read only. *)
OutScoped ==
  \A t \in Thread :
    /\ viaOut[t] => pc[t] \in WithOut \cup {"out"}
    /\ pc[t] = "out" => viaOut[t]
Inv == TypeOK /\ OutScoped /\ CallbackAttached

(* The types, without the owners                                            *)
Types ==
  /\ pc \in [Thread -> Position] /\ at \in [Thread -> Engine]
  /\ viaOut \in [Thread -> BOOLEAN] /\ nested \in BOOLEAN
  /\ own \in [Lock -> Thread \cup {Free}]
  /\ modemCallback \in [Engine -> BOOLEAN]
  /\ activeEngines \in [Engine -> {"none", "active", "old"}]

(* t owns the mutexes which its position says it holds.                     *)
Owns(t) ==
  /\ (own[Body] = t) <=> HoldsBody(t)
  /\ \A k \in Kind, e \in Engine : (own[<<k, e>>] = t) <=> (at[t] = e /\ Holds(t, k))

(* The mutex of the body is not one of the engine's.                        *)
LEMMA Locks ==
  /\ Body \in Lock
  /\ \A k \in Kind, e \in Engine : <<k, e>> \in Lock /\ Body # <<k, e>>
  /\ \A l \in Lock : l = Body \/ \E k \in Kind, e \in Engine : l = <<k, e>>
<1>1. \A k \in Kind, e \in Engine : Body # <<k, e>>
  BY SMT DEF Body
<1> QED BY <1>1, SMT DEF Lock

(* What a thread waits for, position by position                            *)
LEMMA WaitCases ==
  ASSUME NEW t, pc[t] \in DOMAIN Waits
  PROVE  \/ pc[t] = "enter" /\ Wanted(t) = Body /\ Waits[pc[t]] = "body"
         \/ pc[t] = "api" /\ Wanted(t) = Mine(t, "MutexModem") /\ Waits[pc[t]] = "apiMutex"
         \/ pc[t] = "apiMutex" /\ Wanted(t) = Mine(t, "Mutex") /\ Waits[pc[t]] = "apiIn"
         \/ pc[t] = "get" /\ Wanted(t) = Mine(t, "Mutex") /\ Waits[pc[t]] = "getIn"
         \/ pc[t] = "busy" /\ Wanted(t) = Mine(t, "Mutex") /\ Waits[pc[t]] = "busyIn"
         \/ pc[t] = "try" /\ Wanted(t) = Mine(t, "MutexModem") /\ Waits[pc[t]] = "tryCb"
         \/ pc[t] = "detach" /\ Wanted(t) = Mine(t, "Mutex") /\ Waits[pc[t]] = "detachIn"
         \/ pc[t] = "out" /\ Wanted(t) = Mine(t, "MutexOut") /\ Waits[pc[t]] = "lock"
         \/ pc[t] = "lock" /\ Wanted(t) = Mine(t, "Mutex") /\ Waits[pc[t]] = "engine"
         \/ pc[t] = "cb" /\ Wanted(t) = Mine(t, "MutexModemCallback") /\ Waits[pc[t]] = "call"
<1>1. DOMAIN Waits = {"enter", "api", "apiMutex", "get", "busy", "try", "detach", "out",
                      "lock", "cb"}
  BY SMT DEF Waits
<1> QED BY <1>1, SMT DEF Wanted, Waits

(* Taking the mutex l, and giving back the mutexes ls, keeps the owners right *)
(* when the new position of the thread says the same.                       *)
LEMMA Moved ==
  ASSUME TypeOK, NEW t \in Thread,
         Types',
         \A u \in Thread \ {t} : pc'[u] = pc[u] /\ at'[u] = at[u] /\ viaOut'[u] = viaOut[u],
         t = Main \/ nested' = nested,
         own'[Body] = own[Body] \/ (own[Body] \in {Free, t} /\ own'[Body] \in {Free, t}),
         \A k \in Kind, e \in Engine :
           \/ own'[<<k, e>>] = own[<<k, e>>]
           \/ own[<<k, e>>] \in {Free, t} /\ own'[<<k, e>>] \in {Free, t},
         Owns(t)'
  PROVE  Ownership'
<1> SUFFICES ASSUME NEW u \in Thread
             PROVE  Owns(u)'
  BY DEF Ownership, Owns
<1>1. CASE u = t
  BY <1>1
<1>2. CASE u # t
  <2>1. HoldsBody(u)' <=> HoldsBody(u)
    BY <1>2, SMT DEF HoldsBody
  <2>2. \A k \in Kind : Holds(u, k)' <=> Holds(u, k)
    BY <1>2, SMT DEF Holds
  <2>3. /\ (own'[Body] = u) <=> (own[Body] = u)
        /\ \A k \in Kind, e \in Engine : (own'[<<k, e>>] = u) <=> (own[<<k, e>>] = u)
    BY <1>2, LockAssumption, SMT DEF Thread, BodyThread
  <2>4. /\ (own[Body] = u) <=> HoldsBody(u)
        /\ \A k \in Kind, e \in Engine : (own[<<k, e>>] = u) <=> (at[u] = e /\ Holds(u, k))
    BY DEF TypeOK, Ownership
  <2>5. at'[u] = at[u]
    BY <1>2
  <2> QED BY <2>1, <2>2, <2>3, <2>4, <2>5, Zenon DEF Owns
<1> QED BY <1>1, <1>2
-----------------------------------------------------------------------------
(* Each action keeps the invariant.                                         *)

(* Enter keeps the invariant.                                               *)
LEMMA EnterInv ==
  ASSUME Inv, NEW t \in BodyThread, Enter(t)
  PROVE  Inv'
<1>1. t \in Thread
  BY DEF Thread, BodyThread
<1>2. Types'
  BY <1>1, SMT DEF Inv, TypeOK, Types, Position, Enter, Go, atSide, engineVars
<1>3. Ownership'
  BY <1>1, LockAssumption, Locks, SMT DEF Inv, TypeOK, Ownership, OutScoped, Enter, Go,
     atSide, engineVars, Kind, Holds, HoldsBody, WithBody, WithModem, WithCallback,
     WithMutex, WithOut, Thread, BodyThread
<1>4. OutScoped'
  BY <1>1, SMT DEF Inv, TypeOK, OutScoped, WithOut, Enter, Go, atSide, engineVars
<1>5. CallbackAttached'
  BY <1>1, SMT DEF Inv, TypeOK, CallbackAttached, Enter, Go, atSide, engineVars
<1> QED BY <1>2, <1>3, <1>4, <1>5 DEF Inv, TypeOK, Types

(* HandleCmdRest keeps the invariant.                                       *)
LEMMA HandleCmdRestInv ==
  ASSUME Inv, HandleCmdRest
  PROVE  Inv'
<1>1. Main \in Thread
  BY DEF Thread, BodyThread
<1>2. Types'
  BY <1>1, SMT DEF Inv, TypeOK, Types, Position, HandleCmdRest, engineVars
<1>3. Ownership'
  BY <1>1, LockAssumption, Locks, SMT DEF Inv, TypeOK, Ownership, OutScoped,
     HandleCmdRest, engineVars, Kind, Holds, HoldsBody, WithBody, WithModem, WithCallback,
     WithMutex, WithOut, Thread, BodyThread
<1>4. OutScoped'
  BY <1>1, SMT DEF Inv, TypeOK, OutScoped, WithOut, HandleCmdRest, engineVars
<1>5. CallbackAttached'
  BY <1>1, SMT DEF Inv, TypeOK, CallbackAttached, HandleCmdRest, engineVars
<1> QED BY <1>2, <1>3, <1>4, <1>5 DEF Inv, TypeOK, Types

(* CallEngine keeps the invariant.                                          *)
LEMMA CallEngineInv ==
  ASSUME Inv, NEW t \in BodyThread, \E e \in Engine : CallEngine(t, e)
  PROVE  Inv'
<1>1. t \in Thread
  BY DEF Thread, BodyThread
<1>2. Types'
  BY <1>1, SMT DEF Inv, TypeOK, Types, Position, CallEngine, Go, engineVars
<1>3. Ownership'
  BY <1>1, LockAssumption, Locks, SMT DEF Inv, TypeOK, Ownership, OutScoped, CallEngine,
     Go, engineVars, Kind, Holds, HoldsBody, WithBody, WithModem, WithCallback, WithMutex,
     WithOut, Thread, BodyThread
<1>4. OutScoped'
  BY <1>1, SMT DEF Inv, TypeOK, OutScoped, WithOut, CallEngine, Go, engineVars
<1>5. CallbackAttached'
  BY <1>1, SMT DEF Inv, TypeOK, CallbackAttached, CallEngine, Go, engineVars
<1> QED BY <1>2, <1>3, <1>4, <1>5 DEF Inv, TypeOK, Types

(* AttachEngine keeps the invariant.                                        *)
LEMMA AttachEngineInv ==
  ASSUME Inv, NEW t \in BodyThread, \E e \in Engine : AttachEngine(t, e)
  PROVE  Inv'
<1>1. t \in Thread
  BY DEF Thread, BodyThread
<1>2. Types'
  BY <1>1, SMT DEF Inv, TypeOK, Types, Position, AttachEngine, Go
<1>3. Ownership'
  BY <1>1, LockAssumption, Locks, SMT DEF Inv, TypeOK, Ownership, OutScoped, AttachEngine,
     Go, Kind, Holds, HoldsBody, WithBody, WithModem, WithCallback, WithMutex, WithOut,
     Thread, BodyThread
<1>4. OutScoped'
  BY <1>1, SMT DEF Inv, TypeOK, OutScoped, WithOut, AttachEngine, Go
<1>5. CallbackAttached'
  BY <1>1, SMT DEF Inv, TypeOK, CallbackAttached, AttachEngine, Go
<1> QED BY <1>2, <1>3, <1>4, <1>5 DEF Inv, TypeOK, Types

(* DetachEngine keeps the invariant.                                        *)
LEMMA DetachEngineInv ==
  ASSUME Inv, \E e \in Engine : DetachEngine(e)
  PROVE  Inv'
<1>1. Main \in Thread
  BY DEF Thread, BodyThread
<1>2. Types'
  BY <1>1, SMT DEF Inv, TypeOK, Types, Position, DetachEngine, Go, engineVars
<1>3. Ownership'
  BY <1>1, LockAssumption, Locks, SMT DEF Inv, TypeOK, Ownership, OutScoped, DetachEngine,
     Go, engineVars, Kind, Holds, HoldsBody, WithBody, WithModem, WithCallback, WithMutex,
     WithOut, Thread, BodyThread
<1>4. OutScoped'
  BY <1>1, SMT DEF Inv, TypeOK, OutScoped, WithOut, DetachEngine, Go, engineVars
<1>5. CallbackAttached'
  BY <1>1, SMT DEF Inv, TypeOK, CallbackAttached, DetachEngine, Go, engineVars
<1> QED BY <1>2, <1>3, <1>4, <1>5 DEF Inv, TypeOK, Types

(* EnterEngine keeps the invariant.                                         *)
LEMMA EnterEngineInv ==
  ASSUME Inv, NEW t \in Media, \E e \in Engine : EnterEngine(t, e)
  PROVE  Inv'
<1>1. t \in Thread
  BY DEF Thread, BodyThread
<1>2. Types'
  BY <1>1, SMT DEF Inv, TypeOK, Types, Position, EnterEngine, Go, engineVars
<1>3. Ownership'
  BY <1>1, LockAssumption, Locks, SMT DEF Inv, TypeOK, Ownership, OutScoped, EnterEngine,
     Go, engineVars, Kind, Holds, HoldsBody, WithBody, WithModem, WithCallback, WithMutex,
     WithOut, Thread, BodyThread
<1>4. OutScoped'
  BY <1>1, SMT DEF Inv, TypeOK, OutScoped, WithOut, EnterEngine, Go, engineVars
<1>5. CallbackAttached'
  BY <1>1, SMT DEF Inv, TypeOK, CallbackAttached, EnterEngine, Go, engineVars
<1> QED BY <1>2, <1>3, <1>4, <1>5 DEF Inv, TypeOK, Types

(* AwakeInEngine keeps the invariant.                                       *)
LEMMA AwakeInEngineInv ==
  ASSUME Inv, NEW t \in Thread, AwakeInEngine(t)
  PROVE  Inv'
<1>1. t \in Thread
  BY DEF Thread, BodyThread
<1>2. Types'
  BY <1>1, SMT DEF Inv, TypeOK, Types, Position, AwakeInEngine, Go, atSide, engineVars
<1>3. Ownership'
  BY <1>1, LockAssumption, Locks, SMT DEF Inv, TypeOK, Ownership, OutScoped,
     AwakeInEngine, Go, atSide, engineVars, Kind, Holds, HoldsBody, WithBody, WithModem,
     WithCallback, WithMutex, WithOut, Thread, BodyThread
<1>4. OutScoped'
  BY <1>1, SMT DEF Inv, TypeOK, OutScoped, WithOut, AwakeInEngine, Go, atSide, engineVars
<1>5. CallbackAttached'
  BY <1>1, SMT DEF Inv, TypeOK, CallbackAttached, AwakeInEngine, Go, atSide, engineVars
<1> QED BY <1>2, <1>3, <1>4, <1>5 DEF Inv, TypeOK, Types

(* OnEngineCallback keeps the invariant.                                    *)
LEMMA OnEngineCallbackInv ==
  ASSUME Inv, NEW t \in Thread, OnEngineCallback(t)
  PROVE  Inv'
<1>1. t \in Thread
  BY DEF Thread, BodyThread
<1>2. Types'
  BY <1>1, SMT DEF Inv, TypeOK, Types, Position, OnEngineCallback, Go, atSide, engineVars
<1>3. Ownership'
  BY <1>1, LockAssumption, Locks, SMT DEF Inv, TypeOK, Ownership, OutScoped,
     OnEngineCallback, Go, atSide, engineVars, Kind, Holds, HoldsBody, WithBody,
     WithModem, WithCallback, WithMutex, WithOut, Thread, BodyThread
<1>4. OutScoped'
  BY <1>1, SMT DEF Inv, TypeOK, OutScoped, WithOut, OnEngineCallback, Go, atSide,
     engineVars
<1>5. CallbackAttached'
  BY <1>1, SMT DEF Inv, TypeOK, CallbackAttached, OnEngineCallback, Go, atSide, engineVars
<1> QED BY <1>2, <1>3, <1>4, <1>5 DEF Inv, TypeOK, Types

(* Acquire keeps the invariant.                                             *)
LEMMA AcquireInv ==
  ASSUME Inv, NEW t \in Thread, Acquire(t)
  PROVE  Inv'
<1>1. t \in Thread
  BY DEF Thread, BodyThread
<1>2. /\ Wanted(t) \in Lock /\ own[Wanted(t)] = Free /\ own' = [own EXCEPT ![Wanted(t)] = t]
      /\ pc' = [pc EXCEPT ![t] = Waits[pc[t]]] /\ pc[t] \in DOMAIN Waits
      /\ at' = at /\ viaOut' = viaOut /\ nested' = nested
      /\ modemCallback' = modemCallback /\ activeEngines' = activeEngines
  <2>1. Wanted(t) \in Lock
    BY WaitCases, Locks, SMT DEF Inv, TypeOK, Acquire, Mine, Kind
  <2> QED BY <2>1 DEF Acquire, Wait, Go, engineVars
<1>3. Types'
  BY <1>1, <1>2, WaitCases, SMT DEF Inv, TypeOK, Types, Position
<1>4. /\ own'[Body] = IF Wanted(t) = Body THEN t ELSE own[Body]
      /\ \A k \in Kind, e \in Engine :
           own'[<<k, e>>] = IF Wanted(t) = <<k, e>> THEN t ELSE own[<<k, e>>]
  BY <1>1, <1>2, Locks, SMT DEF Inv, TypeOK
<1>5. Ownership'
  <2>1. Owns(t) /\ (viaOut[t] => pc[t] \in WithOut \cup {"out"})
    BY <1>1 DEF Inv, TypeOK, Ownership, OutScoped, Owns
  <2>2. Owns(t)'
    <3>1. HoldsBody(t)' <=> HoldsBody(t) \/ Wanted(t) = Body
      BY <1>1, <1>2, WaitCases, Locks, SMT DEF Inv, TypeOK, HoldsBody, WithBody, Mine, Kind
    <3>2. \A k \in Kind, e \in Engine :
            (at'[t] = e /\ Holds(t, k)') <=> (at[t] = e /\ Holds(t, k)) \/ Wanted(t) = <<k, e>>
      <4>1. CASE pc[t] \in {"enter"}
        BY <1>1, <1>2, <4>1, WaitCases, Locks, SMT DEF Inv, TypeOK, OutScoped, Holds, Mine,
           Kind, WithModem, WithCallback, WithMutex, WithOut
      <4>2. CASE pc[t] \in {"api", "try"}
        BY <1>1, <1>2, <4>2, WaitCases, Locks, SMT DEF Inv, TypeOK, OutScoped, Holds, Mine,
           Kind, WithModem, WithCallback, WithMutex, WithOut
      <4>3. CASE pc[t] \in {"apiMutex", "get", "busy"}
        BY <1>1, <1>2, <4>3, WaitCases, Locks, SMT DEF Inv, TypeOK, OutScoped, Holds, Mine,
           Kind, WithModem, WithCallback, WithMutex, WithOut
      <4>4. CASE pc[t] \in {"detach"}
        BY <1>1, <1>2, <4>4, WaitCases, Locks, SMT DEF Inv, TypeOK, OutScoped, Holds, Mine,
           Kind, WithModem, WithCallback, WithMutex, WithOut
      <4>5. CASE pc[t] \in {"lock"}
        BY <1>1, <1>2, <4>5, WaitCases, Locks, SMT DEF Inv, TypeOK, OutScoped, Holds, Mine,
           Kind, WithModem, WithCallback, WithMutex, WithOut
      <4>6. CASE pc[t] \in {"out"}
        BY <1>1, <1>2, <4>6, WaitCases, Locks, SMT DEF Inv, TypeOK, OutScoped, Holds, Mine,
           Kind, WithModem, WithCallback, WithMutex, WithOut
      <4>7. CASE pc[t] \in {"cb"}
        BY <1>1, <1>2, <4>7, WaitCases, Locks, SMT DEF Inv, TypeOK, OutScoped, Holds, Mine,
           Kind, WithModem, WithCallback, WithMutex, WithOut
      <4> QED BY <1>1, <1>2, <4>1, <4>2, <4>3, <4>4, <4>5, <4>6, <4>7, WaitCases
    <3>3. t # Free
      BY LockAssumption DEF Thread, BodyThread
    <3> QED BY <1>2, <1>4, <2>1, <3>1, <3>2, <3>3 DEF Owns
  <2>3. /\ own'[Body] = own[Body] \/ (own[Body] \in {Free, t} /\ own'[Body] \in {Free, t})
        /\ \A k \in Kind, e \in Engine :
             \/ own'[<<k, e>>] = own[<<k, e>>]
             \/ own[<<k, e>>] \in {Free, t} /\ own'[<<k, e>>] \in {Free, t}
    BY <1>2, <1>4, LockAssumption DEF Thread, BodyThread
  <2>4. /\ \A u \in Thread \ {t} : pc'[u] = pc[u] /\ at'[u] = at[u] /\ viaOut'[u] = viaOut[u]
        /\ t = Main \/ nested' = nested
    BY <1>1, <1>2, SMT DEF Inv, TypeOK
  <2> QED BY <1>1, <1>3, <2>2, <2>3, <2>4, Moved DEF Inv
<1>6. OutScoped'
  BY <1>1, <1>2, WaitCases, SMT DEF Inv, TypeOK, OutScoped, WithOut
<1>7. CallbackAttached'
  BY <1>1, <1>2, WaitCases, SMT DEF Inv, TypeOK, CallbackAttached
<1> QED BY <1>3, <1>5, <1>6, <1>7 DEF Inv, TypeOK, Types

(* Leave keeps the invariant.                                               *)
LEMMA LeaveInv ==
  ASSUME Inv, NEW t \in BodyThread, Leave(t)
  PROVE  Inv'
<1>1. t \in Thread
  BY DEF Thread, BodyThread
<1>2. Types'
  BY <1>1, Locks, SMT DEF Inv, TypeOK, Types, Position, Leave, Signal, Go, engineVars,
     Kind
<1>3. /\ own'[Body] = Free
      /\ \A k \in Kind, e \in Engine :
           own'[<<k, e>>] = own[<<k, e>>]
  BY <1>1, Locks, SMT DEF Inv, TypeOK, Kind, Leave, Signal, Go, engineVars
<1>4. Ownership'
  <2>1. Owns(t) /\ (viaOut[t] => pc[t] \in WithOut \cup {"out"})
    BY <1>1 DEF Inv, TypeOK, Ownership, OutScoped, Owns
  <2>2. Owns(t)'
    BY <1>1, <1>3, <2>1, LockAssumption, SMT DEF Inv, TypeOK, Owns, Leave, Signal, Go,
       engineVars, Kind, Holds, HoldsBody, WithBody, WithModem, WithCallback, WithMutex,
       WithOut, Thread, BodyThread
  <2>3. /\ own'[Body] = own[Body] \/ (own[Body] \in {Free, t} /\ own'[Body] \in {Free, t})
        /\ \A k \in Kind, e \in Engine :
             \/ own'[<<k, e>>] = own[<<k, e>>]
             \/ own[<<k, e>>] \in {Free, t} /\ own'[<<k, e>>] \in {Free, t}
    BY <1>1, <1>3, <2>1, SMT DEF Owns, Leave, Kind, Holds, HoldsBody, WithBody,
       WithModem, WithCallback, WithMutex, WithOut
  <2>4. /\ \A u \in Thread \ {t} : pc'[u] = pc[u] /\ at'[u] = at[u] /\ viaOut'[u] = viaOut[u]
        /\ t = Main \/ nested' = nested
    BY <1>1, SMT DEF Inv, TypeOK, Leave, Signal, Go, engineVars
  <2> QED BY <1>1, <1>2, <2>2, <2>3, <2>4, Moved DEF Inv
<1>5. OutScoped'
  BY <1>1, SMT DEF Inv, TypeOK, OutScoped, WithOut, Leave, Signal, Go, engineVars
<1>6. CallbackAttached'
  BY <1>1, SMT DEF Inv, TypeOK, CallbackAttached, Leave, Signal, Go, engineVars
<1> QED BY <1>2, <1>4, <1>5, <1>6 DEF Inv, TypeOK, Types

(* ReturnApi keeps the invariant.                                           *)
LEMMA ReturnApiInv ==
  ASSUME Inv, NEW t \in BodyThread, ReturnApi(t)
  PROVE  Inv'
<1>1. t \in Thread
  BY DEF Thread, BodyThread
<1>2. Types'
  BY <1>1, Locks, SMT DEF Inv, TypeOK, Types, Position, ReturnApi, Signal, Go, atSide,
     engineVars, Mine, Kind
<1>3. /\ own'[Body] = own[Body]
      /\ \A k \in Kind, e \in Engine :
           own'[<<k, e>>] = IF k \in {"MutexModem", "Mutex"} /\ e = at[t] THEN Free
           ELSE own[<<k, e>>]
  BY <1>1, Locks, SMT DEF Inv, TypeOK, Kind, ReturnApi, Signal, Go, atSide, engineVars,
     Mine
<1>4. Ownership'
  <2>1. Owns(t) /\ (viaOut[t] => pc[t] \in WithOut \cup {"out"})
    BY <1>1 DEF Inv, TypeOK, Ownership, OutScoped, Owns
  <2>2. Owns(t)'
    BY <1>1, <1>3, <2>1, LockAssumption, SMT DEF Inv, TypeOK, Owns, ReturnApi, Signal,
       Go, atSide, engineVars, Mine, Kind, Holds, HoldsBody, WithBody, WithModem,
       WithCallback, WithMutex, WithOut, Thread, BodyThread
  <2>3. /\ own'[Body] = own[Body] \/ (own[Body] \in {Free, t} /\ own'[Body] \in {Free, t})
        /\ \A k \in Kind, e \in Engine :
             \/ own'[<<k, e>>] = own[<<k, e>>]
             \/ own[<<k, e>>] \in {Free, t} /\ own'[<<k, e>>] \in {Free, t}
    BY <1>1, <1>3, <2>1, SMT DEF Owns, ReturnApi, Kind, Holds, HoldsBody, WithBody,
       WithModem, WithCallback, WithMutex, WithOut
  <2>4. /\ \A u \in Thread \ {t} : pc'[u] = pc[u] /\ at'[u] = at[u] /\ viaOut'[u] = viaOut[u]
        /\ t = Main \/ nested' = nested
    BY <1>1, SMT DEF Inv, TypeOK, ReturnApi, Signal, Go, atSide, engineVars, Mine
  <2> QED BY <1>1, <1>2, <2>2, <2>3, <2>4, Moved DEF Inv
<1>5. OutScoped'
  BY <1>1, SMT DEF Inv, TypeOK, OutScoped, WithOut, ReturnApi, Signal, Go, atSide,
     engineVars, Mine
<1>6. CallbackAttached'
  BY <1>1, SMT DEF Inv, TypeOK, CallbackAttached, ReturnApi, Signal, Go, atSide,
     engineVars, Mine
<1> QED BY <1>2, <1>4, <1>5, <1>6 DEF Inv, TypeOK, Types

(* ReturnGet keeps the invariant.                                           *)
LEMMA ReturnGetInv ==
  ASSUME Inv, NEW t \in BodyThread, ReturnGet(t)
  PROVE  Inv'
<1>1. t \in Thread
  BY DEF Thread, BodyThread
<1>2. Types'
  BY <1>1, Locks, SMT DEF Inv, TypeOK, Types, Position, ReturnGet, Signal, Go, atSide,
     engineVars, Mine, Kind
<1>3. /\ own'[Body] = own[Body]
      /\ \A k \in Kind, e \in Engine :
           own'[<<k, e>>] = IF k \in {"Mutex"} /\ e = at[t] THEN Free
           ELSE own[<<k, e>>]
  BY <1>1, Locks, SMT DEF Inv, TypeOK, Kind, ReturnGet, Signal, Go, atSide, engineVars,
     Mine
<1>4. Ownership'
  <2>1. Owns(t) /\ (viaOut[t] => pc[t] \in WithOut \cup {"out"})
    BY <1>1 DEF Inv, TypeOK, Ownership, OutScoped, Owns
  <2>2. Owns(t)'
    BY <1>1, <1>3, <2>1, LockAssumption, SMT DEF Inv, TypeOK, Owns, ReturnGet, Signal,
       Go, atSide, engineVars, Mine, Kind, Holds, HoldsBody, WithBody, WithModem,
       WithCallback, WithMutex, WithOut, Thread, BodyThread
  <2>3. /\ own'[Body] = own[Body] \/ (own[Body] \in {Free, t} /\ own'[Body] \in {Free, t})
        /\ \A k \in Kind, e \in Engine :
             \/ own'[<<k, e>>] = own[<<k, e>>]
             \/ own[<<k, e>>] \in {Free, t} /\ own'[<<k, e>>] \in {Free, t}
    BY <1>1, <1>3, <2>1, SMT DEF Owns, ReturnGet, Kind, Holds, HoldsBody, WithBody,
       WithModem, WithCallback, WithMutex, WithOut
  <2>4. /\ \A u \in Thread \ {t} : pc'[u] = pc[u] /\ at'[u] = at[u] /\ viaOut'[u] = viaOut[u]
        /\ t = Main \/ nested' = nested
    BY <1>1, SMT DEF Inv, TypeOK, ReturnGet, Signal, Go, atSide, engineVars, Mine
  <2> QED BY <1>1, <1>2, <2>2, <2>3, <2>4, Moved DEF Inv
<1>5. OutScoped'
  BY <1>1, SMT DEF Inv, TypeOK, OutScoped, WithOut, ReturnGet, Signal, Go, atSide,
     engineVars, Mine
<1>6. CallbackAttached'
  BY <1>1, SMT DEF Inv, TypeOK, CallbackAttached, ReturnGet, Signal, Go, atSide,
     engineVars, Mine
<1> QED BY <1>2, <1>4, <1>5, <1>6 DEF Inv, TypeOK, Types

(* CheckStatePost keeps the invariant.                                      *)
LEMMA CheckStatePostInv ==
  ASSUME Inv, \E e \in Engine : CheckStatePost(e)
  PROVE  Inv'
<1>1. Main \in Thread
  BY DEF Thread, BodyThread
<1>2. Types'
  BY <1>1, Locks, SMT DEF Inv, TypeOK, Types, Position, CheckStatePost, Signal, Go,
     engineVars, Kind
<1>3. /\ own'[Body] = Free
      /\ \A k \in Kind, e \in Engine :
           own'[<<k, e>>] = own[<<k, e>>]
  BY <1>1, Locks, SMT DEF Inv, TypeOK, Kind, CheckStatePost, Signal, Go, engineVars
<1>4. Ownership'
  <2>1. Owns(Main) /\ (viaOut[Main] => pc[Main] \in WithOut \cup {"out"})
    BY <1>1 DEF Inv, TypeOK, Ownership, OutScoped, Owns
  <2>2. Owns(Main)'
    BY <1>1, <1>3, <2>1, LockAssumption, SMT DEF Inv, TypeOK, Owns, CheckStatePost,
       Signal, Go, engineVars, Kind, Holds, HoldsBody, WithBody, WithModem,
       WithCallback, WithMutex, WithOut, Thread, BodyThread
  <2>3. /\ own'[Body] = own[Body] \/ (own[Body] \in {Free, Main} /\ own'[Body] \in {Free, Main})
        /\ \A k \in Kind, e \in Engine :
             \/ own'[<<k, e>>] = own[<<k, e>>]
             \/ own[<<k, e>>] \in {Free, Main} /\ own'[<<k, e>>] \in {Free, Main}
    BY <1>1, <1>3, <2>1, SMT DEF Owns, CheckStatePost, Kind, Holds, HoldsBody, WithBody,
       WithModem, WithCallback, WithMutex, WithOut
  <2>4. /\ \A u \in Thread \ {Main} : pc'[u] = pc[u] /\ at'[u] = at[u] /\ viaOut'[u] = viaOut[u]
        /\ Main = Main \/ nested' = nested
    BY <1>1, SMT DEF Inv, TypeOK, CheckStatePost, Signal, Go, engineVars
  <2> QED BY <1>1, <1>2, <2>2, <2>3, <2>4, Moved DEF Inv
<1>5. OutScoped'
  BY <1>1, SMT DEF Inv, TypeOK, OutScoped, WithOut, CheckStatePost, Signal, Go, engineVars
<1>6. CallbackAttached'
  BY <1>1, SMT DEF Inv, TypeOK, CallbackAttached, CheckStatePost, Signal, Go, engineVars
<1> QED BY <1>2, <1>4, <1>5, <1>6 DEF Inv, TypeOK, Types

(* SendingNotCompleted keeps the invariant.                                 *)
LEMMA SendingNotCompletedInv ==
  ASSUME Inv, SendingNotCompleted
  PROVE  Inv'
<1>1. Main \in Thread
  BY DEF Thread, BodyThread
<1>2. Types'
  BY <1>1, Locks, SMT DEF Inv, TypeOK, Types, Position, SendingNotCompleted, Signal, Go,
     atSide, engineVars, Mine, NapLocks, Kind
<1>3. /\ \/ own'[Body] = own[Body] /\ (nested \/ pc'[Main] # "nap")
         \/ own'[Body] = Free /\ ~nested /\ pc'[Main] = "nap"
      /\ \A k \in Kind, e \in Engine :
           own'[<<k, e>>] = IF k \in {"Mutex"} /\ e = at[Main] THEN Free
           ELSE own[<<k, e>>]
  BY <1>1, Locks, SMT DEF Inv, TypeOK, Kind, SendingNotCompleted, Signal, Go, atSide,
     engineVars, Mine, NapLocks
<1>4. Ownership'
  <2>1. Owns(Main) /\ (viaOut[Main] => pc[Main] \in WithOut \cup {"out"})
    BY <1>1 DEF Inv, TypeOK, Ownership, OutScoped, Owns
  <2>2. Owns(Main)'
    BY <1>1, <1>3, <2>1, LockAssumption, SMT DEF Inv, TypeOK, Owns, SendingNotCompleted,
       Signal, Go, atSide, engineVars, Mine, NapLocks, Kind, Holds, HoldsBody, WithBody,
       WithModem, WithCallback, WithMutex, WithOut, Thread, BodyThread
  <2>3. /\ own'[Body] = own[Body] \/ (own[Body] \in {Free, Main} /\ own'[Body] \in {Free, Main})
        /\ \A k \in Kind, e \in Engine :
             \/ own'[<<k, e>>] = own[<<k, e>>]
             \/ own[<<k, e>>] \in {Free, Main} /\ own'[<<k, e>>] \in {Free, Main}
    BY <1>1, <1>3, <2>1, SMT DEF Owns, SendingNotCompleted, Kind, Holds, HoldsBody,
       WithBody, WithModem, WithCallback, WithMutex, WithOut
  <2>4. /\ \A u \in Thread \ {Main} : pc'[u] = pc[u] /\ at'[u] = at[u] /\ viaOut'[u] = viaOut[u]
        /\ Main = Main \/ nested' = nested
    BY <1>1, SMT DEF Inv, TypeOK, SendingNotCompleted, Signal, Go, atSide, engineVars,
       Mine, NapLocks
  <2> QED BY <1>1, <1>2, <2>2, <2>3, <2>4, Moved DEF Inv
<1>5. OutScoped'
  BY <1>1, SMT DEF Inv, TypeOK, OutScoped, WithOut, SendingNotCompleted, Signal, Go,
     atSide, engineVars, Mine, NapLocks
<1>6. CallbackAttached'
  BY <1>1, SMT DEF Inv, TypeOK, CallbackAttached, SendingNotCompleted, Signal, Go, atSide,
     engineVars, Mine, NapLocks
<1> QED BY <1>2, <1>4, <1>5, <1>6 DEF Inv, TypeOK, Types

(* TryLockModemCallback keeps the invariant.                                *)
LEMMA TryLockModemCallbackInv ==
  ASSUME Inv, TryLockModemCallback
  PROVE  Inv'
<1>1. Main \in Thread
  BY DEF Thread, BodyThread
<1>2. Types'
  BY <1>1, Locks, SMT DEF Inv, TypeOK, Types, Position, TryLockModemCallback, Wait, Go,
     atSide, engineVars, Mine, Kind
<1>3. /\ own'[Body] = own[Body]
      /\ \A k \in Kind, e \in Engine :
           own'[<<k, e>>] = IF k = "MutexModemCallback" /\ e = at[Main] THEN Main
           ELSE own[<<k, e>>]
  BY <1>1, Locks, SMT DEF Inv, TypeOK, Kind, TryLockModemCallback, Wait, Go, atSide,
     engineVars, Mine
<1>4. Ownership'
  <2>1. Owns(Main) /\ (viaOut[Main] => pc[Main] \in WithOut \cup {"out"})
    BY <1>1 DEF Inv, TypeOK, Ownership, OutScoped, Owns
  <2>2. Owns(Main)'
    BY <1>1, <1>3, <2>1, LockAssumption, SMT DEF Inv, TypeOK, Owns,
       TryLockModemCallback, Wait, Go, atSide, engineVars, Mine, Kind, Holds, HoldsBody,
       WithBody, WithModem, WithCallback, WithMutex, WithOut, Thread, BodyThread
  <2>3. /\ own'[Body] = own[Body] \/ (own[Body] \in {Free, Main} /\ own'[Body] \in {Free, Main})
        /\ \A k \in Kind, e \in Engine :
             \/ own'[<<k, e>>] = own[<<k, e>>]
             \/ own[<<k, e>>] \in {Free, Main} /\ own'[<<k, e>>] \in {Free, Main}
    BY <1>1, <1>3, <2>1, SMT DEF Owns, TryLockModemCallback, Wait, Mine, Kind, Holds,
       HoldsBody, WithBody, WithModem, WithCallback, WithMutex, WithOut
  <2>4. /\ \A u \in Thread \ {Main} : pc'[u] = pc[u] /\ at'[u] = at[u] /\ viaOut'[u] = viaOut[u]
        /\ Main = Main \/ nested' = nested
    BY <1>1, SMT DEF Inv, TypeOK, TryLockModemCallback, Wait, Go, atSide, engineVars,
       Mine
  <2> QED BY <1>1, <1>2, <2>2, <2>3, <2>4, Moved DEF Inv
<1>5. OutScoped'
  BY <1>1, SMT DEF Inv, TypeOK, OutScoped, WithOut, TryLockModemCallback, Wait, Go,
     atSide, engineVars, Mine
<1>6. CallbackAttached'
  BY <1>1, SMT DEF Inv, TypeOK, CallbackAttached, TryLockModemCallback, Wait, Go, atSide,
     engineVars, Mine
<1> QED BY <1>2, <1>4, <1>5, <1>6 DEF Inv, TypeOK, Types

(* TryLockFailed keeps the invariant.                                       *)
LEMMA TryLockFailedInv ==
  ASSUME Inv, TryLockFailed
  PROVE  Inv'
<1>1. Main \in Thread
  BY DEF Thread, BodyThread
<1>2. Types'
  BY <1>1, Locks, SMT DEF Inv, TypeOK, Types, Position, TryLockFailed, Signal, Go, atSide,
     engineVars, Mine, NapLocks, Kind
<1>3. /\ own'[Body] = IF nested THEN own[Body] ELSE Free
      /\ \A k \in Kind, e \in Engine :
           own'[<<k, e>>] = IF k \in {"MutexModem"} /\ e = at[Main] THEN Free
           ELSE own[<<k, e>>]
  BY <1>1, Locks, SMT DEF Inv, TypeOK, Kind, TryLockFailed, Signal, Go, atSide,
     engineVars, Mine, NapLocks
<1>4. Ownership'
  <2>1. Owns(Main) /\ (viaOut[Main] => pc[Main] \in WithOut \cup {"out"})
    BY <1>1 DEF Inv, TypeOK, Ownership, OutScoped, Owns
  <2>2. Owns(Main)'
    BY <1>1, <1>3, <2>1, LockAssumption, SMT DEF Inv, TypeOK, Owns, TryLockFailed,
       Signal, Go, atSide, engineVars, Mine, NapLocks, Kind, Holds, HoldsBody, WithBody,
       WithModem, WithCallback, WithMutex, WithOut, Thread, BodyThread
  <2>3. /\ own'[Body] = own[Body] \/ (own[Body] \in {Free, Main} /\ own'[Body] \in {Free, Main})
        /\ \A k \in Kind, e \in Engine :
             \/ own'[<<k, e>>] = own[<<k, e>>]
             \/ own[<<k, e>>] \in {Free, Main} /\ own'[<<k, e>>] \in {Free, Main}
    BY <1>1, <1>3, <2>1, SMT DEF Owns, TryLockFailed, Kind, Holds, HoldsBody, WithBody,
       WithModem, WithCallback, WithMutex, WithOut
  <2>4. /\ \A u \in Thread \ {Main} : pc'[u] = pc[u] /\ at'[u] = at[u] /\ viaOut'[u] = viaOut[u]
        /\ Main = Main \/ nested' = nested
    BY <1>1, SMT DEF Inv, TypeOK, TryLockFailed, Signal, Go, atSide, engineVars, Mine,
       NapLocks
  <2> QED BY <1>1, <1>2, <2>2, <2>3, <2>4, Moved DEF Inv
<1>5. OutScoped'
  BY <1>1, SMT DEF Inv, TypeOK, OutScoped, WithOut, TryLockFailed, Signal, Go, atSide,
     engineVars, Mine, NapLocks
<1>6. CallbackAttached'
  BY <1>1, SMT DEF Inv, TypeOK, CallbackAttached, TryLockFailed, Signal, Go, atSide,
     engineVars, Mine, NapLocks
<1> QED BY <1>2, <1>4, <1>5, <1>6 DEF Inv, TypeOK, Types

(* Wake keeps the invariant.                                                *)
LEMMA WakeInv ==
  ASSUME Inv, Wake
  PROVE  Inv'
<1>1. Main \in Thread
  BY DEF Thread, BodyThread
<1>2. Types'
  BY <1>1, Locks, SMT DEF Inv, TypeOK, Types, Position, Wake, Go, atSide, engineVars, Kind
<1>3. /\ own'[Body] = Main
      /\ \A k \in Kind, e \in Engine :
           own'[<<k, e>>] = own[<<k, e>>]
  BY <1>1, Locks, SMT DEF Inv, TypeOK, Kind, Wake, Go, atSide, engineVars
<1>4. Ownership'
  <2>1. Owns(Main) /\ (viaOut[Main] => pc[Main] \in WithOut \cup {"out"})
    BY <1>1 DEF Inv, TypeOK, Ownership, OutScoped, Owns
  <2>2. Owns(Main)'
    BY <1>1, <1>3, <2>1, LockAssumption, SMT DEF Inv, TypeOK, Owns, Wake, Go, atSide,
       engineVars, Kind, Holds, HoldsBody, WithBody, WithModem, WithCallback, WithMutex,
       WithOut, Thread, BodyThread
  <2>3. /\ own'[Body] = own[Body] \/ (own[Body] \in {Free, Main} /\ own'[Body] \in {Free, Main})
        /\ \A k \in Kind, e \in Engine :
             \/ own'[<<k, e>>] = own[<<k, e>>]
             \/ own[<<k, e>>] \in {Free, Main} /\ own'[<<k, e>>] \in {Free, Main}
    BY <1>1, <1>3, <2>1, SMT DEF Owns, Wake, Kind, Holds, HoldsBody, WithBody,
       WithModem, WithCallback, WithMutex, WithOut
  <2>4. /\ \A u \in Thread \ {Main} : pc'[u] = pc[u] /\ at'[u] = at[u] /\ viaOut'[u] = viaOut[u]
        /\ Main = Main \/ nested' = nested
    BY <1>1, SMT DEF Inv, TypeOK, Wake, Go, atSide, engineVars
  <2> QED BY <1>1, <1>2, <2>2, <2>3, <2>4, Moved DEF Inv
<1>5. OutScoped'
  BY <1>1, SMT DEF Inv, TypeOK, OutScoped, WithOut, Wake, Go, atSide, engineVars
<1>6. CallbackAttached'
  BY <1>1, SMT DEF Inv, TypeOK, CallbackAttached, Wake, Go, atSide, engineVars
<1> QED BY <1>2, <1>4, <1>5, <1>6 DEF Inv, TypeOK, Types

(* Detach keeps the invariant.                                              *)
LEMMA DetachInv ==
  ASSUME Inv, Detach
  PROVE  Inv'
<1>1. Main \in Thread
  BY DEF Thread, BodyThread
<1>2. Types'
  BY <1>1, Locks, SMT DEF Inv, TypeOK, Types, Position, Detach, Signal, Go, Mine, Kind
<1>3. /\ own'[Body] = own[Body]
      /\ \A k \in Kind, e \in Engine :
           own'[<<k, e>>] = IF k \in {"MutexModem", "MutexModemCallback", "Mutex"} /\ e = at[Main] THEN Free
           ELSE own[<<k, e>>]
  BY <1>1, Locks, SMT DEF Inv, TypeOK, Kind, Detach, Signal, Go, Mine
<1>4. Ownership'
  <2>1. Owns(Main) /\ (viaOut[Main] => pc[Main] \in WithOut \cup {"out"})
    BY <1>1 DEF Inv, TypeOK, Ownership, OutScoped, Owns
  <2>2. Owns(Main)'
    <3>1. /\ pc[Main] = "detachIn" /\ pc'[Main] = "body" /\ at'[Main] = at[Main]
          /\ viaOut'[Main] = viaOut[Main] /\ nested' = nested
      BY <1>1, SMT DEF Inv, TypeOK, Detach, Signal, Go, Mine
    <3> QED
      BY <1>1, <1>3, <2>1, <3>1, LockAssumption, SMT DEF Owns, Kind, Holds, HoldsBody,
         WithBody, WithModem, WithCallback, WithMutex, WithOut, Thread, BodyThread
  <2>3. /\ own'[Body] = own[Body] \/ (own[Body] \in {Free, Main} /\ own'[Body] \in {Free, Main})
        /\ \A k \in Kind, e \in Engine :
             \/ own'[<<k, e>>] = own[<<k, e>>]
             \/ own[<<k, e>>] \in {Free, Main} /\ own'[<<k, e>>] \in {Free, Main}
    BY <1>1, <1>3, <2>1, SMT DEF Owns, Detach, Kind, Holds, HoldsBody, WithBody,
       WithModem, WithCallback, WithMutex, WithOut
  <2>4. /\ \A u \in Thread \ {Main} : pc'[u] = pc[u] /\ at'[u] = at[u] /\ viaOut'[u] = viaOut[u]
        /\ Main = Main \/ nested' = nested
    BY <1>1, SMT DEF Inv, TypeOK, Detach, Signal, Go, Mine
  <2> QED BY <1>1, <1>2, <2>2, <2>3, <2>4, Moved DEF Inv
<1>5. OutScoped'
  BY <1>1, SMT DEF Inv, TypeOK, OutScoped, WithOut, Detach, Signal, Go, Mine
<1>6. CallbackAttached'
  <2>1. SUFFICES ASSUME NEW u \in Thread, pc'[u] = "callback"
                 PROVE  modemCallback'[at'[u]]
    BY DEF CallbackAttached
  <2>2. /\ u # Main /\ pc[u] = "callback" /\ at'[u] = at[u]
        /\ pc[Main] = "detachIn" /\ modemCallback[at[u]]
    BY <1>1, <2>1, SMT DEF Inv, TypeOK, CallbackAttached, Detach, Go, Signal
  <2>3. /\ own[<<"MutexModemCallback", at[u]>>] = u
        /\ at[Main] = at[u] => own[<<"MutexModemCallback", at[u]>>] = Main
    BY <1>1, <2>2, SMT DEF Inv, TypeOK, Ownership, Holds, WithCallback, Kind
  <2> QED BY <1>1, <2>2, <2>3, SMT DEF Inv, TypeOK, Detach
<1> QED BY <1>2, <1>4, <1>5, <1>6 DEF Inv, TypeOK, Types

(* LeaveEngine keeps the invariant.                                         *)
LEMMA LeaveEngineInv ==
  ASSUME Inv, NEW t \in Thread, LeaveEngine(t)
  PROVE  Inv'
<1>1. t \in Thread
  BY DEF Thread, BodyThread
<1>2. Types'
  BY <1>1, Locks, SMT DEF Inv, TypeOK, Types, Position, LeaveEngine, Signal, Go, Mine,
     engineVars, Kind
<1>3. /\ own'[Body] = own[Body]
      /\ \A k \in Kind, e \in Engine :
           own'[<<k, e>>] = IF (k = "Mutex" \/ (viaOut[t] /\ k = "MutexOut")) /\ e = at[t] THEN Free
           ELSE own[<<k, e>>]
  BY <1>1, Locks, SMT DEF Inv, TypeOK, Kind, LeaveEngine, Signal, Go, Mine, engineVars
<1>4. Ownership'
  <2>1. Owns(t) /\ (viaOut[t] => pc[t] \in WithOut \cup {"out"})
    BY <1>1 DEF Inv, TypeOK, Ownership, OutScoped, Owns
  <2>2. Owns(t)'
    <3>1. /\ pc[t] = "engine" /\ pc'[t] = (IF t = Main THEN "enter" ELSE "idle") /\ at'[t] = at[t]
          /\ viaOut'[t] = FALSE /\ nested' = nested
      BY <1>1, SMT DEF Inv, TypeOK, LeaveEngine, Signal, Go, Mine, engineVars
    <3> QED
      BY <1>1, <1>3, <2>1, <3>1, LockAssumption, SMT DEF Owns, Kind, Holds, HoldsBody,
         WithBody, WithModem, WithCallback, WithMutex, WithOut, Thread, BodyThread
  <2>3. /\ own'[Body] = own[Body] \/ (own[Body] \in {Free, t} /\ own'[Body] \in {Free, t})
        /\ \A k \in Kind, e \in Engine :
             \/ own'[<<k, e>>] = own[<<k, e>>]
             \/ own[<<k, e>>] \in {Free, t} /\ own'[<<k, e>>] \in {Free, t}
    BY <1>1, <1>3, <2>1, SMT DEF Owns, LeaveEngine, Kind, Holds, HoldsBody, WithBody,
       WithModem, WithCallback, WithMutex, WithOut
  <2>4. /\ \A u \in Thread \ {t} : pc'[u] = pc[u] /\ at'[u] = at[u] /\ viaOut'[u] = viaOut[u]
        /\ t = Main \/ nested' = nested
    BY <1>1, SMT DEF Inv, TypeOK, LeaveEngine, Signal, Go, Mine, engineVars
  <2> QED BY <1>1, <1>2, <2>2, <2>3, <2>4, Moved DEF Inv
<1>5. OutScoped'
  BY <1>1, SMT DEF Inv, TypeOK, OutScoped, WithOut, LeaveEngine, Signal, Go, Mine,
     engineVars
<1>6. CallbackAttached'
  BY <1>1, SMT DEF Inv, TypeOK, CallbackAttached, LeaveEngine, Signal, Go, Mine,
     engineVars
<1> QED BY <1>2, <1>4, <1>5, <1>6 DEF Inv, TypeOK, Types

(* Sleep keeps the invariant.                                               *)
LEMMA SleepInv ==
  ASSUME Inv, NEW t \in Thread, Sleep(t)
  PROVE  Inv'
<1>1. t \in Thread
  BY DEF Thread, BodyThread
<1>2. Types'
  BY <1>1, Locks, SMT DEF Inv, TypeOK, Types, Position, Sleep, Signal, Go, Mine, atSide,
     engineVars, Kind
<1>3. /\ own'[Body] = own[Body]
      /\ \A k \in Kind, e \in Engine :
           own'[<<k, e>>] = IF k \in {"Mutex"} /\ e = at[t] THEN Free
           ELSE own[<<k, e>>]
  BY <1>1, Locks, SMT DEF Inv, TypeOK, Kind, Sleep, Signal, Go, Mine, atSide, engineVars
<1>4. Ownership'
  <2>1. Owns(t) /\ (viaOut[t] => pc[t] \in WithOut \cup {"out"})
    BY <1>1 DEF Inv, TypeOK, Ownership, OutScoped, Owns
  <2>2. Owns(t)'
    <3>1. /\ pc[t] = "engine" /\ pc'[t] = "sleep" /\ at'[t] = at[t]
          /\ viaOut'[t] = viaOut[t] /\ nested' = nested
      BY <1>1, SMT DEF Inv, TypeOK, Sleep, Signal, Go, Mine, atSide, engineVars
    <3> QED
      BY <1>1, <1>3, <2>1, <3>1, LockAssumption, SMT DEF Owns, Kind, Holds, HoldsBody,
         WithBody, WithModem, WithCallback, WithMutex, WithOut, Thread, BodyThread
  <2>3. /\ own'[Body] = own[Body] \/ (own[Body] \in {Free, t} /\ own'[Body] \in {Free, t})
        /\ \A k \in Kind, e \in Engine :
             \/ own'[<<k, e>>] = own[<<k, e>>]
             \/ own[<<k, e>>] \in {Free, t} /\ own'[<<k, e>>] \in {Free, t}
    BY <1>1, <1>3, <2>1, SMT DEF Owns, Sleep, Kind, Holds, HoldsBody, WithBody,
       WithModem, WithCallback, WithMutex, WithOut
  <2>4. /\ \A u \in Thread \ {t} : pc'[u] = pc[u] /\ at'[u] = at[u] /\ viaOut'[u] = viaOut[u]
        /\ t = Main \/ nested' = nested
    BY <1>1, SMT DEF Inv, TypeOK, Sleep, Signal, Go, Mine, atSide, engineVars
  <2> QED BY <1>1, <1>2, <2>2, <2>3, <2>4, Moved DEF Inv
<1>5. OutScoped'
  BY <1>1, SMT DEF Inv, TypeOK, OutScoped, WithOut, Sleep, Signal, Go, Mine, atSide,
     engineVars
<1>6. CallbackAttached'
  BY <1>1, SMT DEF Inv, TypeOK, CallbackAttached, Sleep, Signal, Go, Mine, atSide,
     engineVars
<1> QED BY <1>2, <1>4, <1>5, <1>6 DEF Inv, TypeOK, Types

(* ModemCallbackWithUnlock keeps the invariant.                             *)
LEMMA ModemCallbackWithUnlockInv ==
  ASSUME Inv, NEW t \in Thread, ModemCallbackWithUnlock(t)
  PROVE  Inv'
<1>1. t \in Thread
  BY DEF Thread, BodyThread
<1>2. Types'
  BY <1>1, Locks, SMT DEF Inv, TypeOK, Types, Position, ModemCallbackWithUnlock, Signal,
     Go, Mine, atSide, engineVars, Kind
<1>3. /\ own'[Body] = own[Body]
      /\ \A k \in Kind, e \in Engine :
           own'[<<k, e>>] = IF k \in {"Mutex"} /\ e = at[t] THEN Free
           ELSE own[<<k, e>>]
  BY <1>1, Locks, SMT DEF Inv, TypeOK, Kind, ModemCallbackWithUnlock, Signal, Go, Mine,
     atSide, engineVars
<1>4. Ownership'
  <2>1. Owns(t) /\ (viaOut[t] => pc[t] \in WithOut \cup {"out"})
    BY <1>1 DEF Inv, TypeOK, Ownership, OutScoped, Owns
  <2>2. Owns(t)'
    BY <1>1, <1>3, <2>1, LockAssumption, SMT DEF Inv, TypeOK, Owns,
       ModemCallbackWithUnlock, Signal, Go, Mine, atSide, engineVars, Kind, Holds,
       HoldsBody, WithBody, WithModem, WithCallback, WithMutex, WithOut, Thread,
       BodyThread
  <2>3. /\ own'[Body] = own[Body] \/ (own[Body] \in {Free, t} /\ own'[Body] \in {Free, t})
        /\ \A k \in Kind, e \in Engine :
             \/ own'[<<k, e>>] = own[<<k, e>>]
             \/ own[<<k, e>>] \in {Free, t} /\ own'[<<k, e>>] \in {Free, t}
    BY <1>1, <1>3, <2>1, SMT DEF Owns, ModemCallbackWithUnlock, Kind, Holds, HoldsBody,
       WithBody, WithModem, WithCallback, WithMutex, WithOut
  <2>4. /\ \A u \in Thread \ {t} : pc'[u] = pc[u] /\ at'[u] = at[u] /\ viaOut'[u] = viaOut[u]
        /\ t = Main \/ nested' = nested
    BY <1>1, SMT DEF Inv, TypeOK, ModemCallbackWithUnlock, Signal, Go, Mine, atSide,
       engineVars
  <2> QED BY <1>1, <1>2, <2>2, <2>3, <2>4, Moved DEF Inv
<1>5. OutScoped'
  BY <1>1, SMT DEF Inv, TypeOK, OutScoped, WithOut, ModemCallbackWithUnlock, Signal, Go,
     Mine, atSide, engineVars
<1>6. CallbackAttached'
  BY <1>1, SMT DEF Inv, TypeOK, CallbackAttached, ModemCallbackWithUnlock, Signal, Go,
     Mine, atSide, engineVars
<1> QED BY <1>2, <1>4, <1>5, <1>6 DEF Inv, TypeOK, Types

(* CallbackReturns keeps the invariant.                                     *)
LEMMA CallbackReturnsInv ==
  ASSUME Inv, NEW t \in Thread, CallbackReturns(t)
  PROVE  Inv'
<1>1. t \in Thread
  BY DEF Thread, BodyThread
<1>2. Types'
  BY <1>1, Locks, SMT DEF Inv, TypeOK, Types, Position, CallbackReturns, Signal, Go, Mine,
     atSide, engineVars, Kind
<1>3. /\ own'[Body] = own[Body]
      /\ \A k \in Kind, e \in Engine :
           own'[<<k, e>>] = IF k \in {"MutexModemCallback"} /\ e = at[t] THEN Free
           ELSE own[<<k, e>>]
  BY <1>1, Locks, SMT DEF Inv, TypeOK, Kind, CallbackReturns, Signal, Go, Mine, atSide,
     engineVars
<1>4. Ownership'
  <2>1. Owns(t) /\ (viaOut[t] => pc[t] \in WithOut \cup {"out"})
    BY <1>1 DEF Inv, TypeOK, Ownership, OutScoped, Owns
  <2>2. Owns(t)'
    BY <1>1, <1>3, <2>1, LockAssumption, SMT DEF Inv, TypeOK, Owns, CallbackReturns,
       Signal, Go, Mine, atSide, engineVars, Kind, Holds, HoldsBody, WithBody,
       WithModem, WithCallback, WithMutex, WithOut, Thread, BodyThread
  <2>3. /\ own'[Body] = own[Body] \/ (own[Body] \in {Free, t} /\ own'[Body] \in {Free, t})
        /\ \A k \in Kind, e \in Engine :
             \/ own'[<<k, e>>] = own[<<k, e>>]
             \/ own[<<k, e>>] \in {Free, t} /\ own'[<<k, e>>] \in {Free, t}
    BY <1>1, <1>3, <2>1, SMT DEF Owns, CallbackReturns, Kind, Holds, HoldsBody,
       WithBody, WithModem, WithCallback, WithMutex, WithOut
  <2>4. /\ \A u \in Thread \ {t} : pc'[u] = pc[u] /\ at'[u] = at[u] /\ viaOut'[u] = viaOut[u]
        /\ t = Main \/ nested' = nested
    BY <1>1, SMT DEF Inv, TypeOK, CallbackReturns, Signal, Go, Mine, atSide, engineVars
  <2> QED BY <1>1, <1>2, <2>2, <2>3, <2>4, Moved DEF Inv
<1>5. OutScoped'
  BY <1>1, SMT DEF Inv, TypeOK, OutScoped, WithOut, CallbackReturns, Signal, Go, Mine,
     atSide, engineVars
<1>6. CallbackAttached'
  BY <1>1, SMT DEF Inv, TypeOK, CallbackAttached, CallbackReturns, Signal, Go, Mine,
     atSide, engineVars
<1> QED BY <1>2, <1>4, <1>5, <1>6 DEF Inv, TypeOK, Types
-----------------------------------------------------------------------------
(* The initial states satisfy the invariant.                                *)
LEMMA InitInv == Init => Inv
<1> SUFFICES ASSUME Init PROVE Inv
  OBVIOUS
<1>1. Types
  <2>1. (CHOOSE e \in Engine : TRUE) \in Engine
    BY LockAssumption
  <2>2. at \in [Thread -> Engine]
    BY <2>1, Zenon DEF Init
  <2>3. /\ pc \in [Thread -> Position] /\ viaOut \in [Thread -> BOOLEAN] /\ nested \in BOOLEAN
        /\ own \in [Lock -> Thread \cup {Free}]
        /\ modemCallback \in [Engine -> BOOLEAN]
        /\ activeEngines \in [Engine -> {"none", "active", "old"}]
    BY Zenon DEF Init, Position
  <2> QED BY <2>2, <2>3 DEF Types
<1>2. Ownership
  BY LockAssumption, Locks, SMT DEF Init, Ownership, Holds, HoldsBody, WithBody, WithModem,
     WithCallback, WithMutex, WithOut, Thread, BodyThread
<1>3. OutScoped /\ CallbackAttached
  BY SMT DEF Init, OutScoped, CallbackAttached
<1> QED BY <1>1, <1>2, <1>3 DEF Inv, TypeOK, Types

(* Every step keeps the invariant.                                          *)
LEMMA NextInv == Inv /\ [Next]_vars => Inv'
<1> SUFFICES ASSUME Inv, [Next]_vars PROVE Inv'
  OBVIOUS
<1>1. ASSUME NEW t \in Thread, Acquire(t) \/ InEngine(t) PROVE Inv'
  BY <1>1, AcquireInv, LeaveEngineInv, SleepInv, AwakeInEngineInv, ModemCallbackWithUnlockInv,
     OnEngineCallbackInv, CallbackReturnsInv DEF InEngine
<1>2. ASSUME NEW t \in BodyThread, Enter(t) \/ InBody(t) PROVE Inv'
  BY <1>2, EnterInv, LeaveInv, ReturnApiInv, ReturnGetInv, CallEngineInv, AttachEngineInv
     DEF InBody
<1>3. CASE HandleCmdRest \/ Detaching
  BY <1>3, HandleCmdRestInv, SendingNotCompletedInv, TryLockModemCallbackInv, TryLockFailedInv,
     WakeInv, DetachInv DEF Detaching
<1>4. CASE \E e \in Engine : CheckStatePost(e) \/ DetachEngine(e)
  BY <1>4, CheckStatePostInv, DetachEngineInv
<1>5. CASE \E m \in Media, e \in Engine : EnterEngine(m, e)
  BY <1>5, EnterEngineInv
<1>6. CASE UNCHANGED vars
  <2>1. Types'
    BY <1>6, SMT DEF Inv, TypeOK, Types, vars, engineVars
  <2>2. Ownership'
    <3>1. (\A t : HoldsBody(t)' <=> HoldsBody(t)) /\ (\A t, k : Holds(t, k)' <=> Holds(t, k))
      BY <1>6 DEF vars, HoldsBody, Holds
    <3> QED BY <1>6, <3>1 DEF Inv, TypeOK, Ownership, vars
  <2>3. OutScoped' /\ CallbackAttached'
    BY <1>6 DEF Inv, OutScoped, CallbackAttached, vars, engineVars
  <2> QED BY <2>1, <2>2, <2>3 DEF Inv, TypeOK, Types
<1> QED BY <1>1, <1>2, <1>3, <1>4, <1>5, <1>6 DEF Next

(* The invariant holds in every reachable state.                            *)
LEMMA Invariant == Spec => []Inv
  BY InitInv, NextInv, PTL DEF Spec

(* Every mutex is owned by the thread whose position says so, on every path *)
(* of the body and of the engines, for any number of threads and engines.   *)
THEOREM LocksOwned == Spec => []TypeOK
<1>1. Inv => TypeOK
  BY DEF Inv
<1> QED BY Invariant, <1>1, PTL

(* No callback runs for an engine whose modemCallback Detach has cleared.   *)
THEOREM NoStaleCallback == Spec => []CallbackAttached
<1>1. Inv => CallbackAttached
  BY DEF Inv
<1> QED BY Invariant, <1>1, PTL
-----------------------------------------------------------------------------
(* What a thread may hold while it waits: the mutexes are taken in the order *)
(* MutexOut, MutexModemCallback, Body, MutexModem, Mutex.                   *)
LEMMA OwnerPosition ==
  ASSUME TypeOK, NEW t \in Thread, Blocked(t), own[Wanted(t)] \in Thread
  PROVE  LET u == own[Wanted(t)] IN
         \/ pc[t] \in {"apiMutex", "get", "busy", "detach", "lock"} /\ pc[u] \in WithMutex
         \/ pc[t] \in {"api", "try"} /\ pc[u] \in WithModem
         \/ pc[t] \in {"enter", "nap", "callback"} /\ HoldsBody(u)
         \/ pc[t] = "cb" /\ pc[u] \in WithCallback
         \/ pc[t] = "out" /\ pc[u] \in WithOut
<1> DEFINE u == own[Wanted(t)]
<1>1. \A k \in Kind : own[<<k, at[t]>>] = u => Holds(u, k)
  BY DEF TypeOK, Ownership
<1>2. own[Body] = u => HoldsBody(u)
  BY DEF TypeOK, Ownership
<1>3. CASE pc[t] \in DOMAIN Waits
  BY <1>1, <1>2, <1>3, WaitCases, SMT DEF Mine, Kind, Holds
<1>4. CASE pc[t] \in {"nap", "callback"}
  <2>1. Wanted(t) = Body
    BY <1>4 DEF Wanted
  <2> QED BY <1>2, <1>4, <2>1
<1> QED BY <1>3, <1>4 DEF Blocked

(* No set of threads in which each waits for a mutex that another one of    *)
(* them holds: nobody in such a set can wait for Mutex, whose owners never  *)
(* wait, nor then for MutexModem, Body, MutexModemCallback and MutexOut.    *)
LEMMA OrderedNoDeadlock == TypeOK => NoDeadlock
<1> SUFFICES ASSUME TypeOK, NEW S \in (SUBSET Thread) \ {{}},
                    \A t \in S : Blocked(t) /\ own[Wanted(t)] \in S
             PROVE  FALSE
  BY DEF NoDeadlock
<1> DEFINE Pos == {"enter", "api", "apiMutex", "get", "busy", "try", "detach", "out", "lock",
                   "cb", "nap", "callback"}
<1>1. \A t \in S : pc[t] \in Pos
  <2> TAKE t \in S
  <2>1. CASE pc[t] \in DOMAIN Waits
    BY <2>1, WaitCases
  <2>2. CASE pc[t] \in {"nap", "callback"}
    BY <2>2
  <2> QED BY <2>1, <2>2 DEF Blocked
<1>2. \A t \in S : pc[t] \notin {"apiMutex", "get", "busy", "detach", "lock"}
  BY <1>1, OwnerPosition, SMT DEF WithMutex
<1>3. \A t \in S : pc[t] \notin {"api", "try"}
  BY <1>1, <1>2, OwnerPosition, SMT DEF WithModem
<1>4. \A t \in S : pc[t] \notin {"enter", "nap", "callback"}
  <2> SUFFICES ASSUME NEW t \in S, pc[t] \in {"enter", "nap", "callback"} PROVE FALSE
    OBVIOUS
  <2> DEFINE u == own[Wanted(t)]
  <2>1. u \in S /\ HoldsBody(u)
    BY OwnerPosition, SMT
  <2>2. CASE pc[u] \in WithBody
    BY <1>1, <1>2, <1>3, <2>1, <2>2, SMT DEF WithBody
  <2>3. CASE u = Main /\ nested /\ pc[u] = "nap"
    <3>1. Wanted(u) = Body /\ own[Body] = u
      BY <2>1, <2>3 DEF Wanted, TypeOK, Ownership
    <3> QED BY <2>1, <3>1 DEF Blocked
  <2> QED BY <2>1, <2>2, <2>3 DEF HoldsBody
<1>5. \A t \in S : pc[t] # "cb"
  BY <1>1, <1>2, <1>4, OwnerPosition, SMT DEF WithCallback
<1>6. \A t \in S : pc[t] # "out"
  BY <1>1, <1>2, <1>4, <1>5, OwnerPosition, SMT DEF WithOut
<1>7. \A t \in S : FALSE
  BY <1>1, <1>2, <1>3, <1>4, <1>5, <1>6, SMT
<1> QED BY <1>7

(* The threads of the body and of its engines never deadlock, for any       *)
(* number of them: the mutexes are waited for in one order, because         *)
(* ModemCallbackWithUnlock gives Mutex up first and TryLockModemCallback    *)
(* does not wait.                                                           *)
THEOREM DeadlockFree == Spec => []NoDeadlock
  BY LocksOwned, OrderedNoDeadlock, PTL

=============================================================================
