----------------------------- MODULE MCThreads ------------------------------
(***************************************************************************)
(* The threads of a modem in two views that share no state: the mutexes of *)
(* the modem's body and its engines, and the threads and queues of its     *)
(* pty.  A behaviour is one of either, view.                               *)
(***************************************************************************)
EXTENDS EngineLocks, PtyThreads

VARIABLE view

ThreadsInit == view \in {"locks", "pty"} /\ Init /\ PtyInit
Locks(A) == view = "locks" /\ A /\ UNCHANGED <<view, ptyVars>>
Pty(A) == view = "pty" /\ A /\ UNCHANGED <<view, vars>>
ThreadsNext == Locks(Next) \/ Pty(PtyNext)

allVars == <<view, vars, ptyVars>>
ThreadsSpec ==
  /\ ThreadsInit /\ [][ThreadsNext]_allVars
  /\ WF_allVars(Locks(BodyWork)) /\ SF_allVars(Locks(HeldAcquire))
  /\ SF_allVars(Locks(LeaveBody)) /\ SF_allVars(Locks(Wake))
  /\ \A e \in Engine : WF_allVars(Locks(LeaveAny(e))) /\ SF_allVars(Locks(ReturnAny(e)))
  /\ WF_allVars(Pty(MainLoop)) /\ WF_allVars(Pty(EngineMain)) /\ WF_allVars(Pty(InPtyRuns))
  /\ WF_allVars(Pty(OutPtyRuns)) /\ WF_allVars(Pty(BufOutNoFull))
=============================================================================
