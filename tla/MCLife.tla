------------------------------- MODULE MCLife -------------------------------
(***************************************************************************)
(* What goes on after a call has returned, for TLC: the deletion of apps   *)
(* and the wait for a long-running operation.  They share no state, so a   *)
(* behaviour has one of them only (bound).                                 *)
(***************************************************************************)
EXTENDS MCAppLifecycle, Poller

lifeVars == <<vars, pollVars>>

LifeInit == Init /\ PollInit

AppsIdle == \A a \in App : name_[a] = NoName
PollIdle == now = 0 /\ outcome = "unused"

Apps(A) == PollIdle /\ A /\ UNCHANGED pollVars

Polling(A) == AppsIdle /\ A /\ UNCHANGED vars

\* The fairness of FairSpec; time passes and timers that are due fire, while a callback
\* may never answer.
LifeSpec ==
  /\ LifeInit /\ [][Apps(Next) \/ Polling(PollNext)]_lifeVars
  /\ \A d \in Deletion : WF_lifeVars(Apps(DeletionStep(d)))
  /\ WF_lifeVars(Polling(Tick))
  /\ WF_lifeVars(Polling(MasterTimerFires))
  /\ WF_lifeVars(Polling(RepollTimerFires))
=============================================================================
