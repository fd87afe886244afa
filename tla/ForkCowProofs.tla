--------------------------- MODULE ForkCowProofs ----------------------------
(***************************************************************************)
(* What fork_cow_demo.c does whatever signals it is sent: the parent       *)
(* measures only a child that has rewritten its memory, and the SIGTERM at *)
(* its end is never sent to every process, not even after fork() failed.   *)
(*                                                                         *)
(* Both rest on the same chain: the flag got_sigusr1 is only ever set by   *)
(* the child's signal, the child sends it only after its memset(), and     *)
(* where fork() failed there is no child to send it.                       *)
(***************************************************************************)
EXTENDS ForkCow, TLAPS

\* The signal, on its way or noted, is a child's word that its chunk is dirty.
SignalMeansDirty == got_sigusr1 \/ "USR1" \in pending["parent"] => cow = "child"

ChildDirties ==
    /\ cpc \in {"pageout", "signal", "sleep"} => cow = "child"
    /\ cpc = "none" => cow = "parent"

\* What fork() returned, and who exists before and after it.
ForkResult ==
    /\ ppc \in {"setup", "fork"} => cpc = "none" /\ child_pid = "zero"
    /\ child_pid = "minus1" => opt.fork /\ cpc = "none"

IInv ==
    /\ TypeOK /\ SignalMeansDirty /\ ChildDirties /\ ForkResult
    /\ MeasuresDirtyChild /\ NeverSignalsEveryone

USE DEF ParentEnded, TtyLoop, HupLoop, AfterWait, Waiting, ParentStates, ChildStates, Procs, Signals

\* main() starts with no child, no signal and no flag set.
LEMMA InitIInv == Init => IInv
  <1> SUFFICES ASSUME Init PROVE IInv
    OBVIOUS
  <1>1. opt \in Options
    BY DEF Init
  <1>2. pending \in [Procs -> SUBSET Signals] /\ pending["parent"] = {} /\ pending["child"] = {}
    BY DEF Init
  <1>3. sigs \in 0..MaxSignals
    BY ForkCowAssumption DEF Init
  <1>4. TypeOK
    BY <1>1, <1>2, <1>3 DEF Init, TypeOK
  <1> QED
    BY <1>2, <1>4 DEF Init, IInv, SignalMeansDirty, ChildDirties, ForkResult, MeasuresDirtyChild,
                      NeverSignalsEveryone

\* What is pending after a signal is sent.
LEMMA SendType ==
  ASSUME TypeOK, NEW ps \in SUBSET Procs, NEW sig \in Signals,
         sig = "USR1" => "child" \notin ps
  PROVE  /\ Send(ps, sig) \in [Procs -> SUBSET Signals]
         /\ "USR1" \notin Send(ps, sig)["child"]
         /\ sig # "USR1" => ("USR1" \in Send(ps, sig)["parent"] <=> "USR1" \in pending["parent"])
  BY DEF TypeOK, Send

\* The end of the parent changes what is pending for the child only.
LEMMA EndsType ==
  ASSUME TypeOK, NEW state \in ParentEnded, ParentEnds(state)
  PROVE  /\ ppc' \in ParentEnded
         /\ pending' \in [Procs -> SUBSET Signals]
         /\ "USR1" \notin pending'["child"]
         /\ "USR1" \in pending'["parent"] <=> "USR1" \in pending["parent"]
  <1>1. CASE pdeath # "none" /\ ChildAlive
    BY <1>1, SendType DEF ParentEnds, TypeOK
  <1>2. CASE ~ (pdeath # "none" /\ ChildAlive)
    BY <1>2 DEF ParentEnds, TypeOK
  <1> QED BY <1>1, <1>2

\* A step of the parent that is not the delivery of a signal.
LEMMA ParentStep == IInv /\ (ParentRuns \/ PGetc) => IInv'
  <1> SUFFICES ASSUME IInv, ParentRuns \/ PGetc PROVE IInv'
    OBVIOUS
  <1> USE DEF IInv, SignalMeansDirty, ChildDirties, ForkResult, MeasuresDirtyChild,
              NeverSignalsEveryone, Quiet, PGoto, flags, childVars
  <1>1. CASE PSetup          BY <1>1 DEF PSetup, TypeOK, Options
  <1>2. CASE PSetupFails     BY <1>2 DEF PSetupFails, TypeOK, Options
  <1>3. CASE PFork           BY <1>3 DEF PFork, TypeOK
  <1>4. CASE PSigusr1        BY <1>4 DEF PSigusr1, TypeOK
  <1>5. CASE PReset          BY <1>5 DEF PReset, TypeOK
  <1>6. CASE PTest           BY <1>6 DEF PTest, TypeOK
  <1>7. CASE SleepExpires    BY <1>7 DEF SleepExpires, TypeOK
  <1>21. CASE PSleep         BY <1>21 DEF PSleep, TypeOK
  <1>8. CASE PPageout
    <2>1. CASE PGoto("report")          BY <1>8, <2>1 DEF PPageout, TypeOK
    <2>2. CASE ParentEnds("exited")
      <3>1. /\ ppc' = "exited" /\ pending' \in [Procs -> SUBSET Signals]
            /\ "USR1" \notin pending'["child"]
            /\ "USR1" \in pending'["parent"] <=> "USR1" \in pending["parent"]
        BY <2>2, EndsType DEF ParentEnds
      <3> QED BY <1>8, <3>1 DEF PPageout, TypeOK
    <2> QED BY <1>8, <2>1, <2>2 DEF PPageout
  <1>9. CASE PReport         BY <1>9 DEF PReport, TypeOK, Options
  <1>10. CASE PReportFails
    <2>1. /\ ppc' = "killed" /\ pending' \in [Procs -> SUBSET Signals]
          /\ "USR1" \notin pending'["child"]
          /\ "USR1" \in pending'["parent"] <=> "USR1" \in pending["parent"]
      BY <1>10, EndsType DEF ParentEnds, PReportFails
    <2> QED BY <1>10, <2>1 DEF PReportFails, TypeOK
  <1>11. CASE PWaiting       BY <1>11 DEF PWaiting, TypeOK
  <1>12. CASE PSigint        BY <1>12 DEF PSigint, TypeOK
  <1>13. CASE PLoop          BY <1>13 DEF PLoop, TypeOK
  <1>14. CASE PReport2       BY <1>14 DEF PReport2, TypeOK
  <1>15. CASE PSighup        BY <1>15 DEF PSighup, TypeOK
  <1>16. CASE PHloop         BY <1>16 DEF PHloop, TypeOK
  <1>17. CASE PHreport       BY <1>17 DEF PHreport, TypeOK
  <1>18. CASE PHreset        BY <1>18 DEF PHreset, TypeOK
  <1>19. CASE PKill
    <2>1. child_pid # "minus1"
      BY <1>19 DEF PKill
    <2>2. /\ pending' \in [Procs -> SUBSET Signals]
          /\ "USR1" \notin pending'["child"]
          /\ "USR1" \in pending'["parent"] <=> "USR1" \in pending["parent"]
      <3>1. CASE child_pid = "pid" /\ ChildAlive
        BY <1>19, <3>1, SendType DEF PKill
      <3>2. CASE ~ (child_pid = "pid" /\ ChildAlive)
        BY <1>19, <3>2 DEF PKill, TypeOK
      <3> QED BY <3>1, <3>2
    <2> QED BY <1>19, <2>1, <2>2 DEF PKill, TypeOK
  <1>20. CASE PGetc          BY <1>20 DEF PGetc, TypeOK
  <1> QED BY <1>1, <1>2, <1>3, <1>4, <1>5, <1>6, <1>7, <1>8, <1>9, <1>10, <1>11, <1>12, <1>13,
             <1>14, <1>15, <1>16, <1>17, <1>18, <1>19, <1>20, <1>21 DEF ParentRuns

\* A step of the child that is not the delivery of a signal.
LEMMA ChildStep == IInv /\ ChildRuns => IInv'
  <1> SUFFICES ASSUME IInv, ChildRuns PROVE IInv'
    OBVIOUS
  <1> USE DEF IInv, SignalMeansDirty, ChildDirties, ForkResult, MeasuresDirtyChild,
              NeverSignalsEveryone, CGoto, ParentSame, flags
  <1>1. CASE CAssert         BY <1>1 DEF CAssert, TypeOK
  <1>2. CASE CPrctl          BY <1>2 DEF CPrctl, TypeOK, ParentAlive
  <1>3. CASE CSighup         BY <1>3 DEF CSighup, TypeOK, Options
  <1>4. CASE CDirty          BY <1>4 DEF CDirty, TypeOK
  <1>5. CASE CPageout        BY <1>5 DEF CPageout, TypeOK
  <1>6. CASE CSignal
    <2>1. pending' \in [Procs -> SUBSET Signals] /\ "USR1" \notin pending'["child"]
      <3>1. CASE ParentAlive       BY <1>6, <3>1, SendType DEF CSignal
      <3>2. CASE ~ ParentAlive     BY <1>6, <3>2 DEF CSignal, TypeOK
      <3> QED BY <3>1, <3>2
    <2> QED BY <1>6, <2>1 DEF CSignal, TypeOK
  <1> QED BY <1>1, <1>2, <1>3, <1>4, <1>5, <1>6 DEF ChildRuns

\* Signals that arrive, are ignored or come from outside.
LEMMA SignalStep ==
  IInv /\ (Delivery \/ IntIgnored \/ \E sig \in Signals : Outside(sig)) => IInv'
  <1> SUFFICES ASSUME IInv, Delivery \/ IntIgnored \/ \E sig \in Signals : Outside(sig) PROVE IInv'
    OBVIOUS
  <1> USE DEF IInv, SignalMeansDirty, ChildDirties, ForkResult, MeasuresDirtyChild,
              NeverSignalsEveryone, flags, childVars
  <1>1. ASSUME NEW sig \in Signals, DeliverToParent(sig) PROVE IInv'
    <2>1. CASE sig \in Handled
      <3>1. /\ pending' \in [Procs -> SUBSET Signals] /\ "USR1" \notin pending'["child"]
            /\ got_sigusr1' \/ "USR1" \in pending'["parent"] => cow = "child"
        BY <1>1, <2>1 DEF DeliverToParent, TypeOK
      <3>2. ppc' \in ParentStates /\ (ppc' \in AfterWait => ppc \in AfterWait)
            /\ ppc' \notin {"setup", "fork"}
        BY <1>1, <2>1 DEF DeliverToParent, TypeOK, Handled
      <3>3. {got_sigusr1', parent_waiting_for_user', parent_stats_update_requested', unanswered'}
               \subseteq BOOLEAN
        BY <1>1, <2>1 DEF DeliverToParent
      <3> QED BY <1>1, <3>1, <3>2, <3>3 DEF DeliverToParent, TypeOK
    <2>2. CASE sig \notin Handled
      <3>1. /\ ppc' = "killed" /\ pending' \in [Procs -> SUBSET Signals]
            /\ "USR1" \notin pending'["child"]
            /\ "USR1" \in pending'["parent"] <=> "USR1" \in pending["parent"]
        BY <1>1, <2>2, EndsType DEF ParentEnds, DeliverToParent
      <3> QED BY <1>1, <2>2, <3>1 DEF DeliverToParent, TypeOK
    <2> QED BY <2>1, <2>2
  <1>2. ASSUME NEW sig \in Signals, DeliverToChild(sig) PROVE IInv'
    BY <1>2 DEF DeliverToChild, TypeOK, ChildAlive
  <1>3. CASE IntIgnored
    BY <1>3 DEF IntIgnored, TypeOK
  <1>4. ASSUME NEW sig \in Signals, Outside(sig) PROVE IInv'
    <2>1. sig # "USR1"
      BY <1>4 DEF Outside
    <2>2. /\ pending' \in [Procs -> SUBSET Signals] /\ "USR1" \notin pending'["child"]
          /\ "USR1" \in pending'["parent"] <=> "USR1" \in pending["parent"]
      BY <1>4, <2>1, SendType DEF Outside
    <2>3. sigs' \in 0..MaxSignals
      BY <1>4, ForkCowAssumption DEF Outside, TypeOK
    <2>4. UNCHANGED <<opt, ppc, child_pid, flags, childVars, everyone>>
      BY <1>4 DEF Outside
    <2>5. TypeOK'
      BY <2>2, <2>3, <2>4 DEF TypeOK
    <2> QED BY <2>2, <2>4, <2>5
  <1> QED BY <1>1, <1>2, <1>3, <1>4 DEF Delivery

\* IInv holds in every reachable state.
LEMMA SpecIInv == Spec => []IInv
  <1>1. IInv /\ [Next]_vars => IInv'
    <2> SUFFICES ASSUME IInv, [Next]_vars PROVE IInv'
      OBVIOUS
    <2>1. CASE Next
      BY <2>1, ParentStep, ChildStep, SignalStep DEF Next, FromOutside
    <2>2. CASE UNCHANGED vars
      BY <2>2 DEF IInv, TypeOK, SignalMeansDirty, ChildDirties, ForkResult, MeasuresDirtyChild,
                  NeverSignalsEveryone, vars, flags, childVars
    <2> QED BY <2>1, <2>2
  <1> QED BY <1>1, InitIInv, PTL DEF Spec

\* The types of both processes' state are kept, for any number of signals.
THEOREM TypeCorrect == Spec => []TypeOK
  BY SpecIInv, PTL DEF IInv

\* Whatever the signals, no report is made before the child's memset().
THEOREM ReportsAfterChild == Spec => []MeasuresDirtyChild
  BY SpecIInv, PTL DEF IInv

\* Whatever the signals, and even after fork() has failed, main() never calls
\* kill(-1, SIGTERM).
THEOREM NotEveryone == Spec => []NeverSignalsEveryone
  BY SpecIInv, PTL DEF IInv
=============================================================================
