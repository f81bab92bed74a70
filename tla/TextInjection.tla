---------------------------- MODULE TextInjection ----------------------------
(***************************************************************************)
(* Text injection as a whole: the task that buffers transcriptions         *)
(* (InjectionProcessor, which this module extends) calls the strategy      *)
(* manager (StrategyManager) with the text it takes from the session, and  *)
(* waits for its answer.  The session's clock and the manager's, which     *)
(* tick at very different rates, are left independent.                     *)
(***************************************************************************)
EXTENDS InjectionProcessor

CONSTANTS
    Apps, AllowPatterns, BlockPatterns, Display, OptIn, Available,
    RequireFocus, InjectOnUnknown, Budget, Base, Factor, MaxCooldown, TopLevel

VARIABLES pc, app, turn, spent, rest, level, fails, result, tried, waited

Manager == INSTANCE StrategyManager

managerVars ==
    <<pc, app, turn, spent, rest, level, fails, result, tried, waited>>
systemVars  == <<vars, managerVars>>

SystemInit == Init /\ Manager!Init

-----------------------------------------------------------------------------
\* What the processor does beside injecting.
Listen(action) == action /\ UNCHANGED managerVars

\* The text taken is handed to the manager in the same step.
HandOver ==
    /\ TakeBuffer
    /\ IF loop' = "inject" THEN Manager!Inject ELSE UNCHANGED managerVars

\* The call goes on inside the task: not when that has been aborted.
Work ==
    /\ loop = "inject"
    /\ Manager!CallStep
    /\ UNCHANGED vars

\* The answer is counted, and the loop goes on.
RecordResult == Manager!Collect /\ InjectReturns

TimePasses == Manager!Tick /\ UNCHANGED vars

SystemNext ==
    \/ \E e \in Endings : Listen(Arrive(e)) \/ Listen(ReceiveMore(e))
    \/ Listen(Tick)
    \/ Listen(Receive)
    \/ Listen(NoticePause)
    \/ HandOver
    \/ Work
    \/ RecordResult
    \/ TimePasses
    \/ Listen(Abort)

SystemSpec == SystemInit /\ [][SystemNext]_systemVars

(***************************************************************************)
(* Fairness: as in the two parts, and the injectors, the focus tracker and *)
(* the window system answer.  Nothing in the code makes them: most calls   *)
(* of theirs have a timeout, and some have none.                           *)
(***************************************************************************)
SystemFairness ==
    /\ WF_systemVars(Listen(Tick)) /\ WF_systemVars(TimePasses)
    /\ WF_systemVars(Listen(Receive))
    /\ WF_systemVars(Listen(NoticePause) \/ HandOver)
    /\ WF_systemVars(Work) /\ WF_systemVars(RecordResult)

FairSystem == SystemSpec /\ SystemFairness

-----------------------------------------------------------------------------
\* Every text spoken is settled, injected or counted as failed, unless the
\* task is shut down: no failure, cooldown or exhausted budget of one text
\* holds up the next (run, StrategyManager::inject).
EveryTextIsSettled ==
    \A n \in Texts :
        (\E i \in DOMAIN Pending : Pending[i] = n)
            ~> loop = "aborted" \/ \A i \in DOMAIN Pending : Pending[i] # n
=============================================================================
