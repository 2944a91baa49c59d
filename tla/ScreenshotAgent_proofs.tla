----------------------- MODULE ScreenshotAgent_proofs -----------------------
(***************************************************************************)
(* Proofs about ScreenshotAgent: the OnceLock around the installation      *)
(* admits one installing thread, so that every step of the agent is a step *)
(* of Install in which callers never overlap, and what is proved of        *)
(* orderly installation holds of the agent on every engine.                *)
(***************************************************************************)
EXTENDS ScreenshotAgent, InstallChain_proofs

\* A thread in the loop is inside get_or_init.
Admitted ==
  /\ \A th \in Thread : pc[th] # "idle" => at[th] = "install"
  /\ \A th \in Thread : at[th] = "install" => status = "running"
  /\ \A a, b \in Thread : at[a] = "install" /\ at[b] = "install" => a = b

\* Nothing has a result before the cell does.
Untold ==
  /\ status = "empty" => \A th \in Thread : result[th] = "none"
  /\ \A th \in Thread : at[th] = "install" =>
       /\ \A u \in Thread \ {th} : result[u] = "none"
       /\ pc[th] = "idle" => result[th] \in {"ok", "err"}
  /\ \A th \in Thread : answer[th] # "none" =>
       status \in {"ok", "err"} /\ answer[th] = status

\* An Ok in the cell came from a call that returned it.
Earned == status = "ok" => \E th \in Thread : result[th] = "ok" /\ pc[th] = "idle"

AgentInv == Admitted /\ Untold /\ Earned

\* Steps of install_registered_hooks after the call.
Inner(th) == Guard(th) \/ Resolve(th) \/ Replace(th) \/ Publish(th)

LEMMA InnerStep ==
  ASSUME TypeOK, NEW th \in Thread, Inner(th)
  PROVE  /\ pc[th] # "idle"
         /\ \A u \in Thread \ {th} : pc'[u] = pc[u] /\ result'[u] = result[u]
         /\ pc'[th] = "idle" => result'[th] \in {"ok", "err"}
<1> USE DEF TypeOK, process, locals, At
<1>1. CASE Guard(th)
  BY <1>1 DEF Guard, Goto, HookOk
<1>2. CASE Resolve(th)
  BY <1>2 DEF Resolve, FinishInstall, Goto, HookOk, HookErr
<1>3. CASE Replace(th)
  BY <1>3 DEF Replace, SwapMethod, HookInline, RefuseInline, FailPatch,
     FailRelocate, BeginDetour, RefuseDetour, FailBegin, CommitDetour,
     AbortDetour, Displace, Goto, HookErr
<1>4. CASE Publish(th)
  BY <1>4 DEF Publish, HookOk
<1>5. QED
  BY <1>1, <1>2, <1>3, <1>4 DEF Inner


\* The agent uses install_registered_hooks as any caller may.
THEOREM AgentImplementsInstall == AgentSpec => Spec
<1>1. AgentInit => Init
  BY DEF AgentInit
<1>2. [AgentNext]_<<vars, agent>> => [Next]_vars
  BY DEF AgentNext, AgentStep, Inject, BeginInstall, InstallStep, EndInstall,
         ReuseStatus, Report, Capture, Load, Next, Step
<1>3. QED
  BY <1>1, <1>2, PTL DEF AgentSpec, Spec

LEMMA AgentInvInit == AgentInit => AgentInv
BY DEF AgentInit, Init, AgentInv, Admitted, Untold, Earned

LEMMA AgentInvStep ==
  ASSUME TypeOK, at \in [Thread -> {"out", "gate", "install", "report"}],
         answer \in [Thread -> Result],
         AgentInv, [AgentNext]_<<vars, agent>>
  PROVE  AgentInv'
<1> USE DEF AgentInv, Admitted, Untold, Earned
<1>1. ASSUME NEW th \in Thread, NEW path \in Path \cup {NoPath}, Inject(th, path)
      PROVE  AgentInv'
  BY <1>1 DEF Inject, vars, locals
<1>2. ASSUME NEW th \in Thread, BeginInstall(th) PROVE AgentInv'
  BY <1>2 DEF BeginInstall, Call, TypeOK
<1>3. ASSUME NEW th \in Thread, InstallStep(th) PROVE AgentInv'
  BY <1>3, InnerStep DEF InstallStep, Inner, agent
<1>4. ASSUME NEW th \in Thread, EndInstall(th) PROVE AgentInv'
  BY <1>4 DEF EndInstall, vars, locals
<1>5. ASSUME NEW th \in Thread, ReuseStatus(th) PROVE AgentInv'
  BY <1>5 DEF ReuseStatus, vars, locals
<1>6. ASSUME NEW th \in Thread, Report(th) PROVE AgentInv'
  BY <1>6 DEF Report, vars, locals
<1>7. CASE Capture \/ Load \/ UNCHANGED <<vars, agent>>
  BY <1>7 DEF Capture, Load, LoadImage, vars, locals, agent
<1>8. QED
  BY <1>1, <1>2, <1>3, <1>4, <1>5, <1>6, <1>7 DEF AgentNext, AgentStep

LEMMA AgentTypesInit == AgentInit => TypeOK /\ AgentTypeOK
<1> SUFFICES ASSUME AgentInit PROVE TypeOK /\ AgentTypeOK
  OBVIOUS
<1>1. TypeOK
  BY CountAssumption, TargetAssumption
  DEF AgentInit, Init, TypeOK, Hook, Impl, Real, Unset, PC, Result
<1>2. QED
  BY <1>1 DEF AgentInit, AgentTypeOK, Result

LEMMA AgentTypesStep ==
  ASSUME TypeOK, TypeOK', AgentTypeOK, AgentInv, [AgentNext]_<<vars, agent>>
  PROVE  AgentTypeOK'
<1> USE DEF AgentTypeOK
<1>1. ASSUME NEW th \in Thread, NEW path \in Path \cup {NoPath}, Inject(th, path)
      PROVE  AgentTypeOK'
  BY <1>1 DEF Inject
<1>2. ASSUME NEW th \in Thread, BeginInstall(th) PROVE AgentTypeOK'
  BY <1>2 DEF BeginInstall
<1>3. ASSUME NEW th \in Thread, InstallStep(th) PROVE AgentTypeOK'
  BY <1>3 DEF InstallStep, agent
<1>4. ASSUME NEW th \in Thread, EndInstall(th) PROVE AgentTypeOK'
  BY <1>4 DEF EndInstall, AgentInv, Untold, Result
<1>5. ASSUME NEW th \in Thread, ReuseStatus(th) PROVE AgentTypeOK'
  BY <1>5 DEF ReuseStatus, Result
<1>6. ASSUME NEW th \in Thread, Report(th) PROVE AgentTypeOK'
  BY <1>6 DEF Report, AppendLogLine
<1>7. CASE Capture
  BY <1>7 DEF Capture, AppendLogLine
<1>8. CASE Load \/ UNCHANGED <<vars, agent>>
  BY <1>8 DEF Load, agent
<1>9. QED
  BY <1>1, <1>2, <1>3, <1>4, <1>5, <1>6, <1>7, <1>8 DEF AgentNext, AgentStep

LEMMA AgentInvariant == AgentSpec => [](TypeOK /\ AgentTypeOK /\ AgentInv)
<1>1. AgentSpec => []TypeOK
  BY AgentImplementsInstall, TypeCorrect, PTL
<1>2. TypeOK /\ TypeOK' /\ AgentTypeOK /\ AgentInv /\ [AgentNext]_<<vars, agent>>
        => AgentTypeOK' /\ AgentInv'
  BY AgentTypesStep, AgentInvStep DEF AgentTypeOK
<1>3. QED
  BY <1>1, <1>2, AgentTypesInit, AgentInvInit, PTL DEF AgentSpec

\* Only the thread inside get_or_init is in the installation loop, and before
\* it nobody has been (OnceLock around install_registered_hooks).
THEOREM AgentInstallsAlone == AgentSpec => []InstallsAlone
<1>1. AgentInv => InstallsAlone
  BY DEF AgentInv, Admitted, Untold, InstallsAlone
<1>2. QED
  BY <1>1, AgentInvariant, PTL

\* Every injection of the process is told the same result, and "ok" only when
\* every required hook is in place.
THEOREM AgentAnswersAgree == AgentSpec => []AnswersAgree
<1>1. AgentInv /\ OkMeansInstalled => AnswersAgree
  BY DEF AgentInv, Untold, Earned, OkMeansInstalled, AnswersAgree
<1>2. QED
  BY <1>1, AgentInvariant, AgentImplementsInstall, OkTheorem, PTL

\* Every static of the agent and every local of an injection keeps to its set.
THEOREM AgentTypes == AgentSpec => []AgentTypeOK
BY AgentInvariant, PTL

\* The agent's callers of install_registered_hooks do not overlap.
LEMMA AgentSerial == AgentSpec => Spec /\ []Serial /\ []Orderly
<1>1. AgentInv => Serial /\ Orderly
  BY DEF AgentInv, Admitted, Orderly, Serial
<1>2. QED
  BY <1>1, AgentInvariant, AgentImplementsInstall, PTL

\* However often it is injected and whatever fails, the agent applies no hook
\* twice, reports an error only over a hook that is not in place, and harms no
\* target but one that Dobby half patched.
THEOREM AgentAppliesOnce ==
  AgentSpec => AppliedAtMostOnce /\ ErrorsAreGenuine /\ []DamageStaysLocal
BY AgentSerial, AppliedOnceTheorem, GenuineErrorsTheorem, DamageTheorem, PTL

\* The log that is written is the one in LOG_PATH.
Logged == written # {} => logPath # NoPath /\ written = {logPath}

LEMMA AppendLogLineKeeps ==
  ASSUME logPath \in Path \cup {NoPath, DefaultPath}, Logged, AppendLogLine
  PROVE  Logged' /\ (written # {} => written' = written)
BY PathAssumption DEF Logged, AppendLogLine

\* Once the process has a line in one log file, all its lines go there, whatever
\* later injections name (`LOG_PATH.set` and `get_or_init`).
THEOREM AgentOneLog == AgentSpec => OneLog
<1>1. AgentInit => Logged
  BY DEF AgentInit, Logged
<1>2. AgentTypeOK /\ Logged /\ [AgentNext]_<<vars, agent>>
        => Logged' /\ (written # {} => written' = written)
  <2> SUFFICES ASSUME AgentTypeOK, Logged, [AgentNext]_<<vars, agent>>
               PROVE  Logged' /\ (written # {} => written' = written)
    OBVIOUS
  <2>1. ASSUME NEW th \in Thread, NEW path \in Path \cup {NoPath}, Inject(th, path)
        PROVE  Logged' /\ written' = written
    BY <2>1 DEF Inject, Logged
  <2>2. ASSUME NEW th \in Thread, Report(th)
        PROVE  Logged' /\ (written # {} => written' = written)
    BY <2>2, AppendLogLineKeeps DEF Report, AgentTypeOK
  <2>3. CASE Capture
    BY <2>3, AppendLogLineKeeps DEF Capture, AgentTypeOK
  <2>4. ASSUME NEW th \in Thread,
               BeginInstall(th) \/ InstallStep(th) \/ EndInstall(th) \/ ReuseStatus(th)
        PROVE  Logged' /\ written' = written
    BY <2>4 DEF BeginInstall, InstallStep, EndInstall, ReuseStatus, agent, Logged
  <2>5. CASE Load \/ UNCHANGED <<vars, agent>>
    BY <2>5 DEF Load, agent, Logged
  <2>6. QED
    BY <2>1, <2>2, <2>3, <2>4, <2>5 DEF AgentNext, AgentStep
<1>3. QED
  BY <1>1, <1>2, AgentTypes, PTL DEF AgentSpec, OneLog

\* The agent installs in order, so that on every engine its hooks are placed
\* once and their chains neither loop nor lose anyone.
THEOREM AgentInstallsOnce ==
  ASSUME FaultsReported
  PROVE  AgentSpec => InstallsOnce /\ []ForwardAcyclic /\ []ChainComplete
BY AgentSerial, InstallsOnceTheorem, ForwardTheorem, ChainTheorem, PTL
=============================================================================
