-------------------------- MODULE ScreenshotAgent --------------------------
(***************************************************************************)
(* The screenshot agent: a library injected into a process, perhaps more   *)
(* than once and from several threads. Its entry point picks a log file    *)
(* and installs the hooks behind a OnceLock, so that the first injection   *)
(* runs install_registered_hooks, those that arrive meanwhile wait for it, *)
(* and every injection of the process reports its result, good or bad.     *)
(***************************************************************************)
EXTENDS Install

CONSTANTS
  Path,        \* log files an injection may name
  NoPath,      \* the injection passes no path
  DefaultPath  \* the log file in the temporary directory

ASSUME PathAssumption == NoPath \notin Path /\ DefaultPath \notin Path \cup {NoPath}

VARIABLES
  status,   \* INSTALL_STATUS: "empty", "running" inside get_or_init, "ok", "err"
  logPath,  \* LOG_PATH: NoPath while the OnceLock is empty
  written,  \* history: log files that were appended to
  at,       \* where each thread is in hook_inject_entry
  answer    \* what install_hooks returned to the thread's last injection

agent == <<status, logPath, written, at, answer>>

AgentTypeOK ==
  /\ TypeOK
  /\ status \in {"empty", "running", "ok", "err"}
  /\ logPath \in Path \cup {NoPath, DefaultPath}
  /\ written \in SUBSET (Path \cup {DefaultPath})
  /\ at \in [Thread -> {"out", "gate", "install", "report"}]
  /\ answer \in [Thread -> Result]

AgentInit == /\ Init
             /\ status = "empty"
             /\ logPath = NoPath
             /\ written = {}
             /\ at = [th \in Thread |-> "out"]
             /\ answer = [th \in Thread |-> "none"]

\* append_log_line: log_path() settles on the default if nobody set a path.
AppendLogLine ==
  /\ logPath' = IF logPath = NoPath THEN DefaultPath ELSE logPath
  /\ written' = written \cup {logPath'}

\* Mutant: a path that is passed replaces the one in use.
InjectOverwriting(th, path) ==
  /\ at[th] = "out"
  /\ at' = [at EXCEPT ![th] = "gate"]
  /\ logPath' = IF path = NoPath THEN logPath ELSE path
  /\ UNCHANGED <<vars, status, written, answer>>

\* hook_inject_entry: `LOG_PATH.set(path)` for a path that is not empty.
Inject(th, path) == /\ at[th] = "out"
                    /\ at' = [at EXCEPT ![th] = "gate"]
                    /\ logPath' = IF logPath = NoPath THEN path ELSE logPath
                    /\ UNCHANGED <<vars, status, written, answer>>

\* Mutant: get() and set() around the installation instead of get_or_init.
BeginInstallRacing(th) == /\ at[th] = "gate"
                          /\ status \in {"empty", "running"}
                          /\ status' = "running"
                          /\ at' = [at EXCEPT ![th] = "install"]
                          /\ Call(th)
                          /\ UNCHANGED <<logPath, written, answer>>

\* INSTALL_STATUS.get_or_init: the first caller runs the closure.
BeginInstall(th) == /\ at[th] = "gate"
                    /\ status = "empty"
                    /\ status' = "running"
                    /\ at' = [at EXCEPT ![th] = "install"]
                    /\ Call(th)
                    /\ UNCHANGED <<logPath, written, answer>>

InstallStep(th) == /\ at[th] = "install"
                   /\ Guard(th) \/ Resolve(th) \/ Replace(th) \/ Publish(th)
                   /\ UNCHANGED agent

\* Mutant: an error empties the cell again, so that the next caller retries.
EndInstallRetrying(th) ==
  /\ at[th] = "install"
  /\ pc[th] = "idle"
  /\ status' = IF result[th] = "ok" THEN "ok" ELSE "empty"
  /\ answer' = [answer EXCEPT ![th] = result[th]]
  /\ at' = [at EXCEPT ![th] = "report"]
  /\ UNCHANGED <<vars, logPath, written>>

\* Mutant: an error leaves the cell in initialisation.
EndInstallPoisoning(th) ==
  /\ at[th] = "install"
  /\ pc[th] = "idle"
  /\ status' = IF result[th] = "ok" THEN "ok" ELSE "running"
  /\ answer' = [answer EXCEPT ![th] = result[th]]
  /\ at' = [at EXCEPT ![th] = "report"]
  /\ UNCHANGED <<vars, logPath, written>>

\* The closure's result is stored, errors included.
EndInstall(th) == /\ at[th] = "install"
                  /\ pc[th] = "idle"
                  /\ status' = result[th]
                  /\ answer' = [answer EXCEPT ![th] = result[th]]
                  /\ at' = [at EXCEPT ![th] = "report"]
                  /\ UNCHANGED <<vars, logPath, written>>

\* A later caller, or one that waited, gets the stored result.
ReuseStatus(th) == /\ at[th] = "gate"
                   /\ status \in {"ok", "err"}
                   /\ answer' = [answer EXCEPT ![th] = status]
                   /\ at' = [at EXCEPT ![th] = "report"]
                   /\ UNCHANGED <<vars, status, logPath, written>>

Report(th) == /\ at[th] = "report"
              /\ AppendLogLine
              /\ at' = [at EXCEPT ![th] = "out"]
              /\ UNCHANGED <<vars, status, answer>>

\* The victim captures the screen: the hooked API writes a log line.
Capture == /\ \E t \in Target : entry[t] \in Hook
           /\ AppendLogLine
           /\ UNCHANGED <<vars, status, at, answer>>

Load == /\ \E image \in Image : LoadImage(image)
        /\ UNCHANGED agent

AgentStep(th) == \/ \E path \in Path \cup {NoPath} : Inject(th, path)
                 \/ BeginInstall(th) \/ InstallStep(th) \/ EndInstall(th)
                 \/ ReuseStatus(th) \/ Report(th)

AgentNext == (\E th \in Thread : AgentStep(th)) \/ Capture \/ Load

AgentSpec == AgentInit /\ [][AgentNext]_<<vars, agent>>

\* An injection that has started runs on; nobody has to inject.
AgentFairness ==
  \A th \in Thread :
    WF_<<vars, agent>>(at[th] # "out" /\ AgentStep(th))

FairAgentSpec == AgentSpec /\ AgentFairness

------------------------------------------------------------------------------
(* Properties.                                                               *)

\* get_or_init admits one installing thread, once: the precondition under
\* which installation is exactly-once on every engine.
InstallsAlone ==
  \A th \in Thread : pc[th] # "idle" =>
    /\ status = "running"
    /\ \A u \in Thread \ {th} : pc[u] = "idle" /\ result[u] = "none"

\* Every injection of the process is told the same result, and told "ok" only
\* if the agent's hooks are in place.
AnswersAgree ==
  \A th \in Thread : answer[th] # "none" =>
    /\ answer[th] = status
    /\ answer[th] = "ok" => \A h \in Hook \ Optional : Installed(h)

\* All lines of the process go to one log file.
OneLog == [][written # {} => written' = written]_<<vars, agent>>

\* Every injection returns, those that wait for another one included.
InjectionReturns == \A th \in Thread : at[th] # "out" ~> at[th] = "out"
=============================================================================
