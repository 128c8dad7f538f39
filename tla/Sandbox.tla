------------------------------ MODULE Sandbox ------------------------------
(***************************************************************************)
(* The sandbox process as seen by the runsc process that holds its Sandbox *)
(* object (src/unnamed/part_000): one goroutine waiting on the root        *)
(* container (Sandbox.Wait) while another destroys the sandbox             *)
(* (DestroyContainer of the root container, i.e. Sandbox.destroy).  Both   *)
(* end in waitForStopped, whose attempts hold statusMu; destroy reads      *)
(* s.Pid outside it.                                                       *)
(*                                                                         *)
(* The operating system side: the sandbox process runs, its root           *)
(* container exits (the sandbox may still answer RPCs), the process exits  *)
(* (a zombie until reaped) and after reaping its PID may be given to an    *)
(* unrelated process.  When s.child is FALSE the Sandbox object was       *)
(* loaded by a process that is not the sandbox's parent; init reaps it.    *)
(***************************************************************************)
EXTENDS Naturals

CONSTANTS
    Children,       \* the values s.child may have: a subset of BOOLEAN
    Goroutines,     \* a subset of {"wait", "destroy"}
    ExitStatuses,   \* the statuses the root container may exit with
    MaxRetries,     \* attempts of waitForStopped's backoff before its timeout
    None

SandboxPid == 1       \* the PID the sandbox process was started with
Killed == "sigkill"   \* wait status of a process ended by SIGKILL
Zero == "zero"        \* the zero syscall.WaitStatus

VARIABLES
    child,       \* s.child: this process started the sandbox (fixed)
    proc,        \* the sandbox process: "running", "contDone", "exited", "reaped"
    contStatus,  \* the status the root container exits with
    exitStatus,  \* None, or the exit status of the sandbox process
    killSent,    \* a SIGKILL was delivered to the sandbox process
    pidHolder,   \* what the sandbox's PID names now: "sandbox", "none", "other"
    pid,         \* s.Pid: SandboxPid or 0
    status,      \* s.status
    pc,          \* [Goroutines -> the goroutine's next step]
    seen,        \* [Goroutines -> the s.Pid value destroy tested]
    retries,     \* [Goroutines -> attempts waitForStopped made]
    result,      \* [Goroutines -> None or what the call returned]
    strays       \* targets hit by a SIGKILL meant for the sandbox

vars == <<child, proc, contStatus, exitStatus, killSent, pidHolder, pid, status,
          pc, seen, retries, result, strays>>

Alive == proc \in {"running", "contDone"}
Ok(st) == [ok |-> TRUE, status |-> st]
Err == [ok |-> FALSE, status |-> Zero]

Init ==
    /\ child \in Children
    /\ proc = "running"
    /\ contStatus \in ExitStatuses
    /\ exitStatus = None
    /\ killSent = FALSE
    /\ pidHolder = "sandbox"
    /\ pid = SandboxPid
    /\ status = Zero
    /\ pc = [g \in Goroutines |-> IF g = "wait" THEN "connect" ELSE "check"]
    /\ seen = [g \in Goroutines |-> 0]
    /\ retries = [g \in Goroutines |-> 0]
    /\ result = [g \in Goroutines |-> None]
    /\ strays = {}

Goto(g, l) == pc' = [pc EXCEPT ![g] = l]
Return(g, r) == pc' = [pc EXCEPT ![g] = "done"] /\ result' = [result EXCEPT ![g] = r]

-----------------------------------------------------------------------------
(* The operating system.                                                   *)

\* The root container's process exits; the sandbox still serves RPCs.
ContainerExit ==
    /\ proc = "running" /\ ~killSent
    /\ proc' = "contDone"
    /\ UNCHANGED <<child, contStatus, exitStatus, killSent, pidHolder, pid, status,
                   pc, seen, retries, result, strays>>

\* The sandbox process exits after its root container, or on SIGKILL.
SandboxExit ==
    /\ Alive /\ (proc = "contDone" \/ killSent)
    /\ proc' = "exited"
    /\ exitStatus' \in (IF proc = "contDone" THEN {contStatus} ELSE {})
                       \cup (IF killSent THEN {Killed} ELSE {})
    /\ UNCHANGED <<child, contStatus, killSent, pidHolder, pid, status,
                   pc, seen, retries, result, strays>>

\* A sandbox that is not this process's child is reaped by init.
ReapByInit ==
    /\ ~child /\ proc = "exited"
    /\ proc' = "reaped" /\ pidHolder' = "none"
    /\ UNCHANGED <<child, contStatus, exitStatus, killSent, pid, status,
                   pc, seen, retries, result, strays>>

\* A freed PID is given to a new, unrelated process.
PidReuse ==
    /\ pidHolder = "none"
    /\ pidHolder' = "other"
    /\ UNCHANGED <<child, proc, contStatus, exitStatus, killSent, pid, status,
                   pc, seen, retries, result, strays>>

-----------------------------------------------------------------------------
(* Sandbox.Wait(cid).                                                      *)

\* sandboxConnect: the control socket answers while the sandbox runs;
\* otherwise fall back to waiting on the process.
WaitConnect ==
    /\ pc["wait"] = "connect"
    /\ Goto("wait", IF Alive THEN "rpc" ELSE "wfs")
    /\ UNCHANGED <<child, proc, contStatus, exitStatus, killSent, pidHolder, pid,
                   status, seen, retries, result, strays>>

\* Mutant: the RPC only ever returns with the container's status.
WaitRPCMutant ==
    /\ pc["wait"] = "rpc"
    /\ proc = "contDone" /\ Return("wait", Ok(contStatus))
    /\ UNCHANGED <<child, proc, contStatus, exitStatus, killSent, pidHolder, pid,
                   status, seen, retries, strays>>

\* The ContainerWait RPC returns the container's status once it has
\* exited; it fails if the sandbox exits first.
WaitRPC ==
    /\ pc["wait"] = "rpc"
    /\ \/ proc = "contDone" /\ Return("wait", Ok(contStatus))
       \/ ~Alive /\ Goto("wait", "wfs") /\ UNCHANGED result
    /\ UNCHANGED <<child, proc, contStatus, exitStatus, killSent, pidHolder, pid,
                   status, seen, retries, strays>>

\* Mutant: the zero status ws is returned instead of s.status.
WaitReturnMutant ==
    /\ pc["wait"] = "waitret"
    /\ Return("wait", IF child THEN Ok(Zero) ELSE Err)
    /\ UNCHANGED <<child, proc, contStatus, exitStatus, killSent, pidHolder, pid,
                   status, seen, retries, strays>>

\* After waitForStopped: s.status if the sandbox is this process's child.
WaitReturn ==
    /\ pc["wait"] = "waitret"
    /\ Return("wait", IF child THEN Ok(status) ELSE Err)
    /\ UNCHANGED <<child, proc, contStatus, exitStatus, killSent, pidHolder, pid,
                   status, seen, retries, strays>>

-----------------------------------------------------------------------------
(* Sandbox.destroy().                                                      *)

\* if s.Pid != 0 { ... } else return nil.
DestroyCheck ==
    /\ pc["destroy"] = "check"
    /\ seen' = [seen EXCEPT !["destroy"] = pid]
    /\ IF pid # 0 THEN Goto("destroy", "kill") /\ UNCHANGED result
       ELSE Return("destroy", Ok(Zero))
    /\ UNCHANGED <<child, proc, contStatus, exitStatus, killSent, pidHolder, pid,
                   status, retries, strays>>

\* syscall.Kill(s.Pid, SIGKILL).  s.Pid is read again without statusMu: the
\* value tested or the current one.  Kill(0) signals the caller's own
\* process group; ESRCH is ignored.
DestroyKill ==
    /\ pc["destroy"] = "kill"
    /\ \E v \in {seen["destroy"], pid} :
          IF v = 0
          THEN /\ strays' = strays \cup {"group"}
               /\ Goto("destroy", "dead")
               /\ UNCHANGED killSent
          ELSE /\ killSent' = (killSent \/ (pidHolder = "sandbox" /\ Alive))
               /\ strays' = strays \cup (IF pidHolder = "other" THEN {"other"} ELSE {})
               /\ Goto("destroy", "wfs")
    /\ UNCHANGED <<child, proc, contStatus, exitStatus, pidHolder, pid, status,
                   seen, retries, result>>

-----------------------------------------------------------------------------
(* waitForStopped: an attempt of op every 100ms until the 5s timeout.      *)

\* Where the goroutine goes once waitForStopped returns nil.
AfterStopped(g) ==
    IF g = "wait" THEN Goto(g, "waitret") /\ UNCHANGED result
    ELSE Return(g, Ok(Zero))

\* Mutant: one attempt more than the timeout allows.
RetryMutant(g) ==
    /\ UNCHANGED pid
    /\ IF retries[g] <= MaxRetries
       THEN retries' = [retries EXCEPT ![g] = @ + 1] /\ UNCHANGED <<pc, result>>
       ELSE Return(g, Err) /\ UNCHANGED retries

\* Mutant: the timeout is taken for success.
RetryMutantTimeout(g) ==
    /\ UNCHANGED pid
    /\ IF retries[g] < MaxRetries
       THEN retries' = [retries EXCEPT ![g] = @ + 1] /\ UNCHANGED <<pc, result>>
       ELSE AfterStopped(g) /\ UNCHANGED retries

\* Mutant: the backoff has no deadline; a failed op is tried again forever.
RetryMutantForever(g) ==
    /\ UNCHANGED <<pid, retries, pc, result>>

\* op failed: retry, or return the error at the timeout.
Retry(g) ==
    /\ UNCHANGED pid
    /\ IF retries[g] < MaxRetries
       THEN retries' = [retries EXCEPT ![g] = @ + 1] /\ UNCHANGED <<pc, result>>
       ELSE Return(g, Err) /\ UNCHANGED retries

\* One attempt of op.  As s.child: under statusMu, done if s.Pid is 0, else
\* Wait4(WNOHANG) reaps a zombie into s.status and clears s.Pid.  Otherwise
\* IsRunning: kill(s.Pid, 0) succeeds while the PID names any process.
WaitForStoppedOp(g) ==
    /\ pc[g] = "wfs"
    /\ IF child
       THEN IF pid = 0
            THEN AfterStopped(g) /\ UNCHANGED <<pid, retries>>
                 /\ UNCHANGED <<proc, pidHolder, status>>
            ELSE IF proc = "exited"
            THEN /\ proc' = "reaped" /\ pidHolder' = "none"
                 /\ status' = exitStatus /\ pid' = 0
                 /\ AfterStopped(g) /\ UNCHANGED retries
            ELSE Retry(g) /\ UNCHANGED <<proc, pidHolder, status>>
       ELSE /\ UNCHANGED <<proc, pidHolder, status>>
            /\ IF pid # 0 /\ pidHolder # "none"
               THEN Retry(g)
               ELSE AfterStopped(g) /\ UNCHANGED <<pid, retries>>
    /\ UNCHANGED <<child, contStatus, exitStatus, killSent, seen, strays>>

-----------------------------------------------------------------------------

Environment == ContainerExit \/ SandboxExit \/ ReapByInit \/ PidReuse

Next ==
    \/ Environment
    \/ "wait" \in Goroutines /\ (WaitConnect \/ WaitRPC \/ WaitReturn)
    \/ "destroy" \in Goroutines /\ (DestroyCheck \/ DestroyKill)
    \/ \E g \in Goroutines : WaitForStoppedOp(g)

\* Goroutines are scheduled; the kernel ends a process sent SIGKILL.  The
\* container need not ever exit, nor init reap, nor a PID be reused.
Fairness ==
    /\ \A g \in Goroutines : WF_vars(WaitForStoppedOp(g))
    /\ WF_vars("wait" \in Goroutines /\ (WaitConnect \/ WaitRPC \/ WaitReturn))
    /\ WF_vars("destroy" \in Goroutines /\ (DestroyCheck \/ DestroyKill))
    /\ WF_vars(killSent /\ SandboxExit)

Spec == Init /\ [][Next]_vars /\ Fairness

-----------------------------------------------------------------------------

TypeOK ==
    /\ proc \in {"running", "contDone", "exited", "reaped"}
    /\ pid \in {SandboxPid, 0}
    /\ pidHolder \in {"sandbox", "none", "other"}
    /\ \A g \in Goroutines : result[g] = None \/ result[g].ok \in BOOLEAN
    /\ strays \subseteq {"group", "other"}
    /\ \A g \in Goroutines : retries[g] \in 0..MaxRetries

\* destroy never signals anything but the sandbox process: not the caller's
\* process group through Kill(0), not a process that reused the PID.
NoStrayKill == strays = {}

\* A successful Wait returns the container's exit status, or SIGKILL's if
\* destroy killed the sandbox; never a status nobody set.
WaitStatusCorrect ==
    "wait" \in Goroutines /\ result["wait"] # None /\ result["wait"].ok =>
        result["wait"].status \in {contStatus} \cup (IF killSent THEN {Killed} ELSE {})

\* When destroy returns nil the sandbox process is no longer running.
DestroyMeansStopped ==
    "destroy" \in Goroutines /\ result["destroy"] # None /\ result["destroy"].ok =>
        ~Alive

\* Once destroy has killed the sandbox, Wait returns.
KillEndsWait == killSent ~> ("wait" \in Goroutines => pc["wait"] = "done")

\* destroy returns, whether or not the sandbox ever stops: the 5s timeout of
\* waitForStopped ends its retries even when the PID keeps naming a live
\* process (a reused PID seen by IsRunning).  Only Kill(0), which ends this
\* very process, keeps it from returning.
DestroyReturns ==
    "destroy" \in Goroutines => <>(pc["destroy"] \in {"done", "dead"})

====
