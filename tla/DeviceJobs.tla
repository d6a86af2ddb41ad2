----------------------------- MODULE DeviceJobs -----------------------------
(***************************************************************************)
(* Operations that make several calls: adb/device_package.go (Install,     *)
(* InstallRemote), device_features.go, device_intent.go (StartActivity,    *)
(* StartService) and the waits of device_info.go.  A job is at a stage,    *)
(* which is a call of Client, until that call returns.  Functions that     *)
(* make one call are jobs with the one stage "call".                       *)
(*                                                                         *)
(* installUsingPush always uses the same path on the device.  temp is what *)
(* is there: nothing, this job's package, somebody else's, or a part.      *)
(***************************************************************************)
EXTENDS Client

VARIABLES
    job,        \* the operation
    stage,      \* the call it is making; "end" when it has returned
    answer,     \* what it returned: "none", "true", "false", "error"
    output,     \* what the output of pm install amounted to
    temp,       \* the file at the temporary path
    installed,  \* the package that the device has installed
    ran,        \* what the command of this stage did: "no", or its outcome
    shared      \* another installation has used the temporary path

deviceVars == <<temp, installed, ran, shared>>
jobVars == <<job, stage, answer, output>>
vars == <<clientVars, jobVars, deviceVars>>

Composite == {"Install", "InstallRemote", "StartActivity", "StartService",
              "WaitForDevice", "WaitForDeviceWithTimeout"}
Intents == {"StartActivity", "StartService"}
Waits == {"WaitForDevice", "WaitForDeviceWithTimeout"}

-----------------------------------------------------------------------------
(* Stages.                                                                 *)

CallOf(s) ==
    CASE s \in {"devices", "features", "wait"} -> "SendHostCommandContext"
      [] s = "abb" -> "installUsingAbbExec"
      [] s = "pm" /\ job = "InstallRemote" -> "executeTransportCommandWithResponse"
      [] s = "rm" /\ job = "InstallRemote" -> "ShellContext"
      [] OTHER -> "RunCommandContext"

(* SendHostCommand makes a context with a deadline; FeaturesContext is     *)
(* given context.Background() and so has none.                             *)
ContextOf(s) == IF s \in {"devices", "wait"} THEN "live" ELSE "background"

Enter(s) ==
    /\ stage' = s
    /\ Begin(CallOf(s), ContextOf(s))
    /\ ran' = "no"
    /\ UNCHANGED <<job, answer, temp, installed, shared>>

Return(v) ==
    /\ stage' = "end"
    /\ answer' = v
    /\ UNCHANGED <<job, output, clientVars, deviceVars>>

At(s) == stage = s /\ Returned

(* strings.Contains(output, word): the word is at the end of the output.   *)
Says(word) == ran = word /\ buf # <<>> /\ buf = Reply

Bool(b) == IF b THEN "true" ELSE "false"

Goto(s) ==
    /\ stage' = s
    /\ UNCHANGED <<job, answer, output, clientVars, deviceVars>>

-----------------------------------------------------------------------------
(* Install.                                                                *)

(* FeaturesContext of a device without a selector: firstDeviceSerial needs *)
(* a device in the list, then the features of that device are asked for.   *)
FirstDevice ==
    /\ At("devices")
    /\ IF res = "ok" /\ buf # <<>>
         THEN Enter("features") /\ UNCHANGED output ELSE Goto("push")

(* abb_exec if the device has the feature; if not, or on an error, push.   *)
ChooseMethod ==
    /\ At("features")
    /\ \/ res = "ok" /\ buf # <<>> /\ Goto("open")
       \/ Goto("push")

OpenFile ==
    /\ stage = "open"
    /\ \/ Enter("abb") /\ UNCHANGED output
       \/ Return("error")

FinishAbbExec ==
    /\ At("abb")
    /\ Return(IF res = "ok" THEN Bool(Says("Success")) ELSE "error")

(* Open the local file and push it, which SyncService models: a push that  *)
(* succeeds has stored the file; one that fails may have stored part of it. *)
Push ==
    /\ stage = "push"
    /\ \/ /\ stage' = "pm" /\ Begin(CallOf("pm"), "background")
          /\ temp' = "own"
          /\ UNCHANGED answer
       \/ /\ stage' = "end" /\ answer' = "error"
          /\ temp' \in {temp, "part", "own"}
          /\ UNCHANGED clientVars
    /\ UNCHANGED <<job, output, installed, ran, shared>>

(* pm install has returned: go on to remove the file, unless it failed.    *)
FinishInstall ==
    /\ At("pm")
    /\ IF res = "ok"
         THEN Enter("rm") /\ output' = Bool(Says("Success"))
         ELSE Return("error")

(* Mutant of Cleanup: tries again until the file is removed.               *)
CleanupUntilDone ==
    /\ At("rm")
    /\ IF res = "ok" THEN Return(output) ELSE Enter("rm") /\ UNCHANGED output

(* What became of rm -f is not looked at.                                  *)
Cleanup == At("rm") /\ Return(output)

-----------------------------------------------------------------------------
(* The other jobs.                                                         *)

(* The command is built from every option but User, so the retry runs the  *)
(* command that was just refused.                                          *)
StartActivity ==
    /\ job = "StartActivity" /\ At("am")
    /\ IF res = "ok" /\ Says("No user")
         THEN Enter("am") /\ UNCHANGED output
         ELSE Return(IF res = "ok" THEN Bool(~Says("Error")) ELSE "error")

StartService ==
    /\ job = "StartService" /\ At("am")
    /\ IF res = "ok" /\ Says("--user")
         THEN Enter("am") /\ UNCHANGED output
         ELSE Return(IF res = "ok" THEN Bool(~Says("Error")) ELSE "error")

(* Mutant of WaitForDevice: any reply means that the device is there.      *)
WaitForReply ==
    /\ job = "WaitForDevice" /\ At("wait")
    /\ Return(IF res = "ok" THEN "true" ELSE "error")

WaitForDevice ==
    /\ job = "WaitForDevice" /\ At("wait")
    /\ Return(IF res = "ok" THEN Bool(buf = <<>>) ELSE "error")

(* The goroutine of WaitForDeviceWithTimeout returns; its caller has given *)
(* up, or takes the error and not the answer.                              *)
WaitForDeviceWithTimeout ==
    /\ job = "WaitForDeviceWithTimeout" /\ At("wait")
    /\ Return(IF answer = "none" THEN IF res = "ok" THEN "true" ELSE "error"
              ELSE answer)

WaitTimesOut ==
    /\ job = "WaitForDeviceWithTimeout" /\ stage = "wait" /\ answer = "none"
    /\ answer' = "error"
    /\ UNCHANGED <<job, stage, output, clientVars, deviceVars>>

SingleCall == At("call") /\ Return(IF res = "ok" THEN "true" ELSE "error")

JobStep ==
    \/ FirstDevice \/ ChooseMethod \/ OpenFile \/ FinishAbbExec \/ Push
    \/ FinishInstall \/ Cleanup \/ StartActivity \/ StartService
    \/ WaitForDevice \/ WaitForDeviceWithTimeout \/ SingleCall

-----------------------------------------------------------------------------
(* The device, and other users of it.                                      *)

(* The device runs the command of this stage once it has accepted it: pm   *)
(* installs what is at the path at that moment.                            *)
Started ==
    /\ Count(sent, LAMBDA u : u.f = "OKAY" /\ u.n = 1)
         = Count(Program[call], LAMBDA s : s \in StatusSteps)
    /\ stage = "abb" => Answering({"rest"})

Words == {"Success", "Error", "No user", "--user"}

DeviceRuns ==
    /\ ran = "no" /\ Started
    /\ \/ /\ stage \in {"pm", "abb"}
          /\ LET file == IF stage = "abb" THEN "own" ELSE temp IN
               \/ /\ file \in {"own", "other"}
                  /\ ran' = "Success" /\ installed' = file
               \/ ran' = "Error" /\ UNCHANGED installed
          /\ UNCHANGED temp
       \/ /\ stage = "rm" /\ ran' = "Success" /\ temp' = "none"
          /\ UNCHANGED installed
       \/ /\ stage = "am" /\ ran' \in Words
          /\ UNCHANGED <<temp, installed>>
    /\ UNCHANGED <<clientVars, jobVars, shared>>

(* Another Install on the same device writes or removes the same file.     *)
OtherInstall ==
    /\ job = "Install" /\ stage \in {"push", "pm", "rm"}
    /\ temp' \in {"other", "part", "none"} \ {temp}
    /\ shared' = TRUE
    /\ UNCHANGED <<clientVars, jobVars, installed, ran>>

(* Output comes after the command has run.                                 *)
ServerActs ==
    /\ ServerStep
    /\ stage \in {"pm", "abb", "rm", "am"} /\ Answering({"rest", "spawn"})
         => ran # "no"
    /\ UNCHANGED <<jobVars, deviceVars>>

Quietly(A) == A /\ UNCHANGED <<jobVars, deviceVars>>

Next ==
    \/ Quietly(CallStep) \/ Quietly(Watcher) \/ Quietly(Reader)
    \/ Quietly(Cancel) \/ Quietly(DeadlinePasses)
    \/ Quietly(ServerHangs) \/ Quietly(ServerLost)
    \/ JobStep \/ WaitTimesOut \/ DeviceRuns \/ OtherInstall \/ ServerActs

(* The features of a device that has a selector are asked for at once.     *)
FirstStage(j) ==
    CASE j = "Install" -> {"devices", "features"}
      [] j = "InstallRemote" -> {"pm"}
      [] j \in Intents -> {"am"}
      [] j \in Waits -> {"wait"}
      [] OTHER -> {"call"}

Init ==
    /\ job \in Calls \cup Composite
    /\ stage \in FirstStage(job)
    /\ ClientInit
    /\ job \in Calls => call = job
    /\ job \in Composite => call = CallOf(stage) /\ ctx = ContextOf(stage)
    /\ answer = "none" /\ output = "false"
    /\ temp = IF job = "InstallRemote" THEN "own" ELSE "none"
    /\ installed = "none" /\ ran = "no" /\ shared = FALSE

Spec == Init /\ [][Next]_vars

(* Goroutines run, a context expires whose deadline has passed, the device *)
(* runs what it has accepted, and a server that has not hung answers.      *)
JobFairness ==
    /\ WF_vars(Quietly(CallStep) \/ JobStep)
    /\ WF_vars(Quietly(Watcher)) /\ WF_vars(Quietly(Reader))
    /\ WF_vars(Quietly(ContextExpires))
    /\ WF_vars(ServerActs) /\ WF_vars(DeviceRuns)

-----------------------------------------------------------------------------
(* Properties.                                                             *)

(* An answer of true is so.  Install: the device has installed this job's *)
(* package, unless another job used the temporary path in between, which   *)
(* nothing prevents.  WaitForDevice: the server did not report a failure,  *)
(* unless its report was cut short or its status came in two pieces.       *)
AnswerTrue ==
    answer = "true" =>
      /\ job \in {"Install", "InstallRemote"} => installed = "own" \/ shared
      /\ job = "WaitForDevice" =>
           torn \/ CutShort \/ ~Refused

(* No job leaves a connection behind: a call that has returned has closed  *)
(* its connection, on every path and before the next call is made, unless  *)
(* it succeeded and the caller of the job has the connection now.  The     *)
(* exception is InstallRemote: it removes the file in a shell that Shell   *)
(* hands over to it, and drops that.                                       *)
JobsClose ==
    Returned /\ conn = "open" =>
      /\ res = "ok"
      /\ \/ job \in Calls /\ Opens(job)
         \/ job = "InstallRemote" /\ stage \in {"rm", "end"}

(* A job returns if the server answers, whatever fails on the way.  Two    *)
(* exceptions: a status that came in two pieces, after which the function  *)
(* waits for a message and the server for a request; and an intent that    *)
(* the device refuses again and again, which is started again and again.   *)
JobReturns ==
    \/ <>(stage = "end" \/ torn \/ server = "silent")
    \/ []<>(job \in Intents /\ ran \in {"No user", "--user"})

-----------------------------------------------------------------------------
(* device_info.go:123 "WaitForDeviceWithTimeout waits for a device with a  *)
(* timeout": if it returns nil, the server has not reported a failure.  It *)
(* does not look at what WaitForDevice answers.                            *)
TimeoutWaitTrue ==
    job = "WaitForDeviceWithTimeout" /\ answer = "true" =>
      torn \/ CutShort \/ ~Refused

=============================================================================
