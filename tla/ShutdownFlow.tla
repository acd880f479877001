---------------------------- MODULE ShutdownFlow ----------------------------
(***************************************************************************)
(* One shutdown job of a PC against the administration of its SSH          *)
(* settings: the request checks that the PC is ready and remembers the     *)
(* connection it found, the job checks it again before and after an SSH    *)
(* connection check, sends the command and watches the PC go silent.       *)
(* The PC row and the settings row are read in two transactions each time. *)
(*                                                                         *)
(* There is one job at a time per PC: JobLifecycle, AtMostOneActive.       *)
(***************************************************************************)
EXTENDS SshSettings

CONSTANT Attempts  \* MONITOR_ATTEMPTS

ASSUME FlowAssumption == Attempts \in Nat \ {0}

VARIABLE job  \* the request and the thread of the job

flowVars == <<sshVars, job>>

\* at is history: the number of settings changes when the request read them.
NoJob == [stage |-> "none", ip |-> None, expected |-> NoConn, at |-> 0,
          tries |-> 0, streak |-> 0]

FlowInit == Init /\ job = NoJob
-----------------------------------------------------------------------------
\* load_pc_ssh_connection with require_verified.
Ready(ip) == Loadable /\ cfg.enabled /\ cfg.verifiedIp = ip

\* Plausible bug: the revision is left out of the comparison.
SameConnection == Tested(Conn(job.ip)) = Tested(job.expected)

\* settings != expected_settings, all fields of ShutdownSshSettings.
AsExpected == Conn(job.ip) = job.expected

\* get_ready_shutdown_connection, first half: the row, which must be online
\* (the code looks at the status after the load, at the row read here).
ReadRow(from, to) ==
  /\ job.stage = from
  /\ job' = IF Registered /\ pc.status = "online"
            THEN [job EXCEPT !.stage = to, !.ip = pc.ip] ELSE NoJob
  /\ UNCHANGED sshVars

\* A request is accepted when no job is active.
Request ==
  /\ job.stage \in {"none", "silent"}
  /\ job' = IF Registered /\ pc.status = "online"
            THEN [NoJob EXCEPT !.stage = "accepting", !.ip = pc.ip] ELSE NoJob
  /\ UNCHANGED sshVars

\* request_pc_shutdown: the connection found is the job's expected_settings.
Accept ==
  /\ job.stage = "accepting"
  /\ job' = IF Ready(job.ip)
            THEN [job EXCEPT !.stage = "queued", !.expected = Conn(job.ip), !.at = epoch]
            ELSE NoJob
  /\ UNCHANGED sshVars

\* shutdown_pc_and_check_status: the second half and the comparison.
Compare(from, to) ==
  /\ job.stage = from
  /\ job' = IF Ready(job.ip) /\ AsExpected THEN [job EXCEPT !.stage = to] ELSE NoJob
  /\ UNCHANGED sshVars

\* ssh answers the fixed check command, or acknowledges the shutdown ...
SshSucceeds(from, to) ==
  /\ job.stage = from
  /\ job' = [job EXCEPT !.stage = to]
  /\ UNCHANGED sshVars

\* ... or fails, times out, or its outcome is unknown.
SshFails ==
  /\ job.stage \in {"probing", "cleared"}
  /\ job' = NoJob
  /\ UNCHANGED sshVars

\* _wait_for_pc_offline: an edited address ends the watch without a verdict ...
CheckAddress ==
  /\ job.stage = "watching"
  /\ job' = IF pc.ip = job.expected.ip THEN [job EXCEPT !.stage = "refreshing"] ELSE NoJob
  /\ UNCHANGED sshVars

\* ... otherwise refresh_pc_status probes the address it finds in the row, or
\* raises LookupError, and the status it returns is counted.
Observe(offline) ==
  LET streak == IF offline THEN job.streak + 1 ELSE 0
      stage == IF ~Registered THEN "none" ELSE
               IF streak = 2 THEN "silent" ELSE
               IF job.tries + 1 = Attempts THEN "none" ELSE "watching"
  IN /\ job.stage = "refreshing"
     /\ job' = IF stage = "none" THEN NoJob
               ELSE [job EXCEPT !.stage = stage, !.streak = streak, !.tries = @ + 1]
     /\ UNCHANGED sshVars
-----------------------------------------------------------------------------
JobStep ==
  \/ Request
  \/ Accept
  \/ ReadRow("queued", "checking")
  \/ Compare("checking", "probing")
  \/ SshSucceeds("probing", "answered")
  \/ ReadRow("answered", "rechecking")
  \/ Compare("rechecking", "cleared")
  \/ SshSucceeds("cleared", "watching")
  \/ SshFails
  \/ CheckAddress
  \/ \E offline \in BOOLEAN : Observe(offline)

FlowNext ==
  \/ JobStep
  \/ (AdminStep \/ \E t \in Tester : TestStep(t)) /\ UNCHANGED job
  \/ Restart /\ job' = NoJob

FlowSpec == FlowInit /\ [][FlowNext]_flowVars
-----------------------------------------------------------------------------
\* When the last check lets the shutdown command go, neither the PC's address
\* nor its settings changed since the request was accepted, shutdown is enabled
\* and the address was tested, although rows are read one transaction at a time
\* (shutdown_pc_and_check_status, comment on expected_settings).
ClearedAsAccepted ==
  [][job.stage = "rechecking" /\ job'.stage = "cleared" =>
       /\ epoch = job.at
       /\ cfg.enabled
       /\ cfg.verifiedIp = job.expected.ip
       /\ pc.ip = job.expected.ip]_flowVars

\* What no step may do: let a command go to a connection other than the one
\* accepted, or replace a key (shutdown_pc_and_check_status, generate_pc_ssh_key).
StepsHold == ClearedAsAccepted /\ KeyNeverReplaced
=============================================================================
