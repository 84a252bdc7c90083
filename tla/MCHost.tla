------------------------------- MODULE MCHost -------------------------------
(***************************************************************************)
(* The host link for TLC.  Its parts share no variable; a behaviour          *)
(* exercises one of them, chosen at the start.                               *)
(***************************************************************************)
EXTENDS HostLink, HostMaintenance, HostSettings, HilCapture, TLC

CONSTANT Parts   \* the parts a run is about

VARIABLE part

MCMaxRate == 0 :> 1 @@ 1 :> 2
MCRanges == {<<1, 2>>, <<2, 2>>}
MCMapped == {<<1, 1>>, <<2, 1>>, <<2, 2>>}
MCDefaultMap == [axes |-> <<<<0, 1>>, <<1, 0>>>>, switches |-> <<1, 2>>, tricks |-> <<<<0, 0>>, <<1, 1>>, <<2, 2>>>>]
\* full layout; older layout with deadbands out of range; a source and a trick that do
\* not exist; a length that is neither
MCBindMessages == {<<1, 2, 0, 1, 2, 1, 1, 2, 2, 1, 0, 0>>, <<0, -1, 2, 5, 0, 2, 2, 0, 1, 2>>,
                   <<3, 0, 0, 0, 1, 1, 0, 0, 0, 0, 0, 0>>, <<0, 0, 0, 0, 1, 1, 0, 0, 0, 3>>,
                   <<0, 0, 0, 0, 1, 1, 0, 0>>}

hostVars == <<part, frameVars, telVars, jobVars, targetVars, bindVars, requestVars, hilVars, fragmentVars>>

HostInit ==
    /\ part \in Parts
    /\ FramesInit /\ TelInit /\ JobsInit /\ TargetsInit /\ BindInit /\ RequestsInit
    /\ HilInit /\ FragmentsInit
    /\ part # "jobs" => ~disabled
    /\ part # "fragments" => \A n \in Lengths : logical.len <= n

HostNext ==
    \/ /\ part = "frames" /\ FramesNext
       /\ UNCHANGED <<part, telVars, jobVars, targetVars, bindVars, requestVars, hilVars, fragmentVars>>
    \/ /\ part = "telemetry" /\ TelNext
       /\ UNCHANGED <<part, frameVars, jobVars, targetVars, bindVars, requestVars, hilVars, fragmentVars>>
    \/ /\ part = "jobs" /\ JobsNext
       /\ UNCHANGED <<part, frameVars, telVars, targetVars, bindVars, requestVars, hilVars, fragmentVars>>
    \/ /\ part = "targets" /\ TargetsNext
       /\ UNCHANGED <<part, frameVars, telVars, jobVars, bindVars, requestVars, hilVars, fragmentVars>>
    \/ /\ part = "bindings" /\ BindNext
       /\ UNCHANGED <<part, frameVars, telVars, jobVars, targetVars, requestVars, hilVars, fragmentVars>>
    \/ /\ part = "requests" /\ RequestsNext
       /\ UNCHANGED <<part, frameVars, telVars, jobVars, targetVars, bindVars, hilVars, fragmentVars>>
    \/ /\ part = "trace" /\ HilNext
       /\ UNCHANGED <<part, frameVars, telVars, jobVars, targetVars, bindVars, requestVars, fragmentVars>>
    \/ /\ part = "fragments" /\ FragmentsNext
       /\ UNCHANGED <<part, frameVars, telVars, jobVars, targetVars, bindVars, requestVars, hilVars>>

\* dxlTask, rcTask and controlTask keep running and apiTask finishes what it began; the host
\* need not send anything
HostSpec ==
    /\ HostInit /\ [][HostNext]_hostVars
    /\ WF_jobVars(part = "jobs" /\ DxlTask)
    /\ WF_hilVars(part = "trace" /\ ControlCycle)
    /\ WF_hilVars(part = "trace" /\ Emit)
    /\ WF_hilVars(part = "trace" /\ QueueLater)

(***************************************************************************)
(* What the host starts is completed and comes back whole: a capture has no *)
(* gap and ends, an abort ends the capture it was sent for, fragments       *)
(* assemble into the bytes of one record, and a servo job that was accepted *)
(* gets its result (controlTask, apiTask and dxlTask of app/tasks.cpp).     *)
(***************************************************************************)
HostWorkCompletes ==
    /\ [](StepsHaveNoGap /\ AbortHitsOwnCapture /\ AssembledIsOneRecord)
    /\ CaptureEnds /\ AcceptedJobEnds
=============================================================================
