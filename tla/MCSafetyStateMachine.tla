------------------------ MODULE MCSafetyStateMachine ------------------------
(* Input records for TLC: what the control task can present, built from what
   the RC bridge, the arbiter and the host interfaces can jointly report. *)
EXTENDS SafetyStateMachine

(* RC views the bridge can publish: failsafe implies not armed; kill counts
   only once a link has existed (deriveRcStatus). *)
RcView(seen, fs, kill, armed, auto) ==
    [seen |-> seen, fs |-> fs, kill |-> kill, armed |-> armed, auto |-> auto]

RcViews ==
    {RcView(FALSE, TRUE, FALSE, FALSE, FALSE),
     RcView(TRUE, TRUE, TRUE, FALSE, FALSE),
     RcView(TRUE, FALSE, TRUE, FALSE, FALSE),
     RcView(TRUE, FALSE, FALSE, FALSE, FALSE),
     RcView(TRUE, FALSE, FALSE, TRUE, FALSE),
     RcView(TRUE, FALSE, FALSE, TRUE, TRUE)}

Health == {"ok", "low", "invalid", "watchdog", "dxl"}
Hosts == {"quiet", "estop", "disarm", "clear"}
Modes == {"none", "lock", "recovery", "passive", "torqueOn"}
Activity == {"idle", "motion", "contact", "unready"}

(* command_source as CommandArbiter::update selects it. *)
Source(rc, host, mode) ==
    CASE host = "estop" \/ (rc.kill /\ mode # "recovery") -> "None"
      [] ~(host = "estop" \/ (rc.kill /\ mode # "recovery"))
         /\ mode \in {"lock", "recovery"} -> "MacMaintenance"
      [] OTHER -> IF ~rc.armed THEN "None"
                  ELSE IF rc.auto THEN "Jetson" ELSE "Rc"

In(rc, health, host, mode, act) ==
    [config_loaded |-> act # "unready",
     battery |-> IF health \in {"low", "invalid"} THEN health ELSE "ok",
     watchdog_fault |-> health = "watchdog",
     dxl_hard_fault |-> health = "dxl",
     host_estop |-> host = "estop",
     rc_kill |-> rc.kill, rc_failsafe |-> rc.fs, rc_ever_seen |-> rc.seen,
     rc_armed |-> rc.armed,
     arming_checks_pass |-> act \in {"motion", "contact"},
     host_disarm |-> host = "disarm",
     command_source |-> Source(rc, host, mode),
     jetson_fresh |-> rc.auto, rc_autonomy |-> rc.auto,
     mac_lock_held |-> mode \in {"lock", "recovery"},
     maintenance_request |-> mode \in {"lock", "recovery"},
     maintenance_failsafe_recovery |-> mode = "recovery" /\ rc.fs /\ rc.seen,
     passive_request |-> mode \in {"passive", "torqueOn"},
     torque_off |-> mode # "torqueOn",
     contact |-> act = "contact",
     motion_active |-> act = "motion",
     clear_request |-> host = "clear"]

(* Every RC view and activity with at most one of health, host and mode away
   from its quiet value. *)
MCInputs ==
    {In(rc, h, "quiet", "none", a) :
        rc \in RcViews, h \in Health, a \in Activity}
    \cup {In(rc, "ok", h, "none", a) :
        rc \in RcViews, h \in Hosts, a \in Activity}
    \cup {In(rc, "ok", "quiet", m, a) :
        rc \in RcViews, m \in Modes, a \in Activity}
    \cup {In(rc, h, "clear", "none", "idle") : rc \in RcViews, h \in Health}
=============================================================================
