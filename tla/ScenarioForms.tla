---------------------------- MODULE ScenarioForms ----------------------------
(***************************************************************************)
(* The settings dialog and the properties panels at work on one scenario,  *)
(* which is saved and opened again: what the user set must reach the files *)
(* of the simulators, be accepted by the service, and be there again after *)
(* the scenario was opened.                                                *)
(***************************************************************************)
EXTENDS ScenarioArtifacts, Functions

CONSTANT MaxEdits \* bound on the edits of a behaviour

ASSUME MaxEditsAssumption == MaxEdits \in Nat

VARIABLES
  edits, \* edits made so far
  focus  \* "open" before the first edit, then what the behaviour edits

vars == <<config, lists, chosen, objects, selected, advanced, mounted, shown,
          edits, focus>>

Init == InitForm /\ InitPanels /\ edits = 0 /\ focus = "open"

\* The dialog and the panels write different parts of the store; a behaviour
\* is bounded to edits of one of them: settings, lists or objects.
Focused(part) == focus \in {"open", part} /\ focus' = part
Counted == edits < MaxEdits /\ edits' = edits + 1

Settings == Focused("settings") /\ Counted /\ EditConfig /\ UNCHANGED panelVars
Listing == Focused("lists") /\ EditLists /\ UNCHANGED <<panelVars, edits>>
Properties == Focused("objects") /\ Counted /\ EditPanels /\ UNCHANGED formVars
Browsing ==
  /\ Focused("objects") /\ edits < MaxEdits
  /\ BrowsePanels
  /\ UNCHANGED <<formVars, edits>>

\* The scenario is saved and then opened: the settings and the selection go.
Reload ==
  /\ focus # "open"
  /\ \E lost \in {0, 100} : objects' = [x \in Objects |-> Reread(x, lost)]
  /\ ResetConfig
  /\ selected' = {} /\ advanced' = FALSE /\ mounted' = {} /\ shown' = {}
  /\ UNCHANGED <<edits, focus>>

Next == Settings \/ Listing \/ Properties \/ Browsing \/ Reload

Spec == Init /\ [][Next]_vars

-----------------------------------------------------------------------------
(* Properties.                                                             *)

\* What the dialog's inputs let through, the service accepts: only a number so
\* small or so large that it prints with an exponent, part of a camera, a text
\* in the one place without quotes and the two CARLA numbers without bounds
\* are refused.
ServiceAccepts ==
  \A f \in Refused :
    \/ ValueOf(f) \in {Tiny, Huge}
    \/ f \in {"vehicle_cam_num", "rsu_cam_num"} /\ ValueOf(f).n % 100 # 0
    \/ f \in {"controller.type", "carla.fixed_delta_seconds", "carla.traffic_manager_port"}

\* Settings of a section whose part of the file is switched off.
Fields(section) == UNION {DOMAIN p : p \in section}
Dormant ==
  When(~On("enable_background_traffic"), SpawnRange \cup {"bg_vehicle_num"})
    \cup When(~On("export_world_client_host"), Fields(WorldClientHost))
    \cup When(~On("export_vehicle_behavior_services"), Fields(BehaviorServices))
    \cup When(~On("export_coop_perception"), Fields(CoopPerception))
    \cup When(~On("export_platoon_base"), Fields(PlatoonBase))
    \cup When(~On("export_metrics"),
              Fields(Metrics)
                \cup {"platoon.metric_time_gap_warmup", "platoon.metric_distance_gap_warmup"})
    \cup When(~On("sensors.camera"), {"carla.camera_fov"})
    \cup When(~On("sensors.lidar"), {"carla.lidar_channels", "carla.lidar_range"})
    \cup When(~On("capi.ca_service_enabled"), {"capi.ca_service_port"})
    \cup When(~On("capi.cosim_service_enabled"),
              {"capi.cosim_service_port", "capi.cosim_filter_pattern"})

\* A setting the user changed reaches a file of some simulator, unless the
\* part of the file it belongs to is switched off.
SettingsReachAFile ==
  \A f \in DOMAIN config : config[f] # Unset => ReachesAFile(f) \/ f \in Dormant

\* A panel that has shown one object only hides no override this has, so that
\* a switch is never turned on over a value.
NoHiddenOverride ==
  \A x \in Cars \cup Rsus : mounted = {x} =>
    (IF x \in Cars THEN CarSwitches(objects[x]) ELSE RsuSwitches(objects[x])) \subseteq shown

\* Only drawn: the speed of a car, and the size and the turn of a building.
OnlyDrawn(x) ==
  IF x \in Cars THEN {"speed", "sensing"} ELSE IF x \in Buildings THEN {"scale", "rotation"} ELSE {}

\* What a panel writes reaches a file or is saved, but for what is only drawn
\* and for words left blank.
EveryFieldIsKept ==
  \A x \in Objects : \A f \in DOMAIN objects[x] :
    \/ f \in Written(x) \cup Payload(x) \cup OnlyDrawn(x)
    \/ objects[x][f] = Text(EmptyText)

\* A scenario that was saved and opened gives the radio, scene and traffic
\* files it gave before; of a car the turn may be lower, and its OpenCDA
\* overrides are gone.
ReopenedRunsTheSame ==
  [][edits' = edits /\ objects' # objects =>
       \A x \in Objects :
         LET kept == IF x \in Cars
                     THEN (CarlaCar(objects[x]) \cup SumoCar(objects[x])) \ {"rotation"}
                     ELSE Written(x)
         IN  /\ kept \subseteq DOMAIN objects'[x]
             /\ \A f \in kept : objects'[x][f] = objects[x][f]]_vars

\* OpenCDA keys the units by the negative of their ids, which differ for
\* every order the units were placed in.
Orders == {o \in [1..Cardinality(Rsus) -> Rsus] : IsInjective(o)}
RsuIdsDistinct ==
  \A o \in Orders :
    IsInjective([i \in DOMAIN o |-> ManagerKey(RsuNumericId(objects[o[i]], i))])
=============================================================================
