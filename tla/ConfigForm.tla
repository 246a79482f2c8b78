----------------------------- MODULE ConfigForm -----------------------------
(***************************************************************************)
(* The simulation settings dialog: every input of its tabs, as the set of  *)
(* patches it can hand to the store, and the store's updates, which merge  *)
(* a patch over the settings and the defaults.                             *)
(*                                                                         *)
(* Settings hold what differs from the defaults.  Numbers are hundredths,  *)
(* a text is empty, ordinary or not a plain YAML scalar, a choice is one   *)
(* of its first options.                                                   *)
(***************************************************************************)
EXTENDS Integers, Sequences, FiniteSets

CONSTANTS
  Typed,   \* the numbers typed that print without an exponent, in hundredths
  MaxItems \* bound on the vTypes, extra configurations and attacks of a list

ASSUME TypedAssumption == Typed \subseteq Int /\ MaxItems \in Nat

VARIABLES
  config, \* simConfig: a value for each setting that was changed
  lists,  \* its vtypes, extra_configs and attacks
  chosen  \* selectedAttack, of the attack editor

formVars == <<config, lists, chosen>>

-----------------------------------------------------------------------------
(* Patches: a field with its value, and one patch over another, as in      *)
(* module TLC, whose definitions the provers do not see.                   *)

f :> v == [x \in {f} |-> v]
Overlaid(p, q) ==
  [x \in DOMAIN p \cup DOMAIN q |-> IF x \in DOMAIN p THEN p[x] ELSE q[x]]
p @@ q == Overlaid(p, q)

-----------------------------------------------------------------------------
(* Values.                                                                 *)

Unset == [is |-> "default", n |-> 0]
Undefined == [is |-> "undefined", n |-> 0]
Number(n) == [is |-> "number", n |-> n]
\* The two kinds of numbers that JavaScript prints with an exponent and no
\* point: below a millionth, "5e-7", and from 10^21 on, "1e+21".
Tiny == [is |-> "tiny", n |-> 0]
Huge == [is |-> "huge", n |-> 0]
Text(t) == [is |-> "text", n |-> t]
Option(o) == [is |-> "option", n |-> o]
Flag(b) == [is |-> "flag", n |-> IF b THEN 1 ELSE 0]
EmptyText == 0
WildText == 2

\* The switches that are on by default.
DefaultOn ==
  {"sumo_gui", "ignore_traffic_light", "overtake_allowed", "localization_activate",
   "bg_set_osm_mode", "local_planner.debug", "local_planner.debug_trajectory",
   "v2x_enabled", "export_attacks", "map_manager.activate", "safety.print_message",
   "platoon.change_leader_speed", "services.self_informer",
   "services.movement_controller"}
    \cup {"sensors.camera", "sensors.lidar", "sensors.gnss", "sensors.imu",
          "carla.synchronous_mode"}
    \cup {"artery.denm_enabled", "artery.rsu_cam_enabled", "artery.rsu_denm_enabled"}
    \cup {"sionna.los", "sionna.reflection", "sionna.diffraction"}
    \cup {"capi.ca_service_enabled", "capi.cosim_service_enabled"}

ValueOf(f) == IF f \in DOMAIN config THEN config[f] ELSE Unset
On(f) == ValueOf(f) = Flag(TRUE) \/ (ValueOf(f) = Unset /\ f \in DefaultOn)

-----------------------------------------------------------------------------
(* Inputs: the patches an input of a setting can make.                     *)

\* They stand for a bound the input does not have, and no input has them.
NoMin == -2147483647
NoMax == 2147483647

\* validateNumber
Within(n, lo, hi) ==
  IF lo # NoMin /\ n < lo THEN lo ELSE IF hi # NoMax /\ n > hi THEN hi ELSE n

\* The same of what is typed: a positive minimum cuts off a tiny number, any
\* maximum a huge one.
Numbers(typed, lo, hi) ==
  {Number(Within(n, lo, hi)) : n \in typed}
    \cup (IF lo <= 0 THEN {Tiny} ELSE {}) \cup (IF hi = NoMax THEN {Huge} ELSE {})

\* A field that ignores what is no number.
Kept(f, lo, hi) == {f :> v : v \in Numbers(Typed, lo, hi)}

\* A field that takes what is no number for 0.
Zeroed(f, lo, hi) == {f :> v : v \in Numbers(Typed \cup {0}, lo, hi)}

\* A field that takes what is no number for "no value".
Emptied(f) == Kept(f, NoMin, NoMax) \cup {f :> Undefined}

Words(f) == {f :> Text(t) : t \in {EmptyText, 1, WildText}}
Toggle(f) == {f :> Flag(~On(f))}
Choice(f) == {f :> Option(o) : o \in {1, 2}}

\* The same input for each of several settings.
AnySign(fs) == UNION {Kept(f, NoMin, NoMax) : f \in fs} \* seeded bug: the minimum forgotten

AtLeastZero(fs) == UNION {Kept(f, 0, NoMax) : f \in fs}

ZeroedFrom(fs, lo) == UNION {Zeroed(f, lo, NoMax) : f \in fs}
AllKept(fs, lo, hi) == UNION {Kept(f, lo, hi) : f \in fs}
AllEmptied(fs) == UNION {Emptied(f) : f \in fs}
AllWords(fs) == UNION {Words(f) : f \in fs}
Toggles(fs) == UNION {Toggle(f) : f \in fs}

-----------------------------------------------------------------------------
(* The OpenCDA tab.                                                        *)

VehicleBehaviour ==
  Kept("max_speed", 0, 30000) \cup Kept("sample_resolution", 10, NoMax)
    \cup AtLeastZero({"tailgate_speed", "safety_time", "emergency_param",
                      "collision_time_ahead", "speed_lim_dist", "speed_decrease",
                      "overtake_counter_recover"})

VehicleRules ==
  Toggles({"ignore_traffic_light", "overtake_allowed",
           "static_obstacle_avoidance_enabled"})

VehicleSensors ==
  Kept("vehicle_camera_visualize", 0, 100) \cup Kept("vehicle_cam_num", 0, 400)
    \cup Kept("lidar_channels", 100, 12800) \cup Kept("lidar_range", 100, 50000)
    \cup Kept("lidar_points_per_second", 100000, 1000000000)
    \cup Kept("lidar_rotation_frequency", 100, 10000)
    \cup AllKept({"lidar_upper_fov", "lidar_lower_fov"}, -9000, 9000)

VehicleSensing ==
  Toggles({"perception_activate", "localization_activate", "lidar_visualize"})
    \cup Choice("localization_navigation_source")

V2X ==
  Toggle("v2x_enabled") \cup Kept("v2x_communication_range", 0, 100000)
    \cup Choice("v2x_position_source")

\* The two deviations of the other GNSS section fall to 0 with each of these.
GnssNoise ==
  {p @@ ("gnss.heading_direction_stddev" :> Number(0))
     @@ ("gnss.speed_stddev" :> Number(0)) :
     p \in AtLeastZero({"gnss.alt_stddev", "gnss.lat_stddev", "gnss.lon_stddev"})}
  \cup Toggle("vehicle_localization_debug_animation")

DropoffRates ==
  {"lidar_sim.dropoff_general_rate", "lidar_sim.dropoff_intensity_limit",
   "lidar_sim.dropoff_zero_intensity"}
LidarDropoff == AllKept(DropoffRates, 0, 100) \cup AtLeastZero({"lidar_sim.noise_stddev"})

LocalPlannerNumbers ==
  Kept("local_planner.buffer_size", 100, 100000)
    \cup AllKept({"local_planner.trajectory_update_freq",
                  "local_planner.waypoint_update_freq"}, 10, 10000)
    \cup Kept("local_planner.min_dist", 1, 10000)
    \cup Kept("local_planner.trajectory_dt", 1, 1000)

LocalPlannerSwitches == Toggles({"local_planner.debug", "local_planner.debug_trajectory"})

RsuDefaults ==
  Kept("rsu_lidar_channels", 100, 12800) \cup Kept("rsu_lidar_range", 100, 50000)
    \cup Kept("rsu_camera_visualize", 0, 100) \cup Kept("rsu_cam_num", 0, 400)
    \cup Toggle("rsu_perception_activate")

Classes == {"bp.car", "bp.truck", "bp.bus", "bp.bicycle", "bp.motorcycle"}
Blueprint ==
  Toggle("use_multi_class_bp") \cup Words("bp_meta_path") \cup AllKept(Classes, 0, 100)

\* The colour is there while its switch is on: on sets it, off clears it.
Coloured == ValueOf("vehicle_base_color") # Unset
ColorPicker ==
  IF Coloured
  THEN {"vehicle_base_color" :> Unset}
         \cup {"vehicle_base_color" :> Option(o) : o \in {1, 2}}
  ELSE {"vehicle_base_color" :> Option(1)}

SumoHost == {"sumo_host" :> Text(t) : t \in {EmptyText, 1}}
SumoConnection ==
  SumoHost \cup Kept("sumo_port", 0, 6553500) \cup AtLeastZero({"sumo_client_order"})
    \cup Toggle("sumo_gui")
SumoQuickPresets ==
  {("sumo_host" :> Text(1)) @@ ("sumo_port" :> Number(n)) : n \in {881300, 881400}}

SpawnRange ==
  {"bg_spawn.x_min", "bg_spawn.x_max", "bg_spawn.y_min", "bg_spawn.y_max",
   "bg_spawn.x_step", "bg_spawn.y_step"}
BackgroundSpawn ==
  IF On("enable_background_traffic")
  THEN Toggle("bg_traffic_random") \cup AllKept(SpawnRange, NoMin, NoMax)
         \cup Kept("global_speed_perc", -10000, NoMax)
         \cup AtLeastZero({"bg_vehicle_num", "bg_global_distance"})
  ELSE {}
BackgroundRules ==
  IF On("enable_background_traffic")
  THEN Toggles({"bg_set_osm_mode", "auto_lane_change"})
         \cup AllKept({"ignore_lights_percentage", "bg_ignore_signs_percentage",
                       "bg_ignore_walkers_percentage"}, 0, 10000)
  ELSE {}
BackgroundTraffic ==
  Toggle("enable_background_traffic") \cup BackgroundSpawn \cup BackgroundRules

\* AIM_CHECK_SIM_OVERRIDES: values of the sections above, and the map's name.
AimNumbers ==
  [f \in {"vehicle_cam_num", "rsu_cam_num"} |-> Number(400)]
    @@ [f \in {"rsu_camera_visualize", "vehicle_camera_visualize"} |-> Number(0)]
    @@ [f \in {"lidar_channels", "rsu_lidar_channels"} |-> Number(3200)]
    @@ [f \in {"lidar_range", "rsu_lidar_range"} |-> Number(12000)]
    @@ [f \in {"gnss.lat_stddev", "gnss.lon_stddev"} |-> Number(0)]
    @@ [f \in {"lidar_upper_fov", "collision_time_ahead"} |-> Number(200)]
    @@ [f \in {"gnss.heading_direction_stddev", "gnss.speed_stddev"} |-> Unset]
    @@ ("gnss.alt_stddev" :> Number(5)) @@ ("lidar_lower_fov" :> Number(-2500))
    @@ ("lidar_points_per_second" :> Number(100000000))
    @@ ("lidar_rotation_frequency" :> Number(2000))
    @@ ("lidar_sim.dropoff_general_rate" :> Number(30))
    @@ ("lidar_sim.dropoff_intensity_limit" :> Number(70))
    @@ ("lidar_sim.dropoff_zero_intensity" :> Number(40))
    @@ ("lidar_sim.noise_stddev" :> Number(2))
AimSwitches ==
  [f \in {"use_multi_class_bp", "ignore_traffic_light", "local_planner.debug",
          "local_planner.debug_trajectory"} |-> Flag(TRUE)]
    @@ [f \in {"perception_activate", "localization_activate", "lidar_visualize",
               "rsu_perception_activate", "vehicle_localization_debug_animation",
               "v2x_enabled"} |-> Flag(FALSE)]
PlannerNumbers ==
  {"local_planner.buffer_size", "local_planner.trajectory_update_freq",
   "local_planner.waypoint_update_freq", "local_planner.min_dist",
   "local_planner.trajectory_dt"}
AimDefaults ==
  AimNumbers @@ AimSwitches @@ [f \in PlannerNumbers |-> Unset]
    @@ ("bp_meta_path" :> Text(1)) @@ ("vehicle_base_color" :> Option(1))
    @@ ("export_profile" :> Option(2)) @@ ("carla.map" :> Option(1))
ExportProfile == Choice("export_profile") \cup {AimDefaults}

-----------------------------------------------------------------------------
(* The rarely used blocks of the OpenCDA tab.                              *)

ExportToggles ==
  Toggles({"export_attacks", "export_platoon_base", "export_metrics",
           "export_coop_perception", "export_vehicle_behavior_services",
           "export_world_client_host"})
GnssDebug ==
  ZeroedFrom({"gnss.heading_direction_stddev", "gnss.speed_stddev",
              "localization_debug_x_scale", "localization_debug_y_scale"}, 0)
MapManager ==
  ZeroedFrom({"map_manager.pixels_per_meter"}, 10)
    \cup ZeroedFrom({"map_manager.raster_width", "map_manager.raster_height"}, 100)
    \cup ZeroedFrom({"map_manager.lane_sample_resolution"}, 1)
    \cup Toggles({"map_manager.activate", "map_manager.visualize"})
SafetyManager ==
  Toggle("safety.print_message") \cup ZeroedFrom({"safety.collision_history_size"}, 100)
    \cup ZeroedFrom({"safety.collision_col_thresh", "safety.stuck_len_thresh",
                     "safety.stuck_speed_thresh", "safety.traffic_light_dist_thresh"}, 0)
ControllerPid ==
  Words("controller.type") \cup Toggle("controller.dynamic")
    \cup ZeroedFrom({"controller.lat_k_p", "controller.lat_k_d", "controller.lat_k_i",
                     "controller.lon_k_p", "controller.lon_k_d", "controller.lon_k_i",
                     "controller.max_brake", "controller.max_throttle",
                     "controller.max_steering"}, 0)
PlatoonBase ==
  ZeroedFrom({"platoon.max_capacity"}, 100) \cup Toggle("platoon.change_leader_speed")
    \cup ZeroedFrom({"platoon.inter_gap", "platoon.open_gap", "platoon.warm_up_speed",
                     "platoon.stage_duration", "platoon.leader_speed_1",
                     "platoon.leader_speed_2", "platoon.metric_time_gap_warmup",
                     "platoon.metric_distance_gap_warmup"}, 0)
Metrics ==
  ZeroedFrom({"metrics.localization_trace_warmup", "metrics.behavior_speed_warmup",
              "metrics.behavior_acceleration_warmup", "metrics.behavior_ttc_warmup",
              "metrics.behavior_hard_brake_warmup"}, 0)
RgbTriple(f) == Zeroed(f, 0, 25500)
CoopPerception ==
  RgbTriple("coop.background") \cup ZeroedFrom({"coop.bbox_line_thickness"}, 0)
    \cup ZeroedFrom({"coop.image_dpi"}, 100)
CarlaTrafficManager ==
  UNION {Zeroed(f, 0, 10000) :
           f \in {"ignore_vehicles_percentage", "random_left_lanechange_percentage",
                  "random_right_lanechange_percentage"}}
BehaviorServices == Toggles({"services.self_informer", "services.movement_controller"})
WorldClientHost == Words("world_client_host")

RareSections ==
  ExportToggles \cup GnssDebug \cup MapManager \cup SafetyManager \cup ControllerPid
    \cup PlatoonBase \cup Metrics \cup CoopPerception \cup CarlaTrafficManager
    \cup BehaviorServices \cup WorldClientHost
OpenCdaTab ==
  ExportProfile \cup ColorPicker \cup Blueprint \cup V2X \cup VehicleBehaviour
    \cup VehicleRules \cup LocalPlannerNumbers \cup LocalPlannerSwitches
    \cup VehicleSensors \cup VehicleSensing \cup LidarDropoff \cup GnssNoise
    \cup RsuDefaults \cup SumoConnection \cup SumoQuickPresets
    \cup BackgroundTraffic \cup RareSections

-----------------------------------------------------------------------------
(* The CARLA tab.                                                          *)

CarlaSettings ==
  AllEmptied({"carla.num_vehicles", "carla.num_pedestrians", "carla.client_port",
              "carla.seed", "carla.fixed_delta_seconds", "carla.traffic_manager_port"})
    \cup Toggle("carla.synchronous_mode")

\* Two of the nine keys of the weather; the override shows while it has a key.
WeatherKeys == {"weather.cloudiness", "weather.fog_density"}
CustomWeather == \E k \in WeatherKeys : ValueOf(k) # Unset
NoWeather == [k \in WeatherKeys |-> Unset]
MapWeather == {NoWeather @@ p : p \in Choice("carla.weather_preset")}
WeatherOverride ==
  IF CustomWeather
  THEN {NoWeather} \cup UNION {Kept(k, NoMin, NoMax) \cup {k :> Unset} : k \in WeatherKeys}
  ELSE {[k \in WeatherKeys |-> Number(0)]}

Sensors ==
  Toggles({"sensors.camera", "sensors.lidar", "sensors.radar", "sensors.gnss",
           "sensors.imu"})
    \cup (IF On("sensors.lidar")
          THEN AllEmptied({"carla.lidar_channels", "carla.lidar_range"}) ELSE {})
    \cup (IF On("sensors.camera") THEN Emptied("carla.camera_fov") ELSE {})

CarlaTab == CarlaSettings \cup MapWeather \cup WeatherOverride \cup Sensors

-----------------------------------------------------------------------------
(* The tabs of OMNeT++, Artery, Sionna and MPC.                            *)

OmnetTab ==
  AllEmptied({"omnet.tx_power", "omnet.bitrate", "omnet.beaconing_interval",
              "omnet.max_interf_dist"})
    \cup Choice("omnet.protocol")
ArteryTab ==
  AllWords({"artery.sumo_config", "artery.datetime"})
    \cup AllEmptied({"artery.sumo_step_length", "artery.sumo_seed",
                     "artery.middleware_update_interval", "artery.cam_interval_min",
                     "artery.cam_interval_max"})
ArteryServices ==
  Toggles({"artery.denm_enabled", "artery.cp_service_enabled",
           "artery.rsu_cam_enabled", "artery.rsu_denm_enabled"})
SionnaTab ==
  AllEmptied({"sionna.carrier_frequency", "sionna.max_depth", "sionna.num_samples"})
    \cup Toggles({"sionna.los", "sionna.reflection", "sionna.diffraction",
                  "sionna.scattering"})

MpcSystem == AllEmptied({"mpc.NX", "mpc.NU", "mpc.T", "mpc.T_aug"})
MpcSimulation ==
  AllEmptied({"mpc.dist_stop", "mpc.speed_stop", "mpc.time_max", "mpc.iter_max",
              "mpc.target_speed", "mpc.n_ind", "mpc.d_dist", "mpc.du_res"})
    \cup ZeroedFrom({"mpc.dt"}, NoMin)
MpcWeights == ZeroedFrom({"mpc.Qf", "mpc.R", "mpc.Rd"}, NoMin)
MpcGeometry ==
  AllEmptied({"mpc.RF", "mpc.RB", "mpc.W", "mpc.wd_ratio", "mpc.WB", "mpc.TR", "mpc.TW"})
MpcLimits ==
  AllEmptied({"mpc.steer_deg", "mpc.steer_change_deg", "mpc.speed_max_kph",
              "mpc.speed_min_kph", "mpc.acceleration_max"})
MpcTab == MpcSystem \cup MpcSimulation \cup MpcWeights \cup MpcGeometry \cup MpcLimits

-----------------------------------------------------------------------------
(* The CAPI and SUMO tabs and the dialog itself.                           *)

CapiNetwork == Words("capi.network")
CapiCommandEnv ==
  Words("capi.cmdenv_output_file")
    \cup Toggles({"capi.cmdenv_express_mode", "capi.scalar_recording",
                  "capi.vector_recording"})
CapiConnection ==
  Words("capi.address") \cup Emptied("capi.client_id") \cup Choice("capi.capi_log_level")
CapiTraci == Words("capi.traci_hostname") \cup Emptied("capi.traci_port")
CapiRadio ==
  AllWords({"capi.carrier_frequency", "capi.tx_power"}) \cup Emptied("capi.channel_number")
CapiMiddleware == Words("capi.datetime") \cup Emptied("capi.middleware_update_interval")
CapiServices ==
  Toggles({"capi.ca_service_enabled", "capi.cosim_service_enabled"})
    \cup (IF On("capi.ca_service_enabled")
          THEN Zeroed("capi.ca_service_port", NoMin, NoMax) ELSE {})
    \cup (IF On("capi.cosim_service_enabled")
          THEN Zeroed("capi.cosim_service_port", NoMin, NoMax) ELSE {})
    \cup Words("capi.cosim_filter_pattern")
CapiTab ==
  CapiNetwork \cup CapiCommandEnv \cup CapiConnection \cup CapiTraci \cup CapiRadio
    \cup CapiMiddleware \cup CapiServices

SumoFiles == Words("sumo.scenario_name") \cup Toggle("sumo.full_output")

SimConfigModal ==
  Emptied("sim_duration") \cup OmnetTab \cup ArteryTab \cup ArteryServices
    \cup SionnaTab \cup CarlaTab \cup OpenCdaTab \cup SumoFiles \cup CapiTab \cup MpcTab

-----------------------------------------------------------------------------
(* The store.  An update merges over the defaults, which do not know the   *)
(* name of an uploaded map.                                                *)

Uploaded == Option(2)
TownNormalized(c) ==
  IF "carla.map" \in DOMAIN c /\ c["carla.map"] = Uploaded
  THEN ("carla.map" :> Unset) @@ c ELSE c

Merged(patch, c) == patch @@ TownNormalized(c)

\* What a new or an opened scenario starts with: the defaults, or those with
\* the name of an uploaded map.
FreshConfigs == {<<>>, "carla.map" :> Uploaded}

EditConfig ==
  /\ \E p \in SimConfigModal : config' = Merged(p, config)
  /\ UNCHANGED <<lists, chosen>>

-----------------------------------------------------------------------------
(* The lists: vehicle types of SUMO, extra configurations of CAPI, and     *)
(* attacks, each a sequence of its stages.                                 *)

FreshLists == [vtypes |-> <<0>>, extras |-> <<"listed">>, attacks |-> <<>>]

InitForm ==
  /\ config \in FreshConfigs
  /\ lists = FreshLists
  /\ chosen = 1

Without(s, i) == SubSeq(s, 1, i - 1) \o SubSeq(s, i + 1, Len(s))

\* A new vehicle type is named after the number of those there are; typing
\* in a field renames it, to a name outside that series.
Renamed == 9
VTypes ==
  /\ \/ /\ Len(lists.vtypes) < MaxItems
        /\ lists' = [lists EXCEPT !.vtypes = Append(@, Len(@))]
     \/ \E i \in DOMAIN lists.vtypes :
          lists' \in {[lists EXCEPT !.vtypes = Without(@, i)],
                      [lists EXCEPT !.vtypes[i] = Renamed]}
  /\ config' = Merged(<<>>, config)
  /\ UNCHANGED chosen

ExtraConfigs ==
  /\ \/ /\ Len(lists.extras) < MaxItems
        /\ lists' = [lists EXCEPT !.extras = Append(@, "listed")]
     \/ \E i \in DOMAIN lists.extras :
          lists' \in {[lists EXCEPT !.extras = Without(@, i)],
                      [lists EXCEPT !.extras[i] = "edited"]}
  /\ config' = Merged(<<>>, config)
  /\ UNCHANGED chosen

Spoofer == "spoofer"

AddAttack ==
  /\ Len(lists.attacks) < MaxItems
  /\ \E stages \in {<<>>, <<Spoofer>>} :
       lists' = [lists EXCEPT !.attacks = Append(@, stages)]
  /\ config' = ("export_attacks" :> Flag(TRUE)) @@ Merged(<<>>, config)
  /\ chosen' = Len(lists'.attacks)

ChooseAttack ==
  /\ \E i \in DOMAIN lists.attacks \ {chosen} : chosen' = i
  /\ UNCHANGED <<config, lists>>

\* currentAttack
Chosen == chosen \in DOMAIN lists.attacks

EditStages ==
  /\ Chosen
  /\ \/ /\ Len(lists.attacks[chosen]) < MaxItems
        /\ lists' = [lists EXCEPT !.attacks[chosen] = Append(@, Spoofer)]
     \/ \E i \in DOMAIN lists.attacks[chosen] :
          lists' = [lists EXCEPT !.attacks[chosen] = Without(@, i)]
  /\ config' = Merged(<<>>, config)
  /\ UNCHANGED chosen

\* The type of a stage, and the parameters of a spoofer in its form.
StageType ==
  /\ Chosen
  /\ \E i \in DOMAIN lists.attacks[chosen], kind \in {Spoofer, "other"} :
       /\ kind # lists.attacks[chosen][i]
       /\ lists' = [lists EXCEPT !.attacks[chosen][i] = kind]
  /\ config' = Merged(<<>>, config)
  /\ UNCHANGED chosen
StageParameters ==
  /\ Chosen
  /\ \E i \in DOMAIN lists.attacks[chosen] :
       /\ lists.attacks[chosen][i] = Spoofer
       /\ lists' = [lists EXCEPT !.attacks[chosen][i] = "edited spoofer"]
  /\ config' = Merged(<<>>, config)
  /\ UNCHANGED chosen

AboveOne(i) == IF i > 1 THEN i - 1 ELSE 1

RemoveAttack ==
  /\ Chosen
  /\ lists' = [lists EXCEPT !.attacks = Without(@, chosen)]
  /\ chosen' = AboveOne(chosen)
  /\ config' = Merged(<<>>, config)

Attacks ==
  AddAttack \/ ChooseAttack \/ EditStages \/ StageType \/ StageParameters \/ RemoveAttack

EditLists == VTypes \/ ExtraConfigs \/ Attacks

\* Opening a scenario puts the defaults back.
ResetConfig ==
  /\ config' \in FreshConfigs
  /\ lists' = FreshLists
  /\ UNCHANGED chosen
=============================================================================
