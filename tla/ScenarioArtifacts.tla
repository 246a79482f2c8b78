-------------------------- MODULE ScenarioArtifacts --------------------------
(***************************************************************************)
(* What the settings and the objects become: the files of the exporters,   *)
(* as the set of the fields that reach each of them, what the service      *)
(* accepts of the OpenCDA file, and the scenario as it is saved and read.  *)
(***************************************************************************)
EXTENDS ObjectPanels

CONSTANTS
  Carrier, \* the car a lidar is attached to
  Routed   \* the cars for whose waypoints the map's network gives a route

ASSUME CarrierAssumption == Carrier \in [Lidars -> Cars]
ASSUME RoutedAssumption == Routed \subseteq Cars

-----------------------------------------------------------------------------
(* Settings in the OpenCDA file.                                           *)

When(condition, fields) == IF condition THEN fields ELSE {}

WorldBlock ==
  {"carla.map", "carla.fixed_delta_seconds", "carla.synchronous_mode",
   "carla.client_port", "carla.seed"}
    \cup WeatherKeys
    \cup When(\E k \in WeatherKeys : ValueOf(k) = Unset, {"carla.weather_preset"})
    \cup When(On("export_world_client_host"), {"world_client_host"})
BlueprintBlock == Classes \cup {"use_multi_class_bp", "bp_meta_path"}

SharedLidar ==
  DropoffRates
    \cup {"lidar_visualize", "lidar_points_per_second", "lidar_rotation_frequency",
          "lidar_upper_fov", "lidar_lower_fov", "lidar_sim.noise_stddev"}
LocalizationBlock ==
  {"localization_activate", "gnss.alt_stddev", "gnss.lat_stddev", "gnss.lon_stddev",
   "gnss.heading_direction_stddev", "gnss.speed_stddev",
   "localization_debug_x_scale", "localization_debug_y_scale"}
RsuBase ==
  SharedLidar \cup LocalizationBlock
    \cup {"rsu_perception_activate", "rsu_camera_visualize", "rsu_cam_num",
          "rsu_lidar_channels", "rsu_lidar_range"}

VehicleBaseBehavior ==
  {"max_speed", "tailgate_speed", "speed_lim_dist", "speed_decrease", "safety_time",
   "emergency_param", "ignore_traffic_light", "overtake_allowed",
   "collision_time_ahead", "overtake_counter_recover", "sample_resolution",
   "static_obstacle_avoidance_enabled", "local_planner.debug",
   "local_planner.debug_trajectory"}
    \cup PlannerNumbers \cup When(Coloured, {"vehicle_base_color"})
LocalizationMetrics == {"metrics.localization_trace_warmup"}
BehaviorMetrics ==
  {"metrics.behavior_speed_warmup", "metrics.behavior_acceleration_warmup",
   "metrics.behavior_ttc_warmup", "metrics.behavior_hard_brake_warmup"}
MapManagerBlock ==
  {"map_manager.pixels_per_meter", "map_manager.raster_width", "map_manager.raster_height",
   "map_manager.lane_sample_resolution", "map_manager.visualize", "map_manager.activate"}
SafetyBlock ==
  {"safety.print_message", "safety.collision_history_size", "safety.collision_col_thresh",
   "safety.stuck_len_thresh", "safety.stuck_speed_thresh",
   "safety.traffic_light_dist_thresh"}
ControllerBlock ==
  {"controller.type", "controller.lat_k_p", "controller.lat_k_d", "controller.lat_k_i",
   "controller.lon_k_p", "controller.lon_k_d", "controller.lon_k_i",
   "controller.dynamic", "controller.max_brake", "controller.max_throttle",
   "controller.max_steering"}
V2xBlock == {"v2x_enabled", "v2x_communication_range", "v2x_position_source"}
ExtendedVehicleBase ==
  MapManagerBlock \cup SafetyBlock \cup ControllerBlock \cup V2xBlock
    \cup When(On("export_vehicle_behavior_services"),
              {"services.self_informer", "services.movement_controller"})
VehicleBase ==
  SharedLidar \cup LocalizationBlock \cup VehicleBaseBehavior \cup ExtendedVehicleBase
    \cup {"perception_activate", "vehicle_camera_visualize", "vehicle_cam_num",
          "lidar_channels", "lidar_range", "localization_navigation_source",
          "vehicle_localization_debug_animation"}
    \cup When(On("export_metrics"), LocalizationMetrics \cup BehaviorMetrics)

SumoBlock == {"sumo_port", "sumo_host", "sumo_gui", "sumo_client_order"}
TrafficBlock ==
  {"carla.traffic_manager_port", "carla.synchronous_mode", "global_speed_perc",
   "bg_global_distance", "auto_lane_change", "bg_set_osm_mode", "bg_traffic_random",
   "ignore_lights_percentage", "bg_ignore_signs_percentage",
   "bg_ignore_walkers_percentage", "ignore_vehicles_percentage",
   "random_left_lanechange_percentage", "random_right_lanechange_percentage"}
    \cup When(On("enable_background_traffic"), SpawnRange \cup {"bg_vehicle_num"})
PlatoonBlock ==
  When(On("export_platoon_base"),
       {"platoon.max_capacity", "platoon.inter_gap", "platoon.open_gap",
        "platoon.warm_up_speed", "platoon.change_leader_speed", "platoon.leader_speed_1",
        "platoon.leader_speed_2", "platoon.stage_duration"}
         \cup When(On("export_metrics"),
                   {"platoon.metric_time_gap_warmup", "platoon.metric_distance_gap_warmup"}))
\* Seeded bug: the block is written with the metrics only.
CoopWithMetrics ==
  When(On("export_coop_perception") /\ On("export_metrics"),
       {"coop.background", "coop.bbox_line_thickness", "coop.image_dpi"})

CoopBlock ==
  When(On("export_coop_perception"),
       {"coop.background", "coop.bbox_line_thickness", "coop.image_dpi"})

\* What switches a block on or shapes all of them is in the file too.
BlockSwitches ==
  {"export_attacks", "export_platoon_base", "export_metrics", "export_coop_perception",
   "export_vehicle_behavior_services", "export_world_client_host", "export_profile",
   "enable_background_traffic"}
OpenCdaFile(f) ==
  \/ f \in WorldBlock \/ f \in BlueprintBlock \/ f \in RsuBase \/ f \in VehicleBase
  \/ f \in SumoBlock \/ f \in TrafficBlock \/ f \in PlatoonBlock \/ f \in CoopBlock
  \/ f \in BlockSwitches

-----------------------------------------------------------------------------
(* Settings in the other files.                                            *)

CarlaFile ==
  {"carla.map", "carla.weather_preset", "carla.synchronous_mode",
   "carla.fixed_delta_seconds", "carla.client_port", "carla.seed", "sim_duration",
   "carla.traffic_manager_port", "carla.num_vehicles", "carla.num_pedestrians",
   "sensors.camera", "sensors.lidar", "sensors.radar", "sensors.gnss", "sensors.imu"}
    \cup When(Cars # {}, {"omnet.max_interf_dist"})
    \cup When(On("sensors.camera"), {"carla.camera_fov"})
    \cup When(On("sensors.lidar"), {"carla.lidar_channels", "carla.lidar_range"})
ArteryFile ==
  {"sim_duration", "artery.sumo_config", "artery.sumo_step_length", "artery.sumo_seed",
   "artery.middleware_update_interval", "artery.datetime", "artery.denm_enabled",
   "artery.cp_service_enabled", "artery.cam_interval_min", "artery.cam_interval_max",
   "omnet.tx_power", "omnet.bitrate"}
    \cup When(Rsus # {}, {"artery.rsu_cam_enabled", "artery.rsu_denm_enabled"})
OmnetFile ==
  {"sim_duration", "omnet.max_interf_dist", "omnet.tx_power", "omnet.bitrate",
   "omnet.beaconing_interval", "omnet.protocol"}
SionnaFile ==
  {"sionna.carrier_frequency", "sionna.num_samples", "sionna.max_depth", "sionna.los",
   "sionna.reflection", "sionna.diffraction", "sionna.scattering"}
MpcFile ==
  {"mpc.NX", "mpc.NU", "mpc.T", "mpc.T_aug", "mpc.dist_stop", "mpc.speed_stop",
   "mpc.time_max", "mpc.iter_max", "mpc.target_speed", "mpc.n_ind", "mpc.dt",
   "mpc.d_dist", "mpc.du_res", "mpc.Qf", "mpc.R", "mpc.Rd", "mpc.RF", "mpc.RB",
   "mpc.W", "mpc.wd_ratio", "mpc.WB", "mpc.TR", "mpc.TW", "mpc.steer_deg",
   "mpc.steer_change_deg", "mpc.speed_max_kph", "mpc.speed_min_kph",
   "mpc.acceleration_max"}
CapiIni ==
  {"capi.network", "capi.cmdenv_express_mode", "capi.cmdenv_output_file",
   "capi.capi_log_level", "capi.scalar_recording", "capi.vector_recording",
   "capi.traci_hostname", "capi.traci_port", "capi.client_id", "capi.address",
   "capi.channel_number", "capi.carrier_frequency", "capi.tx_power",
   "capi.middleware_update_interval", "capi.datetime"}
CapiServicesXml ==
  {"capi.ca_service_enabled", "capi.cosim_service_enabled"}
    \cup When(On("capi.ca_service_enabled"), {"capi.ca_service_port"})
    \cup When(On("capi.cosim_service_enabled"),
              {"capi.cosim_service_port", "capi.cosim_filter_pattern"})
SumoCfg ==
  {"sumo.scenario_name", "sumo.full_output", "carla.map", "artery.sumo_step_length"}

ReachesAFile(f) ==
  \/ f \in MpcFile \/ f \in SionnaFile \/ f \in OmnetFile \/ f \in ArteryFile
  \/ f \in CapiIni \/ f \in CapiServicesXml \/ f \in SumoCfg
  \/ f \in CarlaFile \/ OpenCdaFile(f)

-----------------------------------------------------------------------------
(* Objects in the files: the fields of each that reach one of them.        *)

FieldsOf(o, fs) == fs \cap DOMAIN o

\* The first of a car's lidars stands in for its lidar settings.
Leads(l) == l = CHOOSE k \in Lidars : Carrier[k] = Carrier[l]
LidarInOpenCda(l) ==
  LET car == objects[Carrier[l]]
  IN  When(Leads(l),
           FieldsOf(objects[l],
                    {"rotation_frequency"}
                      \cup When(~Has(car, "sensing.lidar_channels"), {"channels"})
                      \cup When(~Has(car, "sensing.lidar_range"), {"range"})))

OpenCdaCar(o) ==
  FieldsOf(o, {"id", "cav_color", "max_speed", "collision_time_ahead", "v2x.enabled",
               "v2x.range", "spawn_special", "rotation"}
                \cup PlannerFlags \cup BehaviorFlags \cup Services
                \cup SensingNumbers \cup SensingFlags)
    \cup {f \in {"name", "carla_model"} : Nonblank(o, f)}
    \cup When(~Has(o, "spawn_special"), FieldsOf(o, {"position"}))
OpenCdaRsu(o) ==
  FieldsOf(o, {"position", "id", "rsu_color", "range", "tx_power", "frequency",
               "protocol", "beacon_interval", "sensing.perception_activate",
               "sensing.detection_range", "sensing.camera_visualize",
               "sensing.camera_num", "sensing.lidar_visualize",
               "sensing.localization_activate"}
                \cup RsuLidarNumbers \cup SensingGnss \cup AimFields)
    \ {f \in AimWords \cup {"name"} : ~Nonblank(o, f)}

CarlaCar(o) == FieldsOf(o, {"model", "color", "rotation", "position"})
SumoFields ==
  {"sumo_edges", "sumo_depart", "sumo_depart_lane", "sumo_depart_pos",
   "sumo_max_speed", "sumo_vtype", "stop.lane", "stop.start", "stop.end",
   "stop.duration"}

\* useGenerateRouXml throws unless both of these hold of every car, and then
\* there is no file of routes.
HasRoute(c) == Nonblank(objects[c], "sumo_edges") \/ c \in Routed
StopWritten(o) ==
  Has(o, "stop.lane") =>
    /\ Nonblank(o, "stop.lane")
    /\ o["stop.start"].n >= 0 /\ o["stop.duration"].n >= 0
    /\ o["stop.start"].n < o["stop.end"].n
SumoCar(o) ==
  When(\A c \in Cars : HasRoute(c) /\ StopWritten(objects[c]), FieldsOf(o, SumoFields))

RadioOfRsu(o) == FieldsOf(o, {"position", "tx_power", "frequency", "range", "protocol"})
RadioOfPedestrian(o) ==
  FieldsOf(o, {"position", "tx_power", "frequency", "protocol", "beacon_interval"})
SceneBuilding(o) == FieldsOf(o, {"position", "height", "material"})

\* The fields of an object in all the files of one export.
Written(x) ==
  CASE x \in Cars -> OpenCdaCar(objects[x]) \cup CarlaCar(objects[x]) \cup SumoCar(objects[x])
    [] x \in Rsus -> OpenCdaRsu(objects[x]) \cup RadioOfRsu(objects[x])
    [] x \in Buildings -> SceneBuilding(objects[x])
    [] x \in Pedestrians -> RadioOfPedestrian(objects[x])
    [] x \in Lidars -> LidarInOpenCda(x)

-----------------------------------------------------------------------------
(* What OpenCDA does with the ids of the roadside units: a default by the  *)
(* position in the list, and then only the negative of its size counts.    *)

Aim == ValueOf("export_profile") = Option(2)
RsuNumericId(o, index) ==
  IF Has(o, "id") THEN o["id"].n ELSE IF Aim THEN index * 100 ELSE -(index * 100)
ManagerKey(id) == IF id > 0 THEN -id ELSE id

-----------------------------------------------------------------------------
(* What the service refuses of the OpenCDA file: each setting it checks    *)
(* whose value, as the exporter prints it, does not pass.                  *)

\* A number that reads as a number; "undefined", "5e-7" and "1e+21" read as text.
ReadsAsNumber(v) == v.is \in {"number", "default"}
Whole(v) == v.is = "default" \/ (v.is = "number" /\ v.n % 100 = 0)

GnssDeviations ==
  {"gnss.alt_stddev", "gnss.lat_stddev", "gnss.lon_stddev",
   "gnss.heading_direction_stddev", "gnss.speed_stddev"}
\* effectiveCamNum
CamNum(v) == IF v.is = "number" THEN Number(Within(v.n, 0, 400)) ELSE v

RefusedNumbers ==
  {f \in {"carla.fixed_delta_seconds"} :
     ~ReadsAsNumber(ValueOf(f)) \/ (ValueOf(f).is = "number" /\ ValueOf(f).n <= 0)}
  \cup {f \in GnssDeviations : ~ReadsAsNumber(ValueOf(f)) \/ ValueOf(f).n < 0}
  \cup {f \in {"vehicle_cam_num", "rsu_cam_num"} :
          ~Whole(CamNum(ValueOf(f))) \/ CamNum(ValueOf(f)).n < 0}
  \cup {f \in {"carla.traffic_manager_port"} :
          \/ ~Whole(ValueOf(f))
          \/ /\ ValueOf(f).is = "number"
             /\ ValueOf(f).n < 100 \/ ValueOf(f).n > 6553500}

\* The controller's type is the one text that is printed without quotes.
Unreadable == {f \in {"controller.type"} : ValueOf(f) = Text(WildText)}
Refused == RefusedNumbers \cup Unreadable

-----------------------------------------------------------------------------
(* The scenario as it is saved and as it is read again.                    *)

\* buildScenarioPayload: what is not listed here is not sent.
SavedOfCar ==
  {"model", "color", "scale", "rotation", "position", "max_speed",
   "collision_time_ahead", "v2x.enabled", "v2x.range", "carla_model", "cav_color"}
    \cup PlannerFlags \cup BehaviorFlags
    \cup SumoFields
SavedOfRsu ==
  {"position", "tx_power", "frequency", "range", "protocol", "beacon_interval", "name",
   "id", "rsu_color", "scenario", "sensing.perception_activate",
   "sensing.detection_range", "sensing.camera_visualize", "sensing.camera_num",
   "sensing.lidar_visualize", "sensing.localization_activate"}
    \cup AimFields \cup RsuLidarNumbers \cup SensingGnss

SavedOfBuilding == {"position", "height", "material"}

\* Seeded bug: the interval of the beacons is forgotten.
PedestrianWithoutBeacon ==
  {"position", "speed", "cross_factor", "is_invincible", "tx_power", "frequency",
   "protocol"}

SavedOfPedestrian ==
  {"position", "speed", "cross_factor", "is_invincible", "tx_power", "frequency",
   "protocol", "beacon_interval"}

\* Seeded bug: the place of a lidar is forgotten.
LidarWithoutPlace == {"range", "channels", "rotation_frequency"}

SavedOfLidar == {"position", "range", "channels", "rotation_frequency"}

Payload(x) ==
  FieldsOf(objects[x],
           CASE x \in Cars -> SavedOfCar
             [] x \in Rsus -> SavedOfRsu
             [] x \in Buildings -> SavedOfBuilding
             [] x \in Pedestrians -> SavedOfPedestrian
             [] x \in Lidars -> SavedOfLidar)

\* restoreCars takes fewer of them.
RestoredOfCar ==
  {"model", "color", "scale", "rotation", "position"} \cup SumoFields
Restored(x) == IF x \in Cars THEN Payload(x) \cap RestoredOfCar ELSE Payload(x)

\* A rotation is cut to whole degrees; the product with 57.32 may have come
\* out a little low, and then it loses one more.
WholeDegrees(v, lost) ==
  IF v.is = "number" THEN Number((v.n \div 100) * 100 - lost) ELSE v
Reread(x, lost) ==
  [f \in Restored(x) |->
     IF f = "rotation" THEN WholeDegrees(objects[x][f], lost) ELSE objects[x][f]]
=============================================================================
