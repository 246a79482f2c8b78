-------------------------- MODULE ScenarioFormsProofs --------------------------
(***************************************************************************)
(* Proofs about the settings dialog and the properties panels, for any     *)
(* objects, numbers typed and number of edits.                             *)
(*                                                                         *)
(* The settings: every input of every tab is a set of patches, and a patch *)
(* is fine if it names settings of the dialog only and gives those that    *)
(* the service checks a number of at least zero.  Fine settings stay fine  *)
(* under every input, are accepted, and are each in a file.                *)
(*                                                                         *)
(* The panels: an input is proper if it writes fields of its kind of       *)
(* object, and leaves the fields of each override alone, clears them all   *)
(* or has the override's switch on afterwards.  Every input of every panel *)
(* is proper, from which the overrides stay shown and every field is kept. *)
(***************************************************************************)
EXTENDS ScenarioForms, FiniteSetTheorems, TLAPS

\* A field with its value.
LEMMA FieldIs == ASSUME NEW f, NEW v PROVE DOMAIN (f :> v) = {f} /\ (f :> v)[f] = v
BY DEF :>

\* The fields of the first patch, then those of the second.
LEMMA OverlaidIs == ASSUME NEW p, NEW q PROVE p @@ q = Overlaid(p, q)
BY DEF @@

\* A patch over another one.
LEMMA PatchOver ==
  ASSUME NEW p, NEW q
  PROVE /\ DOMAIN (p @@ q) = DOMAIN p \cup DOMAIN q
        /\ \A f \in DOMAIN p : (p @@ q)[f] = p[f]
        /\ \A f \in DOMAIN q \ DOMAIN p : (p @@ q)[f] = q[f]
BY OverlaidIs DEF Overlaid

-----------------------------------------------------------------------------
(* The settings, by the part of a file they are in, and those the service  *)
(* checks.                                                                 *)

WorldNames ==
  {"carla.map", "carla.fixed_delta_seconds", "carla.synchronous_mode",
   "carla.client_port", "carla.seed", "world_client_host"} \cup WeatherKeys
VehicleNames ==
  {"max_speed", "tailgate_speed", "speed_lim_dist", "speed_decrease", "safety_time",
   "emergency_param", "ignore_traffic_light", "overtake_allowed",
   "collision_time_ahead", "overtake_counter_recover", "sample_resolution",
   "static_obstacle_avoidance_enabled", "local_planner.debug",
   "local_planner.debug_trajectory", "perception_activate", "vehicle_camera_visualize",
   "vehicle_cam_num", "lidar_channels", "lidar_range", "localization_navigation_source",
   "vehicle_localization_debug_animation"} \cup PlannerNumbers
TrafficNames ==
  {"carla.traffic_manager_port", "global_speed_perc", "bg_global_distance",
   "auto_lane_change", "bg_set_osm_mode", "bg_traffic_random",
   "ignore_lights_percentage", "bg_ignore_signs_percentage",
   "bg_ignore_walkers_percentage", "ignore_vehicles_percentage",
   "random_left_lanechange_percentage", "random_right_lanechange_percentage"}
SpawnNames == SpawnRange \cup {"bg_vehicle_num"}
ServiceNames == {"services.self_informer", "services.movement_controller"}
PlatoonNames ==
  {"platoon.max_capacity", "platoon.inter_gap", "platoon.open_gap",
   "platoon.warm_up_speed", "platoon.change_leader_speed", "platoon.leader_speed_1",
   "platoon.leader_speed_2", "platoon.stage_duration"}
PlatoonMetricNames == {"platoon.metric_time_gap_warmup", "platoon.metric_distance_gap_warmup"}
CoopNames == {"coop.background", "coop.bbox_line_thickness", "coop.image_dpi"}
CarlaNames ==
  {"carla.weather_preset", "sim_duration", "carla.num_vehicles", "carla.num_pedestrians",
   "sensors.camera", "sensors.lidar", "sensors.radar", "sensors.gnss", "sensors.imu"}
SensorNames == {"carla.camera_fov", "carla.lidar_channels", "carla.lidar_range"}
ArteryNames ==
  {"artery.sumo_config", "artery.sumo_step_length", "artery.sumo_seed",
   "artery.middleware_update_interval", "artery.datetime", "artery.denm_enabled",
   "artery.cp_service_enabled", "artery.cam_interval_min", "artery.cam_interval_max"}
RsuServiceNames == {"artery.rsu_cam_enabled", "artery.rsu_denm_enabled"}
CapiServiceNames ==
  {"capi.ca_service_enabled", "capi.cosim_service_enabled", "capi.ca_service_port",
   "capi.cosim_service_port", "capi.cosim_filter_pattern"}

Known ==
  WorldNames \cup VehicleNames \cup {"vehicle_base_color"} \cup TrafficNames \cup SpawnNames
    \cup ServiceNames \cup PlatoonNames \cup PlatoonMetricNames \cup CoopNames
    \cup CarlaNames \cup SensorNames \cup ArteryNames \cup RsuServiceNames
    \cup CapiServiceNames \cup BlueprintBlock \cup RsuBase \cup MapManagerBlock
    \cup SafetyBlock \cup ControllerBlock \cup V2xBlock \cup SumoBlock \cup BlockSwitches
    \cup LocalizationMetrics \cup BehaviorMetrics \cup MpcFile \cup SionnaFile
    \cup OmnetFile \cup CapiIni \cup SumoCfg

Checked == GnssDeviations \cup {"vehicle_cam_num", "rsu_cam_num"}
GoodValues == {Unset, Tiny, Huge} \cup {Number(n) : n \in Nat}

Plain == Known \ Checked

\* A patch of known settings whose checked ones pass.
Fine(p) == \A f \in DOMAIN p : f \in Known /\ (f \in Checked => p[f] \in GoodValues)
AllFine(patches) == \A p \in patches : Fine(p)

\* A setting the service does not check may have any value; one it does, a
\* number of at least zero.
LEMMA FieldFine ==
  ASSUME NEW f, NEW v, f \in Plain \/ (f \in Known /\ v \in GoodValues)
  PROVE Fine(f :> v)
<1>1. SUFFICES ASSUME NEW g \in DOMAIN (f :> v)
               PROVE g \in Known /\ (g \in Checked => (f :> v)[g] \in GoodValues)
  BY DEF Fine
<1>2. g = f /\ (f :> v)[g] = v
  BY <1>1 DEF :>
<1> QED
  BY <1>2 DEF Plain

\* A fine patch over fine settings leaves them fine: Merged, of
\* useSimulationStore.
LEMMA OverFine == ASSUME NEW p, NEW q, Fine(p), Fine(q) PROVE Fine(p @@ q)
<1>1. p @@ q = Overlaid(p, q)
  BY OverlaidIs
<1>2. \A g \in DOMAIN Overlaid(p, q) :
        g \in Known /\ (g \in Checked => Overlaid(p, q)[g] \in GoodValues)
  BY DEF Fine, Overlaid
<1>3. Fine(Overlaid(p, q))
  BY <1>2 DEF Fine
<1> QED
  BY <1>1, <1>3

\* The same value for several settings.
LEMMA EachFine == ASSUME NEW fs, NEW v, fs \subseteq Plain PROVE Fine([f \in fs |-> v])
BY DEF Fine, Plain

\* The inputs of two parts of the dialog together.
LEMMA UnionFine == ASSUME NEW A, NEW B, AllFine(A), AllFine(B) PROVE AllFine(A \cup B)
BY DEF AllFine

\* No input, and no setting changed.
LEMMA NothingFine == AllFine({}) /\ Fine(<<>>)
BY DEF AllFine, Fine

\* An input with a minimum of zero gives a number of at least zero, or the
\* default.
LEMMA NumbersGood ==
  ASSUME NEW T, T \subseteq Int, NEW lo \in Nat, NEW hi \in Nat
  PROVE Numbers(T, lo, hi) \subseteq GoodValues
<1>1. \A n \in Int : Within(n, lo, hi) \in Nat
  BY DEF Within, NoMin
<1> QED
  BY <1>1 DEF Numbers, GoodValues

\* The inputs of a setting the service does not check take any bounds, those
\* of a checked one bounds from 0.
LEMMA KeptFine == ASSUME NEW f \in Plain, NEW lo, NEW hi PROVE AllFine(Kept(f, lo, hi))
BY FieldFine DEF Kept, AllFine

\* A NumberInput with that minimum may set what the service checks.
LEMMA KeptChecked ==
  ASSUME NEW f \in Known, NEW lo \in Nat, NEW hi \in Nat PROVE AllFine(Kept(f, lo, hi))
<1>1. SUFFICES ASSUME NEW v \in Numbers(Typed, lo, hi) PROVE Fine(f :> v)
  BY DEF Kept, AllFine
<1> QED
  BY <1>1, FieldFine, NumbersGood, TypedAssumption

\* A NumberInput that an empty field sets to zero.
LEMMA ZeroedFine ==
  ASSUME NEW f \in Plain, NEW lo, NEW hi
  PROVE AllFine(Zeroed(f, lo, hi))
BY FieldFine DEF Zeroed, AllFine

\* Such an input with a minimum of at least zero, for what the service checks.
LEMMA ZeroedChecked ==
  ASSUME NEW f \in Known, NEW lo \in Nat, NEW hi \in Nat PROVE AllFine(Zeroed(f, lo, hi))
<1>1. SUFFICES ASSUME NEW v \in Numbers(Typed \cup {0}, lo, hi) PROVE Fine(f :> v)
  BY DEF Zeroed, AllFine
<1>2. Typed \cup {0} \subseteq Int
  BY TypedAssumption
<1> QED
  BY <1>1, <1>2, FieldFine, NumbersGood

\* An input that an empty field sets to undefined.
LEMMA EmptiedFine == ASSUME NEW f \in Plain PROVE AllFine(Emptied(f))
<1>1. AllFine({f :> Undefined})
  BY FieldFine DEF AllFine
<1> QED
  BY <1>1, KeptFine, UnionFine DEF Emptied

\* A text field.
LEMMA WordsFine == ASSUME NEW f \in Plain PROVE AllFine(Words(f))
BY FieldFine DEF Words, AllFine

\* A switch.
LEMMA ToggleFine == ASSUME NEW f \in Plain PROVE AllFine(Toggle(f))
BY FieldFine DEF Toggle, AllFine

\* A list of options.
LEMMA ChoiceFine == ASSUME NEW f \in Plain PROVE AllFine(Choice(f))
BY FieldFine DEF Choice, AllFine

\* Inputs of a tab with a minimum of zero.
LEMMA AtLeastZeroFine ==
  ASSUME NEW fs, fs \subseteq Plain
  PROVE AllFine(AtLeastZero(fs))
BY KeptFine DEF AtLeastZero, AllFine

\* The same for settings the service checks.
LEMMA AtLeastZeroChecked ==
  ASSUME NEW fs, fs \subseteq Known
  PROVE AllFine(AtLeastZero(fs))
<1>1. NoMax \in Nat
  BY DEF NoMax
<1> QED
  BY <1>1, KeptChecked DEF AtLeastZero, AllFine

\* Inputs of a tab with any minimum.
LEMMA ZeroedFromFine ==
  ASSUME NEW fs, fs \subseteq Plain, NEW lo
  PROVE AllFine(ZeroedFrom(fs, lo))
BY ZeroedFine DEF ZeroedFrom, AllFine

\* Inputs with a minimum of at least zero, for settings the service checks.
LEMMA ZeroedFromChecked ==
  ASSUME NEW fs, fs \subseteq Known, NEW lo \in Nat PROVE AllFine(ZeroedFrom(fs, lo))
<1>1. NoMax \in Nat
  BY DEF NoMax
<1> QED
  BY <1>1, ZeroedChecked DEF ZeroedFrom, AllFine

\* Inputs of a tab with bounds.
LEMMA AllKeptFine ==
  ASSUME NEW fs, fs \subseteq Plain, NEW lo, NEW hi
  PROVE AllFine(AllKept(fs, lo, hi))
BY KeptFine DEF AllKept, AllFine

\* Inputs of a tab that may be emptied.
LEMMA AllEmptiedFine == ASSUME NEW fs, fs \subseteq Plain PROVE AllFine(AllEmptied(fs))
BY EmptiedFine DEF AllEmptied, AllFine

\* Text fields of a tab.
LEMMA AllWordsFine == ASSUME NEW fs, fs \subseteq Plain PROVE AllFine(AllWords(fs))
BY WordsFine DEF AllWords, AllFine

\* Switches of a tab.
LEMMA TogglesFine == ASSUME NEW fs, fs \subseteq Plain PROVE AllFine(Toggles(fs))
BY ToggleFine DEF Toggles, AllFine
\* The behaviour of the vehicles and their planner.
LEMMA DrivingFine ==
  AllFine(VehicleBehaviour \cup VehicleRules \cup LocalPlannerNumbers
          \cup LocalPlannerSwitches)
<1>1. AllFine(VehicleBehaviour)
  <2>1. {"max_speed", "sample_resolution", "tailgate_speed", "safety_time",
         "emergency_param", "collision_time_ahead", "speed_lim_dist", "speed_decrease",
         "overtake_counter_recover"} \subseteq Plain
    BY DEF Plain, Known, Checked, GnssDeviations, VehicleNames, PlannerNumbers
  <2>2. AllFine(Kept("max_speed", 0, 30000))
    BY <2>1, KeptFine
  <2>3. AllFine(Kept("sample_resolution", 10, NoMax))
    BY <2>1, KeptFine
  <2>4. AllFine(AtLeastZero({"tailgate_speed", "safety_time", "emergency_param",
                           "collision_time_ahead", "speed_lim_dist", "speed_decrease",
                           "overtake_counter_recover"}))
    BY <2>1, AtLeastZeroFine
  <2> QED
    BY <2>2, <2>3, <2>4 DEF AllFine, VehicleBehaviour
<1>2. AllFine(VehicleRules)
  <2>1. {"ignore_traffic_light", "overtake_allowed", "static_obstacle_avoidance_enabled"} \subseteq Plain
    BY DEF Plain, Known, Checked, GnssDeviations, VehicleNames, PlannerNumbers
  <2> QED
    BY <2>1, TogglesFine DEF VehicleRules
<1>3. AllFine(LocalPlannerNumbers)
  <2>1. {"local_planner.buffer_size", "local_planner.trajectory_update_freq",
         "local_planner.waypoint_update_freq", "local_planner.min_dist",
         "local_planner.trajectory_dt"} \subseteq Plain
    BY DEF Plain, Known, Checked, GnssDeviations, VehicleNames, PlannerNumbers
  <2>2. AllFine(Kept("local_planner.buffer_size", 100, 100000))
    BY <2>1, KeptFine
  <2>3. AllFine(AllKept({"local_planner.trajectory_update_freq",
                       "local_planner.waypoint_update_freq"}, 10, 10000))
    BY <2>1, AllKeptFine
  <2>4. AllFine(Kept("local_planner.min_dist", 1, 10000))
    BY <2>1, KeptFine
  <2>5. AllFine(Kept("local_planner.trajectory_dt", 1, 1000))
    BY <2>1, KeptFine
  <2> QED
    BY <2>2, <2>3, <2>4, <2>5 DEF AllFine, LocalPlannerNumbers
<1>4. AllFine(LocalPlannerSwitches)
  <2>1. {"local_planner.debug", "local_planner.debug_trajectory"} \subseteq Plain
    BY DEF Plain, Known, Checked, GnssDeviations, VehicleNames, PlannerNumbers
  <2> QED
    BY <2>1, TogglesFine DEF LocalPlannerSwitches
<1> QED
  BY <1>1, <1>2, <1>3, <1>4 DEF AllFine

\* The sensors of the vehicles and of the road-side units.
LEMMA SensingFine ==
  AllFine(VehicleSensors \cup VehicleSensing \cup LidarDropoff \cup GnssNoise
            \cup RsuDefaults)
<1>1. AllFine(VehicleSensors)
  <2>1. {"vehicle_camera_visualize", "lidar_channels", "lidar_range",
         "lidar_points_per_second", "lidar_rotation_frequency", "lidar_upper_fov",
         "lidar_lower_fov"} \subseteq Plain
    BY DEF Plain, Known, Checked, GnssDeviations, RsuBase, SharedLidar,
           DropoffRates, LocalizationBlock, VehicleNames, PlannerNumbers
  <2>2. {"vehicle_cam_num"} \subseteq Known
    BY DEF Known, VehicleNames, PlannerNumbers
  <2>3. AllFine(Kept("vehicle_camera_visualize", 0, 100))
    BY <2>1, KeptFine
  <2>4. AllFine(Kept("vehicle_cam_num", 0, 400))
    BY <2>2, KeptChecked
  <2>5. AllFine(Kept("lidar_channels", 100, 12800))
    BY <2>1, KeptFine
  <2>6. AllFine(Kept("lidar_range", 100, 50000))
    BY <2>1, KeptFine
  <2>7. AllFine(Kept("lidar_points_per_second", 100000, 1000000000))
    BY <2>1, KeptFine
  <2>8. AllFine(Kept("lidar_rotation_frequency", 100, 10000))
    BY <2>1, KeptFine
  <2>9. AllFine(AllKept({"lidar_upper_fov", "lidar_lower_fov"}, -9000, 9000))
    BY <2>1, AllKeptFine
  <2> QED
    BY <2>3, <2>4, <2>5, <2>6, <2>7, <2>8, <2>9 DEF AllFine, VehicleSensors
<1>2. AllFine(VehicleSensing)
  <2>1. {"perception_activate", "localization_activate", "lidar_visualize",
         "localization_navigation_source"} \subseteq Plain
    BY DEF Plain, Known, Checked, GnssDeviations, VehicleNames, PlannerNumbers,
           RsuBase, SharedLidar, DropoffRates, LocalizationBlock
  <2> QED
    BY <2>1, UnionFine, ChoiceFine, TogglesFine DEF VehicleSensing
<1>3. AllFine(LidarDropoff)
  <2>1. {"lidar_sim.noise_stddev", "lidar_sim.dropoff_general_rate",
         "lidar_sim.dropoff_intensity_limit", "lidar_sim.dropoff_zero_intensity"} \subseteq Plain
    BY DEF Plain, Known, Checked, GnssDeviations, RsuBase, SharedLidar,
           DropoffRates, LocalizationBlock
  <2> QED
    BY <2>1, UnionFine, AtLeastZeroFine, AllKeptFine DEF LidarDropoff, DropoffRates
<1>4. AllFine(GnssNoise)
  <2>1. {"gnss.alt_stddev", "gnss.lat_stddev", "gnss.lon_stddev",
         "gnss.heading_direction_stddev", "gnss.speed_stddev"} \subseteq Known
    BY DEF Known, RsuBase, LocalizationBlock
  <2>2. "vehicle_localization_debug_animation" \in Plain
    BY DEF Plain, Known, Checked, GnssDeviations, VehicleNames
  <2>3. Number(0) \in GoodValues
    BY DEF GoodValues
  <2>4. /\ Fine("gnss.heading_direction_stddev" :> Number(0))
        /\ Fine("gnss.speed_stddev" :> Number(0))
    BY <2>1, <2>3, FieldFine
  <2>5. AllFine(AtLeastZero({"gnss.alt_stddev", "gnss.lat_stddev", "gnss.lon_stddev"}))
    BY <2>1, AtLeastZeroChecked
  <2>6. ASSUME NEW p, Fine(p)
        PROVE Fine(p @@ ("gnss.heading_direction_stddev" :> Number(0))
                     @@ ("gnss.speed_stddev" :> Number(0)))
    BY <2>4, <2>6, OverFine
  <2>7. AllFine(Toggle("vehicle_localization_debug_animation"))
    BY <2>2, ToggleFine
  <2> QED
    BY <2>5, <2>6, <2>7 DEF AllFine, GnssNoise
<1>5. AllFine(RsuDefaults)
  <2>1. {"rsu_lidar_channels", "rsu_lidar_range", "rsu_camera_visualize",
         "rsu_perception_activate"} \subseteq Plain
    BY DEF Plain, Known, Checked, GnssDeviations, RsuBase, SharedLidar,
           DropoffRates, LocalizationBlock
  <2>2. {"rsu_cam_num"} \subseteq Known
    BY DEF Known, RsuBase, SharedLidar, DropoffRates, LocalizationBlock
  <2>3. AllFine(Kept("rsu_lidar_channels", 100, 12800))
    BY <2>1, KeptFine
  <2>4. AllFine(Kept("rsu_lidar_range", 100, 50000))
    BY <2>1, KeptFine
  <2>5. AllFine(Kept("rsu_camera_visualize", 0, 100))
    BY <2>1, KeptFine
  <2>6. AllFine(Kept("rsu_cam_num", 0, 400))
    BY <2>2, KeptChecked
  <2>7. AllFine(Toggle("rsu_perception_activate"))
    BY <2>1, ToggleFine
  <2> QED
    BY <2>3, <2>4, <2>5, <2>6, <2>7 DEF AllFine, RsuDefaults
<1> QED
  BY <1>1, <1>2, <1>3, <1>4, <1>5 DEF AllFine

\* The connection to SUMO and the background traffic.
LEMMA TrafficFine == AllFine(SumoConnection \cup BackgroundTraffic)
<1>1. AllFine(SumoHost)
  <2>1. {"sumo_host"} \subseteq Plain
    BY DEF Plain, Known, Checked, GnssDeviations, SumoBlock
  <2> QED
    BY <2>1, FieldFine DEF SumoHost, AllFine
<1>2. AllFine(SumoConnection)
  <2>1. {"sumo_port", "sumo_client_order", "sumo_gui"} \subseteq Plain
    BY DEF Plain, Known, Checked, GnssDeviations, SumoBlock
  <2>2. AllFine(Kept("sumo_port", 0, 6553500))
    BY <2>1, KeptFine
  <2>3. AllFine(AtLeastZero({"sumo_client_order"}))
    BY <2>1, AtLeastZeroFine
  <2>4. AllFine(Toggle("sumo_gui"))
    BY <2>1, ToggleFine
  <2> QED
    BY <2>2, <2>3, <2>4, <1>1 DEF AllFine, SumoConnection
<1>3. AllFine(BackgroundSpawn)
  <2>1. {"enable_background_traffic", "bg_traffic_random", "global_speed_perc",
         "bg_vehicle_num", "bg_global_distance", "bg_spawn.x_max", "bg_spawn.x_min",
         "bg_spawn.x_step", "bg_spawn.y_max", "bg_spawn.y_min", "bg_spawn.y_step"} \subseteq Plain
    BY DEF Plain, Known, Checked, GnssDeviations, SpawnNames, SpawnRange,
           TrafficNames, BlockSwitches
  <2>2. AllFine(Toggle("bg_traffic_random"))
    BY <2>1, ToggleFine
  <2>3. AllFine(AllKept(SpawnRange, NoMin, NoMax))
    BY <2>1, AllKeptFine DEF SpawnRange
  <2>4. AllFine(Kept("global_speed_perc", -10000, NoMax))
    BY <2>1, KeptFine
  <2>5. AllFine(AtLeastZero({"bg_vehicle_num", "bg_global_distance"}))
    BY <2>1, AtLeastZeroFine
  <2> QED
    BY <2>2, <2>3, <2>4, <2>5, NothingFine DEF AllFine, BackgroundSpawn
<1>4. AllFine(BackgroundRules)
  <2>1. {"enable_background_traffic", "bg_set_osm_mode", "auto_lane_change",
         "ignore_lights_percentage", "bg_ignore_signs_percentage",
         "bg_ignore_walkers_percentage"} \subseteq Plain
    BY DEF Plain, Known, Checked, GnssDeviations, TrafficNames, BlockSwitches
  <2> QED
    BY <2>1, UnionFine, NothingFine, AllKeptFine, TogglesFine DEF BackgroundRules
<1>5. AllFine(BackgroundTraffic)
  <2>1. {"enable_background_traffic"} \subseteq Plain
    BY DEF Plain, Known, Checked, GnssDeviations, BlockSwitches
  <2>2. AllFine(Toggle("enable_background_traffic"))
    BY <2>1, ToggleFine
  <2> QED
    BY <2>2, <1>3, <1>4 DEF AllFine, BackgroundTraffic
<1> QED
  BY <1>2, <1>5 DEF AllFine

\* The AIM profile, which writes settings of most sections at once.
LEMMA ProfileFine == AllFine(ExportProfile)
<1>1. Fine(AimNumbers)
  <2>1. {"rsu_camera_visualize", "vehicle_camera_visualize", "lidar_channels",
         "rsu_lidar_channels", "lidar_range", "rsu_lidar_range", "lidar_upper_fov",
         "collision_time_ahead", "lidar_lower_fov", "lidar_points_per_second",
         "lidar_rotation_frequency", "lidar_sim.dropoff_general_rate",
         "lidar_sim.dropoff_intensity_limit", "lidar_sim.dropoff_zero_intensity",
         "lidar_sim.noise_stddev"} \subseteq Plain
    BY DEF Plain, Known, Checked, GnssDeviations, VehicleNames, RsuBase, SharedLidar,
           DropoffRates
  <2>2. {"vehicle_cam_num", "rsu_cam_num", "gnss.lat_stddev", "gnss.lon_stddev",
         "gnss.alt_stddev", "gnss.heading_direction_stddev", "gnss.speed_stddev"} \subseteq Known
    BY DEF Known, VehicleNames, RsuBase, LocalizationBlock
  <2>3. {Number(400), Number(0), Number(5), Unset} \subseteq GoodValues
    BY DEF GoodValues
  <2>4. Fine([f \in {"vehicle_cam_num", "rsu_cam_num"} |-> Number(400)])
    BY <2>2, <2>3 DEF Fine
  <2>5. Fine([f \in {"gnss.lat_stddev", "gnss.lon_stddev"} |-> Number(0)])
    BY <2>2, <2>3 DEF Fine
  <2>6. Fine([f \in {"gnss.heading_direction_stddev", "gnss.speed_stddev"} |-> Unset])
    BY <2>2, <2>3 DEF Fine
  <2>7. Fine([f \in {"rsu_camera_visualize", "vehicle_camera_visualize"} |-> Number(0)])
    BY <2>1 DEF Fine, Plain
  <2>8. Fine([f \in {"lidar_channels", "rsu_lidar_channels"} |-> Number(3200)])
    BY <2>1 DEF Fine, Plain
  <2>9. Fine([f \in {"lidar_range", "rsu_lidar_range"} |-> Number(12000)])
    BY <2>1 DEF Fine, Plain
  <2>10. Fine([f \in {"lidar_upper_fov", "collision_time_ahead"} |-> Number(200)])
    BY <2>1 DEF Fine, Plain
  <2>11. Fine("gnss.alt_stddev" :> Number(5))
    BY <2>2, <2>3, FieldFine
  <2>12. /\ Fine("lidar_lower_fov" :> Number(-2500))
         /\ Fine("lidar_points_per_second" :> Number(100000000))
         /\ Fine("lidar_rotation_frequency" :> Number(2000))
         /\ Fine("lidar_sim.dropoff_general_rate" :> Number(30))
         /\ Fine("lidar_sim.dropoff_intensity_limit" :> Number(70))
         /\ Fine("lidar_sim.dropoff_zero_intensity" :> Number(40))
         /\ Fine("lidar_sim.noise_stddev" :> Number(2))
    BY <2>1, FieldFine
  <2> QED
    BY <2>4, <2>5, <2>6, <2>7, <2>8, <2>9, <2>10, <2>11, <2>12, OverFine DEF AimNumbers
<1>2. Fine(AimSwitches)
  <2>1. {"use_multi_class_bp", "ignore_traffic_light", "local_planner.debug",
         "local_planner.debug_trajectory", "perception_activate", "localization_activate",
         "lidar_visualize", "rsu_perception_activate",
         "vehicle_localization_debug_animation", "v2x_enabled"} \subseteq Plain
    BY DEF Plain, Known, Checked, GnssDeviations, VehicleNames, RsuBase, SharedLidar,
           LocalizationBlock, BlueprintBlock, V2xBlock
  <2>2. \A v :
          /\ Fine([f \in {"use_multi_class_bp", "ignore_traffic_light", "local_planner.debug",
                          "local_planner.debug_trajectory"} |-> v])
          /\ Fine([f \in {"perception_activate", "localization_activate", "lidar_visualize",
                          "rsu_perception_activate", "vehicle_localization_debug_animation",
                          "v2x_enabled"} |-> v])
    BY <2>1, EachFine
  <2> QED
    BY <2>2, OverFine DEF AimSwitches
<1>3. Fine(AimDefaults)
  <2>1. PlannerNumbers \subseteq Plain
    BY DEF Plain, Known, Checked, GnssDeviations, VehicleNames, PlannerNumbers
  <2>2. {"bp_meta_path", "vehicle_base_color", "export_profile", "carla.map"} \subseteq Plain
    BY DEF Plain, Known, Checked, GnssDeviations, BlueprintBlock, BlockSwitches, WorldNames
  <2>3. Fine([f \in PlannerNumbers |-> Unset])
    BY <2>1, EachFine
  <2>4. /\ Fine("bp_meta_path" :> Text(1))
        /\ Fine("vehicle_base_color" :> Option(1))
        /\ Fine("export_profile" :> Option(2))
        /\ Fine("carla.map" :> Option(1))
    BY <2>2, FieldFine
  <2> QED
    BY <1>1, <1>2, <2>3, <2>4, OverFine DEF AimDefaults
<1>4. "export_profile" \in Plain
  BY DEF Plain, Known, Checked, GnssDeviations, BlockSwitches
<1> QED
  BY <1>3, <1>4, ChoiceFine DEF ExportProfile, AllFine

\* The rarely used blocks.
LEMMA RareSectionsFine == AllFine(RareSections)
<1>1. AllFine(ExportToggles)
  <2>1. {"export_attacks", "export_platoon_base", "export_metrics",
         "export_coop_perception", "export_vehicle_behavior_services",
         "export_world_client_host"} \subseteq Plain
    BY DEF Plain, Known, Checked, GnssDeviations, BlockSwitches
  <2> QED
    BY <2>1, TogglesFine DEF ExportToggles
<1>2. AllFine(GnssDebug)
  <2>1. {"localization_debug_x_scale", "localization_debug_y_scale"} \subseteq Plain
    BY DEF Plain, Known, Checked, GnssDeviations, RsuBase, SharedLidar,
           DropoffRates, LocalizationBlock
  <2>2. {"gnss.heading_direction_stddev", "gnss.speed_stddev"} \subseteq Known
    BY DEF Known, RsuBase, SharedLidar, DropoffRates, LocalizationBlock
  <2>3. AllFine(ZeroedFrom({"gnss.heading_direction_stddev", "gnss.speed_stddev",
                          "localization_debug_x_scale", "localization_debug_y_scale"}, 0))
    BY <2>1, <2>2, ZeroedFromChecked DEF Plain
  <2> QED
    BY <2>3 DEF AllFine, GnssDebug
<1>3. AllFine(MapManager)
  <2>1. {"map_manager.pixels_per_meter", "map_manager.raster_width",
         "map_manager.raster_height", "map_manager.lane_sample_resolution",
         "map_manager.activate", "map_manager.visualize"} \subseteq Plain
    BY DEF Plain, Known, Checked, GnssDeviations, MapManagerBlock
  <2>2. AllFine(ZeroedFrom({"map_manager.pixels_per_meter"}, 10))
    BY <2>1, ZeroedFromFine
  <2>3. AllFine(ZeroedFrom({"map_manager.raster_width", "map_manager.raster_height"}, 100))
    BY <2>1, ZeroedFromFine
  <2>4. AllFine(ZeroedFrom({"map_manager.lane_sample_resolution"}, 1))
    BY <2>1, ZeroedFromFine
  <2>5. AllFine(Toggles({"map_manager.activate", "map_manager.visualize"}))
    BY <2>1, TogglesFine
  <2> QED
    BY <2>2, <2>3, <2>4, <2>5 DEF AllFine, MapManager
<1>4. AllFine(SafetyManager)
  <2>1. {"safety.print_message", "safety.collision_history_size",
         "safety.collision_col_thresh", "safety.stuck_len_thresh",
         "safety.stuck_speed_thresh", "safety.traffic_light_dist_thresh"} \subseteq Plain
    BY DEF Plain, Known, Checked, GnssDeviations, SafetyBlock
  <2>2. AllFine(Toggle("safety.print_message"))
    BY <2>1, ToggleFine
  <2>3. AllFine(ZeroedFrom({"safety.collision_history_size"}, 100))
    BY <2>1, ZeroedFromFine
  <2>4. AllFine(ZeroedFrom({"safety.collision_col_thresh", "safety.stuck_len_thresh",
                          "safety.stuck_speed_thresh",
                          "safety.traffic_light_dist_thresh"}, 0))
    BY <2>1, ZeroedFromFine
  <2> QED
    BY <2>2, <2>3, <2>4 DEF AllFine, SafetyManager
<1>5. AllFine(ControllerPid)
  <2>1. {"controller.type", "controller.dynamic", "controller.lat_k_p",
         "controller.lat_k_d", "controller.lat_k_i", "controller.lon_k_p",
         "controller.lon_k_d", "controller.lon_k_i", "controller.max_brake",
         "controller.max_throttle", "controller.max_steering"} \subseteq Plain
    BY DEF Plain, Known, Checked, GnssDeviations, ControllerBlock
  <2> QED
    BY <2>1, UnionFine, WordsFine, ToggleFine, ZeroedFromFine DEF ControllerPid
<1>6. AllFine(PlatoonBase)
  <2>1. {"platoon.max_capacity", "platoon.change_leader_speed", "platoon.inter_gap",
         "platoon.open_gap", "platoon.warm_up_speed", "platoon.stage_duration",
         "platoon.leader_speed_1", "platoon.leader_speed_2",
         "platoon.metric_time_gap_warmup", "platoon.metric_distance_gap_warmup"} \subseteq Plain
    BY DEF Plain, Known, Checked, GnssDeviations, PlatoonNames, PlatoonMetricNames
  <2>2. AllFine(ZeroedFrom({"platoon.max_capacity"}, 100))
    BY <2>1, ZeroedFromFine
  <2>3. AllFine(Toggle("platoon.change_leader_speed"))
    BY <2>1, ToggleFine
  <2>4. AllFine(ZeroedFrom({"platoon.inter_gap", "platoon.open_gap",
                          "platoon.warm_up_speed", "platoon.stage_duration",
                          "platoon.leader_speed_1", "platoon.leader_speed_2",
                          "platoon.metric_time_gap_warmup",
                          "platoon.metric_distance_gap_warmup"}, 0))
    BY <2>1, ZeroedFromFine
  <2> QED
    BY <2>2, <2>3, <2>4 DEF AllFine, PlatoonBase
<1>7. AllFine(Metrics)
  <2>1. {"metrics.localization_trace_warmup", "metrics.behavior_speed_warmup",
         "metrics.behavior_acceleration_warmup", "metrics.behavior_ttc_warmup",
         "metrics.behavior_hard_brake_warmup"} \subseteq Plain
    BY DEF Plain, Known, Checked, GnssDeviations, BehaviorMetrics,
           LocalizationMetrics
  <2> QED
    BY <2>1, ZeroedFromFine DEF Metrics
<1>8. AllFine(CoopPerception)
  <2>1. {"coop.background", "coop.bbox_line_thickness", "coop.image_dpi"} \subseteq Plain
    BY DEF Plain, Known, Checked, GnssDeviations, CoopNames
  <2>2. AllFine(RgbTriple("coop.background"))
    BY <2>1, ZeroedFine DEF RgbTriple
  <2>3. AllFine(ZeroedFrom({"coop.bbox_line_thickness"}, 0))
    BY <2>1, ZeroedFromFine
  <2>4. AllFine(ZeroedFrom({"coop.image_dpi"}, 100))
    BY <2>1, ZeroedFromFine
  <2> QED
    BY <2>2, <2>3, <2>4 DEF AllFine, CoopPerception
<1>9. AllFine(CarlaTrafficManager)
  <2>1. {"ignore_vehicles_percentage", "random_left_lanechange_percentage",
         "random_right_lanechange_percentage"} \subseteq Plain
    BY DEF Plain, Known, Checked, GnssDeviations, TrafficNames
  <2> QED
    BY <2>1, ZeroedFine DEF CarlaTrafficManager, AllFine
<1>10. AllFine(BehaviorServices)
  <2>1. {"services.self_informer", "services.movement_controller"} \subseteq Plain
    BY DEF Plain, Known, Checked, GnssDeviations, ServiceNames
  <2> QED
    BY <2>1, TogglesFine DEF BehaviorServices
<1>11. AllFine(WorldClientHost)
  <2>1. {"world_client_host"} \subseteq Plain
    BY DEF Plain, Known, Checked, GnssDeviations, WorldNames, WeatherKeys
  <2> QED
    BY <2>1, WordsFine DEF WorldClientHost
<1> QED
  BY <1>1, <1>2, <1>3, <1>4, <1>5, <1>6, <1>7, <1>8, <1>9, <1>10, <1>11 DEF AllFine, RareSections

\* The OpenCDA tab.
LEMMA OpenCdaTabFine == AllFine(OpenCdaTab)
<1>1. AllFine(Blueprint)
  <2>1. {"use_multi_class_bp", "bp_meta_path", "bp.bicycle", "bp.bus", "bp.car",
         "bp.motorcycle", "bp.truck"} \subseteq Plain
    BY DEF Plain, Known, Checked, GnssDeviations, BlueprintBlock, Classes
  <2>2. AllFine(Toggle("use_multi_class_bp"))
    BY <2>1, ToggleFine
  <2>3. AllFine(Words("bp_meta_path"))
    BY <2>1, WordsFine
  <2>4. AllFine(AllKept(Classes, 0, 100))
    BY <2>1, AllKeptFine DEF Classes
  <2> QED
    BY <2>2, <2>3, <2>4 DEF AllFine, Blueprint
<1>2. AllFine(V2X)
  <2>1. {"v2x_enabled", "v2x_communication_range", "v2x_position_source"} \subseteq Plain
    BY DEF Plain, Known, Checked, GnssDeviations, V2xBlock
  <2>2. AllFine(Toggle("v2x_enabled"))
    BY <2>1, ToggleFine
  <2>3. AllFine(Kept("v2x_communication_range", 0, 100000))
    BY <2>1, KeptFine
  <2>4. AllFine(Choice("v2x_position_source"))
    BY <2>1, ChoiceFine
  <2> QED
    BY <2>2, <2>3, <2>4 DEF AllFine, V2X
<1>3. AllFine(ColorPicker)
  <2>1. "vehicle_base_color" \in Plain
    BY DEF Plain, Known, Checked, GnssDeviations
  <2> QED
    BY <2>1, FieldFine DEF ColorPicker, AllFine
<1>4. AllFine(SumoQuickPresets)
  <2>1. {"sumo_host", "sumo_port"} \subseteq Plain
    BY DEF Plain, Known, Checked, GnssDeviations, SumoBlock
  <2>2. \A n : Fine(("sumo_host" :> Text(1)) @@ ("sumo_port" :> Number(n)))
    BY <2>1, FieldFine, OverFine
  <2> QED
    BY <2>2 DEF SumoQuickPresets, AllFine
<1> QED
  BY <1>1, <1>2, <1>3, <1>4, DrivingFine, SensingFine, TrafficFine, ProfileFine,
     RareSectionsFine DEF AllFine, OpenCdaTab

\* The CARLA tab.
LEMMA CarlaTabFine == AllFine(CarlaTab)
<1>1. AllFine(CarlaSettings)
  <2>1. {"carla.num_vehicles", "carla.num_pedestrians", "carla.client_port",
         "carla.seed", "carla.fixed_delta_seconds", "carla.traffic_manager_port",
         "carla.synchronous_mode"} \subseteq Plain
    BY DEF Plain, Known, Checked, GnssDeviations, WorldNames, WeatherKeys,
           CarlaNames, TrafficNames
  <2> QED
    BY <2>1, UnionFine, ToggleFine, AllEmptiedFine DEF CarlaSettings
<1>2. AllFine(Sensors)
  <2>1. {"sensors.camera", "sensors.lidar", "sensors.radar", "sensors.gnss",
         "sensors.imu", "carla.lidar_channels", "carla.lidar_range", "carla.camera_fov"} \subseteq Plain
    BY DEF Plain, Known, Checked, GnssDeviations, CarlaNames, SensorNames
  <2> QED
    BY <2>1, UnionFine, NothingFine, EmptiedFine, AllEmptiedFine, TogglesFine DEF Sensors
<1>3. WeatherKeys \subseteq Plain /\ "carla.weather_preset" \in Plain
  BY DEF Plain, Known, Checked, GnssDeviations, WorldNames, WeatherKeys, CarlaNames
<1>4. Fine(NoWeather)
  BY <1>3, EachFine DEF NoWeather
<1>5. AllFine(MapWeather)
  <2>1. AllFine(Choice("carla.weather_preset"))
    BY <1>3, ChoiceFine
  <2> QED
    BY <1>4, <2>1, OverFine DEF MapWeather, AllFine
<1>6. AllFine(WeatherOverride)
  <2>1. \A k \in WeatherKeys : \A v : Fine(k :> v)
    BY <1>3, FieldFine
  <2>2. Fine([k \in WeatherKeys |-> Number(0)])
    BY <1>3, EachFine
  <2>3. \A k \in WeatherKeys : AllFine(Kept(k, NoMin, NoMax))
    BY <1>3, KeptFine
  <2> QED
    BY <1>4, <2>1, <2>2, <2>3 DEF WeatherOverride, AllFine
<1> QED
  BY <1>1, <1>2, <1>5, <1>6 DEF AllFine, CarlaTab

\* The tabs of OMNeT++, Artery and Sionna.
LEMMA RadioTabsFine == AllFine(OmnetTab \cup ArteryTab \cup ArteryServices \cup SionnaTab)
<1>1. AllFine(OmnetTab)
  <2>1. {"omnet.tx_power", "omnet.bitrate", "omnet.beaconing_interval",
         "omnet.max_interf_dist", "omnet.protocol"} \subseteq Plain
    BY DEF Plain, Known, Checked, GnssDeviations, OmnetFile
  <2> QED
    BY <2>1, UnionFine, ChoiceFine, AllEmptiedFine DEF OmnetTab
<1>2. AllFine(ArteryTab)
  <2>1. {"artery.sumo_config", "artery.datetime", "artery.sumo_step_length",
         "artery.sumo_seed", "artery.middleware_update_interval",
         "artery.cam_interval_min", "artery.cam_interval_max"} \subseteq Plain
    BY DEF Plain, Known, Checked, GnssDeviations, ArteryNames
  <2> QED
    BY <2>1, UnionFine, AllEmptiedFine, AllWordsFine DEF ArteryTab
<1>3. AllFine(ArteryServices)
  <2>1. {"artery.denm_enabled", "artery.cp_service_enabled", "artery.rsu_cam_enabled",
         "artery.rsu_denm_enabled"} \subseteq Plain
    BY DEF Plain, Known, Checked, GnssDeviations, ArteryNames, RsuServiceNames
  <2> QED
    BY <2>1, TogglesFine DEF ArteryServices
<1>4. AllFine(SionnaTab)
  <2>1. {"sionna.carrier_frequency", "sionna.max_depth", "sionna.num_samples",
         "sionna.los", "sionna.reflection", "sionna.diffraction", "sionna.scattering"} \subseteq Plain
    BY DEF Plain, Known, Checked, GnssDeviations, SionnaFile
  <2> QED
    BY <2>1, UnionFine, AllEmptiedFine, TogglesFine DEF SionnaTab
<1> QED
  BY <1>1, <1>2, <1>3, <1>4 DEF AllFine

\* The MPC tab.
LEMMA MpcTabFine == AllFine(MpcTab)
<1>1. AllFine(MpcSystem)
  <2>1. {"mpc.NX", "mpc.NU", "mpc.T", "mpc.T_aug"} \subseteq Plain
    BY DEF Plain, Known, Checked, GnssDeviations, MpcFile
  <2> QED
    BY <2>1, AllEmptiedFine DEF MpcSystem
<1>2. AllFine(MpcSimulation)
  <2>1. {"mpc.dist_stop", "mpc.speed_stop", "mpc.time_max", "mpc.iter_max",
         "mpc.target_speed", "mpc.n_ind", "mpc.d_dist", "mpc.du_res", "mpc.dt"} \subseteq Plain
    BY DEF Plain, Known, Checked, GnssDeviations, MpcFile
  <2> QED
    BY <2>1, UnionFine, ZeroedFromFine, AllEmptiedFine DEF MpcSimulation
<1>3. AllFine(MpcWeights)
  <2>1. {"mpc.Qf", "mpc.R", "mpc.Rd"} \subseteq Plain
    BY DEF Plain, Known, Checked, GnssDeviations, MpcFile
  <2> QED
    BY <2>1, ZeroedFromFine DEF MpcWeights
<1>4. AllFine(MpcGeometry)
  <2>1. {"mpc.RF", "mpc.RB", "mpc.W", "mpc.wd_ratio", "mpc.WB", "mpc.TR", "mpc.TW"} \subseteq Plain
    BY DEF Plain, Known, Checked, GnssDeviations, MpcFile
  <2> QED
    BY <2>1, AllEmptiedFine DEF MpcGeometry
<1>5. AllFine(MpcLimits)
  <2>1. {"mpc.steer_deg", "mpc.steer_change_deg", "mpc.speed_max_kph",
         "mpc.speed_min_kph", "mpc.acceleration_max"} \subseteq Plain
    BY DEF Plain, Known, Checked, GnssDeviations, MpcFile
  <2> QED
    BY <2>1, AllEmptiedFine DEF MpcLimits
<1> QED
  BY <1>1, <1>2, <1>3, <1>4, <1>5 DEF AllFine, MpcTab

\* The CAPI tab.
LEMMA CapiTabFine == AllFine(CapiTab)
<1>1. AllFine(CapiNetwork)
  <2>1. {"capi.network"} \subseteq Plain
    BY DEF Plain, Known, Checked, GnssDeviations, CapiIni
  <2> QED
    BY <2>1, WordsFine DEF CapiNetwork
<1>2. AllFine(CapiCommandEnv)
  <2>1. {"capi.cmdenv_output_file", "capi.cmdenv_express_mode",
         "capi.scalar_recording", "capi.vector_recording"} \subseteq Plain
    BY DEF Plain, Known, Checked, GnssDeviations, CapiIni
  <2> QED
    BY <2>1, UnionFine, WordsFine, TogglesFine DEF CapiCommandEnv
<1>3. AllFine(CapiConnection)
  <2>1. {"capi.address", "capi.client_id", "capi.capi_log_level"} \subseteq Plain
    BY DEF Plain, Known, Checked, GnssDeviations, CapiIni
  <2> QED
    BY <2>1, UnionFine, EmptiedFine, WordsFine, ChoiceFine DEF CapiConnection
<1>4. AllFine(CapiTraci)
  <2>1. {"capi.traci_hostname", "capi.traci_port"} \subseteq Plain
    BY DEF Plain, Known, Checked, GnssDeviations, CapiIni
  <2> QED
    BY <2>1, UnionFine, EmptiedFine, WordsFine DEF CapiTraci
<1>5. AllFine(CapiRadio)
  <2>1. {"capi.carrier_frequency", "capi.tx_power", "capi.channel_number"} \subseteq Plain
    BY DEF Plain, Known, Checked, GnssDeviations, CapiIni
  <2> QED
    BY <2>1, UnionFine, EmptiedFine, AllWordsFine DEF CapiRadio
<1>6. AllFine(CapiMiddleware)
  <2>1. {"capi.datetime", "capi.middleware_update_interval"} \subseteq Plain
    BY DEF Plain, Known, Checked, GnssDeviations, CapiIni
  <2> QED
    BY <2>1, UnionFine, EmptiedFine, WordsFine DEF CapiMiddleware
<1>7. AllFine(CapiServices)
  <2>1. {"capi.ca_service_enabled", "capi.cosim_service_enabled",
         "capi.ca_service_port", "capi.cosim_service_port", "capi.cosim_filter_pattern"} \subseteq Plain
    BY DEF Plain, Known, Checked, GnssDeviations, CapiServiceNames
  <2> QED
    BY <2>1, UnionFine, NothingFine, ZeroedFine, WordsFine, TogglesFine DEF CapiServices
<1> QED
  BY <1>1, <1>2, <1>3, <1>4, <1>5, <1>6, <1>7 DEF AllFine, CapiTab

\* Every input of the dialog writes known settings only, and of those the
\* service checks only numbers it can read, from 0.
LEMMA DialogFine == AllFine(SimConfigModal)
<1>1. AllFine(SumoFiles)
  <2>1. {"sumo.scenario_name", "sumo.full_output"} \subseteq Plain
    BY DEF Plain, Known, Checked, GnssDeviations, SumoCfg
  <2> QED
    BY <2>1, UnionFine, WordsFine, ToggleFine DEF SumoFiles
<1>2. AllFine(Emptied("sim_duration"))
  <2>1. "sim_duration" \in Plain
    BY DEF Plain, Known, Checked, GnssDeviations, CarlaNames
  <2> QED
    BY <2>1, EmptiedFine
<1> QED
  BY <1>1, <1>2, OpenCdaTabFine, CarlaTabFine, RadioTabsFine, MpcTabFine, CapiTabFine
  DEF AllFine, SimConfigModal
-----------------------------------------------------------------------------
(* The settings hold known names and acceptable numbers, always.           *)

\* Taking over the name of an uploaded map keeps this, and so does merging.
LEMMA MergedFine ==
  ASSUME NEW p, NEW c, Fine(p), Fine(c) PROVE Fine(Merged(p, c))
<1>1. "carla.map" \in Plain
  BY DEF Plain, Known, Checked, GnssDeviations, WorldNames
<1>2. Fine(TownNormalized(c))
  BY <1>1, FieldFine, OverFine DEF TownNormalized
<1> QED
  BY <1>2, OverFine DEF Merged

\* A new scenario and one with an uploaded map have fine settings.
LEMMA FreshFine == AllFine(FreshConfigs)
<1>1. "carla.map" \in Plain
  BY DEF Plain, Known, Checked, GnssDeviations, WorldNames
<1> QED
  BY <1>1, FieldFine, NothingFine DEF FreshConfigs, AllFine

\* Adding an attack turns on the export of the attacks.
LEMMA EditListsFine == ASSUME Fine(config), EditLists PROVE Fine(config')
<1>1. Fine(Merged(<<>>, config))
  BY MergedFine, NothingFine
<1>2. "export_attacks" \in Plain
  BY DEF Plain, Known, Checked, GnssDeviations, BlockSwitches
<1>3. Fine(("export_attacks" :> Flag(TRUE)) @@ Merged(<<>>, config))
  BY <1>1, <1>2, FieldFine, OverFine
<1>4. CASE VTypes \/ ExtraConfigs
  BY <1>1, <1>4 DEF VTypes, ExtraConfigs
<1>5. CASE AddAttack
  BY <1>3, <1>5 DEF AddAttack
<1>6. CASE ChooseAttack
  BY <1>6 DEF ChooseAttack
<1>7. CASE EditStages \/ StageType
  BY <1>1, <1>7 DEF EditStages, StageType
<1>8. CASE StageParameters
  BY <1>1, <1>8 DEF StageParameters
<1>9. CASE RemoveAttack
  BY <1>1, <1>9 DEF RemoveAttack
<1> QED
  BY <1>4, <1>5, <1>6, <1>7, <1>8, <1>9 DEF EditLists, Attacks

SettingsInv == Fine(config)

\* The settings of every behaviour.
THEOREM SettingsAreFine == Spec => []SettingsInv
<1>1. Init => SettingsInv
  BY FreshFine DEF Init, InitForm, AllFine, SettingsInv
<1>2. ASSUME SettingsInv, [Next]_vars PROVE SettingsInv'
  <2> SUFFICES Fine(config') BY DEF SettingsInv
  <2>0. Fine(config) BY <1>2 DEF SettingsInv
  <2>1. CASE Settings
    <3>1. PICK p \in SimConfigModal : config' = Merged(p, config)
      BY <2>1 DEF Settings, EditConfig
    <3> QED
      BY <2>0, <3>1, DialogFine, MergedFine DEF AllFine
  <2>2. CASE Listing
    BY <2>0, <2>2, EditListsFine DEF Listing
  <2>3. CASE Properties \/ Browsing
    BY <2>0, <2>3 DEF Properties, Browsing, formVars
  <2>4. CASE Reload
    BY <2>4, FreshFine DEF Reload, ResetConfig, AllFine
  <2>5. CASE UNCHANGED vars
    BY <2>0, <2>5 DEF vars
  <2> QED
    BY <1>2, <2>1, <2>2, <2>3, <2>4, <2>5 DEF Next
<1> QED
  BY <1>1, <1>2, PTL DEF Spec

-----------------------------------------------------------------------------
(* What the service accepts.                                               *)

\* What is read of fine settings: the default, or what was set.
LEMMA ReadSetting ==
  ASSUME Fine(config), NEW f \in Checked PROVE ValueOf(f) \in GoodValues
BY DEF Fine, ValueOf, GoodValues

\* A deviation of the receiver is a number from 0, or prints with an exponent.
LEMMA DeviationAccepted ==
  ASSUME Fine(config), NEW f \in GnssDeviations, ValueOf(f) \notin {Tiny, Huge}
  PROVE ReadsAsNumber(ValueOf(f)) /\ ~(ValueOf(f).n < 0)
<1>1. ValueOf(f) \in GoodValues
  BY ReadSetting DEF Checked
<1>2. CASE ValueOf(f) = Unset
  BY <1>2 DEF Unset, ReadsAsNumber
<1>3. CASE \E n \in Nat : ValueOf(f) = Number(n)
  BY <1>3 DEF Number, ReadsAsNumber
<1> QED
  BY <1>1, <1>2, <1>3 DEF GoodValues

\* A number of cameras is a number from 0, cut at 4; a whole one is accepted.
LEMMA CameraAccepted ==
  ASSUME Fine(config), NEW f \in {"vehicle_cam_num", "rsu_cam_num"},
         ValueOf(f) \notin {Tiny, Huge}, ValueOf(f).n % 100 = 0
  PROVE Whole(CamNum(ValueOf(f))) /\ ~(CamNum(ValueOf(f)).n < 0)
<1>1. ValueOf(f) \in GoodValues
  BY ReadSetting DEF Checked
<1>2. CASE ValueOf(f) = Unset
  BY <1>2 DEF Unset, CamNum, Whole
<1>3. CASE \E n \in Nat : ValueOf(f) = Number(n)
  <2>1. PICK n \in Nat : ValueOf(f) = Number(n)
    BY <1>3
  <2>2. n % 100 = 0 /\ CamNum(ValueOf(f)) = Number(Within(n, 0, 400))
    BY <2>1 DEF Number, CamNum
  <2>3. Within(n, 0, 400) % 100 = 0 /\ Within(n, 0, 400) \in Nat
    BY <2>2 DEF Within, NoMin, NoMax
  <2> QED
    BY <2>2, <2>3 DEF Number, Whole
<1> QED
  BY <1>1, <1>2, <1>3 DEF GoodValues

\* The service refuses of the settings only what ServiceAccepts names, of
\* every value the inputs of the dialog can leave.
THEOREM ServiceTakesTheFile == Spec => []ServiceAccepts
<1>1. SettingsInv => ServiceAccepts
  <2>1. SUFFICES ASSUME Fine(config), NEW f \in Refused
                 PROVE \/ ValueOf(f) \in {Tiny, Huge}
                       \/ f \in {"vehicle_cam_num", "rsu_cam_num"} /\ ValueOf(f).n % 100 # 0
                       \/ f \in {"controller.type", "carla.fixed_delta_seconds",
                                 "carla.traffic_manager_port"}
    BY DEF ServiceAccepts, SettingsInv
  <2>2. CASE f \in GnssDeviations /\ (~ReadsAsNumber(ValueOf(f)) \/ ValueOf(f).n < 0)
    BY <2>1, <2>2, DeviationAccepted
  <2>3. CASE /\ f \in {"vehicle_cam_num", "rsu_cam_num"}
             /\ ~Whole(CamNum(ValueOf(f))) \/ CamNum(ValueOf(f)).n < 0
    BY <2>1, <2>3, CameraAccepted
  <2>4. CASE f \in RefusedNumbers
    <3>1. \/ f \in {"carla.fixed_delta_seconds", "carla.traffic_manager_port"}
          \/ f \in GnssDeviations /\ (~ReadsAsNumber(ValueOf(f)) \/ ValueOf(f).n < 0)
          \/ /\ f \in {"vehicle_cam_num", "rsu_cam_num"}
             /\ ~Whole(CamNum(ValueOf(f))) \/ CamNum(ValueOf(f)).n < 0
      BY <2>4 DEF RefusedNumbers
    <3> QED
      BY <2>2, <2>3, <3>1
  <2>5. CASE f \in Unreadable
    BY <2>5 DEF Unreadable
  <2> QED
    BY <2>1, <2>4, <2>5 DEF Refused
<1> QED
  BY <1>1, SettingsAreFine, PTL

-----------------------------------------------------------------------------
(* Where the settings go.                                                  *)

\* The fields a part of the dialog writes are those of its inputs.
LEMMA WritesField ==
  ASSUME NEW section, NEW p \in section
  PROVE DOMAIN p \subseteq Fields(section)
BY DEF Fields

\* A text field sets its field.
LEMMA WordsField == ASSUME NEW f PROVE f \in Fields(Words(f))
<1>1. (f :> Text(1)) \in Words(f)
  BY DEF Words
<1>2. f \in DOMAIN (f :> Text(1))
  BY FieldIs
<1> QED
  BY <1>1, <1>2, WritesField

\* A switch sets its field.
LEMMA ToggleField == ASSUME NEW f PROVE f \in Fields(Toggle(f))
<1>1. (f :> Flag(~On(f))) \in Toggle(f)
  BY DEF Toggle
<1>2. f \in DOMAIN (f :> Flag(~On(f)))
  BY FieldIs
<1> QED
  BY <1>1, <1>2, WritesField

\* A number input sets its field.
LEMMA ZeroedField == ASSUME NEW f, NEW lo, NEW hi PROVE f \in Fields(Zeroed(f, lo, hi))
<1>1. Number(Within(0, lo, hi)) \in Numbers(Typed \cup {0}, lo, hi)
  BY DEF Numbers
<1> DEFINE v == Number(Within(0, lo, hi))
<1>2. (f :> v) \in Zeroed(f, lo, hi)
  BY <1>1 DEF Zeroed
<1>3. f \in DOMAIN (f :> v)
  BY FieldIs
<1> QED
  BY <1>2, <1>3, WritesField

\* Number inputs set all their fields.
LEMMA ZeroedFromFields ==
  ASSUME NEW fs, NEW lo
  PROVE fs \subseteq Fields(ZeroedFrom(fs, lo))
<1>1. SUFFICES ASSUME NEW f \in fs PROVE f \in Fields(ZeroedFrom(fs, lo))
  OBVIOUS
<1>2. f \in Fields(Zeroed(f, lo, NoMax))
  BY ZeroedField
<1> QED
  BY <1>1, <1>2 DEF Fields, ZeroedFrom

\* Switches set all their fields.
LEMMA TogglesFields == ASSUME NEW fs PROVE fs \subseteq Fields(Toggles(fs))
<1>1. SUFFICES ASSUME NEW f \in fs PROVE f \in Fields(Toggles(fs))
  OBVIOUS
<1>2. f \in Fields(Toggle(f))
  BY ToggleField
<1> QED
  BY <1>1, <1>2 DEF Fields, Toggles

\* The parts of the OpenCDA file a switch takes out hold these settings.
LEMMA SwitchedFields ==
  /\ "world_client_host" \in Fields(WorldClientHost)
  /\ ServiceNames \subseteq Fields(BehaviorServices)
  /\ CoopNames \subseteq Fields(CoopPerception)
  /\ PlatoonNames \cup PlatoonMetricNames \subseteq Fields(PlatoonBase)
  /\ LocalizationMetrics \cup BehaviorMetrics \subseteq Fields(Metrics)
<1>1. "world_client_host" \in Fields(WorldClientHost)
  BY WordsField DEF WorldClientHost
<1>2. ServiceNames \subseteq Fields(BehaviorServices)
  BY TogglesFields DEF BehaviorServices, ServiceNames
<1>3. CoopNames \subseteq Fields(CoopPerception)
  <2>1. "coop.background" \in Fields(RgbTriple("coop.background"))
    BY ZeroedField DEF RgbTriple
  <2>2. /\ {"coop.bbox_line_thickness"} \subseteq Fields(ZeroedFrom({"coop.bbox_line_thickness"}, 0))
        /\ {"coop.image_dpi"} \subseteq Fields(ZeroedFrom({"coop.image_dpi"}, 100))
    BY ZeroedFromFields
  <2> QED
    BY <2>1, <2>2 DEF Fields, CoopPerception, CoopNames
<1>4. PlatoonNames \cup PlatoonMetricNames \subseteq Fields(PlatoonBase)
  <2> DEFINE fs == {"platoon.inter_gap", "platoon.open_gap", "platoon.warm_up_speed",
                    "platoon.stage_duration", "platoon.leader_speed_1",
                    "platoon.leader_speed_2", "platoon.metric_time_gap_warmup",
                    "platoon.metric_distance_gap_warmup"}
  <2>1. {"platoon.max_capacity"} \subseteq Fields(ZeroedFrom({"platoon.max_capacity"}, 100))
    BY ZeroedFromFields
  <2>2. "platoon.change_leader_speed" \in Fields(Toggle("platoon.change_leader_speed"))
    BY ToggleField
  <2>3. fs \subseteq Fields(ZeroedFrom(fs, 0))
    BY ZeroedFromFields
  <2>4. /\ Fields(ZeroedFrom({"platoon.max_capacity"}, 100)) \subseteq Fields(PlatoonBase)
        /\ Fields(Toggle("platoon.change_leader_speed")) \subseteq Fields(PlatoonBase)
        /\ Fields(ZeroedFrom(fs, 0)) \subseteq Fields(PlatoonBase)
    BY DEF Fields, PlatoonBase
  <2>5. PlatoonNames \cup PlatoonMetricNames
          \subseteq {"platoon.max_capacity", "platoon.change_leader_speed"} \cup fs
    BY DEF PlatoonNames, PlatoonMetricNames
  <2> HIDE DEF fs
  <2> QED
    BY <2>1, <2>2, <2>3, <2>4, <2>5
<1>5. LocalizationMetrics \cup BehaviorMetrics \subseteq Fields(Metrics)
  BY ZeroedFromFields DEF Metrics, LocalizationMetrics, BehaviorMetrics
<1> QED
  BY <1>1, <1>2, <1>3, <1>4, <1>5

Reached(f) == ReachesAFile(f) \/ f \in Dormant

\* The parts of the OpenCDA file that are always written.
LEMMA OpenCdaReached ==
  ASSUME NEW f \in BlueprintBlock \cup RsuBase \cup MapManagerBlock \cup SafetyBlock
                     \cup ControllerBlock \cup V2xBlock \cup SumoBlock \cup BlockSwitches
                     \cup VehicleNames \cup TrafficNames
  PROVE Reached(f)
<1>1. CASE f \in VehicleNames
  BY <1>1 DEF VehicleNames, VehicleBase, VehicleBaseBehavior, OpenCdaFile, ReachesAFile, Reached
<1>2. CASE f \in TrafficNames
  BY <1>2 DEF TrafficNames, TrafficBlock, OpenCdaFile, ReachesAFile, Reached
<1>3. CASE f \in BlueprintBlock \cup RsuBase \cup SumoBlock \cup BlockSwitches
  BY <1>3 DEF OpenCdaFile, ReachesAFile, Reached
<1>4. CASE f \in MapManagerBlock \cup SafetyBlock \cup ControllerBlock \cup V2xBlock
  BY <1>4 DEF ExtendedVehicleBase, VehicleBase, OpenCdaFile, ReachesAFile, Reached
<1> QED
  BY <1>1, <1>2, <1>3, <1>4

\* Those a switch takes out.
LEMMA SwitchedReached ==
  ASSUME NEW f \in SpawnNames \cup ServiceNames \cup PlatoonNames \cup CoopNames
                     \cup PlatoonMetricNames \cup LocalizationMetrics \cup BehaviorMetrics
                     \cup {"world_client_host"}
  PROVE Reached(f)
<1>1. CASE f \in SpawnNames
  BY <1>1 DEF SpawnNames, TrafficBlock, When, Dormant, OpenCdaFile, ReachesAFile, Reached
<1>2. CASE f \in ServiceNames
  <2>1. CASE On("export_vehicle_behavior_services")
    BY <1>2, <2>1 DEF ServiceNames, ExtendedVehicleBase, VehicleBase, When, OpenCdaFile,
       ReachesAFile, Reached
  <2>2. CASE ~On("export_vehicle_behavior_services")
    BY <1>2, <2>2, SwitchedFields DEF When, Dormant, Reached
  <2> QED
    BY <2>1, <2>2
<1>3. CASE f \in PlatoonNames
  <2>1. CASE On("export_platoon_base")
    BY <1>3, <2>1 DEF PlatoonNames, PlatoonBlock, When, OpenCdaFile, ReachesAFile, Reached
  <2>2. CASE ~On("export_platoon_base")
    BY <1>3, <2>2, SwitchedFields DEF When, Dormant, Reached
  <2> QED
    BY <2>1, <2>2
<1>4. CASE f \in CoopNames
  <2>1. CASE On("export_coop_perception")
    BY <1>4, <2>1 DEF CoopNames, CoopBlock, When, OpenCdaFile, ReachesAFile, Reached
  <2>2. CASE ~On("export_coop_perception")
    BY <1>4, <2>2, SwitchedFields DEF When, Dormant, Reached
  <2> QED
    BY <2>1, <2>2
<1>5. CASE f \in PlatoonMetricNames
  <2>1. CASE ~On("export_metrics")
    BY <1>5, <2>1 DEF PlatoonMetricNames, When, Dormant, Reached
  <2>2. CASE ~On("export_platoon_base")
    <3>1. f \in Fields(PlatoonBase)
      BY <1>5, SwitchedFields
    <3> QED
      BY <2>2, <3>1 DEF When, Dormant, Reached
  <2>3. CASE On("export_metrics") /\ On("export_platoon_base")
    BY <1>5, <2>3 DEF PlatoonMetricNames, PlatoonBlock, When, OpenCdaFile, ReachesAFile, Reached
  <2> QED
    BY <2>1, <2>2, <2>3
<1>6. CASE f \in LocalizationMetrics \cup BehaviorMetrics
  <2>1. CASE On("export_metrics")
    BY <1>6, <2>1 DEF VehicleBase, When, OpenCdaFile, ReachesAFile, Reached
  <2>2. CASE ~On("export_metrics")
    BY <1>6, <2>2, SwitchedFields DEF When, Dormant, Reached
  <2> QED
    BY <2>1, <2>2
<1>7. CASE f = "world_client_host"
  <2>1. CASE On("export_world_client_host")
    BY <1>7, <2>1 DEF WorldBlock, When, OpenCdaFile, ReachesAFile, Reached
  <2>2. CASE ~On("export_world_client_host")
    BY <1>7, <2>2, SwitchedFields DEF When, Dormant, Reached
  <2> QED
    BY <2>1, <2>2
<1> QED
  BY <1>1, <1>2, <1>3, <1>4, <1>5, <1>6, <1>7

\* The other files; two settings of Artery go to the block of the units.
LEMMA OtherFilesReached ==
  ASSUME Rsus # {},
         NEW f \in CarlaNames \cup SensorNames \cup ArteryNames \cup RsuServiceNames
                     \cup CapiServiceNames \cup MpcFile \cup SionnaFile \cup OmnetFile
                     \cup CapiIni \cup SumoCfg
  PROVE Reached(f)
<1>1. CASE f \in CarlaNames
  BY <1>1 DEF CarlaNames, CarlaFile, ReachesAFile, Reached
<1>2. CASE f \in SensorNames
  BY <1>2 DEF SensorNames, CarlaFile, When, Dormant, ReachesAFile, Reached
<1>3. CASE f \in ArteryNames \cup RsuServiceNames
  BY <1>3 DEF ArteryNames, RsuServiceNames, ArteryFile, When, ReachesAFile, Reached
<1>4. CASE f \in CapiServiceNames
  BY <1>4 DEF CapiServiceNames, CapiServicesXml, When, Dormant, ReachesAFile, Reached
<1>5. CASE f \in MpcFile \cup SionnaFile \cup OmnetFile \cup CapiIni \cup SumoCfg
  BY <1>5 DEF ReachesAFile, Reached
<1> QED
  BY <1>1, <1>2, <1>3, <1>4, <1>5

\* The settings of the world are in the OpenCDA file.
LEMMA WorldReached == ASSUME NEW f \in WorldNames PROVE Reached(f)
<1>1. CASE f = "world_client_host"
  BY <1>1, SwitchedReached
<1>2. CASE f # "world_client_host"
  BY <1>2 DEF WorldNames, WorldBlock, OpenCdaFile, ReachesAFile, Reached
<1> QED
  BY <1>1, <1>2

\* With a road-side unit in the scenario, every changed setting of every
\* behaviour is in a file, or the part of the file it belongs to is off.
THEOREM NoSettingIsLost == Rsus # {} => (Spec => []SettingsReachAFile)
<1>1. SUFFICES ASSUME Rsus # {} PROVE Spec => []SettingsReachAFile
  OBVIOUS
<1>2. SettingsInv => SettingsReachAFile
  <2>1. SUFFICES ASSUME SettingsInv, NEW f \in DOMAIN config, config[f] # Unset PROVE Reached(f)
    BY DEF SettingsReachAFile, Reached
  <2>2. f \in Known
    BY <2>1 DEF SettingsInv, Fine
  <2>3. CASE f = "vehicle_base_color"
    <3>1. Coloured
      BY <2>1, <2>3 DEF Coloured, ValueOf
    <3> QED
      BY <2>3, <3>1 DEF VehicleBaseBehavior, VehicleBase, When, OpenCdaFile, ReachesAFile, Reached
  <2>4. CASE f # "vehicle_base_color"
    BY <1>1, <2>2, <2>4, WorldReached, OpenCdaReached, SwitchedReached, OtherFilesReached DEF Known
  <2> QED
    BY <2>3, <2>4
<1> QED
  BY <1>2, SettingsAreFine, PTL

-----------------------------------------------------------------------------
(* The inputs of the panels: which fields their patches write.             *)

\* Every patch of the set writes only these fields.
Writes(patches, fs) == \A p \in patches : DOMAIN p \subseteq fs

\* A patch of one field writes that field.
LEMMA OneField ==
  ASSUME NEW f, NEW v, NEW fs, f \in fs
  PROVE DOMAIN (f :> v) \subseteq fs
BY DEF :>

\* A patch of one field over another patch writes it too.
LEMMA OverFields ==
  ASSUME NEW f, NEW v, NEW q PROVE DOMAIN ((f :> v) @@ q) = {f} \cup DOMAIN q
<1> DEFINE p == f :> v
<1>1. DOMAIN p = {f}
  BY FieldIs
<1> HIDE DEF p
<1>2. DOMAIN (p @@ q) = {f} \cup DOMAIN q
  BY <1>1, PatchOver
<1> QED
  BY <1>2 DEF p

\* A patch that clears fields names each of them, unset.
LEMMA ClearedIs ==
  ASSUME NEW fs PROVE DOMAIN Cleared(fs) = fs /\ \A f \in fs : Cleared(fs)[f] = Unset
BY DEF Cleared

\* The patches of two inputs.
LEMMA UnionWrites ==
  ASSUME NEW A, NEW B, NEW fs, Writes(A, fs), Writes(B, fs) PROVE Writes(A \cup B, fs)
BY DEF Writes

\* One patch.
LEMMA SingletonWrites ==
  ASSUME NEW p, NEW fs, DOMAIN p \subseteq fs
  PROVE Writes({p}, fs)
BY DEF Writes

\* A number field with bounds writes its field.
LEMMA EntryWrites ==
  ASSUME NEW f, NEW lo, NEW hi, NEW fs, f \in fs
  PROVE Writes(Entry(f, lo, hi), fs)
BY OneField DEF Entry, Writes

\* A number field without bounds writes its field.
LEMMA AnyNumberWrites == ASSUME NEW f, NEW fs, f \in fs PROVE Writes(AnyNumber(f), fs)
BY EntryWrites DEF AnyNumber

\* Several number fields write their fields.
LEMMA AllTypedWrites ==
  ASSUME NEW gs, NEW fs, gs \subseteq fs
  PROVE Writes(AllTyped(gs), fs)
BY AnyNumberWrites DEF AllTyped, Writes

\* A number field that may be emptied writes its field.
LEMMA OrClearedWrites == ASSUME NEW f, NEW fs, f \in fs PROVE Writes(OrCleared(f), fs)
<1>1. DOMAIN Cleared({f}) \subseteq fs
  BY ClearedIs
<1> QED
  BY <1>1, AnyNumberWrites, UnionWrites, SingletonWrites DEF OrCleared

\* A text field writes its field.
LEMMA WordsWrites == ASSUME NEW f, NEW fs, f \in fs PROVE Writes(Words(f), fs)
BY OneField DEF Words, Writes

\* Several text fields write their fields.
LEMMA AllWordsWrites ==
  ASSUME NEW gs, NEW fs, gs \subseteq fs
  PROVE Writes(AllWords(gs), fs)
BY WordsWrites DEF AllWords, Writes

\* A list of options writes its field.
LEMMA ChoiceWrites == ASSUME NEW f, NEW fs, f \in fs PROVE Writes(Choice(f), fs)
BY OneField DEF Choice, Writes

\* A colour picker writes its field.
LEMMA ColoursWrites == ASSUME NEW f, NEW fs, f \in fs PROVE Writes(Colours(f), fs)
BY OneField DEF Colours, Writes

\* A check box writes its field, whatever its default.
LEMMA FlipWrites ==
  ASSUME NEW o, NEW f, NEW fs, f \in fs
  PROVE Writes(Flip(o, f, FALSE), fs) /\ Writes(Flip(o, f, TRUE), fs)
BY OneField DEF Flip, Writes

\* Several check boxes write their fields.
LEMMA FlipsWrite ==
  ASSUME NEW o, NEW fs PROVE Writes(UNION {Flip(o, f, FALSE) : f \in fs}, fs)
<1>1. \A f \in fs : Writes(Flip(o, f, FALSE), fs)
  BY FlipWrites
<1> QED
  BY <1>1 DEF Writes

\* A field of the batch panel writes that field.
LEMMA RefusingWrites ==
  ASSUME NEW f, NEW lo, NEW hi, NEW fs, f \in fs PROVE Writes(Refusing(f, lo, hi), fs)
BY OneField DEF Refusing, Writes

\* A patch over an object: a cleared field goes, the others keep their value.
LEMMA PatchedIs ==
  ASSUME NEW o, NEW p
  PROVE /\ DOMAIN Patched(o, p) \subseteq DOMAIN p \cup DOMAIN o
        /\ \A f \in DOMAIN Patched(o, p) :
             /\ f \in DOMAIN p => p[f] # Unset
             /\ f \notin DOMAIN p => f \in DOMAIN o /\ Patched(o, p)[f] = o[f]
<1>1. p @@ o = Overlaid(p, o)
  BY OverlaidIs
<1>2. Patched(o, p) = [f \in {g \in DOMAIN Overlaid(p, o) : Overlaid(p, o)[g] # Unset}
                         |-> Overlaid(p, o)[f]]
  BY <1>1 DEF Patched
<1> QED
  BY <1>2 DEF Overlaid

-----------------------------------------------------------------------------
(* The override switches and the fields they stand for.                    *)

CarSwitchNames ==
  {"name", "id", "model", "color", "max_speed", "collision", "planner", "flags", "v2x",
   "services", "rare"}
CarPart(s) ==
  CASE s = "name" -> {"name"} [] s = "id" -> {"id"} [] s = "model" -> {"carla_model"}
    [] s = "color" -> {"cav_color"} [] s = "max_speed" -> {"max_speed"}
    [] s = "collision" -> {"collision_time_ahead"} [] s = "planner" -> PlannerFlags
    [] s = "flags" -> BehaviorFlags [] s = "v2x" -> {"v2x.enabled"}
    [] s = "services" -> Services [] s = "rare" -> {"spawn_special", "sensing"}
CarParts == [s \in CarSwitchNames |-> CarPart(s)]
RsuSwitchNames == {"name", "id", "color", "services"}
RsuPart(s) ==
  CASE s = "name" -> {"name"} [] s = "id" -> {"id"} [] s = "color" -> {"rsu_color"}
    [] s = "services" -> {"aim.debug"}
RsuParts == [s \in RsuSwitchNames |-> RsuPart(s)]

\* A car's switches depend on no other fields.
LEMMA CarSwitchDepends ==
  ASSUME NEW o, NEW q, NEW s \in CarSwitches(q),
         \A f \in CarParts[s] : f \in DOMAIN q => f \in DOMAIN o /\ o[f] = q[f]
  PROVE s \in CarSwitches(o)
<1>1. s \in CarSwitchNames
  BY DEF CarSwitches, CarSwitchNames
<1>2. \A f \in CarPart(s) : f \in DOMAIN q => f \in DOMAIN o /\ o[f] = q[f]
  BY <1>1 DEF CarParts
<1>3. CASE s \in {"name", "id", "model", "color"}
  BY <1>2, <1>3 DEF CarPart, CarSwitches, Has, Nonblank
<1>4. CASE s \in {"max_speed", "collision", "planner", "flags"}
  BY <1>2, <1>4 DEF CarPart, CarSwitches, Has
<1>5. CASE s \in {"v2x", "services", "rare"}
  BY <1>2, <1>5 DEF CarPart, CarSwitches, Has
<1> QED
  BY <1>1, <1>3, <1>4, <1>5 DEF CarSwitchNames

\* Nor do a unit's.
LEMMA RsuSwitchDepends ==
  ASSUME NEW o, NEW q, NEW s \in RsuSwitches(q),
         \A f \in RsuParts[s] : f \in DOMAIN q => f \in DOMAIN o /\ o[f] = q[f]
  PROVE s \in RsuSwitches(o)
<1>1. s \in RsuSwitchNames
  BY DEF RsuSwitches, RsuSwitchNames
<1>2. \A f \in RsuPart(s) : f \in DOMAIN q => f \in DOMAIN o /\ o[f] = q[f]
  BY <1>1 DEF RsuParts
<1> QED
  BY <1>1, <1>2 DEF RsuPart, RsuSwitchNames, RsuSwitches, Has, Nonblank

\* An object without fields has no override.
LEMMA NoSwitches == CarSwitches(<<>>) = {} /\ RsuSwitches(<<>>) = {}
BY DEF CarSwitches, RsuSwitches, Has, Nonblank

\* An input leaves the fields of a switch alone or clears them all, or the
\* switch is on afterwards.
Honest(parts, i) ==
  \A s \in DOMAIN parts :
    \/ s \notin i.off /\ parts[s] \cap DOMAIN i.patch = {}
    \/ parts[s] \subseteq DOMAIN i.patch /\ \A f \in parts[s] : i.patch[f] = Unset
    \/ s \in (shown \cup i.on) \ i.off

\* An input of a panel for fields with these names.
Proper(parts, names, i) == DOMAIN i.patch \subseteq names /\ Honest(parts, i)

\* A car whose overrides are shown and that gets an honest input has its
\* overrides shown.
LEMMA CarStaysShown ==
  ASSUME NEW o, NEW i, Honest(CarParts, i), CarSwitches(o) \subseteq shown
  PROVE CarSwitches(Patched(o, i.patch)) \subseteq (shown \cup i.on) \ i.off
<1> DEFINE q == Patched(o, i.patch)
<1>1. SUFFICES ASSUME NEW s \in CarSwitches(q) PROVE s \in (shown \cup i.on) \ i.off
  OBVIOUS
<1>2. s \in DOMAIN CarParts
  BY <1>1 DEF CarSwitches, CarParts, CarSwitchNames
<1>3. CASE s \notin i.off /\ CarParts[s] \cap DOMAIN i.patch = {}
  <2>1. \A f \in CarParts[s] : f \in DOMAIN q => f \in DOMAIN o /\ o[f] = q[f]
    BY <1>3, PatchedIs
  <2>2. s \in CarSwitches(o)
    BY <1>1, <2>1, CarSwitchDepends
  <2> QED
    BY <1>3, <2>2
<1>4. CASE /\ CarParts[s] \subseteq DOMAIN i.patch
           /\ \A f \in CarParts[s] : i.patch[f] = Unset
  <2>1. \A f \in CarParts[s] : f \notin DOMAIN q
    BY <1>4, PatchedIs
  <2>2. s \in CarSwitches(<<>>)
    BY <1>1, <2>1, CarSwitchDepends
  <2> QED
    BY <2>2, NoSwitches
<1> QED
  BY <1>2, <1>3, <1>4 DEF Honest

\* The same for a road-side unit.
LEMMA RsuStaysShown ==
  ASSUME NEW o, NEW i, Honest(RsuParts, i), RsuSwitches(o) \subseteq shown
  PROVE RsuSwitches(Patched(o, i.patch)) \subseteq (shown \cup i.on) \ i.off
<1> DEFINE q == Patched(o, i.patch)
<1>1. SUFFICES ASSUME NEW s \in RsuSwitches(q) PROVE s \in (shown \cup i.on) \ i.off
  OBVIOUS
<1>2. s \in DOMAIN RsuParts
  BY <1>1 DEF RsuSwitches, RsuParts, RsuSwitchNames
<1>3. CASE s \notin i.off /\ RsuParts[s] \cap DOMAIN i.patch = {}
  <2>1. \A f \in RsuParts[s] : f \in DOMAIN q => f \in DOMAIN o /\ o[f] = q[f]
    BY <1>3, PatchedIs
  <2>2. s \in RsuSwitches(o)
    BY <1>1, <2>1, RsuSwitchDepends
  <2> QED
    BY <1>3, <2>2
<1>4. CASE /\ RsuParts[s] \subseteq DOMAIN i.patch
           /\ \A f \in RsuParts[s] : i.patch[f] = Unset
  <2>1. \A f \in RsuParts[s] : f \notin DOMAIN q
    BY <1>4, PatchedIs
  <2>2. s \in RsuSwitches(<<>>)
    BY <1>1, <2>1, RsuSwitchDepends
  <2> QED
    BY <2>2, NoSwitches
<1> QED
  BY <1>2, <1>3, <1>4 DEF Honest

\* These fields belong to no other switch than s.
Only(parts, s, fs) == \A t \in DOMAIN parts \ {s} : parts[t] \cap fs = {}

\* An input outside the overrides is proper if it writes fields of no switch.
LEMMA InProper ==
  ASSUME NEW parts, NEW names, NEW fs, NEW patches, Writes(patches, fs), fs \subseteq names,
         \A t \in DOMAIN parts : parts[t] \cap fs = {}
  PROVE \A i \in In(patches) : Proper(parts, names, i)
BY DEF In, Writes, Proper, Honest

\* An input under a switch is proper if it writes fields of no other switch.
LEMMA WhileProper ==
  ASSUME NEW parts, NEW names, NEW fs, NEW patches, NEW s, Writes(patches, fs),
         fs \subseteq names, Only(parts, s, fs)
  PROVE \A i \in While(s, patches) : Proper(parts, names, i)
BY DEF While, In, Writes, Proper, Honest, Only

\* A switch is proper if it sets, and clears, the fields it stands for and
\* those of no other.
LEMMA SwitchProper ==
  ASSUME NEW parts, NEW names, NEW s \in DOMAIN parts, NEW values,
         DOMAIN values \subseteq names, parts[s] \subseteq DOMAIN values,
         Only(parts, s, DOMAIN values)
  PROVE \A i \in Switch(s, values) : Proper(parts, names, i)
<1>1. CASE s \in shown
  BY <1>1, ClearedIs DEF Switch, Proper, Honest, Only
<1>2. CASE s \notin shown
  BY <1>2 DEF Switch, Proper, Honest, Only
<1> QED
  BY <1>1, <1>2

-----------------------------------------------------------------------------
(* The panel of a car.                                                     *)

CarNames ==
  {"model", "position", "scale", "speed", "color", "rotation", "name", "id",
   "carla_model", "cav_color", "max_speed", "collision_time_ahead", "v2x.enabled",
   "v2x.range", "spawn_special"}
    \cup PlannerFlags \cup BehaviorFlags \cup Services \cup SensingBlock \cup SumoFields

\* The parts of a car's panel, by their switches.
LEMMA CarPartOf == DOMAIN CarParts = CarSwitchNames /\ \A s \in CarSwitchNames : CarParts[s] = CarPart(s)
BY DEF CarParts

\* No field belongs to two switches of a car.
LEMMA CarPartsApart ==
  /\ Only(CarParts, "name", {"name"}) /\ Only(CarParts, "id", {"id"})
  /\ Only(CarParts, "model", {"carla_model"}) /\ Only(CarParts, "color", {"cav_color"})
  /\ Only(CarParts, "max_speed", {"max_speed"})
  /\ Only(CarParts, "collision", {"collision_time_ahead"})
  /\ Only(CarParts, "planner", PlannerFlags) /\ Only(CarParts, "flags", BehaviorFlags)
  /\ Only(CarParts, "v2x", {"v2x.enabled", "v2x.range"})
  /\ Only(CarParts, "services", Services)
  /\ Only(CarParts, "rare", {"spawn_special"} \cup SensingBlock)
<1> SUFFICES ASSUME NEW t \in CarSwitchNames
             PROVE /\ t # "name" => CarPart(t) \cap {"name"} = {}
                   /\ t # "id" => CarPart(t) \cap {"id"} = {}
                   /\ t # "model" => CarPart(t) \cap {"carla_model"} = {}
                   /\ t # "color" => CarPart(t) \cap {"cav_color"} = {}
                   /\ t # "max_speed" => CarPart(t) \cap {"max_speed"} = {}
                   /\ t # "collision" => CarPart(t) \cap {"collision_time_ahead"} = {}
                   /\ t # "planner" => CarPart(t) \cap PlannerFlags = {}
                   /\ t # "flags" => CarPart(t) \cap BehaviorFlags = {}
                   /\ t # "v2x" => CarPart(t) \cap {"v2x.enabled", "v2x.range"} = {}
                   /\ t # "services" => CarPart(t) \cap Services = {}
                   /\ t # "rare" => CarPart(t) \cap ({"spawn_special"} \cup SensingBlock) = {}
  BY CarPartOf DEF Only
<1> QED
  BY DEF CarSwitchNames, CarPart, PlannerFlags, BehaviorFlags, Services, AimClient,
     SensingBlock, SensingNumbers, SensingFlags

\* The first part of a car's panel has no overrides.
LEMMA CarEssentialsProper == \A i \in CarEssentials : Proper(CarParts, CarNames, i)
<1> DEFINE fs == {"model", "position", "scale", "speed", "color"}
<1>1. /\ Writes(Words("model"), fs) /\ Writes(AnyNumber("position"), fs)
      /\ Writes(Entry("scale", 10, 500), fs) /\ Writes(Entry("speed", 0, 25000), fs)
      /\ Writes(Choice("color"), fs)
  BY WordsWrites, AnyNumberWrites, EntryWrites, ChoiceWrites
<1>2. fs \subseteq CarNames /\ \A t \in DOMAIN CarParts : CarParts[t] \cap fs = {}
  BY CarPartOf DEF CarNames, CarSwitchNames, CarPart, PlannerFlags, BehaviorFlags, Services,
     AimClient
<1> HIDE DEF fs
<1>3. Writes(Words("model") \cup AnyNumber("position") \cup Entry("scale", 10, 500)
               \cup Entry("speed", 0, 25000) \cup Choice("color"), fs)
  BY <1>1 DEF Writes
<1> QED
  BY <1>2, <1>3, InProper DEF CarEssentials

\* The overrides with one field.
LEMMA CarOverridesProper ==
  \A i \in CarIdentity \cup CarModel \cup CarColor \cup CarKinematics :
    Proper(CarParts, CarNames, i)
<1>1. \A v :
        /\ \A i \in Switch("name", "name" :> v) : Proper(CarParts, CarNames, i)
        /\ \A i \in Switch("id", "id" :> v) : Proper(CarParts, CarNames, i)
        /\ \A i \in Switch("model", "carla_model" :> v) : Proper(CarParts, CarNames, i)
        /\ \A i \in Switch("color", "cav_color" :> v) : Proper(CarParts, CarNames, i)
        /\ \A i \in Switch("max_speed", "max_speed" :> v) : Proper(CarParts, CarNames, i)
        /\ \A i \in Switch("collision", "collision_time_ahead" :> v) :
             Proper(CarParts, CarNames, i)
  <2>1. ASSUME NEW s \in CarSwitchNames, NEW f \in CarNames, NEW v,
               CarPart(s) = {f}, Only(CarParts, s, {f})
        PROVE \A i \in Switch(s, f :> v) : Proper(CarParts, CarNames, i)
    <3> DEFINE p == f :> v
    <3>1. DOMAIN p = {f}
      BY FieldIs
    <3>2. CarParts[s] = {f}
      BY <2>1, CarPartOf
    <3> HIDE DEF p
    <3>3. \A i \in Switch(s, p) : Proper(CarParts, CarNames, i)
      BY <2>1, <3>1, <3>2, CarPartOf, SwitchProper
    <3> QED
      BY <3>3 DEF p
  <2>2. /\ CarPart("name") = {"name"} /\ CarPart("id") = {"id"}
        /\ CarPart("model") = {"carla_model"} /\ CarPart("color") = {"cav_color"}
        /\ CarPart("max_speed") = {"max_speed"}
        /\ CarPart("collision") = {"collision_time_ahead"}
    BY DEF CarPart
  <2>3. {"name", "id", "carla_model", "cav_color", "max_speed", "collision_time_ahead"}
          \subseteq CarNames
    BY DEF CarNames
  <2>4. {"name", "id", "model", "color", "max_speed", "collision"} \subseteq CarSwitchNames
    BY DEF CarSwitchNames
  <2> QED
    BY <2>1, <2>2, <2>3, <2>4, CarPartsApart
<1>2. /\ Writes(Words("name"), {"name"}) /\ Writes(AnyNumber("id"), {"id"})
      /\ Writes(Words("carla_model"), {"carla_model"})
      /\ Writes(Colours("cav_color"), {"cav_color"})
      /\ Writes(AnyNumber("max_speed"), {"max_speed"})
      /\ Writes(AnyNumber("collision_time_ahead"), {"collision_time_ahead"})
  BY WordsWrites, AnyNumberWrites, ColoursWrites
<1>3. {"name", "id", "carla_model", "cav_color", "max_speed", "collision_time_ahead"}
        \subseteq CarNames
  BY DEF CarNames
<1>4. /\ \A i \in While("name", Words("name")) : Proper(CarParts, CarNames, i)
      /\ \A i \in While("id", AnyNumber("id")) : Proper(CarParts, CarNames, i)
      /\ \A i \in While("model", Words("carla_model")) : Proper(CarParts, CarNames, i)
  BY <1>2, <1>3, CarPartsApart, WhileProper
<1>5. /\ \A i \in While("color", Colours("cav_color")) : Proper(CarParts, CarNames, i)
      /\ \A i \in While("max_speed", AnyNumber("max_speed")) : Proper(CarParts, CarNames, i)
      /\ \A i \in While("collision", AnyNumber("collision_time_ahead")) :
           Proper(CarParts, CarNames, i)
  BY <1>2, <1>3, CarPartsApart, WhileProper
<1> QED
  BY <1>1, <1>4, <1>5 DEF CarIdentity, CarModel, CarColor, CarKinematics

\* The overrides with several.
LEMMA CarGroupsProper ==
  ASSUME NEW o
  PROVE \A i \in CarLocalPlannerDebug(o) \cup CarBehaviorFlags(o) \cup CarV2X(o)
                   \cup CarBehaviorServices(o) : Proper(CarParts, CarNames, i)
<1>1. /\ PlannerFlags \cup BehaviorFlags \cup Services \cup {"v2x.enabled", "v2x.range"}
           \subseteq CarNames
      /\ {"planner", "flags", "v2x", "services"} \subseteq DOMAIN CarParts
      /\ CarParts["planner"] = PlannerFlags /\ CarParts["flags"] = BehaviorFlags
      /\ CarParts["v2x"] = {"v2x.enabled"} /\ CarParts["services"] = Services
  BY CarPartOf DEF CarNames, CarSwitchNames, CarPart
<1>2. \A i \in CarLocalPlannerDebug(o) : Proper(CarParts, CarNames, i)
  <2> DEFINE p == [f \in PlannerFlags |-> Flag(TRUE)]
  <2>1. \A i \in Switch("planner", p) : Proper(CarParts, CarNames, i)
    <3>1. DOMAIN p = PlannerFlags
      OBVIOUS
    <3> HIDE DEF p
    <3> QED
      BY <1>1, <3>1, CarPartsApart, SwitchProper
  <2>2. Writes(UNION {Flip(o, f, FALSE) : f \in PlannerFlags}, PlannerFlags)
    BY FlipsWrite
  <2>3. \A i \in While("planner", UNION {Flip(o, f, FALSE) : f \in PlannerFlags}) :
          Proper(CarParts, CarNames, i)
    BY <1>1, <2>2, CarPartsApart, WhileProper
  <2> QED
    BY <2>1, <2>3 DEF CarLocalPlannerDebug
<1>3. \A i \in CarBehaviorFlags(o) : Proper(CarParts, CarNames, i)
  <2> DEFINE p == [f \in BehaviorFlags |-> Flag(FALSE)]
  <2>1. \A i \in Switch("flags", p) : Proper(CarParts, CarNames, i)
    <3>1. DOMAIN p = BehaviorFlags
      OBVIOUS
    <3> HIDE DEF p
    <3> QED
      BY <1>1, <3>1, CarPartsApart, SwitchProper
  <2>2. Writes(UNION {Flip(o, f, FALSE) : f \in BehaviorFlags}, BehaviorFlags)
    BY FlipsWrite
  <2>3. \A i \in While("flags", UNION {Flip(o, f, FALSE) : f \in BehaviorFlags}) :
          Proper(CarParts, CarNames, i)
    BY <1>1, <2>2, CarPartsApart, WhileProper
  <2> QED
    BY <2>1, <2>3 DEF CarBehaviorFlags
<1>4. \A i \in CarV2X(o) : Proper(CarParts, CarNames, i)
  <2> DEFINE fs == {"v2x.enabled", "v2x.range"}
             yes == Flag(TRUE)
             p == ("v2x.enabled" :> yes) @@ ("v2x.range" :> Number(4500))
  <2>1. \A i \in Switch("v2x", p) : Proper(CarParts, CarNames, i)
    <3> HIDE DEF yes
    <3>1. DOMAIN p = fs
      <4>1. DOMAIN ("v2x.range" :> Number(4500)) = {"v2x.range"}
        BY FieldIs
      <4> QED
        BY <4>1, OverFields
    <3> HIDE DEF p
    <3> QED
      BY <1>1, <3>1, CarPartsApart, SwitchProper
  <2> DEFINE flip == Flip(o, "v2x.enabled", TRUE)
  <2>2. Writes(flip, fs)
    BY DEF Flip, Writes, :>
  <2>3. CarV2X(o) = Switch("v2x", p) \cup While("v2x", flip \cup AnyNumber("v2x.range"))
    BY DEF CarV2X
  <2> HIDE DEF flip, p, yes
  <2>4. Writes(flip \cup AnyNumber("v2x.range"), fs)
    BY <2>2, AnyNumberWrites, UnionWrites
  <2>5. \A i \in While("v2x", flip \cup AnyNumber("v2x.range")) : Proper(CarParts, CarNames, i)
    BY <1>1, <2>4, CarPartsApart, WhileProper
  <2> QED
    BY <2>1, <2>3, <2>5
<1>5. \A i \in CarBehaviorServices(o) : Proper(CarParts, CarNames, i)
  <2>1. DOMAIN AimStack(FALSE) = Services
    BY DEF AimStack
  <2>2. \A i \in Switch("services", AimStack(FALSE)) : Proper(CarParts, CarNames, i)
    BY <1>1, <2>1, CarPartsApart, SwitchProper
  <2> DEFINE ps == {ToggleService(o, f) : f \in Services}
                     \cup (IF Has(o, AimClient) THEN Flip(o, AimClient, FALSE) ELSE {})
  <2>3. \A f \in Services : DOMAIN ToggleService(o, f) \subseteq Services
    BY DEF ToggleService, Cleared, :>
  <2>4. Writes(Flip(o, AimClient, FALSE), Services)
    <3>1. AimClient \in Services
      BY DEF Services
    <3> QED
      BY <3>1, FlipWrites, Zenon
  <2>5. Writes(ps, Services)
    BY <2>3, <2>4 DEF Writes
  <2>6. \A i \in While("services", ps) : Proper(CarParts, CarNames, i)
    BY <1>1, <2>5, CarPartsApart, WhileProper
  <2> QED
    BY <2>2, <2>6 DEF CarBehaviorServices
<1> QED
  BY <1>2, <1>3, <1>4, <1>5

\* The preset shows the three overrides it sets.
LEMMA CarPresetProper ==
  ASSUME NEW o PROVE \A i \in CarPreset(o) : Proper(CarParts, CarNames, i)
<1> DEFINE id == IF Has(o, "id") THEN o["id"] ELSE Number(10000)
           stack == AimStack(TRUE)
           p == ("id" :> id) @@ ("cav_color" :> Option(1)) @@ stack
           fs == {"id", "cav_color"} \cup Services
<1>1. DOMAIN p = fs
  <2>1. DOMAIN stack = Services
    BY DEF AimStack
  <2>2. DOMAIN ("cav_color" :> Option(1)) = {"cav_color"}
    BY FieldIs
  <2> HIDE DEF id, stack
  <2>3. DOMAIN (("id" :> id) @@ ("cav_color" :> Option(1))) = {"id", "cav_color"}
    BY <2>2, OverFields
  <2> QED
    BY <2>1, <2>3, PatchOver
<1>2. fs \subseteq CarNames
  BY DEF CarNames
<1>3. \A s \in CarSwitchNames : s \in {"id", "color", "services"} \/ CarPart(s) \cap fs = {}
  BY DEF CarSwitchNames, CarPart, Services, AimClient, PlannerFlags, BehaviorFlags
<1>5. CarPreset(o) = {[patch |-> p, on |-> {"id", "color", "services"}, off |-> {}]}
  BY DEF CarPreset
<1> HIDE DEF p, fs, id, stack
<1>4. ASSUME NEW i, i = [patch |-> p, on |-> {"id", "color", "services"}, off |-> {}]
      PROVE Proper(CarParts, CarNames, i)
  BY <1>1, <1>2, <1>3, <1>4, CarPartOf DEF Proper, Honest
<1> QED
  BY <1>4, <1>5

\* The rare overrides are cleared together.
LEMMA CarRareSectionProper ==
  ASSUME NEW o PROVE \A i \in CarRareSection(o) : Proper(CarParts, CarNames, i)
<1> DEFINE fs == {"spawn_special"} \cup SensingBlock
           ps == (IF Has(o, "spawn_special")
                  THEN {Cleared({"spawn_special"})} \cup Entry("spawn_special", 0, 100)
                  ELSE {"spawn_special" :> Number(50)})
                 \cup (IF Has(o, "sensing")
                       THEN {Cleared(SensingBlock)} \cup CarSensingFields(o)
                       ELSE {"sensing" :> Flag(TRUE)})
<1>1. /\ fs \subseteq CarNames
      /\ "rare" \in DOMAIN CarParts /\ CarParts["rare"] \subseteq fs
  BY CarPartOf DEF CarNames, CarSwitchNames, CarPart, SensingBlock
<1>2. Only(CarParts, "rare", fs)
  BY CarPartsApart
<1>3. Writes(ps, fs)
  <2>1. /\ Writes({Cleared({"spawn_special"})}, fs) /\ Writes({Cleared(SensingBlock)}, fs)
        /\ Writes({"spawn_special" :> Number(50)}, fs) /\ Writes({"sensing" :> Flag(TRUE)}, fs)
    BY DEF Writes, SensingBlock, Cleared, :>
  <2>2. Writes(Entry("spawn_special", 0, 100), fs)
    BY EntryWrites
  <2>3. Writes(CarSensingFields(o), fs)
    <3>1. \A f \in SensingNumbers : Writes(OrCleared(f), fs)
      BY OrClearedWrites DEF SensingBlock
    <3>2. \A f \in SensingFlags : Writes(Flip(o, f, FALSE), fs)
      BY FlipWrites DEF SensingBlock
    <3> DEFINE numbers == UNION {OrCleared(f) : f \in SensingNumbers}
               flags == UNION {Flip(o, f, FALSE) : f \in SensingFlags}
    <3>3. Writes(numbers, fs) /\ Writes(flags, fs)
      BY <3>1, <3>2 DEF Writes
    <3>4. CarSensingFields(o) = numbers \cup flags
      BY DEF CarSensingFields
    <3> HIDE DEF numbers, flags
    <3> QED
      BY <3>3, <3>4, UnionWrites
  <2> HIDE DEF fs
  <2> QED
    BY <2>1, <2>2, <2>3, UnionWrites
<1>4. \A i \in While("rare", ps) : Proper(CarParts, CarNames, i)
  BY <1>1, <1>2, <1>3, WhileProper
<1>5. ASSUME NEW i, i = [patch |-> Cleared(fs), on |-> {}, off |-> {"rare"}]
      PROVE Proper(CarParts, CarNames, i)
  <2> HIDE DEF fs
  <2> QED
    BY <1>1, <1>2, <1>5, ClearedIs DEF Proper, Honest, Only
<1>6. ASSUME NEW i, i = [patch |-> <<>>, on |-> {"rare"}, off |-> {}]
      PROVE Proper(CarParts, CarNames, i)
  BY <1>6 DEF Proper, Honest
<1> QED
  BY <1>4, <1>5, <1>6 DEF CarRareSection

\* Every input of the panel of a car is proper.
LEMMA CarPanelProper ==
  ASSUME NEW o PROVE \A i \in CarEssentials \cup CarAdvanced(o) : Proper(CarParts, CarNames, i)
BY CarEssentialsProper, CarOverridesProper, CarGroupsProper, CarPresetProper,
   CarRareSectionProper DEF CarAdvanced

\* The card of a car in the settings writes fields of no switch.
LEMMA RouteCardWrites == ASSUME NEW o PROVE Writes(RouteCard(o), SumoFields)
<1> DEFINE words == AllWords({"sumo_edges", "sumo_depart_lane"})
           numbers == UNION {OrCleared(f) : f \in {"sumo_depart", "sumo_max_speed",
                                                   "sumo_depart_pos"}}
           types == {"sumo_vtype" :> Text(EmptyText)}
                      \cup {"sumo_vtype" :> Option(lists.vtypes[i]) : i \in DOMAIN lists.vtypes}
<1>1. Writes(words, SumoFields)
  BY AllWordsWrites DEF SumoFields
<1>2. Writes(numbers, SumoFields)
  <2>1. \A f \in {"sumo_depart", "sumo_max_speed", "sumo_depart_pos"} :
          Writes(OrCleared(f), SumoFields)
    BY OrClearedWrites DEF SumoFields
  <2> QED
    BY <2>1 DEF Writes
<1>3. Writes(types, SumoFields)
  <2>1. \A v : DOMAIN ("sumo_vtype" :> v) \subseteq SumoFields
    <3>1. "sumo_vtype" \in SumoFields
      BY DEF SumoFields
    <3> QED
      BY <3>1, OneField
  <2> QED
    BY <2>1 DEF Writes
<1>4. Writes(StaticStop(o), SumoFields)
  <2>1. {"stop.lane"} \cup StopNumbers \subseteq SumoFields
    BY DEF StopNumbers, SumoFields
  <2>2. Writes({Cleared({"stop.lane"} \cup StopNumbers)}, SumoFields)
    BY <2>1 DEF Writes, Cleared
  <2>3. Writes(Words("stop.lane"), SumoFields) /\ Writes(AllTyped(StopNumbers), SumoFields)
    BY <2>1, WordsWrites, AllTypedWrites
  <2> DEFINE lane == "stop.lane" :> Text(EmptyText)
             start == "stop.start" :> Number(0)
             end == "stop.end" :> Number(500)
             duration == "stop.duration" :> Number(10000000)
  <2>4. /\ DOMAIN lane = {"stop.lane"} /\ DOMAIN start = {"stop.start"}
        /\ DOMAIN end = {"stop.end"} /\ DOMAIN duration = {"stop.duration"}
    BY DEF :>
  <2>5. StaticStop(o) \subseteq {Cleared({"stop.lane"} \cup StopNumbers)} \cup Words("stop.lane")
                                  \cup AllTyped(StopNumbers)
                                  \cup {lane @@ start @@ end @@ duration}
    BY DEF StaticStop
  <2> HIDE DEF lane, start, end, duration
  <2>6. DOMAIN (lane @@ start @@ end @@ duration) \subseteq SumoFields
    <3> DEFINE two == lane @@ start
               three == two @@ end
               four == three @@ duration
    <3>1. DOMAIN two = DOMAIN lane \cup DOMAIN start
      BY PatchOver
    <3> HIDE DEF two
    <3>2. DOMAIN three = DOMAIN two \cup DOMAIN end
      BY PatchOver
    <3> HIDE DEF three
    <3>3. DOMAIN four = DOMAIN three \cup DOMAIN duration
      BY PatchOver
    <3> HIDE DEF four
    <3>4. DOMAIN four \subseteq SumoFields
      BY <2>4, <3>1, <3>2, <3>3 DEF SumoFields
    <3> QED
      BY <3>4 DEF four, three, two
  <2> QED
    BY <2>2, <2>3, <2>5, <2>6 DEF Writes
<1>5. RouteCard(o) = words \cup numbers \cup types \cup StaticStop(o)
  BY DEF RouteCard
<1> HIDE DEF words, numbers, types
<1> QED
  BY <1>1, <1>2, <1>3, <1>4, <1>5 DEF Writes

\* The card of a route writes fields of no override.
LEMMA RouteCardProper ==
  ASSUME NEW o PROVE \A i \in In(RouteCard(o)) : Proper(CarParts, CarNames, i)
<1>1. SumoFields \subseteq CarNames /\ \A t \in DOMAIN CarParts : CarParts[t] \cap SumoFields = {}
  BY CarPartOf DEF CarNames, CarSwitchNames, CarPart, SumoFields, PlannerFlags, BehaviorFlags,
     Services, AimClient
<1> QED
  BY <1>1, RouteCardWrites, InProper

-----------------------------------------------------------------------------
(* The panel of a road-side unit.                                          *)

\* The fields of the AIM server, whatever the unit they are set on.
LEMMA AimServerFields ==
  /\ \A o : DOMAIN AimServer(o) = AimFields
  /\ AimFields = AimWords \cup {"aim.debug", "aim.radius", "aim.channels", "aim.priority",
                                "aim.center"}
<1>1. ASSUME NEW o
      PROVE DOMAIN AimServer(o)
              = AimWords \cup {"aim.debug", "aim.radius", "aim.channels", "aim.priority",
                               "aim.center"}
  <2> DEFINE words == [f \in AimWords |-> Text(1)]
             debug == "aim.debug" :> Flag(TRUE)
             radius == "aim.radius" :> Number(1500)
             channels == "aim.channels" :> Number(12800)
             priority == "aim.priority" :> Number(100)
             center == "aim.center" :> IF Has(o, "position") THEN o["position"] ELSE Option(1)
  <2>1. /\ DOMAIN words = AimWords /\ DOMAIN debug = {"aim.debug"}
        /\ DOMAIN radius = {"aim.radius"} /\ DOMAIN channels = {"aim.channels"}
    BY DEF :>
  <2>2. DOMAIN priority = {"aim.priority"} /\ DOMAIN center = {"aim.center"}
    BY DEF :>
  <2>3. AimServer(o) = words @@ debug @@ radius @@ channels @@ priority @@ center
    BY DEF AimServer
  <2> HIDE DEF words, debug, radius, channels, priority, center
  <2> DEFINE two == words @@ debug
             three == two @@ radius
             four == three @@ channels
             five == four @@ priority
             six == five @@ center
  <2>4. AimServer(o) = six
    BY <2>3
  <2>5. DOMAIN two = DOMAIN words \cup DOMAIN debug
    BY PatchOver
  <2> HIDE DEF two
  <2>6. DOMAIN three = DOMAIN two \cup DOMAIN radius
    BY PatchOver
  <2> HIDE DEF three
  <2>7. DOMAIN four = DOMAIN three \cup DOMAIN channels
    BY PatchOver
  <2> HIDE DEF four
  <2>8. DOMAIN five = DOMAIN four \cup DOMAIN priority
    BY PatchOver
  <2> HIDE DEF five
  <2>9. DOMAIN six = DOMAIN five \cup DOMAIN center
    BY PatchOver
  <2> QED
    BY <2>1, <2>2, <2>4, <2>5, <2>6, <2>7, <2>8, <2>9
<1> QED
  BY <1>1 DEF AimFields

\* The parts of a unit's panel, by their switches.
LEMMA RsuPartOf == DOMAIN RsuParts = RsuSwitchNames /\ \A s \in RsuSwitchNames : RsuParts[s] = RsuPart(s)
BY DEF RsuParts

\* No field belongs to two switches of a unit.
LEMMA RsuPartsApart ==
  /\ Only(RsuParts, "name", {"name"}) /\ Only(RsuParts, "id", {"id"})
  /\ Only(RsuParts, "color", {"rsu_color"}) /\ Only(RsuParts, "services", AimFields)
BY RsuPartOf, AimServerFields DEF Only, RsuSwitchNames, RsuPart, AimWords

\* The name, the id and the colour of a unit.
LEMMA RsuOverridesProper ==
  \A i \in RsuIdentity \cup RsuColor : Proper(RsuParts, SavedOfRsu, i)
<1>1. \A v :
        /\ \A i \in Switch("name", "name" :> v) : Proper(RsuParts, SavedOfRsu, i)
        /\ \A i \in Switch("id", "id" :> v) : Proper(RsuParts, SavedOfRsu, i)
        /\ \A i \in Switch("color", "rsu_color" :> v) : Proper(RsuParts, SavedOfRsu, i)
  <2>1. ASSUME NEW s \in RsuSwitchNames, NEW f \in SavedOfRsu, NEW v,
               RsuPart(s) = {f}, Only(RsuParts, s, {f})
        PROVE \A i \in Switch(s, f :> v) : Proper(RsuParts, SavedOfRsu, i)
    <3> DEFINE p == f :> v
    <3>1. DOMAIN p = {f}
      BY FieldIs
    <3>2. RsuParts[s] = {f}
      BY <2>1, RsuPartOf
    <3> HIDE DEF p
    <3>3. \A i \in Switch(s, p) : Proper(RsuParts, SavedOfRsu, i)
      BY <2>1, <3>1, <3>2, RsuPartOf, SwitchProper
    <3> QED
      BY <3>3 DEF p
  <2>2. /\ RsuPart("name") = {"name"} /\ RsuPart("id") = {"id"}
        /\ RsuPart("color") = {"rsu_color"}
        /\ {"name", "id", "rsu_color"} \subseteq SavedOfRsu
        /\ {"name", "id", "color"} \subseteq RsuSwitchNames
    BY DEF RsuPart, SavedOfRsu, RsuSwitchNames
  <2> QED
    BY <2>1, <2>2, RsuPartsApart
<1>2. /\ Writes(Words("name"), {"name"}) /\ Writes(AnyNumber("id"), {"id"})
      /\ Writes(Colours("rsu_color"), {"rsu_color"})
      /\ {"name", "id", "rsu_color"} \subseteq SavedOfRsu
  BY WordsWrites, AnyNumberWrites, ColoursWrites DEF SavedOfRsu
<1>3. /\ \A i \in While("name", Words("name")) : Proper(RsuParts, SavedOfRsu, i)
      /\ \A i \in While("id", AnyNumber("id")) : Proper(RsuParts, SavedOfRsu, i)
      /\ \A i \in While("color", Colours("rsu_color")) : Proper(RsuParts, SavedOfRsu, i)
  BY <1>2, RsuPartsApart, WhileProper
<1> QED
  BY <1>1, <1>3 DEF RsuIdentity, RsuColor

\* The service of a unit, and the preset, which also gives it an id.
LEMMA RsuServicesProper ==
  ASSUME NEW o
  PROVE \A i \in RsuBehaviorServices(o) \cup RsuPreset(o) : Proper(RsuParts, SavedOfRsu, i)
<1>1. /\ AimFields \subseteq SavedOfRsu
      /\ "services" \in DOMAIN RsuParts /\ RsuParts["services"] \subseteq AimFields
  BY RsuPartOf, AimServerFields DEF SavedOfRsu, RsuSwitchNames, RsuPart
<1>2. Only(RsuParts, "services", AimFields) /\ Only(RsuParts, "id", {"id"})
  BY RsuPartsApart
<1>3. ASSUME NEW i, i = [patch |-> Cleared(AimFields), on |-> {}, off |-> {"services"}]
      PROVE Proper(RsuParts, SavedOfRsu, i)
  BY <1>1, <1>2, <1>3, ClearedIs DEF Proper, Honest, Only
<1>4. ASSUME NEW i, i = [patch |-> AimServer(o), on |-> {"services"}, off |-> {}]
      PROVE Proper(RsuParts, SavedOfRsu, i)
  BY <1>1, <1>2, <1>4, AimServerFields DEF Proper, Honest, Only
<1>5. Writes(AIMServerEditor(o), AimFields)
  <2> DEFINE flip == Flip(o, "aim.debug", FALSE)
             numbers == AllTyped(AimNumbersOf \cup {"aim.center"})
             whole == {"aim.priority" :> Number(WholePart(n)) : n \in Entered}
             nan == {"aim.priority" :> Undefined}
  <2>1. /\ {"aim.debug", "aim.center", "aim.priority"} \subseteq AimFields
        /\ AimNumbersOf \cup {"aim.center"} \subseteq AimFields /\ AimWords \subseteq AimFields
    BY AimServerFields DEF AimNumbersOf
  <2>2. Writes(flip, AimFields) /\ Writes(numbers, AimFields) /\ Writes(AllWords(AimWords), AimFields)
    BY <2>1, FlipWrites, AllTypedWrites, AllWordsWrites
  <2>3. \A v : DOMAIN ("aim.priority" :> v) \subseteq AimFields
    BY <2>1, OneField
  <2>4. Writes(whole, AimFields) /\ Writes(nan, AimFields)
    BY <2>3 DEF Writes
  <2>5. AIMServerEditor(o) = flip \cup numbers \cup AllWords(AimWords) \cup whole \cup nan
    BY DEF AIMServerEditor
  <2> HIDE DEF flip, numbers, whole, nan
  <2> QED
    BY <2>2, <2>4, <2>5, UnionWrites
<1>6. \A i \in While("services", AIMServerEditor(o)) : Proper(RsuParts, SavedOfRsu, i)
  BY <1>1, <1>2, <1>5, WhileProper
<1>7. \A i \in RsuPreset(o) : Proper(RsuParts, SavedOfRsu, i)
  <2> DEFINE id == IF Has(o, "id") THEN o["id"] ELSE Number(100)
             p == ("id" :> id) @@ AimServer(o)
  <2>1. RsuPreset(o) = {[patch |-> p, on |-> {"id", "services"}, off |-> {}]}
    BY DEF RsuPreset
  <2> HIDE DEF id
  <2>2. DOMAIN p = {"id"} \cup AimFields
    BY OverFields, AimServerFields
  <2> HIDE DEF p
  <2>3. "id" \in SavedOfRsu
    BY DEF SavedOfRsu
  <2>4. ASSUME NEW i, i = [patch |-> p, on |-> {"id", "services"}, off |-> {}]
        PROVE Proper(RsuParts, SavedOfRsu, i)
    BY <1>1, <1>2, <2>2, <2>3, <2>4 DEF Proper, Honest, Only
  <2> QED
    BY <2>1, <2>4
<1> QED
  BY <1>3, <1>4, <1>6, <1>7 DEF RsuBehaviorServices

\* The other inputs write fields of no switch.
LEMMA RsuPlainProper ==
  ASSUME NEW o
  PROVE /\ \A i \in RsuEssentials : Proper(RsuParts, SavedOfRsu, i)
        /\ \A i \in In(SensingPerception(o) \cup SensingCamera \cup SensingLidar(o)
                         \cup SensingLocalization(o) \cup RsuScript) :
             Proper(RsuParts, SavedOfRsu, i)
<1> DEFINE fs == SavedOfRsu \ ({"name", "id", "rsu_color"} \cup AimFields)
<1>1. fs \subseteq SavedOfRsu /\ \A t \in DOMAIN RsuParts : RsuParts[t] \cap fs = {}
  BY RsuPartOf, AimServerFields DEF RsuSwitchNames, RsuPart
<1>2. {"position", "tx_power", "range", "frequency", "beacon_interval", "protocol", "scenario",
       "sensing.perception_activate", "sensing.detection_range", "sensing.camera_visualize",
       "sensing.camera_num", "sensing.lidar_visualize", "sensing.localization_activate"}
        \subseteq fs
  BY AimServerFields DEF SavedOfRsu, AimWords
<1>3. RsuLidarNumbers \subseteq fs /\ SensingGnss \subseteq fs
  BY AimServerFields DEF SavedOfRsu, AimWords, RsuLidarNumbers, SensingGnss
<1> HIDE DEF fs
<1>4. Writes(AllTyped({"position", "tx_power", "range", "frequency", "beacon_interval"})
               \cup Choice("protocol"), fs)
  <2> DEFINE typed == {"position", "tx_power", "range", "frequency", "beacon_interval"}
  <2>1. typed \subseteq fs
    BY <1>2
  <2>2. Writes(Choice("protocol"), fs)
    BY <1>2, ChoiceWrites
  <2> HIDE DEF typed
  <2>3. Writes(AllTyped(typed) \cup Choice("protocol"), fs)
    BY <2>1, <2>2, AllTypedWrites DEF Writes
  <2> QED
    BY <2>3 DEF typed
<1>5. Writes(SensingPerception(o) \cup SensingCamera, fs)
  <2> DEFINE flip == Flip(o, "sensing.perception_activate", FALSE)
  <2>1. Writes(flip, fs)
    BY <1>2, FlipWrites
  <2>2. SensingPerception(o) = flip \cup AnyNumber("sensing.detection_range")
    BY DEF SensingPerception
  <2> HIDE DEF flip
  <2>3. Writes(AnyNumber("sensing.detection_range"), fs)
    BY <1>2, AnyNumberWrites
  <2>4. Writes(SensingCamera, fs)
    <3>1. {"sensing.camera_visualize", "sensing.camera_num"} \subseteq fs
      BY <1>2
    <3> QED
      BY <3>1, AllTypedWrites DEF SensingCamera
  <2> QED
    BY <2>1, <2>2, <2>3, <2>4 DEF Writes
<1>6. Writes(SensingLidar(o), fs)
  <2> DEFINE flip == Flip(o, "sensing.lidar_visualize", TRUE)
  <2>1. Writes(flip, fs)
    BY <1>2 DEF Flip, Writes, :>
  <2>2. SensingLidar(o) = flip \cup AllTyped(RsuLidarNumbers)
    BY DEF SensingLidar
  <2> HIDE DEF flip
  <2> QED
    BY <1>3, <2>1, <2>2, AllTypedWrites DEF Writes
<1>7. Writes(SensingLocalization(o), fs)
  <2> DEFINE flip == Flip(o, "sensing.localization_activate", TRUE)
  <2>1. Writes(flip, fs)
    BY <1>2 DEF Flip, Writes, :>
  <2>2. SensingLocalization(o) = flip \cup AllTyped(SensingGnss)
    BY DEF SensingLocalization
  <2> HIDE DEF flip
  <2> QED
    BY <1>3, <2>1, <2>2, AllTypedWrites DEF Writes
<1>8. Writes(RsuScript, fs)
  BY <1>2, WordsWrites DEF RsuScript
<1>9. Writes(SensingPerception(o) \cup SensingCamera \cup SensingLidar(o)
               \cup SensingLocalization(o) \cup RsuScript, fs)
  BY <1>5, <1>6, <1>7, <1>8 DEF Writes
<1> QED
  BY <1>1, <1>4, <1>9, InProper DEF RsuEssentials

\* Every input of the panel of a road-side unit is proper.
LEMMA RsuPanelProper ==
  ASSUME NEW o PROVE \A i \in RsuEssentials \cup RsuAdvanced(o) : Proper(RsuParts, SavedOfRsu, i)
BY RsuPlainProper, RsuOverridesProper, RsuServicesProper DEF RsuAdvanced

-----------------------------------------------------------------------------
(* Every panel writes fields of its kind of object.                        *)

BuildingNames == SavedOfBuilding \cup {"scale", "rotation"}
FieldNames(x) ==
  CASE x \in Cars -> CarNames
    [] x \in Rsus -> SavedOfRsu
    [] x \in Buildings -> BuildingNames
    [] x \in Pedestrians -> SavedOfPedestrian
    [] x \in Lidars -> SavedOfLidar

\* An object is of one kind.
LEMMA OneKind ==
  /\ \A x \in Cars : x \notin Rsus \cup Buildings \cup Pedestrians \cup Lidars
  /\ \A x \in Rsus : x \notin Cars \cup Buildings \cup Pedestrians \cup Lidars
  /\ \A x \in Buildings : x \notin Cars \cup Rsus \cup Pedestrians \cup Lidars
  /\ \A x \in Pedestrians : x \notin Cars \cup Rsus \cup Buildings \cup Lidars
  /\ \A x \in Lidars : x \notin Cars \cup Rsus \cup Buildings \cup Pedestrians
BY KindAssumption

\* The fields of an object of each kind.
LEMMA NamesOfKind ==
  /\ \A x \in Cars : FieldNames(x) = CarNames
  /\ \A x \in Rsus : FieldNames(x) = SavedOfRsu
  /\ \A x \in Buildings : FieldNames(x) = BuildingNames
  /\ \A x \in Pedestrians : FieldNames(x) = SavedOfPedestrian
  /\ \A x \in Lidars : FieldNames(x) = SavedOfLidar
BY OneKind DEF FieldNames

\* The panel of a building writes fields of a building.
LEMMA BuildingPanelWrites == \A i \in BuildingPanel : DOMAIN i.patch \subseteq BuildingNames
<1>1. {"position", "height"} \subseteq BuildingNames /\ "material" \in BuildingNames
  BY DEF BuildingNames, SavedOfBuilding
<1> DEFINE ps == AllTyped({"position", "height"}) \cup Choice("material")
<1>2. Writes(AllTyped({"position", "height"}), BuildingNames)
  BY <1>1, AllTypedWrites
<1>3. Writes(Choice("material"), BuildingNames)
  BY <1>1, ChoiceWrites
<1>4. Writes(ps, BuildingNames)
  BY <1>2, <1>3 DEF Writes
<1> QED
  BY <1>4 DEF BuildingPanel, In, Writes

\* The panel of a pedestrian writes fields of a pedestrian.
LEMMA PedestrianPanelWrites ==
  ASSUME NEW o
  PROVE \A i \in PedestrianEssentials(o) \cup PedestrianV2X : DOMAIN i.patch \subseteq SavedOfPedestrian
<1> DEFINE flip == Flip(o, "is_invincible", FALSE)
           first == AllTyped({"position", "speed"}) \cup Entry("cross_factor", 0, 100) \cup flip
           second == AllTyped({"tx_power", "beacon_interval", "frequency"}) \cup Choice("protocol")
<1>1. /\ {"position", "speed"} \subseteq SavedOfPedestrian
      /\ {"tx_power", "beacon_interval", "frequency"} \subseteq SavedOfPedestrian
      /\ {"cross_factor", "is_invincible", "protocol"} \subseteq SavedOfPedestrian
  BY DEF SavedOfPedestrian
<1>2. /\ Writes(AllTyped({"position", "speed"}), SavedOfPedestrian)
      /\ Writes(AllTyped({"tx_power", "beacon_interval", "frequency"}), SavedOfPedestrian)
  BY <1>1, AllTypedWrites
<1>3. /\ Writes(Entry("cross_factor", 0, 100), SavedOfPedestrian)
      /\ Writes(Choice("protocol"), SavedOfPedestrian)
  BY <1>1, EntryWrites, ChoiceWrites
<1>4. Writes(flip, SavedOfPedestrian)
  BY <1>1, FlipWrites
<1>5. PedestrianEssentials(o) = In(first) /\ PedestrianV2X = In(second)
  BY DEF PedestrianEssentials, PedestrianV2X
<1> HIDE DEF flip
<1>6. Writes(first, SavedOfPedestrian) /\ Writes(second, SavedOfPedestrian)
  BY <1>2, <1>3, <1>4 DEF Writes
<1> HIDE DEF first, second
<1> QED
  BY <1>5, <1>6 DEF In, Writes

\* The panel of a lidar writes fields of a lidar.
LEMMA LidarPanelWrites ==
  \A i \in LidarEssentials \cup LidarAdvanced : DOMAIN i.patch \subseteq SavedOfLidar
<1>1. {"position", "range", "channels", "rotation_frequency"} \subseteq SavedOfLidar
  BY DEF SavedOfLidar
<1>2. /\ Writes(AnyNumber("position"), SavedOfLidar)
      /\ Writes(Entry("range", 500, 20000), SavedOfLidar)
      /\ Writes(Entry("channels", 100, 12800), SavedOfLidar)
      /\ Writes(Entry("rotation_frequency", 100, 5000), SavedOfLidar)
  BY <1>1, AnyNumberWrites, EntryWrites
<1> QED
  BY <1>2 DEF LidarEssentials, LidarAdvanced, In, Writes

\* An input of the panel of an object.
LEMMA PanelProper ==
  ASSUME NEW x \in Objects, NEW i \in Panel(x)
  PROVE /\ DOMAIN i.patch \subseteq FieldNames(x)
        /\ x \in Cars => Honest(CarParts, i)
        /\ x \in Rsus => Honest(RsuParts, i)
<1>1. CASE x \in Cars
  <2>1. i \in CarEssentials \cup CarAdvanced(objects[x])
    BY <1>1, OneKind DEF Panel
  <2> QED
    BY <1>1, <2>1, CarPanelProper, NamesOfKind, OneKind DEF Proper
<1>2. CASE x \in Rsus
  <2>1. i \in RsuEssentials \cup RsuAdvanced(objects[x])
    BY <1>2, OneKind DEF Panel
  <2> QED
    BY <1>2, <2>1, RsuPanelProper, NamesOfKind, OneKind DEF Proper
<1>3. CASE x \in Buildings
  <2>1. i \in BuildingPanel
    BY <1>3, OneKind DEF Panel
  <2> QED
    BY <1>3, <2>1, BuildingPanelWrites, NamesOfKind, OneKind
<1>4. CASE x \in Pedestrians
  <2>1. i \in PedestrianEssentials(objects[x]) \cup PedestrianV2X
    BY <1>4, OneKind DEF Panel
  <2> QED
    BY <1>4, <2>1, PedestrianPanelWrites, NamesOfKind, OneKind
<1>5. CASE x \in Lidars
  <2>1. i \in LidarEssentials \cup LidarAdvanced
    BY <1>5, OneKind DEF Panel
  <2> QED
    BY <1>5, <2>1, LidarPanelWrites, NamesOfKind, OneKind
<1> QED
  BY <1>1, <1>2, <1>3, <1>4, <1>5 DEF Objects

\* An input for several objects writes fields they all have.
LEMMA BatchProper ==
  ASSUME NEW S, NEW x \in S \cap Objects, NEW p \in BatchFields(S)
  PROVE DOMAIN p \subseteq FieldNames(x)
<1> DEFINE names == FieldNames(x)
<1>1. CASE p \in Refusing("position", NoMin, NoMax)
  <2>1. "position" \in names
    BY NamesOfKind
    DEF Objects, CarNames, SavedOfRsu, BuildingNames, SavedOfBuilding, SavedOfPedestrian,
        SavedOfLidar
  <2> QED
    BY <1>1, <2>1, RefusingWrites DEF Writes
<1>2. CASE S \subseteq Cars /\ p \in Refusing("speed", 0, 25000) \cup Choice("color")
                                       \cup Refusing("scale", 10, 500) \cup Turned
  <2>1. {"speed", "color", "scale", "rotation"} \subseteq names
    BY <1>2, NamesOfKind DEF CarNames
  <2> QED
    BY <1>2, <2>1, RefusingWrites, ChoiceWrites DEF Turned, Writes
<1>3. CASE S \subseteq Rsus /\ p \in Refusing("range", 0, NoMax)
                                       \cup Refusing("tx_power", NoMin, NoMax)
                                       \cup Choice("protocol")
  <2>1. {"range", "tx_power", "protocol"} \subseteq names
    BY <1>3, NamesOfKind DEF SavedOfRsu
  <2> QED
    BY <1>3, <2>1, RefusingWrites, ChoiceWrites DEF Writes
<1>4. CASE S \subseteq Buildings /\ p \in Refusing("height", 10, NoMax) \cup Choice("material")
                                            \cup Refusing("scale", 10, 500) \cup Turned
  <2>1. {"height", "material", "scale", "rotation"} \subseteq names
    BY <1>4, NamesOfKind DEF BuildingNames, SavedOfBuilding
  <2> QED
    BY <1>4, <2>1, RefusingWrites, ChoiceWrites DEF Turned, Writes
<1>5. CASE S \subseteq Pedestrians /\ p \in Refusing("speed", 0, NoMax) \cup Choice("protocol")
  <2>1. {"speed", "protocol"} \subseteq names
    BY <1>5, NamesOfKind DEF SavedOfPedestrian
  <2> QED
    BY <1>5, <2>1, RefusingWrites, ChoiceWrites DEF Writes
<1>6. CASE /\ S \subseteq Lidars
           /\ p \in Refusing("range", 10, NoMax) \cup Refusing("rotation_frequency", 10, NoMax)
                      \cup {"channels" :> Number(n) : n \in {m \in Entered : m >= 100 /\ m % 100 = 0}}
  <2>1. {"range", "rotation_frequency", "channels"} \subseteq names
    BY <1>6, NamesOfKind DEF SavedOfLidar
  <2>2. CASE p \in Refusing("range", 10, NoMax) \cup Refusing("rotation_frequency", 10, NoMax)
    BY <2>1, <2>2, RefusingWrites DEF Writes
  <2>3. CASE \E n : p = ("channels" :> Number(n))
    BY <2>1, <2>3, OneField
  <2> QED
    BY <1>6, <2>2, <2>3
<1> HIDE DEF names
<1> QED
  BY <1>1, <1>2, <1>3, <1>4, <1>5, <1>6 DEF BatchFields, names

-----------------------------------------------------------------------------
(* The invariant of the panels.                                            *)

\* Objects hold fields of their kind only, a panel that has shown one object
\* shows it still, and it hides none of its overrides.
PanelInv ==
  /\ edits \in Nat
  /\ objects = [x \in Objects |-> objects[x]]
  /\ \A x \in Objects : DOMAIN objects[x] \subseteq FieldNames(x)
  /\ \A y : mounted = {y} => selected = {y}
  /\ NoHiddenOverride

\* A scenario just made has no fields and no panel.
LEMMA PanelInit == Init => PanelInv
<1>1. SUFFICES ASSUME Init PROVE PanelInv
  OBVIOUS
<1>2. objects = [x \in Objects |-> <<>>] /\ mounted = {} /\ edits = 0
  BY <1>1 DEF Init, InitPanels
<1>3. \A x \in Objects : objects[x] = <<>>
  BY <1>2
<1>4. DOMAIN <<>> = {}
  OBVIOUS
<1>5. \A y : mounted # {y}
  BY <1>2
<1> QED
  BY <1>2, <1>3, <1>4, <1>5 DEF PanelInv, NoHiddenOverride

\* A patch of fields of the object's kind leaves it with such fields.
LEMMA PatchedNames ==
  ASSUME NEW x, NEW o, NEW p, DOMAIN o \subseteq FieldNames(x), DOMAIN p \subseteq FieldNames(x)
  PROVE DOMAIN Patched(o, p) \subseteq FieldNames(x)
BY PatchedIs

\* An object gets a patch of its own fields that keeps the panel honest.
LEMMA EditedKeeps ==
  ASSUME PanelInv, NEW x \in Objects, NEW i, UNCHANGED <<selected, mounted>>, edits' \in Nat,
         DOMAIN i.patch \subseteq FieldNames(x),
         x \in Cars => Honest(CarParts, i), x \in Rsus => Honest(RsuParts, i),
         objects' = [objects EXCEPT ![x] = Patched(@, i.patch)],
         mounted = {x} => shown' = (shown \cup i.on) \ i.off,
         mounted # {x} => shown' = shown
  PROVE PanelInv'
<1>1. /\ objects' = [y \in Objects |-> objects'[y]]
      /\ objects'[x] = Patched(objects[x], i.patch)
      /\ \A y \in Objects \ {x} : objects'[y] = objects[y]
  <2>1. DOMAIN objects = Objects
    BY DEF PanelInv
  <2> QED
    BY <2>1
<1>2. \A y \in Objects : DOMAIN objects'[y] \subseteq FieldNames(y)
  <2>1. DOMAIN objects[x] \subseteq FieldNames(x)
    BY DEF PanelInv
  <2>2. DOMAIN objects'[x] \subseteq FieldNames(x)
    BY <1>1, <2>1, PatchedNames
  <2> QED
    BY <1>1, <2>2 DEF PanelInv
<1>3. ASSUME NEW y \in Cars \cup Rsus, mounted' = {y}
      PROVE (IF y \in Cars THEN CarSwitches(objects'[y]) ELSE RsuSwitches(objects'[y])) \subseteq shown'
  <2>1. mounted = {y}
    BY <1>3
  <2>2. (IF y \in Cars THEN CarSwitches(objects[y]) ELSE RsuSwitches(objects[y])) \subseteq shown
    BY <2>1 DEF PanelInv, NoHiddenOverride
  <2>3. CASE y # x
    <3>1. mounted # {x}
      BY <2>1, <2>3
    <3> QED
      BY <1>1, <2>2, <2>3, <3>1 DEF Objects
  <2>4. CASE y = x
    <3>1. CASE x \in Cars
      BY <1>1, <2>1, <2>2, <2>4, <3>1, CarStaysShown
    <3>2. CASE x \notin Cars
      <4>1. x \in Rsus
        BY <2>4, <3>2
      <4> QED
        BY <1>1, <2>1, <2>2, <2>4, <3>2, <4>1, RsuStaysShown
    <3> QED
      BY <3>1, <3>2
  <2> QED
    BY <2>3, <2>4
<1>4. \A y : mounted' = {y} => selected' = {y}
  BY DEF PanelInv
<1>5. NoHiddenOverride'
  BY <1>3 DEF NoHiddenOverride
<1> QED
  BY <1>1, <1>2, <1>4, <1>5 DEF PanelInv

\* EditObject: the panel mounted is that of the object, or none of one object
\* is.
LEMMA EditObjectKeeps ==
  ASSUME PanelInv, EditObject, edits' \in Nat PROVE PanelInv'
<1>1. PICK x \in Objects :
        /\ selected = {x}
        /\ \E i \in Panel(x) :
             /\ objects' = [objects EXCEPT ![x] = Patched(@, i.patch)]
             /\ shown' = (shown \cup i.on) \ i.off
  BY DEF EditObject
<1>2. PICK i \in Panel(x) :
        /\ objects' = [objects EXCEPT ![x] = Patched(@, i.patch)]
        /\ shown' = (shown \cup i.on) \ i.off
  BY <1>1
<1>3. /\ DOMAIN i.patch \subseteq FieldNames(x)
      /\ x \in Cars => Honest(CarParts, i)
      /\ x \in Rsus => Honest(RsuParts, i)
  BY PanelProper
<1>4. UNCHANGED <<selected, mounted>>
  BY DEF EditObject
<1>5. CASE mounted = {x}
  BY <1>2, <1>3, <1>4, <1>5, EditedKeeps
<1>6. CASE mounted # {x}
  \* No panel of one object is mounted, and what is shown says nothing.
  <2>1. \A y : mounted # {y}
    BY <1>1, <1>6 DEF PanelInv
  <2>2. DOMAIN objects = Objects /\ DOMAIN objects[x] \subseteq FieldNames(x)
    BY DEF PanelInv
  <2>3. DOMAIN Patched(objects[x], i.patch) \subseteq FieldNames(x)
    BY <1>3, <2>2, PatchedNames
  <2>4. /\ objects' = [y \in Objects |-> objects'[y]]
        /\ objects'[x] = Patched(objects[x], i.patch)
        /\ \A y \in Objects \ {x} : objects'[y] = objects[y]
    BY <1>2, <2>2
  <2>5. \A y \in Objects : DOMAIN objects'[y] \subseteq FieldNames(y)
    BY <2>3, <2>4 DEF PanelInv
  <2>6. \A y : mounted' # {y}
    BY <1>4, <2>1
  <2> QED
    BY <2>4, <2>5, <2>6 DEF PanelInv, NoHiddenOverride
<1> QED
  BY <1>5, <1>6

\* EditRoute: the card of a route may write below a mounted panel, but to no
\* override.
LEMMA EditRouteKeeps ==
  ASSUME PanelInv, EditRoute, edits' \in Nat PROVE PanelInv'
<1>1. PICK c \in Cars : \E p \in RouteCard(objects[c]) :
        objects' = [objects EXCEPT ![c] = Patched(@, p)]
  BY DEF EditRoute
<1>2. PICK p \in RouteCard(objects[c]) : objects' = [objects EXCEPT ![c] = Patched(@, p)]
  BY <1>1
<1> DEFINE i == [patch |-> p, on |-> {}, off |-> {}]
<1>3. Proper(CarParts, CarNames, i)
  <2>1. i \in In(RouteCard(objects[c]))
    BY DEF In
  <2> QED
    BY <2>1, RouteCardProper
<1>4. c \in Objects /\ c \notin Rsus /\ FieldNames(c) = CarNames
  BY OneKind, NamesOfKind DEF Objects
<1>5. i.patch = p /\ (shown \cup i.on) \ i.off = shown
  OBVIOUS
<1>6. UNCHANGED <<selected, mounted>> /\ shown' = shown
  BY DEF EditRoute
<1>7. DOMAIN i.patch \subseteq FieldNames(c) /\ Honest(CarParts, i)
  BY <1>3, <1>4 DEF Proper
<1>8. objects' = [objects EXCEPT ![c] = Patched(@, i.patch)]
  BY <1>2, <1>5
<1> HIDE DEF i
<1> QED
  BY <1>4, <1>5, <1>6, <1>7, <1>8, EditedKeeps

\* EditBatch: with several objects selected no panel of one object is mounted.
LEMMA EditBatchKeeps ==
  ASSUME PanelInv, EditBatch, edits' \in Nat PROVE PanelInv'
<1>1. PICK p \in BatchFields(selected) :
        objects' = [x \in Objects |->
                      IF x \in selected THEN Patched(objects[x], p) ELSE objects[x]]
  BY DEF EditBatch
<1>2. \A y : mounted' # {y}
  <2>1. Cardinality(selected) > 1 /\ mounted' = mounted
    BY DEF EditBatch
  <2>2. ASSUME NEW y, selected = {y} PROVE FALSE
    <3>1. Cardinality(selected) = 1
      BY <2>2, FS_Singleton
    <3> QED
      BY <2>1, <3>1
  <2> QED
    BY <2>1, <2>2 DEF PanelInv
<1>3. \A x \in Objects : DOMAIN objects'[x] \subseteq FieldNames(x)
  <2>1. ASSUME NEW x \in Objects PROVE DOMAIN objects'[x] \subseteq FieldNames(x)
    <3>1. DOMAIN objects[x] \subseteq FieldNames(x)
      BY DEF PanelInv
    <3>2. CASE x \in selected
      <4>1. DOMAIN p \subseteq FieldNames(x)
        BY <3>2, BatchProper
      <4>2. objects'[x] = Patched(objects[x], p)
        BY <1>1, <3>2
      <4> QED
        BY <3>1, <4>1, <4>2, PatchedNames
    <3>3. CASE x \notin selected
      BY <1>1, <3>1, <3>3
    <3> QED
      BY <3>2, <3>3
  <2> QED
    BY <2>1
<1>4. objects' = [x \in Objects |-> objects'[x]]
  BY <1>1
<1> QED
  BY <1>2, <1>3, <1>4 DEF PanelInv, NoHiddenOverride

\* SelectObjects: a panel is kept for a second unit or reads the overrides of
\* the one selected.
LEMMA SelectKeeps ==
  ASSUME PanelInv, SelectObjects, edits' = edits PROVE PanelInv'
<1>1. PICK S \in {T \in SUBSET Objects : Cardinality(T) <= 2} :
        /\ S # selected
        /\ selected' = S
        /\ LET rsu == Cardinality(S) = 1 /\ S \subseteq Rsus
               stays == rsu /\ mounted # {} /\ mounted \subseteq Rsus
           IN  /\ mounted' = IF stays THEN mounted \cup S ELSE IF rsu THEN S ELSE {}
               /\ shown' = IF stays THEN shown
                           ELSE UNION {RsuSwitches(objects[x]) : x \in {y \in S : rsu}}
  BY DEF SelectObjects
<1>2. objects' = objects
  BY DEF SelectObjects
<1> DEFINE rsu == Cardinality(S) = 1 /\ S \subseteq Rsus
           stays == rsu /\ mounted # {} /\ mounted \subseteq Rsus
<1>3. CASE stays
  <2>1. mounted' = mounted \cup S /\ selected' = S
    BY <1>1, <1>3
  <2>2. \A y : mounted' # {y}
    <3>1. ASSUME NEW y, mounted' = {y} PROVE FALSE
      <4>1. mounted = {y}
        BY <1>3, <2>1, <3>1
      <4>2. selected = {y}
        BY <4>1 DEF PanelInv
      <4>3. S = {}
        BY <1>1, <2>1, <3>1, <4>2
      <4> QED
        BY <1>3, <4>3, FS_EmptySet
    <3> QED
      BY <3>1
  <2> QED
    BY <1>2, <2>2 DEF PanelInv, NoHiddenOverride
<1>4. CASE ~stays /\ rsu
  <2>1. mounted' = S /\ shown' = UNION {RsuSwitches(objects[x]) : x \in S} /\ selected' = S
    BY <1>1, <1>4
  <2>2. NoHiddenOverride'
    <3>1. ASSUME NEW x \in Cars \cup Rsus, mounted' = {x}
          PROVE (IF x \in Cars THEN CarSwitches(objects'[x]) ELSE RsuSwitches(objects'[x]))
                  \subseteq shown'
      <4>1. x \in S /\ x \notin Cars
        BY <1>4, <2>1, <3>1, OneKind
      <4> QED
        BY <1>2, <2>1, <4>1
    <3> QED
      BY <3>1 DEF NoHiddenOverride
  <2> QED
    BY <1>2, <2>1, <2>2 DEF PanelInv
<1>5. CASE ~rsu
  <2>1. mounted' = {}
    BY <1>1, <1>5
  <2> QED
    BY <1>2, <2>1 DEF PanelInv, NoHiddenOverride
<1> QED
  BY <1>3, <1>4, <1>5

\* SwitchMode: the advanced part of a car's panel reads the car's overrides as
\* it mounts.
LEMMA SwitchModeKeeps ==
  ASSUME PanelInv, SwitchMode, edits' = edits PROVE PanelInv'
<1>1. PICK x \in Objects \ Buildings :
        /\ selected = {x}
        /\ IF x \in Cars
           THEN IF advanced
                THEN mounted' = {} /\ shown' = {}
                ELSE mounted' = {x} /\ shown' = CarSwitches(objects[x])
           ELSE UNCHANGED <<mounted, shown>>
  BY DEF SwitchMode
<1>2. UNCHANGED <<objects, selected>>
  BY DEF SwitchMode
<1>3. CASE UNCHANGED <<mounted, shown>>
  BY <1>2, <1>3 DEF PanelInv, NoHiddenOverride
<1>4. CASE mounted' = {}
  BY <1>2, <1>4 DEF PanelInv, NoHiddenOverride
<1>5. CASE x \in Cars /\ mounted' = {x} /\ shown' = CarSwitches(objects[x])
  <2>1. \A y : mounted' = {y} => y = x
    BY <1>5
  <2> QED
    BY <1>1, <1>2, <1>5, <2>1 DEF PanelInv, NoHiddenOverride
<1> QED
  BY <1>1, <1>3, <1>4, <1>5

\* What is read of an object is part of what it holds.
LEMMA RereadFields ==
  ASSUME NEW x \in Objects, NEW lost
  PROVE /\ DOMAIN Reread(x, lost) = Restored(x)
        /\ Restored(x) \subseteq DOMAIN objects[x]
        /\ \A f \in Restored(x) \ {"rotation"} : Reread(x, lost)[f] = objects[x][f]
BY DEF Reread, Restored, Payload, FieldsOf

\* Reload: fewer fields, and no panel.
LEMMA ReloadKeeps ==
  ASSUME PanelInv, Reload PROVE PanelInv'
<1>1. PICK lost \in {0, 100} : objects' = [x \in Objects |-> Reread(x, lost)]
  BY DEF Reload
<1>2. mounted' = {} /\ edits' = edits
  BY DEF Reload
<1>3. \A x \in Objects : DOMAIN objects'[x] \subseteq FieldNames(x)
  <2>1. ASSUME NEW x \in Objects PROVE DOMAIN objects'[x] \subseteq FieldNames(x)
    <3>1. objects'[x] = Reread(x, lost)
      BY <1>1
    <3> QED
      BY <3>1, RereadFields DEF PanelInv
  <2> QED
    BY <2>1
<1>4. objects' = [x \in Objects |-> objects'[x]]
  BY <1>1
<1> QED
  BY <1>2, <1>3, <1>4 DEF PanelInv, NoHiddenOverride

\* The invariant holds in every behaviour, for any sets of objects, numbers and
\* edits.
THEOREM PanelsAreHonest == Spec => []PanelInv
<1>1. Init => PanelInv
  BY PanelInit
<1>2. PanelInv /\ [Next]_vars => PanelInv'
  <2>1. SUFFICES ASSUME PanelInv, [Next]_vars PROVE PanelInv'
    OBVIOUS
  <2>2. CASE Settings
    <3>1. UNCHANGED <<objects, selected, mounted, shown>> /\ edits' \in Nat
      BY <2>1, <2>2 DEF Settings, Counted, panelVars, PanelInv
    <3> QED
      BY <2>1, <3>1 DEF PanelInv, NoHiddenOverride
  <2>3. CASE Listing
    BY <2>1, <2>3 DEF Listing, panelVars, PanelInv, NoHiddenOverride
  <2>4. CASE Properties
    <3>1. edits' \in Nat
      BY <2>1, <2>4 DEF Properties, Counted, PanelInv
    <3>2. EditObject \/ EditRoute \/ EditBatch
      BY <2>4 DEF Properties, EditPanels
    <3> QED
      BY <2>1, <3>1, <3>2, EditObjectKeeps, EditRouteKeeps, EditBatchKeeps
  <2>5. CASE Browsing
    <3>1. edits' = edits /\ (SelectObjects \/ SwitchMode)
      BY <2>5 DEF Browsing, BrowsePanels
    <3> QED
      BY <2>1, <3>1, SelectKeeps, SwitchModeKeeps
  <2>6. CASE Reload
    BY <2>1, <2>6, ReloadKeeps
  <2>7. CASE UNCHANGED vars
    BY <2>1, <2>7 DEF vars, PanelInv, NoHiddenOverride
  <2> QED
    BY <2>1, <2>2, <2>3, <2>4, <2>5, <2>6, <2>7 DEF Next
<1> QED
  BY <1>1, <1>2, PTL DEF Spec

\* A panel that has shown one object only never hides an override this has, so that
\* no switch is turned on over a value the user gave (CarAdvanced, RsuAdvanced).
THEOREM OverridesStayShown == Spec => []NoHiddenOverride
<1>1. PanelInv => NoHiddenOverride
  BY DEF PanelInv
<1> QED
  BY <1>1, PanelsAreHonest, PTL

-----------------------------------------------------------------------------
(* What becomes of the fields.                                             *)

\* A field of a car is in a file, is saved, is only drawn or is blank words.
LEMMA CarFieldKept ==
  ASSUME NEW x \in Cars, NEW f \in CarNames \cap DOMAIN objects[x]
  PROVE \/ f \in Written(x) \cup Payload(x) \cup OnlyDrawn(x)
        \/ objects[x][f] = Text(EmptyText)
<1>1. /\ Written(x) = OpenCdaCar(objects[x]) \cup CarlaCar(objects[x]) \cup SumoCar(objects[x])
      /\ Payload(x) = FieldsOf(objects[x], SavedOfCar)
      /\ OnlyDrawn(x) = {"speed", "sensing"}
  BY OneKind DEF Written, Payload, OnlyDrawn
<1>2. CASE f \in SavedOfCar
  BY <1>1, <1>2 DEF FieldsOf
<1>3. CASE f \in {"id", "spawn_special"} \cup Services \cup SensingNumbers \cup SensingFlags
  BY <1>1, <1>3 DEF OpenCdaCar, FieldsOf
<1>4. CASE f = "name"
  BY <1>1, <1>4 DEF OpenCdaCar, Nonblank, Has
<1>5. CASE f \in {"speed", "sensing"}
  BY <1>1, <1>5
<1>6. f \in SavedOfCar \cup {"id", "spawn_special", "name", "speed", "sensing"} \cup Services
              \cup SensingNumbers \cup SensingFlags
  BY DEF CarNames, SavedOfCar, SensingBlock
<1> QED
  BY <1>2, <1>3, <1>4, <1>5, <1>6

\* Whatever fields a panel wrote on an object, each is written to a file or saved, but
\* for what is only drawn and for words left blank (buildScenarioPayload, exporters).
THEOREM FieldsReachAFileOrAreSaved == Spec => []EveryFieldIsKept
<1>1. PanelInv => EveryFieldIsKept
  <2>1. SUFFICES ASSUME PanelInv, NEW x \in Objects, NEW f \in DOMAIN objects[x]
                 PROVE \/ f \in Written(x) \cup Payload(x) \cup OnlyDrawn(x)
                       \/ objects[x][f] = Text(EmptyText)
    BY DEF EveryFieldIsKept
  <2>2. f \in FieldNames(x)
    BY <2>1 DEF PanelInv
  <2>3. CASE x \in Cars
    BY <2>1, <2>2, <2>3, NamesOfKind, CarFieldKept
  <2>4. CASE x \in Rsus
    BY <2>1, <2>2, <2>4, NamesOfKind, OneKind DEF Payload, FieldsOf
  <2>5. CASE x \in Buildings
    BY <2>1, <2>2, <2>5, NamesOfKind, OneKind DEF BuildingNames, Payload, FieldsOf, OnlyDrawn
  <2>6. CASE x \in Pedestrians
    BY <2>1, <2>2, <2>6, NamesOfKind, OneKind DEF Payload, FieldsOf
  <2>7. CASE x \in Lidars
    BY <2>1, <2>2, <2>7, NamesOfKind, OneKind DEF Payload, FieldsOf
  <2> QED
    BY <2>3, <2>4, <2>5, <2>6, <2>7 DEF Objects
<1> QED
  BY <1>1, PanelsAreHonest, PTL

\* What the radio, scene and traffic files show of an object is read again.
LEMMA FilesAreRestored ==
  ASSUME NEW x \in Objects
  PROVE (IF x \in Cars THEN (CarlaCar(objects[x]) \cup SumoCar(objects[x])) \ {"rotation"}
         ELSE Written(x))
          \subseteq Restored(x) \ {"rotation"}
<1>1. CASE x \in Cars
  <2>1. Restored(x) = FieldsOf(objects[x], SavedOfCar) \cap RestoredOfCar
    BY <1>1, OneKind DEF Restored, Payload
  <2>2. SumoCar(objects[x]) \subseteq FieldsOf(objects[x], SumoFields)
    BY DEF SumoCar, When
  <2> QED
    BY <1>1, <2>1, <2>2 DEF CarlaCar, FieldsOf, SavedOfCar, RestoredOfCar
<1>2. CASE x \in Rsus
  <2>1. Restored(x) = FieldsOf(objects[x], SavedOfRsu)
        /\ Written(x) = OpenCdaRsu(objects[x]) \cup RadioOfRsu(objects[x]) /\ x \notin Cars
    BY <1>2, OneKind DEF Restored, Payload, Written
  <2>2. OpenCdaRsu(objects[x]) \cup RadioOfRsu(objects[x]) \subseteq FieldsOf(objects[x], SavedOfRsu)
    BY DEF OpenCdaRsu, RadioOfRsu, FieldsOf, SavedOfRsu
  <2>3. "rotation" \notin SavedOfRsu
    BY AimServerFields DEF SavedOfRsu, AimWords, RsuLidarNumbers, SensingGnss
  <2> QED
    BY <2>1, <2>2, <2>3 DEF FieldsOf
<1>3. CASE x \in Buildings
  <2>1. Restored(x) = FieldsOf(objects[x], SavedOfBuilding)
        /\ Written(x) = SceneBuilding(objects[x]) /\ x \notin Cars
    BY <1>3, OneKind DEF Restored, Payload, Written
  <2> QED
    BY <2>1 DEF SceneBuilding, FieldsOf, SavedOfBuilding
<1>4. CASE x \in Pedestrians
  <2>1. Restored(x) = FieldsOf(objects[x], SavedOfPedestrian)
        /\ Written(x) = RadioOfPedestrian(objects[x]) /\ x \notin Cars
    BY <1>4, OneKind DEF Restored, Payload, Written
  <2> QED
    BY <2>1 DEF RadioOfPedestrian, FieldsOf, SavedOfPedestrian
<1>5. CASE x \in Lidars
  <2>1. Restored(x) = FieldsOf(objects[x], SavedOfLidar)
        /\ Written(x) = LidarInOpenCda(x) /\ x \notin Cars
    BY <1>5, OneKind DEF Restored, Payload, Written
  <2>2. LidarInOpenCda(x)
          \subseteq FieldsOf(objects[x], {"rotation_frequency", "channels", "range"})
    BY DEF LidarInOpenCda, When, FieldsOf
  <2> QED
    BY <2>1, <2>2 DEF FieldsOf, SavedOfLidar
<1> QED
  BY <1>1, <1>2, <1>3, <1>4, <1>5 DEF Objects

\* Saving and opening a scenario changes no field of the radio, scene and traffic files
\* but the turn of a car (buildScenarioPayload, restoreCars).
THEOREM OpenedAgainRunsTheSame == Spec => ReopenedRunsTheSame
<1> DEFINE kept(x) == IF x \in Cars
                      THEN (CarlaCar(objects[x]) \cup SumoCar(objects[x])) \ {"rotation"}
                      ELSE Written(x)
           Same == edits' = edits /\ objects' # objects =>
                     \A x \in Objects : /\ kept(x) \subseteq DOMAIN objects'[x]
                                        /\ \A f \in kept(x) : objects'[x][f] = objects[x][f]
<1>1. PanelInv /\ [Next]_vars => [Same]_vars
  <2>1. SUFFICES ASSUME PanelInv, Next, edits' = edits, objects' # objects
                 PROVE \A x \in Objects : /\ kept(x) \subseteq DOMAIN objects'[x]
                                          /\ \A f \in kept(x) : objects'[x][f] = objects[x][f]
    OBVIOUS
  <2>2. Reload
    <3>1. ~Counted
      BY <2>1 DEF Counted, PanelInv
    <3>2. ~Settings /\ ~Properties
      BY <3>1 DEF Settings, Properties
    <3>3. ~Listing /\ ~Browsing
      BY <2>1 DEF Listing, panelVars, Browsing, BrowsePanels, SelectObjects, SwitchMode
    <3> QED
      BY <2>1, <3>2, <3>3 DEF Next
  <2>3. PICK lost \in {0, 100} : objects' = [x \in Objects |-> Reread(x, lost)]
    BY <2>2 DEF Reload
  <2>4. ASSUME NEW x \in Objects
        PROVE /\ kept(x) \subseteq DOMAIN objects'[x]
              /\ \A f \in kept(x) : objects'[x][f] = objects[x][f]
    <3>1. kept(x) \subseteq Restored(x) \ {"rotation"}
      BY FilesAreRestored
    <3>2. objects'[x] = Reread(x, lost)
      BY <2>3
    <3> HIDE DEF kept
    <3> QED
      BY <3>1, <3>2, RereadFields
  <2> QED
    BY <2>4
<1> QED
  BY <1>1, PanelsAreHonest, PTL DEF Spec, ReopenedRunsTheSame
=============================================================================
