---------------------------- MODULE ObjectPanels ----------------------------
(***************************************************************************)
(* The properties panels of the editor: what each input of a car, a road-  *)
(* side unit, a building, a pedestrian or a lidar may write, which of the  *)
(* optional overrides a panel shows, and the panels' own state, which      *)
(* outlives a change of the selection when React keeps the component.      *)
(*                                                                         *)
(* An object holds the fields that were set; a cleared field is absent.    *)
(***************************************************************************)
EXTENDS ConfigForm

CONSTANTS
  Cars, Rsus, Buildings, Pedestrians, Lidars,
  Entered \* the numbers typed in a panel, in hundredths

ASSUME EnteredAssumption == Entered \subseteq Int

\* Every object has an id of its own.
ASSUME KindAssumption ==
  /\ Cars \cap (Rsus \cup Buildings \cup Pedestrians \cup Lidars) = {}
  /\ Rsus \cap (Buildings \cup Pedestrians \cup Lidars) = {}
  /\ Buildings \cap (Pedestrians \cup Lidars) = {}
  /\ Pedestrians \cap Lidars = {}

Objects == Cars \cup Rsus \cup Buildings \cup Pedestrians \cup Lidars

VARIABLES
  objects,  \* the fields set on each object
  selected, \* selectedIds
  advanced, \* propertiesMode is "advanced"
  mounted,  \* the objects the mounted panel has shown; it read the first's overrides
  shown     \* the override switches that are on in that panel

panelVars == <<objects, selected, advanced, mounted, shown>>

-----------------------------------------------------------------------------
(* Inputs of a panel: a patch, and the override switches it turns.         *)

Has(o, f) == f \in DOMAIN o
Is(o, f, default) == IF Has(o, f) THEN o[f] = Flag(TRUE) ELSE default
Flip(o, f, default) == {f :> Flag(~Is(o, f, default))}
Cleared(fs) == [f \in fs |-> Unset]

\* updateById: a patch over the object, whose undefined fields go.
Patched(o, p) ==
  LET all == p @@ o
  IN  [f \in {g \in DOMAIN all : all[g] # Unset} |-> all[f]]

In(patches) == {[patch |-> p, on |-> {}, off |-> {}] : p \in patches}
While(s, patches) == IF s \in shown THEN In(patches) ELSE {}

\* A switch that gives its fields these values, or clears them.
Switch(s, values) ==
  IF s \in shown
  THEN {[patch |-> Cleared(DOMAIN values), on |-> {}, off |-> {s}]}
  ELSE {[patch |-> values, on |-> {s}, off |-> {}]}

Entry(f, lo, hi) == {f :> Number(Within(n, lo, hi)) : n \in Entered}
AnyNumber(f) == Entry(f, NoMin, NoMax)
AllTyped(fs) == UNION {AnyNumber(f) : f \in fs}
OrCleared(f) == AnyNumber(f) \cup {Cleared({f})}
Colours(f) == {f :> Option(2)}
Nonblank(o, f) == Has(o, f) /\ o[f] # Text(EmptyText)

-----------------------------------------------------------------------------
(* Cars.                                                                   *)

CarEssentials ==
  In(Words("model") \cup AnyNumber("position") \cup Entry("scale", 10, 500)
       \cup Entry("speed", 0, 25000) \cup Choice("color"))

CarIdentity ==
  Switch("name", "name" :> Text(1)) \cup While("name", Words("name"))
    \cup Switch("id", "id" :> Number(10000)) \cup While("id", AnyNumber("id"))
CarModel ==
  Switch("model", "carla_model" :> Text(1)) \cup While("model", Words("carla_model"))
CarColor ==
  Switch("color", "cav_color" :> Option(1)) \cup While("color", Colours("cav_color"))
CarKinematics ==
  Switch("max_speed", "max_speed" :> Number(6000))
    \cup While("max_speed", AnyNumber("max_speed"))
    \cup Switch("collision", "collision_time_ahead" :> Number(200))
    \cup While("collision", AnyNumber("collision_time_ahead"))

PlannerFlags == {"planner.debug", "planner.debug_trajectory"}
CarLocalPlannerDebug(o) ==
  Switch("planner", [f \in PlannerFlags |-> Flag(TRUE)])
    \cup While("planner", UNION {Flip(o, f, FALSE) : f \in PlannerFlags})
BehaviorFlags == {"ignore_traffic_light", "overtake_allowed"}
CarBehaviorFlags(o) ==
  Switch("flags", [f \in BehaviorFlags |-> Flag(FALSE)])
    \cup While("flags", UNION {Flip(o, f, FALSE) : f \in BehaviorFlags})
CarV2X(o) ==
  Switch("v2x", ("v2x.enabled" :> Flag(TRUE)) @@ ("v2x.range" :> Number(4500)))
    \cup While("v2x", Flip(o, "v2x.enabled", TRUE) \cup AnyNumber("v2x.range"))

\* A service is a field; the value of the AIM client's is its debug flag.
AimClient == "service.aim_client"
Services == {"service.self_informer", "service.movement_controller", AimClient}
AimStack(debug) ==
  [f \in Services |-> IF f = AimClient THEN Flag(debug) ELSE Flag(TRUE)]
ToggleService(o, f) ==
  IF Has(o, f) THEN Cleared({f}) ELSE f :> AimStack(FALSE)[f]
CarBehaviorServices(o) ==
  Switch("services", AimStack(FALSE))
    \cup While("services",
               {ToggleService(o, f) : f \in Services}
                 \cup (IF Has(o, AimClient) THEN Flip(o, AimClient, FALSE) ELSE {}))

\* The button that applies the AIM preset and shows what it sets.
CarPreset(o) ==
  {[patch |-> ("id" :> IF Has(o, "id") THEN o["id"] ELSE Number(10000))
                @@ ("cav_color" :> Option(1)) @@ AimStack(TRUE),
    on |-> {"id", "color", "services"}, off |-> {}]}

SensingNumbers ==
  {"sensing.camera_visualize", "sensing.camera_num", "sensing.lidar_channels",
   "sensing.lidar_range"}
SensingFlags == {"sensing.perception_activate", "sensing.lidar_visualize"}
SensingBlock == {"sensing"} \cup SensingNumbers \cup SensingFlags
CarSensingFields(o) ==
  (UNION {OrCleared(f) : f \in SensingNumbers})
    \cup (UNION {Flip(o, f, FALSE) : f \in SensingFlags})
CarRareSection(o) ==
  (IF "rare" \in shown
   THEN {[patch |-> Cleared({"spawn_special"} \cup SensingBlock), on |-> {}, off |-> {"rare"}]}
   ELSE {[patch |-> <<>>, on |-> {"rare"}, off |-> {}]})
  \cup While("rare",
         (IF Has(o, "spawn_special")
          THEN {Cleared({"spawn_special"})} \cup Entry("spawn_special", 0, 100)
          ELSE {"spawn_special" :> Number(50)})
         \cup (IF Has(o, "sensing")
               THEN {Cleared(SensingBlock)} \cup CarSensingFields(o)
               ELSE {"sensing" :> Flag(TRUE)}))

CarAdvanced(o) ==
  CarPreset(o) \cup CarIdentity \cup CarModel \cup CarColor \cup CarKinematics
    \cup CarLocalPlannerDebug(o) \cup CarBehaviorFlags(o) \cup CarV2X(o)
    \cup CarBehaviorServices(o) \cup CarRareSection(o)

\* The switches that are on when the advanced part of a car's panel mounts.
CarSwitches(o) ==
  {s \in {"name"} : Nonblank(o, "name")} \cup {s \in {"id"} : Has(o, "id")}
    \cup {s \in {"model"} : Nonblank(o, "carla_model")}
    \cup {s \in {"color"} : Has(o, "cav_color")}
    \cup {s \in {"max_speed"} : Has(o, "max_speed")}
    \cup {s \in {"collision"} : Has(o, "collision_time_ahead")}
    \cup {s \in {"planner"} : \E f \in PlannerFlags : Has(o, f)}
    \cup {s \in {"flags"} : \E f \in BehaviorFlags : Has(o, f)}
    \cup {s \in {"v2x"} : Has(o, "v2x.enabled")}
    \cup {s \in {"services"} : \E f \in Services : Has(o, f)}
    \cup {s \in {"rare"} : Has(o, "spawn_special") \/ Has(o, "sensing")}

StopNumbers == {"stop.start", "stop.end", "stop.duration"}
StaticStop(o) ==
  IF Has(o, "stop.lane")
  THEN {Cleared({"stop.lane"} \cup StopNumbers)} \cup Words("stop.lane") \cup AllTyped(StopNumbers)
  ELSE {("stop.lane" :> Text(EmptyText)) @@ ("stop.start" :> Number(0))
          @@ ("stop.end" :> Number(500)) @@ ("stop.duration" :> Number(10000000))}

\* The card of a car in the SUMO tab of the settings.
RouteCard(o) ==
  AllWords({"sumo_edges", "sumo_depart_lane"})
    \cup (UNION {OrCleared(f) : f \in {"sumo_depart", "sumo_max_speed", "sumo_depart_pos"}})
    \cup {"sumo_vtype" :> Text(EmptyText)}
    \cup {"sumo_vtype" :> Option(lists.vtypes[i]) : i \in DOMAIN lists.vtypes}
    \cup StaticStop(o)

-----------------------------------------------------------------------------
(* Roadside units.                                                         *)

RsuEssentials ==
  In(AllTyped({"position", "tx_power", "range", "frequency", "beacon_interval"})
       \cup Choice("protocol"))

\* The one service of a unit, at the unit's position.
AimNumbersOf == {"aim.radius", "aim.channels"}
AimWords == {"aim.model", "aim.underling_model", "aim.weight"}
AimServer(o) ==
  [f \in AimWords |-> Text(1)] @@ ("aim.debug" :> Flag(TRUE))
    @@ ("aim.radius" :> Number(1500)) @@ ("aim.channels" :> Number(12800))
    @@ ("aim.priority" :> Number(100))
    @@ ("aim.center" :> IF Has(o, "position") THEN o["position"] ELSE Option(1))
AimFields == DOMAIN AimServer(<<>>)

\* A priority is cut to a whole number; what is no number becomes NaN.
WholePart(n) == IF n < 0 THEN -((-n \div 100) * 100) ELSE (n \div 100) * 100
AIMServerEditor(o) ==
  Flip(o, "aim.debug", FALSE) \cup AllTyped(AimNumbersOf \cup {"aim.center"}) \cup AllWords(AimWords)
    \cup {"aim.priority" :> Number(WholePart(n)) : n \in Entered}
    \cup {"aim.priority" :> Undefined}
RsuBehaviorServices(o) ==
  (IF "services" \in shown
   THEN {[patch |-> Cleared(AimFields), on |-> {}, off |-> {"services"}]}
   ELSE {[patch |-> AimServer(o), on |-> {"services"}, off |-> {}]})
  \cup (IF Has(o, "aim.debug") THEN While("services", AIMServerEditor(o)) ELSE {})

\* Seeded bug: the preset gives an id without turning its switch on.
RsuPresetUnshown(o) ==
  {[patch |-> ("id" :> Number(100)) @@ AimServer(o), on |-> {"services"}, off |-> {}]}

RsuPreset(o) ==
  {[patch |-> ("id" :> IF Has(o, "id") THEN o["id"] ELSE Number(100)) @@ AimServer(o),
    on |-> {"id", "services"}, off |-> {}]}

RsuIdentity ==
  Switch("name", "name" :> Text(1)) \cup While("name", Words("name"))
    \cup Switch("id", "id" :> Number(100)) \cup While("id", AnyNumber("id"))
RsuColor ==
  Switch("color", "rsu_color" :> Option(1)) \cup While("color", Colours("rsu_color"))

SensingPerception(o) ==
  Flip(o, "sensing.perception_activate", FALSE) \cup AnyNumber("sensing.detection_range")
SensingCamera == AllTyped({"sensing.camera_visualize", "sensing.camera_num"})
RsuLidarNumbers ==
  {"sensing.lidar_channels", "sensing.lidar_range", "sensing.lidar_upper_fov",
   "sensing.lidar_lower_fov", "sensing.lidar_rotation_frequency",
   "sensing.lidar_points_per_second", "sensing.lidar_dropoff_general_rate",
   "sensing.lidar_dropoff_intensity_limit", "sensing.lidar_dropoff_zero_intensity",
   "sensing.lidar_noise_stddev"}
SensingLidar(o) == Flip(o, "sensing.lidar_visualize", TRUE) \cup AllTyped(RsuLidarNumbers)
SensingGnss ==
  {"sensing.gnss_noise_alt_stddev", "sensing.gnss_noise_lat_stddev",
   "sensing.gnss_noise_lon_stddev"}
SensingLocalization(o) ==
  Flip(o, "sensing.localization_activate", TRUE) \cup AllTyped(SensingGnss)
RsuScript == Words("scenario")

RsuAdvanced(o) ==
  RsuPreset(o) \cup RsuIdentity \cup RsuColor \cup RsuBehaviorServices(o)
    \cup In(SensingPerception(o) \cup SensingCamera \cup SensingLidar(o)
              \cup SensingLocalization(o) \cup RsuScript)
RsuSwitches(o) ==
  {s \in {"name"} : Nonblank(o, "name")} \cup {s \in {"id"} : Has(o, "id")}
    \cup {s \in {"color"} : Has(o, "rsu_color")}
    \cup {s \in {"services"} : Has(o, "aim.debug")}

-----------------------------------------------------------------------------
(* Pedestrians, buildings and lidars.                                      *)

PedestrianEssentials(o) ==
  In(AllTyped({"position", "speed"}) \cup Entry("cross_factor", 0, 100)
       \cup Flip(o, "is_invincible", FALSE))
PedestrianV2X ==
  In(AllTyped({"tx_power", "beacon_interval", "frequency"}) \cup Choice("protocol"))
BuildingPanel == In(AllTyped({"position", "height"}) \cup Choice("material"))
LidarEssentials == In(AnyNumber("position") \cup Entry("range", 500, 20000))
LidarAdvanced ==
  In(Entry("channels", 100, 12800) \cup Entry("rotation_frequency", 100, 5000))

Panel(x) ==
  LET o == objects[x]
  IN  CASE x \in Cars -> CarEssentials \cup (IF advanced THEN CarAdvanced(o) ELSE {})
        [] x \in Rsus -> RsuEssentials \cup (IF advanced THEN RsuAdvanced(o) ELSE {})
        [] x \in Buildings -> BuildingPanel
        [] x \in Pedestrians ->
             PedestrianEssentials(o) \cup (IF advanced THEN PedestrianV2X ELSE {})
        [] x \in Lidars -> LidarEssentials \cup (IF advanced THEN LidarAdvanced ELSE {})

-----------------------------------------------------------------------------
(* Several selected objects.                                               *)

\* parseBatchValue: what lies outside the field's bounds is refused.
Refusing(f, lo, hi) == {f :> Number(n) : n \in {m \in Entered : Within(m, lo, hi) = m}}
FewTurns == 100000 \* bound on the degrees typed, in hundredths
Turned == Refusing("rotation", -FewTurns, FewTurns)
BatchFields(S) ==
  (IF S \cap Lidars = {} \/ S \subseteq Lidars
   THEN Refusing("position", NoMin, NoMax) ELSE {})
  \cup (IF S \subseteq Cars
        THEN Refusing("speed", 0, 25000) \cup Choice("color")
               \cup Refusing("scale", 10, 500) \cup Turned ELSE {})
  \cup (IF S \subseteq Rsus
        THEN Refusing("range", 0, NoMax) \cup Refusing("tx_power", NoMin, NoMax)
               \cup Choice("protocol") ELSE {})
  \cup (IF S \subseteq Buildings
        THEN Refusing("height", 10, NoMax) \cup Choice("material")
               \cup Refusing("scale", 10, 500) \cup Turned ELSE {})
  \cup (IF S \subseteq Pedestrians
        THEN Refusing("speed", 0, NoMax) \cup Choice("protocol") ELSE {})
  \cup (IF S \subseteq Lidars
        THEN Refusing("range", 10, NoMax) \cup Refusing("rotation_frequency", 10, NoMax)
               \cup {"channels" :> Number(n) : n \in {m \in Entered : m >= 100 /\ m % 100 = 0}}
        ELSE {})

-----------------------------------------------------------------------------
(* Actions.                                                                *)

InitPanels ==
  /\ objects = [x \in Objects |-> <<>>]
  /\ selected = {} /\ advanced = FALSE
  /\ mounted = {} /\ shown = {}

\* A road-side unit selected after another one is shown by the same
\* component, which keeps the switches of the first.
SelectObjects ==
  /\ \E S \in {T \in SUBSET Objects : Cardinality(T) <= 2} :
       /\ S # selected
       /\ selected' = S
       /\ LET rsu == Cardinality(S) = 1 /\ S \subseteq Rsus
              stays == rsu /\ mounted # {} /\ mounted \subseteq Rsus
          IN  /\ mounted' = IF stays THEN mounted \cup S ELSE IF rsu THEN S ELSE {}
              /\ shown' = IF stays THEN shown
                          ELSE UNION {RsuSwitches(objects[x]) : x \in {y \in S : rsu}}
  /\ advanced' = FALSE
  /\ UNCHANGED objects

SwitchMode ==
  /\ \E x \in Objects \ Buildings :
       /\ selected = {x}
       /\ advanced' = ~advanced
       /\ IF x \in Cars
          THEN IF advanced
               THEN mounted' = {} /\ shown' = {}
               ELSE mounted' = {x} /\ shown' = CarSwitches(objects[x])
          ELSE UNCHANGED <<mounted, shown>>
  /\ UNCHANGED <<objects, selected>>

EditObject ==
  /\ \E x \in Objects :
       /\ selected = {x}
       /\ \E i \in Panel(x) :
            /\ objects' = [objects EXCEPT ![x] = Patched(@, i.patch)]
            /\ shown' = (shown \cup i.on) \ i.off
  /\ UNCHANGED <<selected, advanced, mounted>>

EditRoute ==
  /\ \E c \in Cars : \E p \in RouteCard(objects[c]) :
       objects' = [objects EXCEPT ![c] = Patched(@, p)]
  /\ UNCHANGED <<selected, advanced, mounted, shown>>

EditBatch ==
  /\ Cardinality(selected) > 1
  /\ \E p \in BatchFields(selected) :
       objects' = [x \in Objects |->
                     IF x \in selected THEN Patched(objects[x], p) ELSE objects[x]]
  /\ UNCHANGED <<selected, advanced, mounted, shown>>

BrowsePanels == SelectObjects \/ SwitchMode
EditPanels == EditObject \/ EditRoute \/ EditBatch
=============================================================================
