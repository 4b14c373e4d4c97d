--------------------------- MODULE OperationPath ---------------------------
(***************************************************************************)
(* The way of a printer operation: the JSON request of a browser or of the  *)
(* plugin, the operation the hub makes of it and validates, the message on  *)
(* the wire, and the operation the agent makes of that and validates again. *)
(* Each stage has its own idea of an absent value: a missing or a null      *)
(* field, an option, protobuf's zero and empty string.  What the printer is *)
(* told then is PrinterCommands; who may answer a print error is            *)
(* ErrorRecovery.                                                          *)
(***************************************************************************)
EXTENDS Integers, Sequences, FiniteSets

CONSTANTS
    Missing, \* the field is not in the request
    Null,    \* the field is null; also None of an option
    Values,  \* the values of each field that are tried, as a sequence
    MaxValues, \* bound: the length of the longest
    Strays,  \* fields that are tried with every action
    MaxI32,  \* the largest signed 32-bit number
    Models   \* "H2C", "other" with live controls, "unsupported" without

Rack == {"holder_action", "nozzle_id"}
Fan == {"fan_index", "speed_percent", "airduct"}
Drying == {"duration_hours", "filament", "rotate_tray"}
Material == {"ams_id", "slot_id", "global_tray_id", "external_id"} \cup Drying
Ams == Material \cup Fan \cup {"extruder_id", "light_on"}
Axis == {"axes", "movements", "feedrate"}
Thermal == {"temperature", "wait"}
NonRack == {"speed_mode"} \cup Axis \cup Thermal \cup Ams
PluginTransport == {"print_error", "printer_job_id", "sequence_id"}
Native == PluginTransport \cup {"error_action", "error_generation"}
Operation == NonRack \cup Rack
Mapping == {"version", "v0", "groups"}
Fields == Operation \cup Native \cup Mapping \cup {"param", "required"}

PathAssumption ==
    /\ DOMAIN Values = Fields /\ Strays \subseteq Fields
    /\ \A f \in Fields : Len(Values[f]) \in 1..MaxValues
    /\ MaxI32 \in Nat \ {0}
    /\ Models \subseteq {"H2C", "other", "unsupported"}

Plain == {"pause", "resume", "stop", "toggle_light"}
RackActions == {"nozzle_holder_ctrl", "nozzle_info_confirm", "holder_nozzle_refresh"}
FilamentActions == {"ams_load_filament", "ams_unload_filament"}
BedChamber == {"set_bed_temperature", "set_chamber_temperature"}
Actions == Plain \cup RackActions \cup FilamentActions \cup BedChamber \cup
    {"set_chamber_light", "set_print_speed", "set_fan_speed", "select_extruder", "home",
     "move_axes", "set_hotend_temperature", "ams_reread_rfid", "ams_start_drying",
     "ams_stop_drying", "gcode_line", "handle_print_error", "get_auto_nozzle_mapping"}

VARIABLES
    stage,   \* how far the request came
    request, \* endpoint, action and fields of the request
    model,   \* the printer's model
    hubOp,   \* the hub's operation
    wire,    \* the message to the agent
    agentOp  \* the agent's operation

vars == <<stage, request, model, hubOp, wire, agentOp>>

Given(f) == request.f[f] \notin {Missing, Null}

\* The fields an operation carries.
Carries(action) ==
    CASE action \in Plain -> {}
      [] action = "set_chamber_light" -> {"light_on"}
      [] action = "set_print_speed" -> {"speed_mode"}
      [] action = "set_fan_speed" -> Fan
      [] action = "select_extruder" -> {"extruder_id"}
      [] action = "home" -> {"axes", "required"}
      [] action = "move_axes" -> {"movements", "feedrate", "required"}
      [] action = "set_hotend_temperature" -> Thermal \cup {"extruder_id"}
      [] action \in BedChamber -> Thermal
      [] action = "ams_reread_rfid" -> {"ams_id", "slot_id"}
      [] action \in FilamentActions ->
           {"ams_id", "slot_id", "global_tray_id", "external_id", "extruder_id"}
      [] action = "ams_start_drying" -> {"ams_id", "temperature"} \cup Drying
      [] action = "ams_stop_drying" -> {"ams_id"}
      [] action = "nozzle_holder_ctrl" -> {"holder_action"}
      [] action \in RackActions -> {"nozzle_id"}
      [] action = "gcode_line" -> {"param"}
      [] action = "handle_print_error" -> PluginTransport \cup {"error_action"}
      [] OTHER -> Mapping

\* Fields that may be left out: a default or None takes their place.
Optional == {"axes", "movements", "feedrate", "wait", "rotate_tray", "global_tray_id",
             "external_id", "required"} \cup Mapping

Requires(action) ==
    (Carries(action) \ Optional)
        \ (IF action \in FilamentActions \cup {"set_hotend_temperature"}
           THEN {"extruder_id"} ELSE {})

Default(f) == CASE f \in {"axes", "movements", "required"} -> <<>>
                [] f \in {"wait", "rotate_tray"} -> FALSE
                [] OTHER -> Null

\* Every variable has its type: an operation's lists are lists.
TypeOK ==
    /\ stage \in {"idle", "requested", "refused", "recovery", "queued", "live", "wired",
                  "parsed", "rejected"}
    /\ model \in Models
    /\ stage \in {"queued", "live", "wired", "parsed"} =>
          /\ hubOp.type \in Actions
          /\ DOMAIN hubOp.f = Carries(hubOp.type)
          /\ \A f \in DOMAIN hubOp.f \cap {"axes", "movements", "required"} :
                hubOp.f[f] # Null
    /\ stage = "parsed" => DOMAIN agentOp.f = Carries(agentOp.type)

Init ==
    /\ stage = "idle"
    /\ request = Null
    /\ model \in Models
    /\ hubOp = Null /\ wire = Null /\ agentOp = Null

-----------------------------------------------------------------------------
(* The request *)

\* A field can be missing, null, or hold a value.
Form(f, i) == CASE i = -1 -> Missing
                [] i = 0 -> Null
                [] OTHER -> Values[f][i]

\* A request with the fields its action carries, each in some form, and
\* perhaps one more.
Submit(endpoint, action) ==
    /\ stage = "idle"
    /\ endpoint = "h2c" <=> action = "get_auto_nozzle_mapping"
    /\ \E pick \in [Carries(action) -> -1..MaxValues] :
          /\ \A f \in Carries(action) : pick[f] <= Len(Values[f])
          /\ \E stray \in (Strays \ Carries(action)) \cup {Missing} :
                request' = [endpoint |-> endpoint, action |-> action,
                            f |-> [f \in Fields |->
                               CASE f \in Carries(action) -> Form(f, pick[f])
                                 [] f = stray -> Form(f, 1)
                                 [] OTHER -> Missing]]
    /\ stage' = "requested"
    /\ UNCHANGED <<model, hubOp, wire, agentOp>>

NoneOf(set) == \A f \in set : request.f[f] = Missing
AllOf(set) == \A f \in set : Given(f)

\* device_features::from_request
RequiredFeaturesFit ==
    CASE request.f["required"] = Missing -> TRUE
      [] request.f["required"] = Null -> FALSE
      [] request.f["required"] = <<>> -> TRUE
      [] OTHER -> request.action \in {"home", "move_axes"}

\* The fields whose presence refuses the action.
Refuses(action) ==
    CASE action \in Plain -> Operation
      [] action \in RackActions -> NonRack \cup (Rack \ Carries(action))
      [] action = "set_chamber_light" ->
           {"speed_mode", "extruder_id"} \cup Fan \cup Axis \cup Thermal \cup Material \cup Rack
      [] action = "set_print_speed" -> Axis \cup Thermal \cup Ams \cup Rack
      [] action = "set_fan_speed" ->
           {"speed_mode", "extruder_id", "light_on"} \cup Axis \cup Thermal \cup Material \cup Rack
      [] action = "select_extruder" ->
           {"speed_mode"} \cup Fan \cup Axis \cup Thermal \cup Material \cup Rack
      [] action = "home" ->
           {"speed_mode", "movements", "feedrate"} \cup Thermal \cup Ams \cup Rack
      [] action = "move_axes" -> {"speed_mode", "axes"} \cup Thermal \cup Ams \cup Rack
      [] action = "set_hotend_temperature" ->
           {"speed_mode"} \cup Fan \cup Axis \cup Material \cup Rack
      [] action \in BedChamber -> {"speed_mode"} \cup Axis \cup Ams \cup Rack
      [] action = "ams_reread_rfid" ->
           {"speed_mode", "global_tray_id", "external_id", "extruder_id"} \cup Axis \cup Thermal
               \cup Drying \cup Rack
      [] action \in FilamentActions -> {"speed_mode"} \cup Axis \cup Thermal \cup Drying \cup Rack
      [] action = "ams_start_drying" ->
           {"speed_mode", "wait", "slot_id", "global_tray_id", "external_id", "extruder_id",
            "light_on"} \cup Axis \cup Rack
      [] action = "ams_stop_drying" ->
           {"speed_mode", "slot_id", "global_tray_id", "external_id", "extruder_id", "light_on"}
               \cup Axis \cup Thermal \cup Drying \cup Rack
      [] OTHER -> Fields

\* into_tenant_operation, except for handle_print_error.
TenantAccepts ==
    /\ NoneOf({"param"}) /\ RequiredFeaturesFit
    /\ NoneOf(Native)
    /\ NoneOf(Refuses(request.action))
    /\ AllOf(Requires(request.action))

\* A browser's answer to a print error names the occurrence and nothing else.
TenantRecoveryAccepts ==
    /\ request.action = "handle_print_error"
    /\ NoneOf({"param"}) /\ RequiredFeaturesFit
    /\ NoneOf(Operation) /\ NoneOf(PluginTransport)
    /\ AllOf({"error_action", "error_generation"})

PluginAccepts ==
    CASE request.action = "gcode_line" ->
           /\ Given("param") /\ NoneOf({"required"} \cup Operation \cup Native)
      [] request.action = "handle_print_error" ->
           /\ NoneOf({"param"}) /\ RequiredFeaturesFit
           /\ NoneOf(Operation) /\ NoneOf({"error_generation"})
           /\ AllOf(PluginTransport \cup {"error_action"})
           /\ request.f["sequence_id"] # 0 /\ request.f["print_error"] \in 1..MaxI32
      [] OTHER -> TenantAccepts

\* get_auto_nozzle_mapping refuses unknown fields and every other model.
MappingAccepts ==
    /\ model = "H2C"
    /\ NoneOf(Fields \ (Mapping \cup {"sequence_id"}))

OperationOf(r) ==
    [type |-> r.action,
     f |-> [f \in Carries(r.action) |->
              IF r.f[f] \in {Missing, Null} THEN Default(f) ELSE r.f[f]]]

-----------------------------------------------------------------------------
(* The operation's own limits, checked by the hub and again by the agent *)

ValidMovements(movements) ==
    /\ movements # <<>>
    /\ \A i \in 1..Len(movements) :
          /\ movements[i][2] # 0 /\ movements[i][2] \in -50..50
          /\ \A j \in 1..(i - 1) : movements[j][1] # movements[i][1]

\* Mutant: the lower limit of the feedrate is forgotten.
ValidFeedrateUpTo(feedrate) == feedrate = Null \/ feedrate \in 0..12000

ValidFeedrate(feedrate) == feedrate = Null \/ feedrate \in 1..12000

ValidHomeFeatures(axes, required) ==
    required = <<>> \/ (axes = <<>> /\ required = <<"homing">>)

ValidMoveFeatures(movements, feedrate, required) ==
    \/ required = <<>>
    \/ /\ Len(movements) = 1 /\ feedrate = Null
       /\ movements[1][2] \in {-10, -1, 1, 10}
       /\ required = <<"axis">>

ValidExtruder(id) == id = Null \/ id \in 0..1
ValidSlot(ams, slot) == ams \in 0..255 /\ slot \in 0..255
ValidRackNozzle(id) == id \in 16..21 \/ id = 255

\* H2cAutoNozzleMappingRequest::is_valid, its lists as "ok", "empty" or absent.
ValidMapping(f) ==
    CASE f["version"] = 1 -> f["v0"] = Null /\ f["groups"] = "ok"
      [] f["version"] \in {Null, 0} -> f["groups"] = Null /\ f["v0"] = "ok"
      [] OTHER -> FALSE

Validate(op) ==
    LET f == op.f IN
    CASE op.type = "get_auto_nozzle_mapping" -> ValidMapping(f)
      [] op.type = "nozzle_holder_ctrl" -> f["holder_action"] \in 0..2
      [] op.type \in RackActions -> ValidRackNozzle(f["nozzle_id"])
      [] op.type = "handle_print_error" -> f["print_error"] \in 1..MaxI32
      [] op.type = "set_print_speed" -> f["speed_mode"] \in 1..4
      [] op.type = "set_fan_speed" -> f["fan_index"] \in 1..3 /\ f["speed_percent"] \in 0..100
      [] op.type = "select_extruder" -> ValidExtruder(f["extruder_id"])
      [] op.type = "home" -> ValidHomeFeatures(f["axes"], f["required"])
      [] op.type = "move_axes" ->
           /\ ValidMovements(f["movements"]) /\ ValidFeedrate(f["feedrate"])
           /\ ValidMoveFeatures(f["movements"], f["feedrate"], f["required"])
      [] op.type = "set_hotend_temperature" ->
           f["temperature"] \in 0..300 /\ ValidExtruder(f["extruder_id"])
      [] op.type = "set_bed_temperature" -> f["temperature"] \in 0..120
      [] op.type = "set_chamber_temperature" -> f["temperature"] \in 0..70
      [] op.type = "ams_reread_rfid" -> ValidSlot(f["ams_id"], f["slot_id"])
      [] op.type \in FilamentActions ->
           ValidSlot(f["ams_id"], f["slot_id"]) /\ ValidExtruder(f["extruder_id"])
      [] op.type = "ams_start_drying" ->
           /\ f["ams_id"] \in 0..255 /\ f["temperature"] \in 45..85
           /\ f["duration_hours"] \in 1..24 /\ f["filament"] # ""
      [] op.type = "ams_stop_drying" -> f["ams_id"] \in 0..255
      [] OTHER -> TRUE

-----------------------------------------------------------------------------
(* The hub *)

\* enqueue_printer_operation_with_audit: only for printers with live controls,
\* rack operations only for an H2C.
Enqueues(op) ==
    /\ op.type # "handle_print_error" /\ Validate(op)
    /\ model # "unsupported"
    /\ op.type \in RackActions => model = "H2C"

\* create_printer_operation_sent_with_audit
Dispatches(op) ==
    /\ Validate(op)
    /\ "required" \in DOMAIN op.f => op.f["required"] = <<>>

Route ==
    /\ stage = "requested"
    /\ LET op == OperationOf(request)
           accepted == CASE request.endpoint = "tenant" -> TenantAccepts
                         [] request.endpoint = "plugin" -> PluginAccepts
                         [] OTHER -> MappingAccepts
           live == request.action \in {"handle_print_error", "get_auto_nozzle_mapping"} IN
       IF request.endpoint = "tenant" /\ request.action = "handle_print_error"
       THEN /\ stage' = IF TenantRecoveryAccepts THEN "recovery" ELSE "refused"
            /\ UNCHANGED hubOp
       ELSE IF accepted /\ (IF live THEN Dispatches(op) ELSE Enqueues(op))
       THEN stage' = (IF live THEN "live" ELSE "queued") /\ hubOp' = op
       ELSE stage' = "refused" /\ UNCHANGED hubOp
    /\ UNCHANGED <<request, model, wire, agentOp>>

\* proto_printer_operation: what protobuf says for a value that is not there.
ProtoValue(op, f) ==
    CASE op.f[f] # Null -> op.f[f]
      [] f = "feedrate" -> 0
      [] f = "global_tray_id" -> op.f["ams_id"] * 4 + op.f["slot_id"]
      [] f = "external_id" -> ""
      [] f \in {"v0", "groups"} -> "empty"
      [] OTHER -> Null

\* hub_command_from_record of a queued operation, or
\* live_printer_operation_hub_command, which never requires a feature.
ProtoPrinterOperation ==
    /\ stage \in {"queued", "live"}
    /\ wire' = [type |-> hubOp.type,
                f |-> [f \in Carries(hubOp.type) \ {"required"} |-> ProtoValue(hubOp, f)],
                features |-> IF stage = "queued" /\ "required" \in DOMAIN hubOp.f
                             THEN hubOp.f["required"] ELSE <<>>]
    /\ stage' = "wired"
    /\ UNCHANGED <<request, model, hubOp, agentOp>>

-----------------------------------------------------------------------------
(* The agent *)

\* parse_required_device_features: at most one, of a kind the agent knows.
FeaturesParse(w) ==
    /\ Len(w.features) <= 1
    /\ w.features # <<>> => w.type \in {"home", "move_axes"}

ParsedValue(w, f) ==
    CASE f = "required" -> w.features
      [] f = "feedrate" /\ w.f[f] = 0 -> Null
      [] f = "external_id" /\ w.f[f] = "" -> Null
      [] f = "v0" /\ w.f["version"] = 1 -> Null
      [] f = "groups" /\ w.f["version"] # 1 -> Null
      [] OTHER -> w.f[f]

ParsePrinterOperation ==
    /\ stage = "wired"
    /\ LET op == [type |-> wire.type,
                  f |-> [f \in Carries(wire.type) |-> ParsedValue(wire, f)]] IN
       IF FeaturesParse(wire) /\ Validate(op)
       THEN stage' = "parsed" /\ agentOp' = op
       ELSE stage' = "rejected" /\ UNCHANGED agentOp
    /\ UNCHANGED <<request, model, hubOp, wire>>

Next ==
    \/ \E e \in {"tenant", "plugin", "h2c"}, a \in Actions : Submit(e, a)
    \/ Route \/ ProtoPrinterOperation \/ ParsePrinterOperation

Spec == Init /\ [][Next]_vars

-----------------------------------------------------------------------------
(* Properties *)

\* An operation the hub accepted is never one the agent cannot read: a command
\* that is bound to fail does not enter the queue (request.rs, validation.rs and
\* parse_printer_operation).
NeverDoomed == stage # "rejected"

\* What an operation asks for, whatever a stage calls an absent value.
Meaning(op) ==
    [f \in DOMAIN op.f |->
        CASE f = "global_tray_id" /\ op.f[f] = Null -> op.f["ams_id"] * 4 + op.f["slot_id"]
          [] f = "external_id" /\ op.f[f] = "" -> Null
          [] OTHER -> op.f[f]]

\* The agent executes what the hub accepted: no value becomes another, or the
\* default, on its way over the wire (proto_printer_operation,
\* parse_printer_operation).
ExecutedAsAccepted ==
    stage = "parsed" => agentOp.type = hubOp.type /\ Meaning(agentOp) = Meaning(hubOp)

\* A request that requires a device feature is refused or reaches the agent
\* with the requirement: it is never executed unguarded.
FeaturesNeverDropped ==
    (stage = "parsed" /\ Given("required") /\ request.f["required"] # <<>>)
    => "required" \in DOMAIN agentOp.f /\ agentOp.f["required"] = request.f["required"]
=============================================================================
