------------------------- MODULE MaterialInventory -------------------------
(***************************************************************************)
(* What the hub believes is loaded in a printer: the agent's normalisation *)
(* of AMS and external-spool reports (pandar-agent machine/materials.rs),  *)
(* and the hub's merge of the patches into the printer's material snapshot *)
(* (pandar-hub repositories/materials).  Both sides work on lists of keyed *)
(* JSON objects; a report may be full or name only what changed, and a     *)
(* patch that is lost with its session is not sent again.                  *)
(*                                                                         *)
(* A spool stands for all of its material fields, except that the name is  *)
(* kept apart: a generic spool reports it blank.  Unit and tray ids, which *)
(* are decimal strings, are numbers with the same order.  Which session    *)
(* may write, and rows that are older, are PrinterState's subject.         *)
(***************************************************************************)
EXTENDS Integers, Sequences, FiniteSets, SequencesExt

CONSTANTS
    Units,          \* ids of the AMS units a printer may have
    Kind,           \* the kind of each: "ams", "ams_lite_mixed", "ams_ht"
    NSlots,         \* slots of a unit that is not an AMS HT (4 in the code)
    Spools,         \* the spools there are
    Generic,        \* spools without a brand: their name is reported blank
    Secret,         \* spools with a name that looks like a credential
    NExt,           \* external spools: 1 (vt_tray, an object) or 2 (vir_slot)
    ExtNames,       \* what each entry says of its place: a toolhead, an id, or neither
    InfoInDelta,    \* does a changed unit report its info (its kind)?
    AmsInDelta,     \* does every report have an "ams" object?
    MaxChanges,     \* bound: changes to the printer
    MaxReports,     \* bound: reports of the printer
    MaxQueue,       \* bound: patches on their way
    Null,           \* JSON null, and Rust's None inside an entry
    Absent,         \* a member that is not there
    Blank           \* a string of blanks

GeometryAssumption ==
    /\ Units \subseteq Nat
    /\ Kind \in [Units -> {"ams", "ams_lite_mixed", "ams_ht"}]
    /\ NSlots \in 1 .. 4
    /\ NExt \in {1, 2}
    /\ ExtNames \in [1 .. NExt -> [toolhead: {Absent, "L", "R"}, xid: {Absent, 254, 255}]]

VARIABLES
    printer,        \* what is in the machine
    sent,           \* what its last report described
    queue,          \* patches between agent and hub
    hub,            \* the row of printer_material_snapshots, or Null
    insync,         \* a full report was merged and no patch lost since
    last,           \* the patch merged last
    changes, reports

vars == <<printer, sent, queue, hub, insync, last, changes, reports>>

-----------------------------------------------------------------------------
(* pandar-core: kinds of AMS units and their slots. *)

FromUnitId(u) == IF u \in 128 .. 135 THEN "ams_ht" ELSE IF u \in 0 .. 63 THEN "ams" ELSE Absent

UsesFourSlotExistBits(k) == k \in {"ams", "ams_lite_mixed"}

GlobalTrayId(k, u, s) ==
    IF k = "ams_lite_mixed" THEN 24 + s
    ELSE IF k = "ams" /\ u < 64 THEN 4 * u + s
    ELSE Absent

-----------------------------------------------------------------------------
(* The printer: external, as far as the agent's report types tell. *)

SlotsOf(u) == IF Kind[u] = "ams_ht" THEN {0} ELSE 0 .. (NSlots - 1)

External == [kind |-> "external", unit |-> 0, slot |-> 0]
InSlot(u, s) == [kind |-> "ams", unit |-> u, slot |-> s]

Bits(p) ==
    IF ~p.power THEN {}
    ELSE UNION {{GlobalTrayId(Kind[u], u, s) : s \in {t \in SlotsOf(u) : p.slot[u][t] # Null}} :
                    u \in {v \in p.plugged : UsesFourSlotExistBits(Kind[v])}}

TrayNow(p) ==
    IF p.active = Null THEN 255
    ELSE IF p.active = External THEN 254
    ELSE IF Kind[p.active.unit] = "ams_ht" THEN p.active.unit
    ELSE GlobalTrayId(Kind[p.active.unit], p.active.unit, p.active.slot)

\* A slot as the printer reports it; an empty one is bare or still has the
\* object of a spool that is gone.
SlotReport(id, spool, junk) ==
    LET content == IF spool = Null THEN junk ELSE spool IN
    [id |-> id,
     type |-> IF content = Null THEN Absent ELSE content,
     name |-> IF content = Null THEN Absent ELSE IF content \in Generic THEN Blank ELSE content]

UnitReport(p, u, slots, info, junk) ==
    [id |-> u,
     info |-> IF info THEN Kind[u] ELSE Absent,
     trays |-> [i \in 1 .. Cardinality(slots) |->
                    LET s == SetToSortSeq(slots, <)[i] IN SlotReport(s, p.slot[u][s], junk)]]

ReportOf(p, units, ams, bits, power, active, ext, switch) ==
    [units |-> units, ams |-> ams,
     bits |-> IF bits THEN Bits(p) ELSE Absent,
     power |-> IF power THEN p.power ELSE Absent,
     tray_now |-> IF active THEN TrayNow(p) ELSE Absent,
     ext |-> IF ext THEN [i \in 1 .. NExt |-> SlotReport(i, p.ext[i], Null) @@ ExtNames[i]] ELSE Absent,
     switch |-> IF switch THEN p.switch ELSE Absent]

\* pushall: every unit; one without power lists the spools it knew.
FullReport(p, junk) ==
    LET units == SetToSortSeq(p.plugged, <)
        Listed(u) == {s \in SlotsOf(u) : p.power \/ p.slot[u][s] # Null}
    IN ReportOf(p, [i \in DOMAIN units |-> UnitReport(p, units[i], Listed(units[i]), TRUE, junk)],
                TRUE, TRUE, TRUE, TRUE, TRUE, TRUE)

\* push_status: what changed since the report before.
DeltaReport(p, q, junk) ==
    LET Changed(u) == IF u \in q.plugged THEN {s \in SlotsOf(u) : p.slot[u][s] # q.slot[u][s]}
                      ELSE SlotsOf(u)
        units == SetToSortSeq({u \in p.plugged : Changed(u) # {}}, <)
        bits == Bits(p) # Bits(q) \/ p.plugged # q.plugged
        power == p.power # q.power
        active == p.active # q.active
    IN ReportOf(p, [i \in DOMAIN units |-> UnitReport(p, units[i], Changed(units[i]), InfoInDelta, junk)],
                AmsInDelta \/ units # << >> \/ bits \/ power \/ active,
                bits, power, active, p.ext # q.ext, p.switch # q.switch)

-----------------------------------------------------------------------------
(* The agent: from a report to a patch. *)

\* ScalarValue::string: a blank string is no value.
String(v) == IF v = Blank THEN Absent ELSE v

\* Members with a value; serde skips the others.
Present(members) == [k \in {m \in DOMAIN members : members[m] # Absent} |-> members[k]]

MaterialFields(slot) == [type |-> String(slot.type), name |-> String(slot.name)]

UnitKind(u, info, bits) ==
    IF info # Absent THEN info
    ELSE IF FromUnitId(u) = "ams_ht" THEN "ams_ht"
    ELSE IF bits = Absent THEN Absent
    ELSE IF \E s \in 0 .. 3 : 4 * u + s \in bits THEN FromUnitId(u)
    ELSE Absent

NormalizeTray(slot, u, kind) ==
    [id |-> slot.id,
     fields |-> Present(MaterialFields(slot)) @@
                Present([exists |-> TRUE, global |-> GlobalTrayId(kind, u, slot.id)])]

EmptyTrayClear(u, kind, s) ==
    [id |-> s,
     fields |-> [exists |-> FALSE, global |-> GlobalTrayId(kind, u, s), type |-> Null, name |-> Null]]

ApplyEmptyTrayClears(trays, u, kind, bits) ==
    LET Clear(list, s) ==
            LET at == {i \in DOMAIN list : list[i].id = s} IN
            IF GlobalTrayId(kind, u, s) \in bits THEN list
            ELSE IF at # {} THEN [list EXCEPT ![Min(at)] = EmptyTrayClear(u, kind, s)]
            ELSE Append(list, EmptyTrayClear(u, kind, s))
    IN FoldLeft(Clear, trays, [i \in 1 .. NSlots |-> i - 1])

NormalizeAmsUnit(unit, r) ==
    LET kind == UnitKind(unit.id, unit.info, r.bits)
        poweroff == r.power = FALSE /\ r.bits = {}
        normal == [i \in DOMAIN unit.trays |-> NormalizeTray(unit.trays[i], unit.id, kind)]
        clears == unit.trays # << >> /\ UsesFourSlotExistBits(kind) /\ ~poweroff /\ r.bits # Absent
        trays == IF clears THEN ApplyEmptyTrayClears(normal, unit.id, kind, r.bits) ELSE normal
    IN [id |-> unit.id, trays |-> trays, fields |-> Present([kind |-> kind]),
        info |-> unit.info,
        replace |-> /\ unit.trays # << >>
                    /\ kind # Absent
                    /\ UsesFourSlotExistBits(kind) =>
                           \A s \in 0 .. (NSlots - 1) : \E i \in DOMAIN trays : trays[i].id = s]

\* A unit of which nothing is known is left out of the patch.
NormalizeAmsUnits(r) ==
    SelectSeq([i \in DOMAIN r.units |-> NormalizeAmsUnit(r.units[i], r)],
              LAMBDA u : u.info # Absent \/ u.trays # << >> \/ u.replace)

ActiveAmsRoute(units, tray_now) ==
    {<<i, j>> \in UNION {{i} \X DOMAIN units[i].trays : i \in DOMAIN units} :
        LET f == units[i].trays[j].fields IN
        f.exists /\ "global" \in DOMAIN f /\ f.global = tray_now}

Tray(kind, global, ams, tray) == [kind |-> kind, global |-> global, ams |-> ams, tray |-> tray]

\* Absent: the report does not say; Null: no tray is active.
NormalizeActiveTray(now, units) ==
    IF now = Absent THEN Absent
    ELSE IF now = 255 THEN Null
    ELSE IF now = 254 THEN Tray("external", Null, 254, 0)
    ELSE IF ActiveAmsRoute(units, now) # {}
         THEN LET at == CHOOSE x \in ActiveAmsRoute(units, now) : TRUE
              IN Tray("ams", now, units[at[1]].id, units[at[1]].trays[at[2]].id)
    ELSE IF now \in 0 .. 15 THEN Tray("ams", now, now \div 4, now % 4)
    ELSE IF now \in 24 .. 27 THEN Tray("ams", now, Absent, Absent)
    ELSE IF now \in 128 .. 135 THEN Tray("ams_ht", Null, now, 0)
    ELSE Absent

\* The toolhead decides, then the entry's own id, then its place in the list.
NormalizeExternalId(slot, i) ==
    IF slot.toolhead # Absent THEN (IF slot.toolhead = "L" THEN 254 ELSE 255)
    ELSE IF slot.xid # Absent THEN slot.xid
    ELSE IF NExt > 1 /\ i = 1 THEN 255 ELSE 254

\* The external spools of a report, which must have an "ams" object.
NormalizeExternalSpools(r) ==
    IF ~r.ams \/ r.ext = Absent THEN Absent
    ELSE [spools |-> [i \in DOMAIN r.ext |->
                        [id |-> <<NormalizeExternalId(r.ext[i], i), i - 1>>,
                         fields |-> Present(MaterialFields(r.ext[i])) @@ [exists |-> TRUE]]],
          replace |-> NExt > 1]

\* The document both sides agree on.
NewPatch(switch, units, active, external) ==
    [switch |-> switch, units |-> units, active |-> active, external |-> external]

NormalizeMaterialPatch(r) ==
    LET units == IF r.ams THEN NormalizeAmsUnits(r) ELSE << >> IN
    NewPatch(r.switch, units,
             IF r.ams THEN NormalizeActiveTray(r.tray_now, units) ELSE Absent,
             NormalizeExternalSpools(r))

NothingSaid(p) ==
    p.switch = Absent /\ p.units = << >> /\ p.active = Absent /\ p.external = Absent

-----------------------------------------------------------------------------
(* The hub: parsing a patch and merging it. *)

RedactObject(fields) ==
    [k \in {m \in DOMAIN fields : m # "name" \/ fields[m] \notin Secret} |-> fields[k]]

RedactedTrays(trays) == [i \in DOMAIN trays |-> [trays[i] EXCEPT !.fields = RedactObject(@)]]

\* parse_patch_result: credentials are dropped before anything is stored.
ParsePatch(p) ==
    [p EXCEPT
        !.units = [i \in DOMAIN @ |-> [@[i] EXCEPT !.trays = RedactedTrays(@)]],
        !.external = IF @ = Absent THEN @ ELSE [@ EXCEPT !.spools = RedactedTrays(@)]]

\* Mutant: a new entry keeps its null fields.
FieldsWithoutNullsKept(fields) == fields

FieldsWithoutNulls(fields) == [k \in {m \in DOMAIN fields : fields[m] # Null} |-> fields[k]]

\* null removes a field, a value sets it, an absent one is left.
MergeFields(fields, patch) ==
    [k \in {m \in DOMAIN fields \cup DOMAIN patch : m \in DOMAIN patch => patch[m] # Null} |->
        IF k \in DOMAIN patch THEN patch[k] ELSE fields[k]]

NewEntry(patch) == [id |-> patch.id, fields |-> FieldsWithoutNulls(patch.fields)]

\* The loop of merge_trays and merge_external_spools over the patch.
MergeEntry(current, patch) ==
    LET at == {i \in DOMAIN current : current[i].id = patch.id} IN
    IF at # {} THEN [current EXCEPT ![Min(at)].fields = MergeFields(@, patch.fields)]
    ELSE Append(current, NewEntry(patch))

Retained(current, patches) ==
    SelectSeq(current, LAMBDA e : \E i \in DOMAIN patches : patches[i].id = e.id)

MergeTrays(current, patches, replace) ==
    LET merged == FoldLeft(MergeEntry, current, patches) IN
    SortSeq(IF replace THEN Retained(merged, patches) ELSE merged, LAMBDA a, b : a.id < b.id)

NewTrayStates(patches) ==
    SortSeq([i \in DOMAIN patches |-> NewEntry(patches[i])], LAMBDA a, b : a.id < b.id)

\* fields_without_nulls_for_new_unit: a new unit keeps the patch's flag.
NewUnitFields(patch) ==
    FieldsWithoutNulls(patch.fields) @@
    (IF patch.replace THEN [replace_trays |-> TRUE] ELSE << >>)

MergeUnit(current, patch) ==
    LET at == {i \in DOMAIN current : current[i].id = patch.id} IN
    IF at # {}
    THEN [current EXCEPT ![Min(at)] =
            [id |-> @.id,
             fields |-> MergeFields(@.fields, patch.fields),
             trays |-> IF patch.trays = << >> THEN @.trays
                       ELSE MergeTrays(@.trays, patch.trays, patch.replace)]]
    ELSE Append(current, [id |-> patch.id, fields |-> NewUnitFields(patch),
                          trays |-> NewTrayStates(patch.trays)])

MergeUnits(current, patches) ==
    SortSeq(FoldLeft(MergeUnit, current, patches), LAMBDA a, b : a.id < b.id)

MergeExternalSpools(current, patches, replace) ==
    LET merged == FoldLeft(MergeEntry, current, patches) IN
    SortSeq(IF replace THEN Retained(merged, patches) ELSE merged,
            LAMBDA a, b : a.id[1] < b.id[1] \/ (a.id[1] = b.id[1] /\ a.id[2] < b.id[2]))

EmptyRow == [units |-> << >>, external |-> << >>, active |-> Null, switch |-> Absent]

\* merge_snapshot on the row, or on nothing.
MergeSnapshot(current, patch) ==
    LET row == IF current = Null THEN EmptyRow ELSE current IN
    [units |-> IF patch.units = << >> THEN row.units ELSE MergeUnits(row.units, patch.units),
     external |-> IF patch.external = Absent THEN row.external
                  ELSE MergeExternalSpools(row.external, patch.external.spools, patch.external.replace),
     active |-> IF patch.active = Absent THEN row.active ELSE patch.active,
     switch |-> IF patch.switch = Absent THEN row.switch ELSE patch.switch]

-----------------------------------------------------------------------------
(* Actions *)

Init ==
    /\ printer = [plugged |-> Units, slot |-> [u \in Units |-> [s \in SlotsOf(u) |-> Null]],
                  active |-> Null, ext |-> [i \in 1 .. NExt |-> CHOOSE x \in Spools : TRUE],
                  power |-> TRUE, switch |-> FALSE]
    /\ sent = printer
    /\ queue = << >> /\ hub = Null /\ insync = FALSE /\ last = Null
    /\ changes = 0 /\ reports = 0

Change(p) ==
    /\ changes < MaxChanges
    /\ p # printer
    /\ printer' = p
    /\ changes' = changes + 1
    /\ UNCHANGED <<sent, queue, hub, insync, last, reports>>

Load(u, s, spool) ==
    /\ u \in printer.plugged /\ printer.power
    /\ printer.active # InSlot(u, s)
    /\ Change([printer EXCEPT !.slot[u][s] = spool])

Unplug(u) ==
    /\ printer.active = Null /\ printer.power
    /\ Change([printer EXCEPT !.plugged = @ \ {u}])

Plug(u) ==
    /\ printer.power
    /\ Change([printer EXCEPT !.plugged = @ \cup {u}])

Feed(a) ==
    /\ printer.power
    /\ a \notin {Null, External} => a.unit \in printer.plugged /\ printer.slot[a.unit][a.slot] # Null
    /\ Change([printer EXCEPT !.active = a])

HangSpool(i, spool) == Change([printer EXCEPT !.ext[i] = spool])

\* The units lose their power, not their spools; a slot that changed was
\* reported before.
TogglePower ==
    /\ printer.active = Null
    /\ printer.slot = sent.slot /\ printer.plugged = sent.plugged
    /\ Change([printer EXCEPT !.power = ~@])

ToggleSwitch == Change([printer EXCEPT !.switch = ~@])

\* The agent reads a report and sends its patch, if it says anything.
Deliver(r, full) ==
    LET patch == NormalizeMaterialPatch(r) IN
    /\ reports < MaxReports /\ Len(queue) < MaxQueue
    /\ reports' = reports + 1
    /\ sent' = printer
    /\ queue' = IF NothingSaid(patch) THEN queue
                ELSE Append(queue, [patch |-> patch, full |-> full /\ printer.power])
    /\ UNCHANGED <<printer, hub, insync, last, changes>>

ReportFull(junk) == Deliver(FullReport(printer, junk), TRUE)

ReportChanges(junk) ==
    /\ printer # sent
    /\ Deliver(DeltaReport(printer, sent, junk), FALSE)

\* The session ends with patches on their way.
SessionLost ==
    /\ queue # << >>
    /\ queue' = << >>
    /\ insync' = FALSE
    /\ UNCHANGED <<printer, sent, hub, last, changes, reports>>

UpsertFromPatch ==
    /\ queue # << >>
    /\ LET patch == ParsePatch(Head(queue).patch) IN
       /\ hub' = MergeSnapshot(hub, patch)
       /\ last' = patch
    /\ queue' = Tail(queue)
    /\ insync' = (insync \/ Head(queue).full)
    /\ UNCHANGED <<printer, sent, changes, reports>>

Next ==
    \/ \E u \in Units : \E s \in SlotsOf(u), spool \in Spools \cup {Null} : Load(u, s, spool)
    \/ \E u \in Units : Unplug(u) \/ Plug(u)
    \/ \E a \in {Null, External} \cup UNION {{InSlot(u, s) : s \in SlotsOf(u)} : u \in Units} : Feed(a)
    \/ \E i \in 1 .. NExt, spool \in Spools : HangSpool(i, spool)
    \/ TogglePower \/ ToggleSwitch
    \/ \E junk \in Spools \cup {Null} : ReportFull(junk) \/ ReportChanges(junk)
    \/ SessionLost \/ UpsertFromPatch

Spec == Init /\ [][Next]_vars

-----------------------------------------------------------------------------
(* Properties *)

\* The hub has merged a full report and all since, and nothing changed since.
Settled == insync /\ queue = << >> /\ sent = printer

HubTrays == UNION {{<<hub.units[i].id, hub.units[i].trays[j]>> : j \in DOMAIN hub.units[i].trays} :
                        i \in DOMAIN hub.units}

FieldsOf(u, s) == {t[2].fields : t \in {x \in HubTrays : x[1] = u /\ x[2].id = s}}

TypeOK ==
    /\ printer.plugged \subseteq Units
    /\ hub = Null \/ \A t \in HubTrays : t[1] \in Units /\ t[2].id \in SlotsOf(t[1])
    /\ Len(queue) <= MaxQueue

\* The stored lists are sorted by key and hold each key once, which the merge
\* takes for granted when it updates the first entry it finds
\* (merge.rs:147,178,215).
KeysSorted ==
    hub # Null =>
        /\ \A i, j \in DOMAIN hub.units : i < j => hub.units[i].id < hub.units[j].id
        /\ \A n \in DOMAIN hub.units :
              LET trays == hub.units[n].trays IN
              \A i, j \in DOMAIN trays : i < j => trays[i].id < trays[j].id
        /\ \A i, j \in DOMAIN hub.external : i # j => hub.external[i].id # hub.external[j].id

\* Once the hub is settled it shows a slot as loaded exactly when it is, and
\* an empty one without material: spools taken out while a patch was lost, or
\* listed in a stale object, are cleared by tray_exist_bits.
SlotsAgree ==
    Settled => \A u \in printer.plugged : UsesFourSlotExistBits(Kind[u]) =>
        \A s \in SlotsOf(u) : \A f \in FieldsOf(u, s) :
            /\ f.exists = (printer.slot[u][s] # Null)
            /\ "type" \in DOMAIN f <=> f.exists

\* Once the hub is settled every loaded slot is listed with its spool and its
\* global tray id, whatever the kind of unit.
LoadedAgree ==
    Settled => \A u \in printer.plugged : \A s \in SlotsOf(u) : printer.slot[u][s] # Null =>
        /\ FieldsOf(u, s) # {}
        /\ \A f \in FieldsOf(u, s) :
              /\ f.type = printer.slot[u][s]
              /\ GlobalTrayId(Kind[u], u, s) # Absent => f.global = GlobalTrayId(Kind[u], u, s)

\* Once the hub is settled its active tray is the one the printer feeds from,
\* also when a report has tray_now and no units to route it by.
ActiveAgrees ==
    Settled =>
        CASE printer.active = Null -> hub.active = Null
          [] printer.active = External -> hub.active # Null /\ hub.active.kind = "external"
          [] OTHER ->
                LET a == printer.active IN
                /\ hub.active # Null
                /\ hub.active.ams \in {a.unit, Absent} /\ hub.active.tray \in {a.slot, Absent}
                /\ hub.active.ams = Absent => hub.active.global = GlobalTrayId(Kind[a.unit], a.unit, a.slot)

\* Once the hub is settled its external spools are the printer's, and no
\* other.
ExternalsAgree ==
    Settled => /\ Len(hub.external) = NExt
               /\ \A i \in DOMAIN hub.external : hub.external[i].fields.type = printer.ext[hub.external[i].id[2] + 1]

\* A patch that comes again changes nothing (the outcome Unchanged,
\* materials.rs:252): a new entry is stored as an update would leave it.
ReplayUnchanged == last # Null => MergeSnapshot(hub, last) = hub

\* No value that looks like a credential is stored
\* (docs/architecture.md:440: "credential-key filtering").
NoSecretStored ==
    hub # Null =>
        /\ \A t \in HubTrays : "name" \in DOMAIN t[2].fields => t[2].fields.name \notin Secret
        /\ \A i \in DOMAIN hub.external :
              "name" \in DOMAIN hub.external[i].fields => hub.external[i].fields.name \notin Secret

\* The hub keeps the "latest ... AMS/external-spool material state per
\* printer" (docs/architecture.md:563): a tray describes one spool.
OneSpoolPerTray ==
    Settled => \A t \in HubTrays : {"type", "name"} \subseteq DOMAIN t[2].fields => t[2].fields.name = t[2].fields.type

\* The same statement for units: the settled hub lists the units there are.
UnitsAgree == Settled => \A i \in DOMAIN hub.units : hub.units[i].id \in printer.plugged

=============================================================================
