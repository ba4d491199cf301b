----------------------------- MODULE IoTDevices -----------------------------
(***************************************************************************)
(* iotIntegration.js: devices, their readings, and the products or batches *)
(* they monitor, as records of the ledger.  Each action is one committed   *)
(* transaction.  A reading's id is made of the device and the clock of the *)
(* endorsing peer, so two readings of a device may get the same id and the *)
(* second replaces the first.  productId may be any record's key, also a   *)
(* device's (of a reading's own key nothing is modelled).  Left out:       *)
(* owners, locations, signatures (not verified), metadata, dates, the      *)
(* histories of status and calibration, and distances.  "Variant"          *)
(* definitions are no part of the specification.                           *)
(***************************************************************************)
EXTENDS Integers, Sequences, FiniteSets

CONSTANTS
  Devices, Products,   \* keys
  Readings,            \* what sensors report: [type, level, chemical]
  Timestamps,          \* of the collection, chosen by the caller
  MaxReadings,         \* bound: readings ever submitted
  MaxTime,             \* bound: the clock
  Null

VARIABLES
  ledger,    \* records of devices and products
  data,      \* stored readings by id
  now        \* the most advanced clock of a peer

vars == <<ledger, data, now>>

Entities == Devices \cup Products
DeviceTypes == {r.type : r \in Readings}
\* INACTIVE stands for the three that are not ACTIVE: nothing reads the status.
DeviceStatuses == {"ACTIVE", "INACTIVE"}
Clocks == 0 .. MaxTime
DataIds == [device : Devices, ms : Clocks]

DeviceFields == [type : DeviceTypes, status : DeviceStatuses,
                 dataCount : 0 .. MaxReadings]
Refs == [id : DataIds, type : DeviceTypes, timestamp : Timestamps, abnormal : BOOLEAN]

\* A record: the fields of a device, if it is one, and those of something
\* monitored; `warnings` counts AbnormalDataDetected in its history.
Record(device) == [device |-> device, iotData |-> <<>>, warnings |-> 0]

DataRecords == [reading : Readings, productId : Entities, timestamp : Timestamps,
                abnormal : BOOLEAN]

\* Devices and what they monitor are made under different keys; levels are numbers;
\* Null is no record.
IoTAssumption ==
  /\ Devices \cap Products = {} /\ MaxReadings \in Nat /\ MaxTime \in Nat
  /\ \A r \in Readings : r.level \in Int
  /\ Null \notin [device : DeviceFields \cup {Null}, iotData : Seq(Refs), warnings : Nat]

Exists(k) == ledger[k] # Null
Put(k, record) == ledger' = [ledger EXCEPT ![k] = record]

\* The clock of the peer that endorses, which may be behind by one.
Clock(ms) == ms \in Clocks /\ ms \in {now, now - 1}

\* Parts per million; a chemical may be named like the two meters.
SafetyThreshold(type) ==
  CASE type = "pesticide" -> 10 [] type = "dye" -> 20
    [] type = "water" -> 1000 [] type = "energy" -> 500 [] OTHER -> 50

DetectAbnormalData(r) ==
  \/ r.type = "temperature_sensor" /\ r.level \notin 15 .. 30
  \/ r.type = "humidity_sensor" /\ r.level \notin 35 .. 65
  \/ r.type = "water_usage_meter" /\ r.level > 1000
  \/ r.type = "energy_meter" /\ r.level > 500
  \/ r.type = "chemical_sensor" /\ r.level > SafetyThreshold(r.chemical)

RegisterDevice(d, type) ==
  /\ ~Exists(d)
  /\ Put(d, Record([type |-> type, status |-> "ACTIVE", dataCount |-> 0]))
  /\ UNCHANGED <<data, now>>

\* A product or batch made by the other functions of the chaincode.
CreateProduct(p) == ~Exists(p) /\ Put(p, Record(Null)) /\ UNCHANGED <<data, now>>

\* The device is written first and the product, read before that, last.
\* Variant: the device is written last.
DeviceLast(d, p, device, product) == ledger' = [ledger EXCEPT ![p] = product, ![d] = device]
StoreBoth(d, p, device, product) == ledger' = [ledger EXCEPT ![d] = device, ![p] = product]

\* The status of the device is not looked at.
SubmitDeviceData(d, p, r, timestamp, ms) ==
  /\ Exists(d) /\ Exists(p) /\ Clock(ms)
  /\ ledger[d].device.type = r.type
  /\ LET id == [device |-> d, ms |-> ms]
         abnormal == DetectAbnormalData(r)
         ref == [id |-> id, type |-> r.type, timestamp |-> timestamp, abnormal |-> abnormal]
         product == ledger[p]
     IN  /\ data' = [i \in DOMAIN data \cup {id} |->
              IF i = id THEN [reading |-> r, productId |-> p, timestamp |-> timestamp,
                              abnormal |-> abnormal]
                        ELSE data[i]]
         /\ StoreBoth(d, p, [ledger[d] EXCEPT !.device.dataCount = @ + 1],
              [product EXCEPT !.iotData = Append(@, ref),
                              !.warnings = IF abnormal THEN @ + 1 ELSE @])
  /\ UNCHANGED now

UpdateDeviceStatus(d, status) ==
  Exists(d) /\ Put(d, [ledger[d] EXCEPT !.device.status = status]) /\ UNCHANGED <<data, now>>

\* Writes dates and a history that nothing reads.
RecordCalibration(d) == Exists(d) /\ Put(d, ledger[d]) /\ UNCHANGED <<data, now>>

Tick == now < MaxTime /\ now' = now + 1 /\ UNCHANGED <<ledger, data>>

-----------------------------------------------------------------------------
(* Queries.  Readings are named by the positions of their references.      *)

\* The stored reading of a reference.
Stored(p, i) == data[ledger[p].iotData[i].id]

\* The references that pass the filters on type and time and whose reading is stored.
QueryProductIoTData(p, types, times) ==
  {i \in DOMAIN ledger[p].iotData :
     LET ref == ledger[p].iotData[i]
     IN  ref.type \in types /\ ref.timestamp \in times /\ ref.id \in DOMAIN data}

OfType(p, type) ==
  {i \in QueryProductIoTData(p, DeviceTypes, Timestamps) : Stored(p, i).reading.type = type}

\* The parts of analyzeSustainabilityMetrics that judge readings.
Exceedances(p) ==
  {i \in OfType(p, "chemical_sensor") :
     Stored(p, i).reading.level > SafetyThreshold("chemical")}

\* The humidity readings in the range whose temperature, the last one with the
\* same timestamp, is in its range too.
OptimalConditions(p) ==
  LET at(type, t) == {i \in OfType(p, type) : Stored(p, i).timestamp = t}
      optimalAt(t) == \E i \in at("temperature_sensor", t) :
        /\ \A j \in at("temperature_sensor", t) : j <= i
        /\ Stored(p, i).reading.level \in 18 .. 25
  IN  {i \in OfType(p, "humidity_sensor") :
         Stored(p, i).reading.level \in 40 .. 60 /\ optimalAt(Stored(p, i).timestamp)}

-----------------------------------------------------------------------------
Init == ledger = [k \in Entities |-> Null] /\ data = [i \in {} |-> 0] /\ now = 0

\* Every reference there is, by its record and its position there, and how many
\* of them lead from the records ks to readings of the devices ds.
References ==
  UNION {{k} \X DOMAIN ledger[k].iotData : k \in {k \in Entities : Exists(k)}}
Submitted(ds, ks) ==
  Cardinality({r \in References : r[1] \in ks /\ ledger[r[1]].iotData[r[2]].id.device \in ds})

Submit(d) ==
  /\ Submitted(Devices, Entities) < MaxReadings
  /\ \E p \in Entities, r \in Readings, t \in Timestamps, ms \in Clocks :
       SubmitDeviceData(d, p, r, t, ms)

Next ==
  \/ \E d \in Devices :
       \/ \E type \in DeviceTypes : RegisterDevice(d, type)
       \/ Submit(d)
       \/ \E status \in DeviceStatuses : UpdateDeviceStatus(d, status)
       \/ RecordCalibration(d)
  \/ \E p \in Products : CreateProduct(p)
  \/ Tick

Spec == Init /\ [][Next]_vars

-----------------------------------------------------------------------------
\* Type invariant.
TypeOK ==
  /\ \A k \in Entities : Exists(k) =>
       /\ ledger[k].device \in IF k \in Devices THEN DeviceFields ELSE {Null}
       /\ ledger[k].iotData \in Seq(Refs) /\ ledger[k].warnings \in 0 .. MaxReadings
  /\ DOMAIN data \subseteq DataIds /\ \A i \in DOMAIN data : data[i] \in DataRecords
  /\ now \in Clocks

\* Device, product and reading are three records of one transaction, and agree
\* after any sequence of them: a device counts the references to its readings
\* in all records but its own (where the count is lost); a record has a warning
\* for each reference to an abnormal reading; and a reference leads to a
\* reading of that device and type, although a later one may have replaced it.
ReadingsAccounted ==
  /\ \A d \in Devices : Exists(d) =>
       ledger[d].device.dataCount = Submitted({d}, Entities \ {d})
  /\ \A k \in Entities : Exists(k) =>
       /\ ledger[k].warnings =
            Cardinality({i \in DOMAIN ledger[k].iotData : ledger[k].iotData[i].abnormal})
       /\ \A i \in DOMAIN ledger[k].iotData :
            LET ref == ledger[k].iotData[i]
            IN  ref.id \in DOMAIN data /\ data[ref.id].reading.type = ref.type

\* What the analysis finds agrees with the alerts given when the readings came
\* in, although it has ranges and thresholds of its own: an exceedance was
\* flagged (unless the chemical is named like a meter, with its threshold), and
\* a humidity reading that counts as optimal was not.
AnalysisAgreesWithAlerts ==
  \A p \in Products : Exists(p) =>
    /\ \A i \in Exceedances(p) :
         Stored(p, i).abnormal \/ Stored(p, i).reading.chemical \in {"water", "energy"}
    /\ \A i \in OptimalConditions(p) : ~Stored(p, i).abnormal
=============================================================================
