-------------------------- MODULE ZoneRetryManager --------------------------
(***************************************************************************)
(* ZoneRetryManager of pkb.py: which zone a failed benchmark is run in     *)
(* next.  The manager is a record, the --zone flag a value next to it;     *)
(* random.choice is every choice, so an operation is the set of what it    *)
(* may answer.  Of the two spellings of the flag, --zone and --zones, one. *)
(***************************************************************************)
EXTENDS Naturals, FiniteSets

CONSTANTS
    Zones,        \* the zones of the cloud
    RegionOf,     \* the region of each of them
    Supported,    \* those that offer the machine types of the benchmark
    Any           \* the flag value 'any'

ASSUME SupportedAssumption == Supported \subseteq Zones /\ IsFiniteSet(Supported)
ASSUME RegionOfAssumption == DOMAIN RegionOf = Zones
ASSUME AnyAssumption == Any \notin Zones

(* Questions the manager asks of the provider's utilities. *)
GetZonesInRegion(region) == {z \in Zones : RegionOf[z] = region}
SupportedRegions == {RegionOf[z] : z \in Supported}

(* The manager before it has looked at the flags, and as it may be. *)
NewManager == [zonesTried |-> {}, regionsTried |-> {}, originalZone |-> Any]
Managers == [zonesTried : SUBSET Zones,
             regionsTried : SUBSET {RegionOf[z] : z \in Zones},
             originalZone : Zones \cup {Any}]

(* A wrong version of the next one: the tried zone is not noted. *)
ChooseForgetful(m, zone, possible) ==
    LET toTry == possible \ m.zonesTried
    IN  IF toTry = {}
        THEN {[manager |-> [m EXCEPT !.zonesTried = {}], zone |-> m.originalZone]}
        ELSE [manager : {m}, zone : toTry]

(* _ChooseAndSetNewZone: an untried zone of the possible ones or, when all  *)
(* were tried, the original zone and a clean slate.                         *)
ChooseAndSetNewZone(m, zone, possible) ==
    LET tried == m.zonesTried \cup ({zone} \ {Any})
        toTry == possible \ tried
    IN  IF toTry = {}
        THEN {[manager |-> [m EXCEPT !.zonesTried = {}], zone |-> m.originalZone]}
        ELSE [manager : {[m EXCEPT !.zonesTried = tried]}, zone : toTry]

(* _AssignZoneToNewRegion: any zone of the new region, supported or not. *)
AssignZoneToNewRegion(m, zone) ==
    LET tried == m.regionsTried \cup {RegionOf[zone]}
        toTry == SupportedRegions \ tried
    IN  IF toTry = {}
        THEN ChooseAndSetNewZone([m EXCEPT !.regionsTried = {}], zone,
                                 GetZonesInRegion(RegionOf[m.originalZone]))
        ELSE UNION {ChooseAndSetNewZone([m EXCEPT !.regionsTried = tried], zone,
                                        GetZonesInRegion(r)) : r \in toTry}

(* _AssignZoneToSameRegion: the region the benchmark started in. *)
AssignZoneToSameRegion(m, zone) ==
    ChooseAndSetNewZone(m, zone,
                        GetZonesInRegion(RegionOf[m.originalZone]) \cap Supported)

(* HandleSmartRetries, for the flags f and the way the attempt failed. *)
HandleSmartRetries(m, f, substatus) ==
    IF f.smartQuota /\ substatus = "quota"
    THEN AssignZoneToNewRegion(m, f.zone)
    ELSE IF f.smartCapacity /\ substatus = "capacity"
    THEN AssignZoneToSameRegion(m, f.zone)
    ELSE {[manager |-> m, zone |-> f.zone]}

(* __init__: 'any' switches the smart retries on, asks for one retry per    *)
(* supported zone unless the user asked for some, and chooses the first     *)
(* zone.  Without one to choose it reads an original zone that is not there *)
(* yet and raises: there is no answer then.                                 *)
CheckFlag(f) ==
    IF f.zone = Any THEN [f EXCEPT !.smartQuota = TRUE, !.smartCapacity = TRUE]
                    ELSE f

SetOriginalZoneAndFlag(f) ==
    IF f.zone = Any
    THEN {[manager |-> [NewManager EXCEPT !.originalZone = z],
           flags |-> [f EXCEPT !.zone = z,
                               !.retries = IF @ < 1 THEN Cardinality(Supported) ELSE @]] :
             z \in Supported}
    ELSE {[manager |-> [NewManager EXCEPT !.originalZone = f.zone], flags |-> f]}

CreateManager(f) ==
    LET checked == CheckFlag(f)
    IN  IF checked.smartQuota \/ checked.smartCapacity
        THEN SetOriginalZoneAndFlag(checked)
        ELSE {[manager |-> NewManager, flags |-> checked]}
=============================================================================
