---------------------------- MODULE MCMongoVersioning --------------------------
(* Instances of MongoVersioning: what the clients of one object do at the same *)
(* time, in each scenario. The first version id that is generated is 4.        *)
EXTENDS MongoVersioning

CONSTANTS
    new1, new2, marker1, put5, put6, put7, repair5, repair7, suspend1, plain1, oplog1, get1, read6, both6,
    del4, del5, del6, fast5, drop1,
    puts, deletions, newMarker, oldMarker, crossed, inverted, update, ingest, last, suspended, plain

Call(type, v, marker) == [type |-> type, vid |-> v, marker |-> marker]

MCOp == [r \in Requests |->
    CASE r \in {new1, new2} -> Call("putNew", NoVid, FALSE)
      [] r = marker1  -> Call("putNew", NoVid, TRUE)
      [] r = put5     -> Call("putVersion", 5, FALSE)
      [] r = put6     -> Call("putVersion", 6, FALSE)
      [] r = put7     -> Call("putVersion", 7, FALSE)
      [] r = repair5  -> Call("putRepair", 5, FALSE)
      [] r = repair7  -> Call("putRepair", 7, FALSE)
      [] r = suspend1 -> Call("putSuspended", NoVid, FALSE)
      [] r = plain1   -> Call("putPlain", NoVid, FALSE)
      [] r = oplog1   -> Call("putPlainOplog", NoVid, FALSE)
      [] r = get1     -> Call("get", NoVid, FALSE)
      [] r = read6    -> Call("getVersion", 6, FALSE)
      [] r = both6    -> Call("getObjects", 6, FALSE)
      [] r = del4     -> Call("delVersion", 4, FALSE)
      [] r = del5     -> Call("delVersion", 5, FALSE)
      [] r = del6     -> Call("delVersion", 6, FALSE)
      [] r = fast5    -> Call("delVersionFast", 5, FALSE)
      [] r = drop1    -> Call("delPlain", NoVid, FALSE)]

Version(v) == [vid |-> v, phd |-> FALSE, marker |-> FALSE, flagged |-> FALSE, from |-> Nobody]
Marker(v) == [Version(v) EXCEPT !.marker = TRUE]

TwoVersions ==
    [k \in Keys |-> IF k \in {5, 6} THEN Version(k) ELSE IF k = Master THEN Version(5) ELSE NoDoc]

OneVersion == [TwoVersions EXCEPT ![6] = NoDoc]

\* In the v1 format there is no master behind a delete marker.
MarkerOnTop ==
    [k \in Keys |-> IF k = 5 THEN Marker(5) ELSE IF k = 6 THEN Version(6) ELSE NoDoc]

MarkerBehind ==
    [k \in Keys |-> IF k = 6 THEN Marker(6) ELSE IF k \in {5, Master} THEN Version(5) ELSE NoDoc]

\* The master 5 was put under suspended versioning and is no version.
NullMaster ==
    [k \in Keys |-> IF k = 6 THEN Version(6) ELSE IF k = Master THEN Version(5) ELSE NoDoc]

PlainMaster == [k \in Keys |-> IF k = Master THEN [Version(5) EXCEPT !.vid = NoVid] ELSE NoDoc]

MCInitialDocs == [s \in Scenarios |->
    CASE s \in {puts, deletions, crossed, inverted, update, ingest} -> TwoVersions
      [] s = newMarker -> MarkerBehind
      [] s = oldMarker -> MarkerOnTop
      [] s = last      -> OneVersion
      [] s = suspended -> NullMaster
      [] s = plain     -> PlainMaster]

MCFormat == [s \in Scenarios |-> IF s \in {newMarker, oldMarker, crossed, inverted, update} THEN "v1" ELSE "v0"]

MCCalls == [s \in Scenarios |->
    CASE s = puts      -> {new1, new2, del5, get1}
      [] s = deletions -> {del5, del6, both6}
      [] s = newMarker -> {marker1, del5, get1}
      [] s = oldMarker -> {fast5, new1, get1}
      [] s = crossed   -> {new1, marker1}
      [] s = inverted  -> {new1, marker1, del5, get1}
      [] s = update    -> {put5, put6, new1, read6}
      [] s = ingest    -> {repair7, new1, del5, get1}
      [] s = last      -> {new1, del5, get1}
      [] s = suspended -> {suspend1, del5, get1}
      [] s = plain     -> {plain1, oplog1, drop1, get1}]
================================================================================
