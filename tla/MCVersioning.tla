------------------------------ MODULE MCVersioning -------------------------------
(***************************************************************************)
(* Instances of Versioning. The database begins with an object that has    *)
(* the versions 5 and 6, 5 being the newest, so that the version ids       *)
(* generated are 4, 3, ...                                                 *)
(***************************************************************************)
EXTENDS Versioning

CONSTANTS
    new1, del5, del6, put3, put4, put6, put7, null4, null5, keepNull5, dropNull, newNull, get1, read6,
    nullVersions, suspended, enabled, deletions, repair, putDuringRepair, olderNull

Call(type, vid, isNull) == [type |-> type, vid |-> vid, isNull |-> isNull]

MCOp == [r \in Requests |->
    CASE r = new1 -> Call("putNew", NoVid, "undefined")
      [] r = del5 -> Call("delVersion", 5, "false")
      [] r = del6 -> Call("delVersion", 6, "false")
      [] r = put3 -> Call("putVersion", 3, "false")
      [] r = put4 -> Call("putVersion", 4, "false")
      [] r = put6 -> Call("putVersion", 6, "false")
      [] r = put7 -> Call("putVersion", 7, "false")
      [] r = null4 -> Call("putVersion", 4, "true")
      [] r = null5 -> Call("putVersion", 5, "true")
      [] r = keepNull5 -> Call("putNull", 5, "true")
      [] r = dropNull -> Call("delNull", NoVid, "true")
      [] r = newNull -> Call("putMasterDeleteNullKey", NoVid, "true")
      [] r = read6 -> Call("getVersion", 6, "undefined")
      [] r = get1 -> Call("get", NoVid, "undefined")]

\* A new version over a null master is put when the null version is kept, and
\* the null key is deleted only then.
MCAfter == [r \in Requests |->
    IF r = new1 THEN Requests \cap {keepNull5} ELSE IF r = dropNull THEN {new1} ELSE {}]

MCSize == [r \in Requests |-> 1]

Version(v) == [vid |-> v, phd |-> FALSE, null |-> FALSE, null2 |-> FALSE, nullVid |-> NoVid,
               from |-> Nobody]

NullVersion(v) == [Version(v) EXCEPT !.null = TRUE, !.null2 = TRUE]

\* The version 5 is the master, the version 6 is behind it.
TwoVersions ==
    [k \in Keys |-> IF k \in {5, 6} THEN Version(k) ELSE IF k = Master THEN Version(5) ELSE NoValue]

\* The master is the null version 5.
NullMaster ==
    [k \in Keys |-> IF k \in {6, 7} THEN Version(k)
                    ELSE IF k = Master THEN NullVersion(5) ELSE NoValue]

\* The null version 6 is behind the master.
NullBehind ==
    [k \in Keys |-> IF k \in {5, 8} THEN Version(k)
                    ELSE IF k = Master THEN Version(5)
                    ELSE IF k = NullKey THEN NullVersion(6) ELSE NoValue]

\* What the clients of one object do at the same time, in each scenario.
MCInitialDb == [s \in Scenarios |->
    CASE s \in {nullVersions, suspended} -> NullBehind
      [] s \in {enabled, olderNull} -> NullMaster
      [] s \in {deletions, repair, putDuringRepair} -> TwoVersions]

MCCalls == [s \in Scenarios |->
    CASE s = nullVersions    -> {null4, put3, put7, get1}
      [] s = suspended       -> {newNull, put4, put7, get1}
      [] s = enabled         -> {keepNull5, new1, dropNull, put6, get1}
      [] s = deletions       -> {del5, del6, get1}
      [] s = repair          -> {del5, del6, read6}
      [] s = putDuringRepair -> {del5, put6, put4}
      [] s = olderNull       -> {newNull, null5}]

MCFailing == {nullVersions, deletions} \cap Scenarios
================================================================================
