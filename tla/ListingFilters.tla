---------------------------- MODULE ListingFilters -----------------------------
(***************************************************************************)
(* The filters (algos/list) that an iteration over the ordered keys of a   *)
(* bucket calls with one entry at a time: for the listing of current       *)
(* objects Delimiter, DelimiterMaster and DelimiterCurrent; for versions   *)
(* DelimiterVersions, DelimiterNonCurrent and DelimiterOrphanDeleteMarker; *)
(* and the two small ones, MultipartUploads and Basic's List.              *)
(*                                                                         *)
(* A string is its position in the order of keys. The object k has the     *)
(* position k * Slots as its name, which is its master key; the slots above *)
(* are "k\0" (NullSlot) and its version keys, newest first; the last slot  *)
(* is behind all of them, k + inc(VID_SEP). A prefix that ends with the    *)
(* delimiter is a folder, which holds the names from first to last, and    *)
(* has the position of the name first. A version id is the slot of its     *)
(* key, and p.vidMarker the version id marker of the parameters p.         *)
(***************************************************************************)
EXTENDS Integers, Sequences, FiniteSets, FiniteSetsExt

CONSTANTS
    MaxName,        \* object names are 1 .. MaxName
    Slots,          \* positions of a name
    Folders,        \* the prefixes that end with the delimiter: [first, last]
    NoFolder,       \* no prefix
    NoPos,          \* an undefined string
    UndefinedAt,    \* the position of "undefined" with the separator behind it
    BeforeDate,     \* DelimiterCurrent: objects modified before this date
    MinGapWeight,   \* gap building: the weight a gap must have to be saved,
    TriggerWeight,  \* and the weight at which it is saved while it grows
    NoVid,          \* no version id marker
    NullVid,        \* the version id of a null version
    NoName, NoValue

ASSUME ListingAssumption ==
    /\ MaxName \in Nat \ {0} /\ Slots \in Nat /\ Slots > 3
    /\ \A f \in Folders : f.first \in 1 .. MaxName /\ f.last \in f.first .. MaxName
    /\ NoPos \notin Int

Names == 1 .. MaxName
NullSlot == 1
At(name, slot) == name * Slots + slot
NameOf(pos) == pos \div Slots
SlotOf(pos) == pos % Slots
IsVersionKey(pos) == SlotOf(pos) # 0

\* startsWith(), and inc(): the first string behind all that start with the prefix.
Within(pos, folder) == NameOf(pos) \in folder.first .. folder.last
Position(folder) == At(folder.first, 0)
Inc(folder) == At(folder.last + 1, 0)
IncSeparator(pos) == At(NameOf(pos), Slots - 1)

-----------------------------------------------------------------------------
(* Delimiter. p holds the parameters of a listing: delimiter (whether there is one), *)
(* prefix, marker, maxKeys, maxScanned (0: no limit), format, type.                  *)

\* The common prefix of a name: the outermost folder that holds it inside the prefix.
CommonPrefix(p, pos) ==
    LET inside(f) == p.prefix = NoFolder
                       \/ (f # p.prefix /\ f.first >= p.prefix.first /\ f.last <= p.prefix.last)
        all == {f \in Folders : inside(f) /\ Within(pos, f)}
    IN  IF ~p.delimiter \/ all = {} THEN NoFolder
        ELSE CHOOSE f \in all : \A g \in all : g.first >= f.first /\ g.last <= f.last

\* genMDParams(): the keys from (or behind) a position, up to another.
ListingRange(p) ==
    LET start  == IF p.prefix = NoFolder THEN 0 ELSE Position(p.prefix)
        folder == IF p.marker = NoPos THEN NoFolder ELSE CommonPrefix(p, p.marker)
        gte    == IF folder # NoFolder /\ Inc(folder) > start THEN Inc(folder) ELSE start
    IN  [from |-> IF p.marker # NoPos /\ p.marker >= gte THEN p.marker + 1 ELSE gte,
         to   |-> IF p.prefix = NoFolder THEN At(MaxName + 1, 0) ELSE Inc(p.prefix)]

\* A step of a filter: the listing afterwards and what filter() returns.
Step(l, ret) == [l |-> l, ret |-> ret]

NotSkipping == [id |-> "NotSkipping"]
SkippingPrefix(folder) == [id |-> "SkippingPrefix", prefix |-> folder]
SkippingVersions(pos) == [id |-> "SkippingVersionsV0", masterKey |-> pos]
WaitVersionAfterPHD(pos) == [id |-> "WaitVersionAfterPHDV0", masterKey |-> pos]
SkippingGap == [id |-> "SkippingGapV0"]

NoGapCaching == [state |-> "NoGapCache"]
NoGapBuilding == [state |-> "Disabled"]

\* The constructor: an initial state of its own behind a marker in the v0 format.
NewListing(p) ==
    [p |-> p, keys |-> 0, scanned |-> 0, out |-> <<>>, truncated |-> FALSE,
     nextMarker |-> p.marker,
     state |-> IF p.format = "v0" /\ p.marker # NoPos THEN SkippingVersions(p.marker)
               ELSE NotSkipping,
     caching |-> NoGapCaching, building |-> NoGapBuilding, saved |-> {}]

\* _reachedMaxKeys(), with the number of scanned keys in DelimiterCurrent.
ReachedMaxKeys(l) ==
    \/ l.keys >= l.p.maxKeys
    \/ l.p.type = "DelimiterCurrent" /\ l.p.maxScanned > 0 /\ l.scanned >= l.p.maxScanned

End(l) == Step([l EXCEPT !.truncated = TRUE], "end")

\* addContents(); DelimiterCurrent adds what is old enough, and moves the marker anyway.
AddContents(l, pos, value) ==
    LET wanted == l.p.type = "DelimiterCurrent" => value.date < BeforeDate
    IN  [l EXCEPT !.out = IF wanted THEN Append(@, [key |-> NameOf(pos), prefix |-> NoFolder]) ELSE @,
                  !.keys = IF wanted THEN @ + 1 ELSE @,
                  !.scanned = @ + 1,
                  !.nextMarker = pos]

AddCommonPrefix(l, folder) ==
    [l EXCEPT !.out = Append(@, [key |-> folder.first, prefix |-> folder]),
              !.keys = @ + 1,
              !.nextMarker = Position(folder)]

\* keyHandler_NeverSkipping and keyHandler_NotSkippingPrefix.
AddKeyOrPrefix(l, pos, value, next) ==
    LET folder == CommonPrefix(l.p, pos)
    IN  IF ReachedMaxKeys(l) THEN End(l)
        ELSE IF folder # NoFolder
             THEN Step([AddCommonPrefix(l, folder) EXCEPT !.state = SkippingPrefix(folder)], "accept")
             ELSE Step([AddContents(l, pos, value) EXCEPT !.state = next], "accept")

-----------------------------------------------------------------------------
(* DelimiterMaster: gaps. A listing builds gaps of current delete markers, which it   *)
(* saves in the gap cache, and skips those it has looked up there. The keys of a gap  *)
(* are full keys, of versions too.                                                   *)

\* refreshGapCache() at the beginning of a listing.
RefreshGapCache(l) ==
    [l EXCEPT !.caching = [state |-> "UnknownGap"], !.building = [state |-> "NotBuilding"]]

\* _saveBuildingGap(), within the time allowed: the rest begins with the last key.
SaveBuildingGap(l) ==
    LET g == l.building
    IN  [l EXCEPT !.saved = @ \cup {[first |-> g.first, last |-> g.last, weight |-> g.weight]},
                  !.building.first = g.last, !.building.weight = 0]

CreateBuildingGap(l, pos, weight, cachedWeight) ==
    IF l.building.state # "NotBuilding" THEN l
    ELSE [l EXCEPT !.building = [state |-> "Building", first |-> pos, last |-> pos,
                                 weight |-> weight, total |-> cachedWeight + weight]]

UpdateBuildingGap(l, pos) ==
    LET g == [l EXCEPT !.building.last = pos, !.building.weight = @ + 1, !.building.total = @ + 1]
    IN  IF g.building.total >= MinGapWeight /\ g.building.weight >= TriggerWeight
        THEN SaveBuildingGap(g) ELSE g

\* Mutant: the gap goes on behind a live object.
KeepBuildingGap(l) == l

CutBuildingGap(l) ==
    IF l.building.state # "Building" THEN l
    ELSE LET saved == IF l.building.total >= MinGapWeight /\ l.building.weight > 0
                      THEN SaveBuildingGap(l) ELSE l
         IN  [saved EXCEPT !.building = [state |-> "NotBuilding"]]

\* _checkGapOnMasterDeleteMarker(): the gap at hand is extended; inside a cached gap
\* it is cut and the rest of that one skipped; behind it the next one is looked up.
CheckGapOnMasterDeleteMarker(l, pos) ==
    LET grown == CASE l.building.state = "NotBuilding" -> CreateBuildingGap(l, pos, 1, 0)
                   [] l.building.state = "Building"    -> UpdateBuildingGap(l, pos)
                   [] OTHER                            -> l
        c == grown.caching
        inside == c.state = "GapCached" /\ pos >= c.first /\ pos <= c.last
        lookup == c.state = "UnknownGap" \/ (c.state = "GapCached" /\ pos > c.last)
    IN  IF inside
        THEN Step(CutBuildingGap(IF grown.building.state = "Building"
                                 THEN [grown EXCEPT !.state = SkippingGap, !.building.weight = @ - 1]
                                 ELSE [grown EXCEPT !.state = SkippingGap]), "skip")
        ELSE Step(IF lookup
                  THEN [grown EXCEPT !.caching = [state |-> "GapLookupInProgress", from |-> pos]]
                  ELSE grown, "accept")

-----------------------------------------------------------------------------
(* DelimiterMaster: the handlers of each state. *)

OnNewMasterKeyV0(l, pos, value) ==
    CASE value.marker -> CheckGapOnMasterDeleteMarker([l EXCEPT !.state = SkippingVersions(pos)], pos)
      [] ~value.marker /\ value.phd -> Step([l EXCEPT !.state = WaitVersionAfterPHD(pos)], "accept")
      [] OTHER -> AddKeyOrPrefix(CutBuildingGap(l), pos, value, SkippingVersions(pos))

OnNewMasterKeyV1(l, pos, value) ==
    IF value.marker THEN Step(l, "accept") ELSE AddKeyOrPrefix(l, pos, value, NotSkipping)

\* Version keys are part of the weight of a gap.
InSkippingVersions(l, pos, value) ==
    IF ~IsVersionKey(pos) THEN OnNewMasterKeyV0(l, pos, value)
    ELSE Step(IF l.building.state = "Building" THEN UpdateBuildingGap(l, pos) ELSE l, "skip")

\* The first version behind a place holder stands for its master.
InWaitVersionAfterPHD(l, pos, value) ==
    IF IsVersionKey(pos) /\ At(NameOf(pos), 0) = l.state.masterKey
    THEN OnNewMasterKeyV0(l, At(NameOf(pos), 0), value)
    ELSE OnNewMasterKeyV0(l, pos, value)

InNotSkipping(l, pos, value) ==
    IF l.p.format = "v0" THEN OnNewMasterKeyV0(l, pos, value) ELSE OnNewMasterKeyV1(l, pos, value)

InSkippingPrefix(l, pos, value) ==
    IF Within(pos, l.state.prefix) THEN Step(l, "skip")
    ELSE InNotSkipping([l EXCEPT !.state = NotSkipping], pos, value)

\* Behind the gap a new one begins at its last key, to be chained to it. The state is
\* left without a master key.
InSkippingGap(l, pos, value) ==
    IF pos <= l.caching.last THEN Step(l, "skip")
    ELSE LET c == l.caching
             past == [l EXCEPT !.caching = [state |-> "UnknownGap"], !.state = SkippingVersions(NoPos)]
         IN  InSkippingVersions(CreateBuildingGap(past, c.last, 0, c.weight), pos, value)

Filter(l, pos, value) ==
    CASE l.state.id = "NotSkipping"           -> InNotSkipping(l, pos, value)
      [] l.state.id = "SkippingPrefix"        -> InSkippingPrefix(l, pos, value)
      [] l.state.id = "SkippingVersionsV0"    -> InSkippingVersions(l, pos, value)
      [] l.state.id = "WaitVersionAfterPHDV0" -> InWaitVersionAfterPHD(l, pos, value)
      [] l.state.id = "SkippingGapV0"         -> InSkippingGap(l, pos, value)

\* skipping(): where the iteration may go on. Without a master key that is the string
\* "undefined" followed by the separator, a position like any other.
Skipping(l) ==
    CASE l.state.id = "SkippingPrefix"     -> Inc(l.state.prefix)
      [] l.state.id = "SkippingVersionsV0" ->
             IF l.state.masterKey = NoPos THEN UndefinedAt ELSE IncSeparator(l.state.masterKey)
      [] l.state.id = "SkippingGapV0"      -> l.caching.last
      [] OTHER                             -> NoPos

\* result(): the marker of the next page is given when there is one.
Result(l) == CutBuildingGap(l)

-----------------------------------------------------------------------------
(* DelimiterVersions. *)

\* genMDParams(): with a version id marker from "k\0" on, to meet a null key;
\* otherwise from behind the versions of the marker.
VersionRange(p) ==
    LET range == ListingRange(p)
        atMarker == p.marker # NoPos /\ range.from = p.marker + 1
    IN  [range EXCEPT !.from = IF ~atMarker THEN @
                               ELSE IF p.vidMarker # NoVid THEN At(NameOf(p.marker), NullSlot)
                               ELSE IncSeparator(p.marker) + 1]

SkippingToMarker == [id |-> "SkippingVersions"]

NewVersionListing(p) ==
    [p |-> p, keys |-> 0, scanned |-> 0, out |-> <<>>, truncated |-> FALSE,
     nextMarker |-> p.marker, nextVid |-> NoVid,
     state |-> IF p.vidMarker # NoVid THEN SkippingToMarker ELSE NotSkipping,
     master |-> NoName, masterVid |-> NoVid, nullKey |-> NoValue,
     prevKey |-> NoName, name |-> NoName, value |-> NoValue]

\* DelimiterOrphanDeleteMarker says that a listing is truncated only at its end.
ReachedMaxVersions(l) == l.keys >= l.p.maxKeys

EndOfVersions(l) ==
    Step(IF l.p.type = "DelimiterOrphanDeleteMarker" THEN l ELSE [l EXCEPT !.truncated = TRUE], "end")

Item(name, vid) == [key |-> name, vid |-> vid, prefix |-> NoFolder]

\* addVersion() of DelimiterVersions.
AddAnyVersion(l, name, vid) ==
    [l EXCEPT !.out = Append(@, Item(name, vid)), !.keys = @ + 1,
              !.nextMarker = At(name, 0), !.nextVid = vid]

\* addVersion() of DelimiterNonCurrent: the first version of a name is the current one;
\* another was replaced at the date of the version before it (value, here).
AddNonCurrent(l, name, vid, value) ==
    LET current == name # l.prevKey
        wanted  == ~current /\ l.value.date < BeforeDate /\ ~value.excluded
    IN  [l EXCEPT !.nextMarker = At(name, 0), !.nextVid = vid,
                  !.prevKey = name, !.value = value,
                  !.out = IF wanted THEN Append(@, Item(name, vid)) ELSE @,
                  !.keys = IF wanted THEN @ + 1 ELSE @]

\* _addOrphan(): the version held is the only one of its name.
AddOrphan(l) ==
    IF l.value.marker /\ l.value.date < BeforeDate
    THEN [l EXCEPT !.out = Append(@, Item(l.name, NoVid)), !.keys = @ + 1, !.nextMarker = At(l.name, 0)]
    ELSE l

\* Mutant: other versions of a name do not move the marker.
HoldVersionOnly(l, name, value) ==
    IF name # l.name
    THEN [(IF l.value # NoValue THEN AddOrphan(l) ELSE l)
              EXCEPT !.prevKey = l.name, !.name = name, !.value = value]
    ELSE [l EXCEPT !.value = NoValue]

\* addVersion() of DelimiterOrphanDeleteMarker holds the first version of a name until
\* the next key tells whether it has others.
HoldVersion(l, name, value) ==
    IF name # l.name
    THEN LET checked == IF l.value # NoValue THEN AddOrphan(l) ELSE l
         IN  [checked EXCEPT !.prevKey = l.name, !.name = name, !.value = value]
    ELSE [l EXCEPT !.prevKey = name, !.value = NoValue]

AddVersion(l, name, vid, value) ==
    CASE l.p.type = "DelimiterVersions"           -> AddAnyVersion(l, name, vid)
      [] l.p.type = "DelimiterNonCurrent"         -> AddNonCurrent(l, name, vid, value)
      [] l.p.type = "DelimiterOrphanDeleteMarker" -> HoldVersion(l, name, value)

\* addKey(), with addCommonPrefix().
AddKey(l, name, vid, value) ==
    LET folder == CommonPrefix(l.p, At(name, 0))
    IN  IF folder = NoFolder THEN AddVersion(l, name, vid, value)
        ELSE [l EXCEPT !.out = Append(@, [key |-> folder.first, vid |-> NoVid, prefix |-> folder]),
                       !.keys = @ + 1, !.nextMarker = Position(folder), !.nextVid = NoVid,
                       !.state = SkippingPrefix(folder)]

\* filter_onNewKey(): the version key of the master is not listed again.
OnNewKey(l, name, slot, value) ==
    IF ReachedMaxVersions(l) THEN EndOfVersions(l)
    ELSE IF slot = 0
         THEN LET vid == IF value.vid = NoVid THEN NullVid ELSE value.vid
              IN  Step(AddKey([l EXCEPT !.master = name, !.masterVid = vid], name, vid, value), "accept")
         ELSE IF l.master = name /\ l.masterVid = slot THEN Step(l, "accept")
              ELSE Step(AddKey(l, name, slot, value), "accept")

\* keyHandler_NotSkippingV0 and V1: place holders are not listed.
VersionNotSkipping(l, name, slot, value) ==
    IF value.phd THEN Step(l, "accept") ELSE OnNewKey(l, name, slot, value)

VersionSkippingPrefix(l, name, slot, value) ==
    IF Within(At(name, 0), l.state.prefix) THEN Step(l, "skip")
    ELSE VersionNotSkipping([l EXCEPT !.state = NotSkipping], name, slot, value)

\* keyHandler_SkippingVersions: up to the marker, which DelimiterNonCurrent reads again.
VersionSkippingToMarker(l, name, slot, value) ==
    LET ofMarker == At(name, 0) = l.p.marker
    IN  CASE ofMarker /\ slot < l.p.vidMarker -> Step(l, "skip")
          [] ofMarker /\ slot = l.p.vidMarker /\ l.p.type = "DelimiterVersions" -> Step(l, "accept")
          [] OTHER -> VersionNotSkipping([l EXCEPT !.state = NotSkipping], name, slot, value)

HandleVersion(l, name, slot, value) ==
    CASE l.state.id = "NotSkipping"      -> VersionNotSkipping(l, name, slot, value)
      [] l.state.id = "SkippingPrefix"   -> VersionSkippingPrefix(l, name, slot, value)
      [] l.state.id = "SkippingVersions" -> VersionSkippingToMarker(l, name, slot, value)

\* Mutant: the null key that is held is forgotten.
NullKeyForgotten(l) == [l EXCEPT !.nullKey = NoValue]

\* The null key of a name comes before its versions and is held until its turn.
WithNullKey(l) ==
    LET n == l.nullKey
    IN  IF n = NoValue THEN l
        ELSE [HandleVersion(l, n.name, n.value.vid, n.value).l EXCEPT !.nullKey = NoValue]

FilterOfVersions(l, pos, value) ==
    LET name == NameOf(pos)
        n    == l.nullKey
        due  == n # NoValue /\ (n.name # name \/ (SlotOf(pos) # 0 /\ n.value.vid < SlotOf(pos)))
        then == IF due THEN WithNullKey(l) ELSE l
    IN  IF SlotOf(pos) = NullSlot
        THEN Step([then EXCEPT !.nullKey = [name |-> name, value |-> value]],
                  IF then.state = SkippingToMarker THEN "skip" ELSE "accept")
        ELSE HandleVersion(then, name, SlotOf(pos), value)

\* filter() of the lifecycle listings ends a listing that has scanned enough. That of
\* orphans goes on at the name before the one it holds.
ScannedEnough(l) == l.p.maxScanned > 0 /\ l.scanned >= l.p.maxScanned

FilterVersion(l, pos, value) ==
    CASE l.p.type = "DelimiterVersions" -> FilterOfVersions(l, pos, value)
      [] l.p.type = "DelimiterNonCurrent" /\ ScannedEnough(l) ->
             Step([l EXCEPT !.truncated = TRUE], "end")
      [] l.p.type = "DelimiterOrphanDeleteMarker" /\ ScannedEnough(l) ->
             Step([l EXCEPT !.truncated = TRUE,
                            !.nextMarker = IF l.prevKey = NoName THEN NoPos ELSE At(l.prevKey, 0)], "end")
      [] OTHER -> FilterOfVersions([l EXCEPT !.scanned = @ + 1], pos, value)

\* skipping().
SkippingOfVersions(l) ==
    CASE l.state.id = "SkippingPrefix"   -> Inc(l.state.prefix)
      [] l.state.id = "SkippingVersions" -> At(NameOf(l.p.marker), l.p.vidMarker) + 1
      [] OTHER                           -> NoPos

\* result(): a null key that is still held, or the last orphan, is added.
ResultOfVersions(l) ==
    LET flushed == WithNullKey(l)
    IN  IF l.p.type # "DelimiterOrphanDeleteMarker" THEN flushed
        ELSE IF ScannedEnough(l) THEN l
        ELSE IF ReachedMaxVersions(l) THEN [l EXCEPT !.truncated = TRUE]
        ELSE IF l.value # NoValue THEN AddOrphan(l) ELSE l

-----------------------------------------------------------------------------
(* MultipartUploads: the slots of a name are its uploads. *)

UploadRange(p) ==
    LET start == IF p.prefix = NoFolder THEN 0 ELSE Position(p.prefix)
        after == IF p.marker = NoPos THEN 0
                 ELSE IF p.vidMarker = NoVid THEN IncSeparator(p.marker)
                 ELSE At(NameOf(p.marker), p.vidMarker) + 1
    IN  [from |-> Max({start, after}),
         to   |-> IF p.prefix = NoFolder THEN At(MaxName + 1, 0) ELSE Inc(p.prefix)]

FilterUpload(l, pos, value) ==
    LET folder == CommonPrefix(l.p, pos)
        listed == \E i \in DOMAIN l.out : l.out[i].prefix = folder
    IN  IF ReachedMaxVersions(l) THEN Step([l EXCEPT !.truncated = TRUE], "end")
        ELSE IF folder = NoFolder
             THEN Step(AddAnyVersion(l, NameOf(pos), SlotOf(pos)), "accept")
             ELSE Step(IF listed THEN l
                       ELSE [l EXCEPT !.out = Append(@, [key |-> folder.first, vid |-> NoVid,
                                                         prefix |-> folder]),
                                      !.keys = @ + 1, !.nextMarker = Position(folder)], "accept")

-----------------------------------------------------------------------------
(* Basic: the entries with a custom attribute (value.excluded, here) if p.filtered. *)

FilterBasic(l, pos, value) ==
    IF ReachedMaxVersions(l) THEN Step(l, "end")
    ELSE IF l.p.filtered /\ ~value.excluded THEN Step(l, "accept")
    ELSE Step(AddAnyVersion(l, NameOf(pos), SlotOf(pos)), "accept")
================================================================================
