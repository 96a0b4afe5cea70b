-------------------------------- MODULE Listings -------------------------------
(***************************************************************************)
(* A bucket is listed page by page: internalListObject() of the MongoDB    *)
(* backend reads a stream of keys into a filter, jumps over ranges as      *)
(* algos/list/skip.js allows, and the client asks for the next page with   *)
(* the markers of the last one. What all pages hold is compared with the   *)
(* listing defined over the whole bucket.                                  *)
(***************************************************************************)
EXTENDS ListingFilters, SequencesExt

CONSTANTS
    Buckets,        \* contents: for each name, the versions, newest first, and how they are stored
    Parameters,     \* the listings made
    CachedGaps,     \* CachedGaps[b]: the sets of gaps that the gap cache may hold
    MaxStreak       \* MAX_STREAK_LENGTH: skipped entries before a jump

VARIABLES
    bucket, listing, gaps,
    l,              \* the state of the filter
    at,             \* the position the stream reads from
    streak, gteFrom, \* the state of Skip
    pages,          \* the items of the pages before
    phase           \* "reading", "result" or "done"

lsVars == <<bucket, listing, gaps, l, at, streak, gteFrom, pages, phase>>

CurrentTypes == {"DelimiterMaster", "DelimiterCurrent"}
VersionTypes == {"DelimiterVersions", "DelimiterNonCurrent", "DelimiterOrphanDeleteMarker"}

-----------------------------------------------------------------------------
(* How a bucket is stored. An object is [versions, phd, nullKey, master]: versions is a *)
(* sequence of values, the newest first; phd, whether its master is a place holder;    *)
(* nullKey, which of the versions is stored as "k\0" (0: none); master, whether the    *)
(* only version has no version key (an object put without versioning).                 *)

PlaceHolderValue == [vid |-> NoVid, marker |-> FALSE, phd |-> TRUE, date |-> 0, excluded |-> FALSE]

\* The i-th version: its id is its slot.
SlotOfVersion(i) == i + 1
VersionValue(o, i) == [vid |-> IF o.master THEN NoVid ELSE SlotOfVersion(i), marker |-> o.versions[i].marker,
                       phd |-> FALSE, date |-> o.versions[i].date, excluded |-> o.versions[i].excluded]

\* The keys and values of an object. In the v1 format there is no master behind a
\* delete marker.
StoredKeys(o, k, format) ==
    LET n == Len(o.versions)
    IN  (IF o.phd \/ (n > 0 /\ ~(format = "v1" /\ o.versions[1].marker)) THEN {At(k, 0)} ELSE {})
        \cup (IF o.master THEN {}
              ELSE {At(k, IF o.nullKey = i THEN NullSlot ELSE SlotOfVersion(i)) : i \in 1 .. n})

StoredValue(o, slot) ==
    IF slot = 0 THEN (IF o.phd THEN PlaceHolderValue ELSE VersionValue(o, 1))
    ELSE IF slot = NullSlot THEN VersionValue(o, o.nullKey)
    ELSE VersionValue(o, slot - 1)

\* The stream that a listing reads: in the v1 format the masters only, a place holder
\* replaced by the latest version (resolvePhdKey), or both key ranges merged. The version keys
\* stand for the uploads of MultipartUploads.
Stream(p, b) ==
    LET all == UNION {StoredKeys(b[k], k, p.format) : k \in Names}
    IN  IF p.type \in CurrentTypes /\ p.format = "v1"
        THEN {pos \in all : SlotOf(pos) = 0 /\ (b[NameOf(pos)].phd => b[NameOf(pos)].versions # <<>>)}
        ELSE IF p.type = "MPU" THEN {pos \in all : IsVersionKey(pos)}
        ELSE all

StreamValue(p, b, pos) ==
    LET o == b[NameOf(pos)]
    IN  IF p.type \in CurrentTypes /\ p.format = "v1" /\ o.phd THEN VersionValue(o, 1)
        ELSE StoredValue(o, SlotOf(pos))

-----------------------------------------------------------------------------
(* The iteration. *)

New(p) ==
    IF p.type \in CurrentTypes
    THEN IF gaps # {} /\ p.format = "v0" THEN RefreshGapCache(NewListing(p)) ELSE NewListing(p)
    ELSE NewVersionListing(p)

RangeOf(p) ==
    CASE p.type \in CurrentTypes -> ListingRange(p)
      [] p.type \in VersionTypes -> VersionRange(p)
      [] p.type = "MPU"          -> UploadRange(p)
      [] p.type = "Basic"        -> [from |-> 0, to |-> At(MaxName + 1, 0)]

FilterEntry(pos, value) ==
    CASE l.p.type \in CurrentTypes -> Filter(l, pos, value)
      [] l.p.type \in VersionTypes -> FilterVersion(l, pos, value)
      [] l.p.type = "MPU"          -> FilterUpload(l, pos, value)
      [] l.p.type = "Basic"        -> FilterBasic(l, pos, value)

SkipTo(m) ==
    CASE m.p.type \in CurrentTypes -> Skipping(m)
      [] m.p.type \in VersionTypes -> SkippingOfVersions(m)
      [] OTHER                     -> NoPos

LsInit ==
    /\ bucket \in Buckets /\ listing \in Parameters
    /\ gaps \in CachedGaps[bucket]
    /\ gaps # {} => listing.type = "DelimiterMaster" /\ listing.format = "v0"
    /\ l = New(listing)
    /\ at = RangeOf(listing).from /\ gteFrom = at
    /\ streak = 0 /\ pages = <<>> /\ phase = "reading"

Remaining == {pos \in Stream(listing, bucket) : pos >= at /\ pos < RangeOf(l.p).to}

\* One entry of the stream goes through Skip.filter() into the filter.
ReadEntry ==
    /\ phase = "reading" /\ Remaining # {}
    /\ \E pos \in {Min(Remaining)} :
       \E step \in {FilterEntry(pos, StreamValue(listing, bucket, pos))} :
       LET to    == SkipTo(step.l)
           skips == step.ret = "skip" /\ to # NoPos
           long  == streak + 1 >= MaxStreak
           same  == to = gteFrom /\ ~(listing.format = "v1" /\ listing.type \in VersionTypes)
       IN  /\ l' = step.l
           /\ phase' = IF step.ret = "end" THEN "result" ELSE "reading"
           /\ \/ /\ skips /\ long /\ ~same
                 /\ at' = to /\ gteFrom' = to /\ streak' = 0
              \/ /\ skips /\ ~(long /\ ~same)
                 /\ streak' = IF long THEN 1 ELSE streak + 1
                 /\ at' = pos + 1 /\ UNCHANGED gteFrom
              \/ /\ ~skips
                 /\ streak' = 0 /\ at' = pos + 1 /\ UNCHANGED gteFrom
    /\ UNCHANGED <<bucket, listing, gaps, pages>>

EndOfStream ==
    /\ phase = "reading" /\ Remaining = {}
    /\ phase' = "result"
    /\ UNCHANGED <<bucket, listing, gaps, l, at, streak, gteFrom, pages>>

\* The answer of a lookup in the gap cache: the next gap, or that there is none.
LookupDone ==
    /\ phase = "reading" /\ l.p.type \in CurrentTypes /\ l.caching.state = "GapLookupInProgress"
    /\ LET next == {g \in gaps : g.last >= l.caching.from /\ g.first <= RangeOf(l.p).to}
       IN  l' = [l EXCEPT !.caching =
                     IF next = {} THEN [state |-> "NoMoreGap"]
                     ELSE LET g == CHOOSE g \in next : \A h \in next : g.first <= h.first
                          IN  [state |-> "GapCached", first |-> g.first, last |-> g.last,
                               weight |-> g.weight]]
    /\ UNCHANGED <<bucket, listing, gaps, at, streak, gteFrom, pages, phase>>

Final ==
    CASE l.p.type \in CurrentTypes -> Result(l)
      [] l.p.type \in VersionTypes -> ResultOfVersions(l)
      [] OTHER                     -> l

\* The client takes the page and asks for the next one, if the listing is truncated.
NextPage ==
    /\ phase = "result" /\ Final.truncated
    /\ LET f == Final
           p == IF listing.type \in CurrentTypes \cup {"DelimiterOrphanDeleteMarker"}
                THEN [listing EXCEPT !.marker = f.nextMarker]
                ELSE [listing EXCEPT !.marker = f.nextMarker, !.vidMarker = f.nextVid]
       IN  /\ pages' = pages \o f.out
           /\ l' = New(p)
           /\ at' = RangeOf(p).from /\ gteFrom' = RangeOf(p).from
    /\ streak' = 0 /\ phase' = "reading"
    /\ UNCHANGED <<bucket, listing, gaps>>

LastPage ==
    /\ phase = "result" /\ ~Final.truncated
    /\ l' = Final /\ pages' = pages \o Final.out /\ phase' = "done"
    /\ UNCHANGED <<bucket, listing, gaps, at, streak, gteFrom>>

LsNext == ReadEntry \/ EndOfStream \/ LookupDone \/ NextPage \/ LastPage

\* The stream delivers, and the client asks for every page.
LsFairness == WF_lsVars(ReadEntry \/ EndOfStream \/ NextPage \/ LastPage)
LsSpec == LsInit /\ [][LsNext]_lsVars /\ LsFairness

-----------------------------------------------------------------------------
(* The listing defined over the whole bucket. *)

InOrder(set) ==
    [i \in 1 .. Cardinality(set) |-> CHOOSE x \in set : Cardinality({y \in set : y < x}) = i - 1]

InPrefix(p, k) == p.prefix = NoFolder \/ Within(At(k, 0), p.prefix)

\* The items of one name, without regard to folders.
ItemsOf(p, k) ==
    LET o == bucket[k]
        n == Len(o.versions)
        all == [i \in 1 .. n |-> Item(k, IF o.master THEN NullVid ELSE SlotOfVersion(i))]
        wanted(item) ==
            LET i == IF o.master THEN 1 ELSE item.vid - 1
            IN  i > 1 /\ o.versions[i - 1].date < BeforeDate /\ ~o.versions[i].excluded
    IN  CASE p.type = "DelimiterMaster" ->
                 IF n > 0 /\ ~o.versions[1].marker THEN <<[key |-> k, prefix |-> NoFolder]>> ELSE <<>>
          [] p.type = "DelimiterCurrent" ->
                 IF n > 0 /\ ~o.versions[1].marker /\ o.versions[1].date < BeforeDate
                 THEN <<[key |-> k, prefix |-> NoFolder]>> ELSE <<>>
          [] p.type = "DelimiterVersions" -> all
          [] p.type = "DelimiterNonCurrent" -> SelectSeq(all, wanted)
          [] p.type = "DelimiterOrphanDeleteMarker" ->
                 IF n = 1 /\ o.versions[1].marker /\ o.versions[1].date < BeforeDate
                 THEN <<Item(k, NoVid)>> ELSE <<>>
          [] p.type = "MPU" ->
                 LET keys == InOrder({pos \in Stream(p, bucket) : NameOf(pos) = k})
                 IN  [i \in DOMAIN keys |-> Item(k, SlotOf(keys[i]))]

\* A folder takes the place of everything in it, once, if anything in it is listed.
ItemsOrFolder(p, k) ==
    LET folder == CommonPrefix(p, At(k, 0))
        first  == \A j \in folder.first .. k - 1 : ItemsOf(p, j) = <<>>
    IN  IF ~InPrefix(p, k) \/ ItemsOf(p, k) = <<>> THEN <<>>
        ELSE IF folder = NoFolder THEN ItemsOf(p, k)
        ELSE IF ~first THEN <<>>
        ELSE IF p.type \in CurrentTypes THEN <<[key |-> folder.first, prefix |-> folder]>>
        ELSE <<[key |-> folder.first, vid |-> NoVid, prefix |-> folder]>>

WholeListing(p) == FlattenSeq([k \in Names |-> ItemsOrFolder(p, k)])

-----------------------------------------------------------------------------
(* Properties. *)

\* No page holds more than the client asked for, and the stream never reads behind the
\* range of the prefix (genMDParams).
LsTypeOK ==
    /\ Len(l.out) <= l.p.maxKeys /\ l.keys = Len(l.out)
    /\ \A i \in DOMAIN l.out : InPrefix(listing, l.out[i].key)
    /\ streak \in 0 .. MaxStreak
    /\ phase \in {"reading", "result", "done"}

\* A listing of orphans that has scanned its limit of entries when it ends for another
\* reason is neither truncated nor given its last orphan.
ForgotAnOrphan == l.p.type = "DelimiterOrphanDeleteMarker" /\ ScannedEnough(l) /\ ~l.truncated

\* Basic ends at its limit, of entries that its filter lets through, without a marker.
BasicListing(p) ==
    LET wanted == {pos \in Stream(p, bucket) : p.filtered => StreamValue(p, bucket, pos).excluded}
        first  == InOrder(wanted)
    IN  [i \in 1 .. Min({Len(first), p.maxKeys}) |-> Item(NameOf(first[i]), SlotOf(first[i]))]

\* The pages hold, together and in order, the objects, versions and common prefixes of the
\* bucket, each once: whatever the jumps over ranges (skip.js), cached gaps, place holders,
\* null keys, and the entries at which the pages end.
PagesAreExact ==
    phase = "done" /\ ~ForgotAnOrphan =>
        pages = IF listing.type = "Basic" THEN BasicListing(listing) ELSE WholeListing(listing)

\* What a listing saves as a gap (_checkGapOnMasterDeleteMarker, _cutBuildingGap) holds no
\* object that a listing would return.
SavedGapsAreSkippable ==
    listing.type \in CurrentTypes =>
        \A g \in l.saved : \A k \in Names :
            At(k, 0) >= g.first /\ At(k, 0) <= g.last => ItemsOf(listing, k) = <<>>

\* A client that asks for page after page comes to the end (the marker of a page advances).
EveryListingEnds == <>(phase = "done")
================================================================================
