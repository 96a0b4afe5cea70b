------------------------------- MODULE MCListings --------------------------------
(***************************************************************************)
(* Small buckets, and the listings made of them. In other behaviours a     *)
(* document is decided upon (MCDocuments): the two share nothing but the   *)
(* run.                                                                    *)
(***************************************************************************)
EXTENDS Listings, MCDocuments

MCFolders == {[first |-> 1, last |-> 3], [first |-> 2, last |-> 3]}

-----------------------------------------------------------------------------
(* Objects. *)

Value(marker, date, excluded) == [marker |-> marker, date |-> date, excluded |-> excluded]
Live   == Value(FALSE, 1, FALSE)
Recent == Value(FALSE, 2, FALSE)
Marked == Value(FALSE, 1, TRUE)
Delete == Value(TRUE, 1, FALSE)

Object(versions) == [versions |-> versions, phd |-> FALSE, nullKey |-> 0, master |-> FALSE]

NoObject    == Object(<<>>)
Unversioned == [Object(<<Live>>) EXCEPT !.master = TRUE]
OneVersion  == Object(<<Marked>>)
Versioned   == Object(<<Recent, Live, Marked>>)
Deleted     == Object(<<Delete, Recent>>)
Orphan      == Object(<<Delete>>)
NullBehind  == [Object(<<Live, Live>>) EXCEPT !.nullKey = 2]
HeldMaster  == [Object(<<Live, Recent>>) EXCEPT !.phd = TRUE]
LeftOver    == [NoObject EXCEPT !.phd = TRUE]

Objects == {NoObject, Unversioned, OneVersion, Versioned, Deleted, Orphan, NullBehind,
            HeldMaster, LeftOver}

MCBuckets == {b \in [Names -> {NoObject, Versioned, Deleted, Orphan, HeldMaster}] : b[1] = b[3]}
             \cup {[k \in Names |-> IF k = n THEN o ELSE IF k = m THEN Orphan ELSE Versioned] :
                      n \in Names, m \in Names, o \in Objects}

-----------------------------------------------------------------------------
(* Listings. *)

Listing(type, format, maxKeys, maxScanned, delimiter, prefix) ==
    [type |-> type, format |-> format, maxKeys |-> maxKeys, maxScanned |-> maxScanned,
     delimiter |-> delimiter, prefix |-> prefix, marker |-> NoPos, vidMarker |-> NoVid,
     filtered |-> FALSE]

Formats == {"v0", "v1"}
Folder == [first |-> 1, last |-> 3]

MCParameters ==
    {Listing("DelimiterMaster", f, n, 0, d, p) :
        f \in Formats, n \in {1, 3}, d \in BOOLEAN, p \in {NoFolder, Folder}}
    \cup {Listing("DelimiterCurrent", f, n, s, FALSE, NoFolder) : f \in Formats, n \in {2}, s \in {0, 1}}
    \cup {Listing("DelimiterVersions", f, n, 0, d, NoFolder) :
            f \in Formats, n \in {1, 2}, d \in BOOLEAN}
    \cup {Listing("DelimiterNonCurrent", f, n, s, FALSE, NoFolder) :
            f \in Formats, n \in {1, 2}, s \in {0, 5}}
    \cup {Listing("DelimiterOrphanDeleteMarker", f, n, s, FALSE, NoFolder) :
            f \in Formats, n \in {1, 2}, s \in {0, 4}}
    \cup {Listing("MPU", "v0", n, 0, FALSE, NoFolder) : n \in {1, 2}}
    \cup {[Listing("Basic", "v0", 2, 0, FALSE, NoFolder) EXCEPT !.filtered = f] : f \in BOOLEAN}

-----------------------------------------------------------------------------
(* What the gap cache may hold: gaps between keys of deleted objects. *)

Gap(first, last) == [first |-> first, last |-> last, weight |-> 2]

Dead(b, k) == b[k].versions = <<>> \/ b[k].versions[1].marker

\* The gaps that end at one of the keys given.
GapsUpTo(b, ends) ==
    {g \in {Gap(At(j, 0), last) : j \in {n \in Names : b[n].versions # <<>>}, last \in ends} :
        /\ g.first < g.last
        /\ \A k \in Names : At(k, 0) >= g.first /\ At(k, 0) <= g.last => Dead(b, k)}

Stored(b) == {k \in Names : b[k].versions # <<>>}

\* Gaps that end at the last key of an object.
MCCachedGaps == [b \in Buckets |->
    {{}} \cup {{g} : g \in GapsUpTo(b, {Max(StoredKeys(b[k], k, "v0")) : k \in Stored(b)})}]

-----------------------------------------------------------------------------
(* Listings beside documents. *)

IdleListings ==
    /\ bucket = CHOOSE b \in Buckets : TRUE
    /\ listing = CHOOSE p \in Parameters : TRUE
    /\ gaps = {}
    /\ LsInit

ComputationsInit ==
    \/ subject = "listings" /\ IdlePolicies /\ IdleConfigurations /\ LsInit
    \/ IdleListings /\ DocumentsInit

ComputationsNext ==
    \/ subject = "listings" /\ LsNext /\ UNCHANGED documentVars
    \/ DocumentsNext /\ UNCHANGED lsVars

ComputationsSpec == ComputationsInit /\ [][ComputationsNext]_<<documentVars, lsVars>>

\* Every listing comes to its last page, under the fairness of the iteration: however many
\* entries are skipped or held back, each page ends and the next one goes on behind it.
FairListingsEnd == subject = "listings" /\ LsFairness => EveryListingEnds
=================================================================================
