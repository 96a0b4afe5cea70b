------------------------- MODULE BucketConfigurations -------------------------
(***************************************************************************)
(* A client puts, gets and puts back a configuration of a bucket or of an  *)
(* object, and the lifecycle service works by the lifecycle rules that it  *)
(* reads. A behaviour is about one kind of configuration.                  *)
(***************************************************************************)
EXTENDS LifecycleConfiguration

CONSTANTS
    Documents,      \* Documents[kind]: what a client may put first
    OtherDocuments, \* OtherDocuments[kind]: what clients may put over it
    Queries,        \* the x-amz-tagging headers a client may put
    Items,          \* the objects that the lifecycle service looks at
    LastDay         \* bound of the clock, in days

VARIABLES
    kind,
    stored,         \* the stored configuration, Undefined if none
    document,       \* [xml, of]: what a client got, and what was stored then
    answer,         \* [call, error] of the last call
    day,
    applied         \* [rules, item, form, result]: the last item looked at

bcVars == <<kind, stored, document, answer, day, applied>>

Parse(xml) ==
    CASE xml = Undefined        -> [error |-> "MalformedXML", config |-> Undefined]
      [] kind = "lifecycle"    -> ParseLifecycle(xml)
      [] kind = "replication"  -> ParseReplication(xml)
      [] kind = "notification" -> ParseNotification(xml)
      [] kind = "objectLock"   -> ParseObjectLock(xml)
      [] kind = "tags"         -> ParseTags(xml)
      [] kind = "retention"    -> ParseRetention(xml, day)
      [] OTHER                 -> ParseLegalHold(xml)

\* The documents that the stored configuration may be given back as.
Renderings ==
    CASE kind = "lifecycle"    -> {GetConfigXml(stored)}
      [] kind = "replication"  -> {ReplicationXml(stored)}
      [] kind = "notification" -> {NotificationXml(stored)}
      [] kind = "objectLock"   -> {ObjectLockXml(stored)}
      [] kind = "tags"         -> TagsXml(stored)
      [] kind = "retention"    -> {RetentionXml(stored)}
      [] OTHER                 -> {LegalHoldXml(stored)}

BcInit ==
    /\ kind \in DOMAIN Documents
    /\ stored = Undefined
    /\ document = Undefined
    /\ answer = Undefined
    /\ day = 0
    /\ applied = Undefined

Store(call, parsed) ==
    /\ stored' = IF parsed.error = NoError THEN parsed.config ELSE stored
    /\ answer' = [call |-> call, error |-> parsed.error]
    /\ UNCHANGED <<kind, document, day, applied>>

Put == \E xml \in IF stored = Undefined THEN Documents[kind] ELSE OtherDocuments[kind] :
            Store("put", Parse(xml))

PutTagging ==
    /\ kind = "tags"
    /\ \E pairs \in Queries : Store("put", ParseTagFromQuery(pairs))

Get ==
    /\ stored # Undefined
    /\ \E xml \in Renderings : document' = [xml |-> xml, of |-> stored]
    /\ answer' = [call |-> "get", error |-> NoError]
    /\ applied' = Undefined
    /\ UNCHANGED <<kind, stored, day>>

PutBack ==
    /\ document # Undefined
    /\ Store("putBack", Parse(document.xml))

\* Rules of which every time is a number. Days that are none are accepted, and no
\* comparison of theirs holds; what the service makes of them is left out.
HasTimes(rules) ==
    \A r \in Range(rules) : \A x \in Range(r.actions) :
        LET t == x.times
            given(field) == IF t[field] = Undefined THEN {} ELSE Range(t[field])
        IN  /\ {t.days, t.date, t.deleteMarker, t.transition, t.nonCurrentVersionTransition} # {Undefined}
            /\ \A u \in given("transition") : u.days # NaN
            /\ \A u \in given("nonCurrentVersionTransition") : u.noncurrentDays # NaN

\* The lifecycle service reads the rules as XML or as JSON. (It changes nothing
\* that a client sees, so it need not be interleaved with a client's Get.)
LookAt(item, form) ==
    /\ kind = "lifecycle" /\ stored # Undefined /\ document = Undefined
    /\ HasTimes(stored)
    /\ \E xml \in Renderings :
        /\ xml # Undefined
        /\ LET rules == IF form = "json" THEN GetConfigJson(stored)
                        ELSE [i \in DOMAIN xml |-> SdkRule(xml[i])]
           IN  applied' = [rules |-> stored, item |-> item, form |-> form, day |-> day,
                           result |-> GetApplicableRules(FilterRules(rules, item), item, day)]
    /\ UNCHANGED <<kind, stored, document, answer, day>>

NextDay ==
    /\ day < LastDay
    /\ day' = day + 1
    /\ UNCHANGED <<kind, stored, document, answer, applied>>

BcNext ==
    \/ Put \/ PutTagging \/ Get \/ PutBack \/ NextDay
    \/ \E item \in Items, form \in {"json", "xml"} : LookAt(item, form)

BcSpec == BcInit /\ [][BcNext]_bcVars

-----------------------------------------------------------------------------
(* Properties. *)

\* The configurations that are accepted and that no document says: texts with markup are
\* not escaped in prefixes and tags of a lifecycle and in a notification, days that are no
\* number leave an expiration without a time, a replication may have no destination.
IsUnwritable(config) ==
    CASE kind = "lifecycle" ->
            \E r \in Range(config) :
                \/ UnescapedTexts(r) \cap Markup # {}
                \/ \E x \in Range(r.actions) :
                        x.actionName = "Expiration"
                            /\ {x.times.days, x.times.date, x.times.deleteMarker} = {Undefined}
      [] kind = "notification" -> \E c \in Range(config) : NotificationTexts(c) \cap Markup # {}
      [] kind = "replication"  -> config.destination = Undefined
      [] OTHER                 -> FALSE

\* What a client got and puts back is accepted and stored as it was when the
\* client got it, whatever was put in between. Excused: a retention is refused once its
\* date has passed, and the document of a configuration that IsUnwritable is refused (it is
\* not stored as something else; the violation is DocumentIsXml's).
PutBackRestores ==
    (answer # Undefined /\ answer.call = "putBack") =>
        \/ answer.error = NoError /\ stored = document.of
        \/ kind = "retention" /\ document.of.date < day
        \/ IsUnwritable(document.of) /\ answer.error # NoError

\* getConfigXml() gives the "XML representation of lifecycle configuration object"
\* (LifecycleConfiguration.ts:1185): what a client gets is a document that can be read.
DocumentIsXml == kind = "lifecycle" /\ document # Undefined => document.xml # Undefined

\* The actions that apply to an item are those of the enabled rules whose
\* prefix and tags the item has: the earliest expiration, the last transition
\* that is due and that would move the item.
RulesApplyAsStored ==
    applied # Undefined =>
        LET item == applied.item
            result == applied.result
            filter(r) == IF r.filter # Undefined THEN r.filter
                         ELSE [rulePrefix |-> r.prefix, tags |-> <<>>]
            matches(r) == /\ r.ruleStatus = "Enabled"
                          /\ filter(r).rulePrefix = Undefined
                                \/ IsPrefix(filter(r).rulePrefix, item.Key)
                          /\ \A t \in Range(filter(r).tags) :
                                [Key |-> t.key, Value |-> t.val] \in item.tags
            matching == SelectSeq(applied.rules, matches)
            times(name) == UNION {{a.times : a \in {b \in Range(r.actions) : b.actionName = name}}
                                  : r \in Range(matching)}
            earliest(name, time) ==
                LET given == {t[time] : t \in times(name)} \ {Undefined}
                IN  IF given = {} THEN Undefined ELSE Min(given)
            due(transitions, time(_)) == {t \in transitions : time(t) <= applied.day}
            lastDue(chosen, transitions, time(_)) ==
                LET candidates == due(transitions, time)
                    last == {t \in candidates : \A u \in candidates : time(u) <= time(t)}
                IN  IF chosen = Undefined
                    THEN last = {} \/ \E t \in last : t.storageClass = item.StorageClass
                    ELSE /\ chosen.StorageClass # item.StorageClass
                         /\ \E t \in last : t.storageClass = chosen.StorageClass
            early == IF TransitionOneDayEarlier THEN 1 ELSE 0
            currentTime(t) == IF t.date # Undefined THEN t.date
                              ELSE item.LastModified + t.days - early
            noncurrentTime(t) == item.LastModified + t.noncurrentDays - early
        IN  /\ LET e == result.Expiration
               IN  IF e = Undefined THEN times("Expiration") = {}
                   ELSE /\ e.Days = earliest("Expiration", "days")
                        /\ e.Date = earliest("Expiration", "date")
            /\ LET e == result.NoncurrentVersionExpiration
               IN  IF e = Undefined THEN times("NoncurrentVersionExpiration") = {}
                   ELSE /\ e.NoncurrentDays = earliest("NoncurrentVersionExpiration", "days")
                        /\ \E t \in times("NoncurrentVersionExpiration") :
                              /\ t.days = e.NoncurrentDays
                              /\ t.newerNoncurrentVersions = e.NewerNoncurrentVersions
            /\ LET e == result.AbortIncompleteMultipartUpload
                   expected == earliest("AbortIncompleteMultipartUpload", "days")
               IN  IF e = Undefined THEN expected = Undefined
                   ELSE e.DaysAfterInitiation = expected
            /\ applied.form = "xml" =>
                /\ lastDue(result.Transition,
                           UNION {Range(t.transition) : t \in times("Transition")}, currentTime)
                /\ lastDue(result.NoncurrentVersionTransition,
                           UNION {Range(t.nonCurrentVersionTransition)
                                  : t \in times("NoncurrentVersionTransition")}, noncurrentTime)

=============================================================================
