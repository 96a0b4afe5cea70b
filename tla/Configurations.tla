---------------------------- MODULE Configurations ----------------------------
(***************************************************************************)
(* The XML documents that clients send and get, as xml2js gives them to    *)
(* the code: an element is the sequence of its occurrences, <<>> when it   *)
(* is absent. A text is a sequence of parts, <<>> when it is empty. A      *)
(* number or a date is an integer, NaN when the text is none. An error is  *)
(* its name; "TypeError" is an exception of the code.                      *)
(*                                                                         *)
(* Then the replication, notification and object lock configurations of a  *)
(* bucket (models/) and the tags, the retention and the legal hold of an   *)
(* object (s3middleware/): reading the XML document of a client and giving *)
(* what is stored back.                                                    *)
(***************************************************************************)
EXTENDS Integers, Sequences, FiniteSets, SequencesExt

CONSTANTS
    Undefined, NaN,
    TooLong,                 \* texts longer than the limit
    Markup,                  \* texts with characters that XML must have escaped
    GeneratedIDs,            \* the ID given to the i-th rule when it has none
    MaxRules                 \* the code's 1000 rules, 50 tags

ASSUME DocumentAssumption ==
    /\ MaxRules \in Nat /\ Len(GeneratedIDs) >= MaxRules
    /\ IsInjective(GeneratedIDs)
    /\ <<>> \notin TooLong \cup Range(GeneratedIDs)

NoError == "none"

FirstError(errors) ==
    LET failed == SelectSeq(errors, LAMBDA e : e # NoError)
    IN  IF failed = <<>> THEN NoError ELSE failed[1]

FirstOf(element) == IF element = <<>> THEN Undefined ELSE element[1]

Optional(value) == IF value = Undefined THEN <<>> ELSE <<value>>

Less(m, n) == m # NaN /\ m < n
SameNumber(m, n) == m # NaN /\ n # NaN /\ m = n

\* The identifier of the i-th rule: its own, or a generated one.
IdentifierOf(element, i) ==
    IF FirstOf(element) \in {Undefined, <<>>} THEN GeneratedIDs[i] ELSE element[1]

-----------------------------------------------------------------------------
(* Replication. A storage class element is a sequence of [site,            *)
(* preferred]; a role element is a sequence of ARNs.                       *)

CONSTANTS
    ReplicationEndpoints,    \* sequence of [site, default, scality (no type), cold]
    ValidStorageClasses,     \* the storage classes that mean the default endpoint
    ValidBuckets,            \* destination ARNs that are well formed
    ValidRoles               \* role ARNs that are well formed

ASSUME ReplicationAssumption == ReplicationEndpoints # <<>>

DefaultEndpoint ==
    LET defaults == SelectSeq(ReplicationEndpoints, LAMBDA e : e.default)
    IN  IF defaults = <<>> THEN ReplicationEndpoints[1] ELSE defaults[1]

EndpointAt(site) == LET at == SelectSeq(ReplicationEndpoints, LAMBDA e : e.site = site)
                    IN  IF at = <<>> THEN Undefined ELSE at[1]

IsStorageClass(site) ==
    \/ site \in ValidStorageClasses
    \/ EndpointAt(site) # Undefined /\ ~EndpointAt(site).cold

\* _hasScalityDestination after one more storage class: the default endpoint
\* sets it, another endpoint only adds to it.
ScalityAfter(scality, site) ==
    IF site \in ValidStorageClasses THEN DefaultEndpoint.scality
    ELSE scality \/ EndpointAt(site).scality

\* What the parser knows after some rules: _hasScalityDestination,
\* _destination, _preferredReadLocation, _configPrefixes and _configIDs.
NothingParsed == [error |-> NoError, scality |-> FALSE, destination |-> Undefined,
                  preferred |-> Undefined, prefixes |-> {}, ids |-> {}, rules |-> <<>>]

ParseStatusPrefixID(state, rule) ==
    LET prefix == rule.Prefix[1]
        id == FirstOf(rule.ID)
    IN  CASE rule.Status = <<>> \/ rule.Prefix = <<>>    -> "MalformedXML"
          [] rule.Status[1] \notin {"Enabled", "Disabled"} -> "MalformedXML"
          [] prefix \in TooLong                            -> "InvalidArgument"
          [] \E used \in state.prefixes : IsPrefix(used, prefix) \/ IsPrefix(prefix, used)
                                                           -> "InvalidRequest"
          [] id \in TooLong                                -> "InvalidArgument"
          [] id \notin {Undefined, <<>>} /\ id \in state.ids -> "InvalidRequest"
          [] OTHER                                         -> NoError

\* _parseStorageClass(): the rules of a class that is not valid are refused.
ParseStorageClass(state, classes) ==
    LET preferred == SelectSeq(classes, LAMBDA c : c.preferred)
        sites == [i \in DOMAIN classes |-> classes[i].site]
    IN  IF classes = <<>> THEN [state EXCEPT !.scality = DefaultEndpoint.scality]
        ELSE IF \E i \in DOMAIN sites : ~IsStorageClass(sites[i])
             THEN [state EXCEPT !.error = "MalformedXML"]
             ELSE [state EXCEPT !.scality = FoldLeft(ScalityAfter, @, sites),
                                !.preferred = IF preferred = <<>> THEN @
                                              ELSE preferred[1].site]

ParseBucket(state, bucket) ==
    CASE bucket = <<>> /\ ~state.scality -> state
      [] bucket = <<>>                   -> [state EXCEPT !.error = "MalformedXML"]
      [] bucket[1] \notin ValidBuckets   -> [state EXCEPT !.error = "InvalidArgument"]
      [] state.destination \notin {Undefined, bucket[1]}
                                         -> [state EXCEPT !.error = "InvalidRequest"]
      [] OTHER                           -> [state EXCEPT !.destination = bucket[1]]

BuildRuleObject(rule, id) ==
    [id |-> id,
     prefix |-> rule.Prefix[1], enabled |-> rule.Status[1] = "Enabled",
     storageClass |-> rule.Destination[1].StorageClass]

ParseReplicationRule(state, rule) ==
    LET error == ParseStatusPrefixID(state, rule)
        dest  == rule.Destination[1]
        named == [state EXCEPT !.prefixes = @ \cup {rule.Prefix[1]},
                               !.ids = @ \cup Range(rule.ID)]
        class == ParseStorageClass(named, dest.StorageClass)
        all   == IF class.error # NoError THEN class ELSE ParseBucket(class, dest.Bucket)
        built == BuildRuleObject(rule, IdentifierOf(rule.ID, Len(state.rules) + 1))
    IN  CASE state.error # NoError      -> state
          [] error # NoError            -> [state EXCEPT !.error = error]
          [] rule.Destination = <<>>    -> [named EXCEPT !.error = "MalformedXML"]
          [] all.error # NoError        -> all
          [] OTHER                      -> [all EXCEPT !.rules = Append(@, built)]

RoleError(roles, scality) ==
    CASE roles = <<>>                          -> "MalformedXML"
      [] scality /\ Len(roles) # 2             -> "InvalidArgument"
      [] ~scality /\ Len(roles) > 1            -> "InvalidArgument"
      [] ~(Range(roles) \subseteq ValidRoles)  -> "InvalidArgument"
      [] OTHER                                 -> NoError

\* document: [Rule, Role]
ParseReplication(document) ==
    LET parsed == FoldLeft(ParseReplicationRule, NothingParsed, document.Rule)
        error  == CASE document.Rule = <<>>            -> "MalformedXML"
                    [] Len(document.Rule) > MaxRules   -> "InvalidRequest"
                    [] parsed.error # NoError          -> parsed.error
                    [] OTHER -> RoleError(document.Role, parsed.scality)
    IN  [error  |-> error,
         config |-> IF error # NoError THEN Undefined
                    ELSE [role |-> document.Role, destination |-> parsed.destination,
                          rules |-> parsed.rules, preferredReadLocation |-> parsed.preferred]]

\* getConfigXML(): a destination that is missing is written as "null".
ReplicationXml(config) ==
    [Role |-> config.role,
     Rule |-> [i \in DOMAIN config.rules |->
        LET rule == config.rules[i]
        IN  [ID |-> <<rule.id>>, Prefix |-> <<rule.prefix>>,
             Status |-> <<IF rule.enabled THEN "Enabled" ELSE "Disabled">>,
             Destination |-> <<[Bucket |-> <<config.destination>>,
                                StorageClass |-> rule.storageClass]>>]]]

-----------------------------------------------------------------------------
(* The other configurations.                                               *)

CONSTANTS
    SupportedEvents,         \* supportedNotificationEvents
    ValidQueues,             \* queue ARNs that are well formed
    MaxRetention             \* [Days, Years]: the code's 36500 and 100

Modes == {"GOVERNANCE", "COMPLIANCE"}

-----------------------------------------------------------------------------
(* Notification: a filter is [S3Key], an S3Key is [FilterRule].            *)

FilterRulesError(filter) ==
    LET s3Key == FirstOf(filter.S3Key)
        bad(r) == \/ r.Name = <<>> \/ FirstOf(r.Value) \in {Undefined, <<>>}
                  \/ r.Name[1] \notin {"Prefix", "Suffix"}
    IN  IF \/ s3Key = Undefined \/ s3Key.FilterRule = <<>>
           \/ \E i \in DOMAIN s3Key.FilterRule : bad(s3Key.FilterRule[i])
        THEN "MalformedXML" ELSE NoError

QueueError(queues, i) ==
    LET q == queues[i]
        id(j) == IdentifierOf(queues[j].Id, j)
    IN  FirstError(<<
            IF q.Event = <<>> \/ ~(Range(q.Event) \subseteq SupportedEvents)
            THEN "MalformedXML" ELSE NoError,
            IF q.Filter = <<>> THEN NoError ELSE FilterRulesError(q.Filter[1]),
            CASE FirstOf(q.Id) \in TooLong                -> "InvalidArgument"
              [] \E j \in 1 .. (i - 1) : id(j) = id(i) -> "InvalidRequest"
              [] OTHER                                    -> NoError,
            IF FirstOf(q.Queue) \in ValidQueues THEN NoError ELSE "MalformedXML">>)

ParsedQueue(q, i) ==
    [events |-> q.Event, queueArn |-> q.Queue[1], id |-> IdentifierOf(q.Id, i),
     filterRules |-> IF q.Filter = <<>> THEN Undefined
                     ELSE LET rules == q.Filter[1].S3Key[1].FilterRule
                          IN  [k \in DOMAIN rules |->
                                  [name |-> rules[k].Name[1], value |-> rules[k].Value[1]]]]

\* Without a queue the stored configuration is one that has none.
ParseNotification(queues) ==
    LET error == FirstError([i \in DOMAIN queues |-> QueueError(queues, i)])
    IN  [error  |-> error,
         config |-> IF error # NoError THEN Undefined
                    ELSE [i \in DOMAIN queues |-> ParsedQueue(queues[i], i)]]

\* Nothing is escaped.
NotificationTexts(c) ==
    {c.id} \cup IF c.filterRules = Undefined THEN {} ELSE {r.value : r \in Range(c.filterRules)}

NotificationXml(queueConfig) ==
    LET filter(rules) == [S3Key |-> <<[FilterRule |->
            [k \in DOMAIN rules |-> [Name |-> <<rules[k].name>>, Value |-> <<rules[k].value>>]]]>>]
    IN  IF \E i \in DOMAIN queueConfig : NotificationTexts(queueConfig[i]) \cap Markup # {} THEN Undefined
        ELSE [i \in DOMAIN queueConfig |->
                LET c == queueConfig[i]
                IN  [Id |-> <<c.id>>, Queue |-> <<c.queueArn>>, Event |-> c.events,
                     Filter |-> IF c.filterRules = Undefined THEN <<>>
                                ELSE <<filter(c.filterRules)>>]]

-----------------------------------------------------------------------------
(* Object lock: [ObjectLockEnabled, Rule], a rule is [DefaultRetention].   *)

ModeError(mode) == IF Len(mode) = 1 /\ mode[1] \in Modes THEN NoError ELSE "MalformedXML"

RetentionError(retention) ==
    LET type == IF retention.Days # <<>> THEN "Days" ELSE "Years"
        time == retention[type]
    IN  CASE retention.Mode = <<>> \/ ModeError(retention.Mode) # NoError -> "MalformedXML"
          [] (retention.Days = <<>>) = (retention.Years = <<>>) -> "MalformedXML"
          [] Len(time) > 1 \/ time[1] = NaN                     -> "MalformedXML"
          [] time[1] < 1 \/ time[1] > MaxRetention[type]        -> "InvalidArgument"
          [] OTHER                                              -> NoError

ParseObjectLock(document) ==
    LET retention == document.Rule[1].DefaultRetention
        error == CASE FirstOf(document.ObjectLockEnabled) # "Enabled" -> "MalformedXML"
                   [] document.Rule = <<>>                            -> NoError
                   [] Len(document.Rule) > 1 \/ retention = <<>>      -> "MalformedXML"
                   [] OTHER                          -> RetentionError(retention[1])
    IN  [error  |-> error,
         config |-> CASE error # NoError      -> Undefined
                      [] document.Rule = <<>> -> [mode |-> Undefined]
                      [] OTHER -> [mode  |-> retention[1].Mode[1],
                                   days  |-> FirstOf(retention[1].Days),
                                   years |-> FirstOf(retention[1].Years)]]

ObjectLockXml(config) ==
    [ObjectLockEnabled |-> <<"Enabled">>,
     Rule |-> IF config.mode = Undefined THEN <<>>
              ELSE <<[DefaultRetention |-> <<[Mode |-> <<config.mode>>,
                          Days |-> Optional(config.days),
                          Years |-> IF config.days # Undefined THEN <<>>
                                    ELSE Optional(config.years)]>>]>>]

-----------------------------------------------------------------------------
(* Tags, from a document or from the x-amz-tagging header.                 *)

KeyValueError(key, value) == IF {key, value} \cap TooLong # {} THEN "InvalidTag" ELSE NoError

ValidateTags(tags) ==
    LET tagError(tag) ==
            CASE Len(tag.Key) # 1 \/ Len(tag.Value) # 1 -> "MalformedXML"
              [] tag.Key[1] = <<>>                      -> "InvalidTag"
              [] OTHER -> KeyValueError(tag.Key[1], tag.Value[1])
        error == FirstError([i \in DOMAIN tags |-> tagError(tags[i])])
    IN  CASE Len(tags) > MaxRules                             -> "BadRequest"
          [] error # NoError                                  -> error
          [] Cardinality({t.Key : t \in Range(tags)}) < Len(tags) -> "InvalidTag"
          [] OTHER                                            -> NoError

\* The keys of an object are its tags: they are a set.
ParseTags(tags) ==
    LET error == ValidateTags(tags)
    IN  [error  |-> error,
         config |-> IF error # NoError THEN Undefined
                    ELSE {[Key |-> t.Key[1], Value |-> t.Value[1]] : t \in Range(tags)}]

\* pairs: the key and the value of each pair, <<>> for one that is empty
ParseTagFromQuery(pairs) ==
    LET some == SelectSeq(pairs, LAMBDA p : p # <<>>)
        pairError(p) == IF Len(p) # 2 \/ p[1] = <<>> THEN "InvalidArgument"
                        ELSE KeyValueError(p[1], p[2])
        keys  == {p[1] : p \in Range(some)}
        error == CASE FirstError([i \in DOMAIN some |-> pairError(some[i])]) # NoError ->
                        FirstError([i \in DOMAIN some |-> pairError(some[i])])
                   [] Cardinality(keys) < Len(some) -> "InvalidArgument"
                   [] Cardinality(keys) > MaxRules  -> "BadRequest"
                   [] OTHER                         -> NoError
    IN  [error  |-> error,
         config |-> IF error # NoError THEN Undefined
                    ELSE {[Key |-> p[1], Value |-> p[2]] : p \in Range(some)}]

TagsXml(tags) == {[i \in 1 .. Cardinality(tags) |-> [Key |-> <<order[i].Key>>,
                                                     Value |-> <<order[i].Value>>]]
                  : order \in SetToSeqs(tags)}

-----------------------------------------------------------------------------
(* Retention, [Mode, RetainUntilDate], and legal hold, [Status].           *)

ParseRetention(document, now) ==
    LET date == FirstOf(document.RetainUntilDate)
        error == CASE ModeError(document.Mode) # NoError -> ModeError(document.Mode)
                   [] date = Undefined                   -> "MalformedXML"
                   [] date = NaN                         -> "InvalidRequest"
                   [] date < now                         -> "InvalidRequest"
                   [] OTHER                              -> NoError
    IN  [error  |-> error,
         config |-> IF error # NoError THEN Undefined
                    ELSE [mode |-> document.Mode[1], date |-> date]]

RetentionXml(config) == [Mode |-> <<config.mode>>, RetainUntilDate |-> <<config.date>>]

ParseLegalHold(document) ==
    LET error == IF Len(document.Status) = 1 /\ document.Status[1] \in {"ON", "OFF"}
                 THEN NoError ELSE "MalformedXML"
    IN  [error  |-> error,
         config |-> IF error # NoError THEN Undefined ELSE [on |-> document.Status[1] = "ON"]]

LegalHoldXml(config) == [Status |-> <<IF config.on THEN "ON" ELSE "OFF">>]
================================================================================
