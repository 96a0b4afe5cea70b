------------------------ MODULE LifecycleConfiguration ------------------------
(***************************************************************************)
(* The lifecycle configuration of a bucket: how the XML document of a      *)
(* client becomes the stored rules (models/LifecycleConfiguration), how    *)
(* the stored rules are given back as XML and as JSON                      *)
(* (models/LifecycleRule), and which actions of which rules apply to an    *)
(* object (s3middleware/lifecycleHelpers).                                 *)
(***************************************************************************)
EXTENDS Configurations

CONSTANTS
    StorageClasses,          \* the sites of the replication endpoints
    MaxDays,                 \* the code's 2^31 - 1
    TransitionOneDayEarlier  \* an option of LifecycleDateTime

ASSUME LifecycleAssumption ==
    /\ MaxDays \in Nat
    /\ TransitionOneDayEarlier \in BOOLEAN

-----------------------------------------------------------------------------
(* Reading the document of a client. *)

PrefixError(text) == IF text \in TooLong THEN "InvalidRequest" ELSE NoError

RuleID(rules, i) == IdentifierOf(rules[i].ID, i)

IDError(rules, i) ==
    CASE FirstOf(rules[i].ID) \in TooLong                             -> "InvalidArgument"
      [] \E j \in 1 .. (i - 1) : RuleID(rules, j) = RuleID(rules, i) -> "InvalidRequest"
      [] OTHER                                                        -> NoError

TagsError(tags) ==
    FirstError([i \in DOMAIN tags |->
        IF tags[i].Key = <<>> \/ tags[i].Value = <<>> THEN "MissingRequiredParameter"
        ELSE IF \/ tags[i].Key[1] \in TooLong \cup {<<>>}
                \/ tags[i].Value[1] \in TooLong
                \/ \E j \in 1 .. (i - 1) : tags[j].Key = tags[i].Key
             THEN "InvalidRequest" ELSE NoError])

\* The element that holds the prefix and the tags.
Criteria(filter) == IF filter.And = <<>> THEN filter ELSE filter.And[1]

FilterError(filter) ==
    LET c == Criteria(filter)
        several == Cardinality({n \in {"And", "Prefix", "Tag"} : filter[n] # <<>>}) > 1
        prefixError == IF c.Prefix = <<>> THEN NoError ELSE PrefixError(Last(c.Prefix))
    IN  IF \/ several
           \/ filter.And # <<>> /\ (c.Tag = <<>> \/ (c.Prefix = <<>> /\ Len(c.Tag) < 2))
        THEN "MalformedXML" ELSE FirstError(<<prefixError, TagsError(c.Tag)>>)

ParsedFilter(filter) ==
    LET c == Criteria(filter)
    IN  [rulePrefix |-> IF c.Prefix = <<>> THEN Undefined ELSE Last(c.Prefix),
         tags |-> [i \in DOMAIN c.Tag |-> [key |-> c.Tag[i].Key[1], val |-> c.Tag[i].Value[1]]]]

HasTag(rule) == rule.Filter # <<>> /\ Criteria(rule.Filter[1]).Tag # <<>>

\* _getRuleFilterDesc() is called to describe an error and may itself throw.
Described(rule, error) ==
    LET incomplete(tag) == tag.Key = <<>> \/ tag.Value = <<>>
        filter == rule.Filter[1]
        throws == /\ rule.Prefix = <<>> /\ rule.Filter # <<>>
                  /\ IF filter.And # <<>>
                     THEN LET tags == filter.And[1].Tag
                          IN  tags = <<>> \/ \E i \in DOMAIN tags : incomplete(tags[i])
                     ELSE /\ filter.Prefix = <<>> /\ filter.Tag # <<>>
                          /\ incomplete(filter.Tag[1])
    IN  IF throws THEN "TypeError" ELSE error

DaysError(days) ==
    CASE Less(days, 0)                 -> "InvalidArgument"
      [] days # NaN /\ days > MaxDays -> "MalformedXML"
      [] OTHER                         -> NoError

DateError(date) == IF date = NaN THEN "InvalidArgument" ELSE NoError

\* transitions: Transition or NoncurrentVersionTransition elements of the rule
StorageClassError(rule, transitions, i) ==
    LET class == transitions[i].StorageClass[1]
    IN  CASE class \notin StorageClasses -> "MalformedXML"
          [] \E j \in 1 .. (i - 1) : transitions[j].StorageClass[1] = class
                                         -> Described(rule, "InvalidRequest")
          [] OTHER                       -> NoError

TimeTypeOf(transition) == IF transition.Days # <<>> THEN "Days" ELSE "Date"

TimeTypeError(rule, i) ==
    LET type == TimeTypeOf(rule.Transition[i])
    IN  IF \/ i > 1 /\ TimeTypeOf(rule.Transition[i - 1]) # type
           \/ rule.Expiration # <<>> /\ rule.Expiration[1][type] = <<>>
        THEN Described(rule, "InvalidRequest") ELSE NoError

\* _checkTimeGap(): every other transition is taken to have a storage class
\* and the time type of this one.
TimeGapError(rule, i) ==
    LET t == rule.Transition[i]
        type == TimeTypeOf(t)
        compare(u) ==
            CASE u.StorageClass = <<>>                -> "TypeError"
              [] u.StorageClass[1] = t.StorageClass[1] -> NoError
              [] u[type] = <<>>                       -> "TypeError"
              [] SameNumber(u[type][1], t[type][1])   -> Described(rule, "InvalidArgument")
              [] OTHER                                -> NoError
    IN  FirstError([k \in DOMAIN rule.Transition |-> compare(rule.Transition[k])])

NoTimes == [error |-> NoError, days |-> Undefined, date |-> Undefined,
            deleteMarker |-> Undefined, newerNoncurrentVersions |-> Undefined,
            transition |-> Undefined, nonCurrentVersionTransition |-> Undefined]

Failed(error) == [NoTimes EXCEPT !.error = error]

\* Only what is truthy is copied to the action.
Kept(n) == IF n \in {NaN, 0} THEN Undefined ELSE n

ParseNoncurrentVersionTransition(rule) ==
    LET ts == rule.NoncurrentVersionTransition
        error == FirstError([i \in DOMAIN ts |->
            IF ts[i].NoncurrentDays = <<>> \/ ts[i].StorageClass = <<>> THEN "MalformedXML"
            ELSE FirstError(<<DaysError(ts[i].NoncurrentDays[1]),
                              StorageClassError(rule, ts, i)>>)])
    IN  IF error # NoError THEN Failed(error)
        ELSE [NoTimes EXCEPT !.nonCurrentVersionTransition =
                 [i \in DOMAIN ts |-> [noncurrentDays |-> ts[i].NoncurrentDays[1],
                                       storageClass |-> ts[i].StorageClass[1]]]]

ParseTransition(rule) ==
    LET ts == rule.Transition
        error == FirstError([i \in DOMAIN ts |->
            IF (ts[i].Days = <<>>) = (ts[i].Date = <<>>) \/ ts[i].StorageClass = <<>>
            THEN "MalformedXML"
            ELSE FirstError(<<StorageClassError(rule, ts, i), TimeTypeError(rule, i),
                              IF ts[i].Days # <<>> THEN DaysError(ts[i].Days[1])
                                                   ELSE DateError(ts[i].Date[1]),
                              TimeGapError(rule, i)>>)])
    IN  IF error # NoError THEN Failed(error)
        ELSE [NoTimes EXCEPT !.transition =
                 [i \in DOMAIN ts |-> [days |-> FirstOf(ts[i].Days), date |-> FirstOf(ts[i].Date),
                                       storageClass |-> ts[i].StorageClass[1]]]]

ParseAbortIncompleteMultipartUpload(rule) ==
    LET days == FirstOf(rule.AbortIncompleteMultipartUpload[1].DaysAfterInitiation)
    IN  CASE HasTag(rule)      -> Failed("InvalidRequest")
          [] days = Undefined -> Failed("MalformedXML")
          [] Less(days, 1)    -> Failed("InvalidArgument")
          [] OTHER            -> [NoTimes EXCEPT !.days = Kept(days)]

ParseExpiration(rule) ==
    LET exp == rule.Expiration[1]
        times == {t \in {"Date", "Days", "ExpiredObjectDeleteMarker"} : exp[t] # <<>>}
    IN  CASE Cardinality(times) # 1  -> Failed("MalformedXML")
          [] times = {"Date"}        -> [NoTimes EXCEPT !.error = DateError(exp.Date[1]),
                                                        !.date = exp.Date[1]]
          [] times = {"Days"}        -> IF Less(exp.Days[1], 1) THEN Failed("InvalidArgument")
                                        ELSE [NoTimes EXCEPT !.days = Kept(exp.Days[1])]
          [] HasTag(rule)            -> Failed("InvalidRequest")
          [] OTHER                   -> IF exp.ExpiredObjectDeleteMarker[1] \in {"true", "false"}
                                        THEN [NoTimes EXCEPT !.deleteMarker =
                                                 exp.ExpiredObjectDeleteMarker[1]]
                                        ELSE Failed("MalformedXML")

ParseNoncurrentVersionExpiration(rule) ==
    LET exp == rule.NoncurrentVersionExpiration[1]
        days == FirstOf(exp.NoncurrentDays)
        newer == FirstOf(exp.NewerNoncurrentVersions)
    IN  CASE days = Undefined -> Failed("MalformedXML")
          [] Less(days, 1) \/ newer = NaN \/ (newer # Undefined /\ Less(newer, 1))
                              -> Failed("InvalidArgument")
          [] OTHER            -> [NoTimes EXCEPT !.days = Kept(days),
                                                 !.newerNoncurrentVersions = newer]

ActionNames == <<"AbortIncompleteMultipartUpload", "Expiration", "NoncurrentVersionExpiration",
                 "NoncurrentVersionTransition", "Transition">>

ParseActionNamed(rule, name) ==
    CASE name = "AbortIncompleteMultipartUpload" -> ParseAbortIncompleteMultipartUpload(rule)
      [] name = "Expiration"                     -> ParseExpiration(rule)
      [] name = "NoncurrentVersionExpiration"    -> ParseNoncurrentVersionExpiration(rule)
      [] name = "NoncurrentVersionTransition"    -> ParseNoncurrentVersionTransition(rule)
      [] OTHER                                   -> ParseTransition(rule)

\* _parseAction(): the error of the last action that has one; an exception
\* ends it.
ParseAction(rule) ==
    LET names   == SelectSeq(ActionNames, LAMBDA n : rule[n] # <<>>)
        parsed  == [i \in DOMAIN names |-> ParseActionNamed(rule, names[i])]
        errors  == {parsed[i].error : i \in DOMAIN parsed}
        failed  == SelectSeq(parsed, LAMBDA a : a.error # NoError)
    IN  [error   |-> CASE names = <<>>           -> "InvalidRequest"
                       [] "TypeError" \in errors -> "TypeError"
                       [] failed = <<>>          -> NoError
                       [] OTHER                  -> Last(failed).error,
         actions |-> [i \in DOMAIN names |-> [actionName |-> names[i], times |-> parsed[i]]]]

RuleError(rules, i) ==
    LET rule == rules[i]
        actionError == ParseAction(rule).error
    IN  CASE (rule.Filter = <<>>) = (rule.Prefix = <<>>) -> "MalformedXML"
          [] rule.Status = <<>>        -> "MissingRequiredParameter"
          [] actionError = "TypeError" -> "TypeError"
          [] OTHER -> FirstError(<<IDError(rules, i),
                                   IF rule.Status[1] \in {"Enabled", "Disabled"}
                                   THEN NoError ELSE "MalformedXML",
                                   actionError,
                                   IF rule.Prefix # <<>> THEN PrefixError(rule.Prefix[1])
                                                         ELSE FilterError(rule.Filter[1])>>)

ParsedRule(rules, i) ==
    LET rule == rules[i]
    IN  [ruleID |-> RuleID(rules, i), ruleStatus |-> rule.Status[1],
         prefix |-> FirstOf(rule.Prefix),
         filter |-> IF rule.Filter = <<>> THEN Undefined ELSE ParsedFilter(rule.Filter[1]),
         actions |-> ParseAction(rule).actions]

ParseLifecycle(rules) ==
    LET error == CASE rules = <<>>           -> "MissingRequiredParameter"
                   [] Len(rules) > MaxRules -> "MalformedXML"
                   [] OTHER -> FirstError([i \in DOMAIN rules |-> RuleError(rules, i)])
    IN  [error  |-> error,
         config |-> IF error # NoError THEN Undefined
                    ELSE [i \in DOMAIN rules |-> ParsedRule(rules, i)]]

-----------------------------------------------------------------------------
(* Giving the stored rules back: getConfigXml() and getConfigJson(). *)

NoActions == [n \in Range(ActionNames) |-> <<>>]
NoFilter == [And |-> <<>>, Prefix |-> <<>>, Tag |-> <<>>]

\* A number that is missing is written all the same.
Written(number) == IF number = Undefined THEN NaN ELSE number

\* Mutant: a prefix and one tag are not put into And.
FilterXmlOneTag(filter) ==
    LET tags == [i \in DOMAIN filter.tags |-> [Key |-> <<filter.tags[i].key>>,
                                               Value |-> <<filter.tags[i].val>>]]
        content == [NoFilter EXCEPT !.Prefix = Optional(filter.rulePrefix), !.Tag = tags]
    IN  IF Len(tags) > 1 THEN [NoFilter EXCEPT !.And = <<content>>] ELSE content

FilterXml(filter) ==
    LET tags == [i \in DOMAIN filter.tags |-> [Key |-> <<filter.tags[i].key>>,
                                               Value |-> <<filter.tags[i].val>>]]
        content == [NoFilter EXCEPT !.Prefix = Optional(filter.rulePrefix), !.Tag = tags]
    IN  IF tags # <<>> /\ (filter.rulePrefix # Undefined \/ Len(tags) > 1)
        THEN [NoFilter EXCEPT !.And = <<content>>] ELSE content

ActionXml(action) ==
    LET t == action.times
    IN  CASE action.actionName = "AbortIncompleteMultipartUpload" ->
                <<[DaysAfterInitiation |-> <<Written(t.days)>>]>>
          [] action.actionName = "NoncurrentVersionExpiration" ->
                <<[NoncurrentDays |-> <<Written(t.days)>>,
                   NewerNoncurrentVersions |-> Optional(t.newerNoncurrentVersions)]>>
          [] action.actionName = "Expiration" ->
                <<[Days |-> Optional(t.days), Date |-> Optional(t.date),
                   ExpiredObjectDeleteMarker |-> Optional(t.deleteMarker)]>>
          [] action.actionName = "NoncurrentVersionTransition" ->
                [i \in DOMAIN t.nonCurrentVersionTransition |->
                    [NoncurrentDays |-> <<t.nonCurrentVersionTransition[i].noncurrentDays>>,
                     StorageClass   |-> <<t.nonCurrentVersionTransition[i].storageClass>>]]
          [] OTHER ->
                [i \in DOMAIN t.transition |->
                    [Days |-> Optional(t.transition[i].days), Date |-> Optional(t.transition[i].date),
                     StorageClass |-> <<t.transition[i].storageClass>>]]

RuleXml(rule) ==
    [n \in Range(ActionNames) |->
        LET named == SelectSeq(rule.actions, LAMBDA a : a.actionName = n)
        IN  IF named = <<>> THEN <<>> ELSE ActionXml(named[1])]
    @@ [ID |-> <<rule.ruleID>>, Status |-> <<rule.ruleStatus>>, Prefix |-> Optional(rule.prefix),
        Filter |-> IF rule.prefix # Undefined THEN <<>> ELSE <<FilterXml(rule.filter)>>]

\* The identifiers are escaped, the prefix and the tags are not: the document
\* cannot be read when one of these has markup.
UnescapedTexts(rule) ==
    IF rule.prefix # Undefined THEN {rule.prefix}
    ELSE {rule.filter.rulePrefix} \cup UNION {{t.key, t.val} : t \in Range(rule.filter.tags)}

GetConfigXml(rules) ==
    IF \E i \in DOMAIN rules : UnescapedTexts(rules[i]) \cap Markup # {} THEN Undefined
    ELSE [i \in DOMAIN rules |-> RuleXml(rules[i])]

NoRule == [ID |-> <<>>, Status |-> "Enabled", Prefix |-> Undefined, Filter |-> Undefined,
           Expiration |-> Undefined, NoncurrentVersionExpiration |-> Undefined,
           AbortIncompleteMultipartUpload |-> Undefined,
           Transitions |-> <<>>, NoncurrentVersionTransitions |-> <<>>]

\* LifecycleRule.buildFilter(): an empty prefix is as good as none.
BuildFilter(prefix, tags) ==
    LET some == prefix \notin {Undefined, <<>>}
        given == IF some THEN prefix ELSE Undefined
        tagSet == [i \in DOMAIN tags |-> [Key |-> tags[i].key, Value |-> tags[i].val]]
    IN  CASE Len(tags) > 1 \/ (some /\ tags # <<>>) ->
                [And |-> [Prefix |-> given, Tags |-> tagSet],
                 Prefix |-> Undefined, Tag |-> Undefined]
          [] ~some /\ tags = <<>> -> Undefined
          [] OTHER -> [And |-> Undefined, Prefix |-> given, Tag |-> FirstOf(tagSet)]

\* getConfigJson() has no transition.
RuleJson(rule) ==
    LET prefix == IF rule.prefix # Undefined THEN rule.prefix ELSE rule.filter.rulePrefix
        filter == BuildFilter(prefix, IF rule.filter = Undefined THEN <<>> ELSE rule.filter.tags)
        timesOf(name) == LET named == SelectSeq(rule.actions, LAMBDA a : a.actionName = name)
                         IN  IF named = <<>> THEN Undefined ELSE named[1].times
        abort == timesOf("AbortIncompleteMultipartUpload")
        ncve  == timesOf("NoncurrentVersionExpiration")
        exp   == timesOf("Expiration")
    IN  [NoRule EXCEPT
            !.ID = rule.ruleID, !.Status = rule.ruleStatus,
            !.Filter = filter, !.Prefix = IF filter = Undefined THEN <<>> ELSE Undefined,
            !.AbortIncompleteMultipartUpload =
                IF abort = Undefined THEN Undefined ELSE [DaysAfterInitiation |-> abort.days],
            !.NoncurrentVersionExpiration =
                IF ncve = Undefined THEN Undefined
                ELSE [NoncurrentDays |-> ncve.days,
                      NewerNoncurrentVersions |-> ncve.newerNoncurrentVersions],
            !.Expiration =
                IF exp = Undefined \/ {exp.days, exp.date, exp.deleteMarker} = {Undefined}
                THEN Undefined
                ELSE [Days |-> exp.days, Date |-> exp.date,
                      ExpiredObjectDeleteMarker |-> exp.deleteMarker]]

GetConfigJson(rules) == [i \in DOMAIN rules |-> RuleJson(rules[i])]

\* What a client that uses the SDK makes of a rule of the XML document.
SdkRule(xml) ==
    LET filter == xml.Filter[1]
        and == filter.And[1]
        tagOf(t) == [Key |-> t.Key[1], Value |-> t.Value[1]]
        exp == xml.Expiration[1]
        ncve == xml.NoncurrentVersionExpiration[1]
    IN  [ID |-> xml.ID[1], Status |-> xml.Status[1], Prefix |-> FirstOf(xml.Prefix),
         Filter |-> CASE xml.Filter = <<>> -> Undefined
                      [] filter.And # <<>> ->
                            [And |-> [Prefix |-> FirstOf(and.Prefix),
                                      Tags |-> [i \in DOMAIN and.Tag |-> tagOf(and.Tag[i])]],
                             Prefix |-> Undefined, Tag |-> Undefined]
                      [] OTHER ->
                            [And |-> Undefined, Prefix |-> FirstOf(filter.Prefix),
                             Tag |-> IF filter.Tag = <<>> THEN Undefined ELSE tagOf(filter.Tag[1])],
         Expiration |-> IF xml.Expiration = <<>> THEN Undefined
                        ELSE [t \in DOMAIN exp |-> FirstOf(exp[t])],
         NoncurrentVersionExpiration |->
            IF xml.NoncurrentVersionExpiration = <<>> THEN Undefined
            ELSE [t \in DOMAIN ncve |-> FirstOf(ncve[t])],
         AbortIncompleteMultipartUpload |->
            IF xml.AbortIncompleteMultipartUpload = <<>> THEN Undefined
            ELSE [DaysAfterInitiation |->
                     xml.AbortIncompleteMultipartUpload[1].DaysAfterInitiation[1]],
         Transitions |->
            [i \in DOMAIN xml.Transition |->
                [t \in {"Days", "Date", "StorageClass"} |-> FirstOf(xml.Transition[i][t])]],
         NoncurrentVersionTransitions |->
            [i \in DOMAIN xml.NoncurrentVersionTransition |->
                [t \in {"NoncurrentDays", "StorageClass"} |->
                    FirstOf(xml.NoncurrentVersionTransition[i][t])]]]

-----------------------------------------------------------------------------
(* LifecycleUtils: an item is [Key, tags (a set), LastModified,            *)
(* StorageClass].                                                          *)

FilterRules(rules, item) ==
    LET applies(rule) ==
            LET filter == rule.Filter
                and    == filter # Undefined /\ filter.And # Undefined
                inner  == IF filter = Undefined THEN Undefined
                          ELSE IF and THEN filter.And.Prefix ELSE filter.Prefix
                prefix == IF rule.Prefix \in {Undefined, <<>>} THEN inner ELSE rule.Prefix
                tags   == CASE filter = Undefined     -> {}
                            [] and                    -> Range(filter.And.Tags)
                            [] filter.Tag = Undefined -> {}
                            [] OTHER                  -> {filter.Tag}
            IN  /\ rule.Status # "Disabled"
                /\ prefix = Undefined \/ IsPrefix(prefix, item.Key)
                /\ tags \subseteq item.tags
    IN  SelectSeq(rules, applies)

\* LifecycleDateTime.getTransitionTimestamp() and getNCVTransitionTimestamp(),
\* in days.
Timestamp(t, item) ==
    IF "Date" \in DOMAIN t /\ t.Date # Undefined THEN t.Date
    ELSE item.LastModified + (IF "Days" \in DOMAIN t THEN t.Days ELSE t.NoncurrentDays)
                           - (IF TransitionOneDayEarlier THEN 1 ELSE 0)

\* Mutant: a transition that has been found is replaced by one that is due sooner.
CompareTransitionsSooner(t1, t2, item) ==
    CASE t1 = Undefined -> t2
      [] t2 = Undefined -> t1
      [] OTHER          -> IF Timestamp(t1, item) < Timestamp(t2, item) THEN t1 ELSE t2

CompareTransitions(t1, t2, item) ==
    CASE t1 = Undefined -> t2
      [] t2 = Undefined -> t1
      [] OTHER          -> IF Timestamp(t1, item) > Timestamp(t2, item) THEN t1 ELSE t2

GetApplicableTransition(stored, transitions, item, now) ==
    LET later(result, t) == IF Timestamp(t, item) > now THEN result
                            ELSE CompareTransitions(t, result, item)
    IN  CompareTransitions(FoldLeft(later, Undefined, transitions), stored, item)

Sooner(new, old) == new # Undefined /\ (old = Undefined \/ new < old)

ApplyExpiration(store, rule) ==
    LET old == IF store.Expiration # Undefined THEN store.Expiration
               ELSE [Days |-> Undefined, Date |-> Undefined, ExpiredObjectDeleteMarker |-> Undefined]
        new == rule.Expiration
        eodm == new.ExpiredObjectDeleteMarker
    IN  IF new = Undefined THEN store
        ELSE [store EXCEPT !.Expiration =
                [Days |-> IF Sooner(new.Days, old.Days) THEN new.Days ELSE old.Days,
                 Date |-> IF Sooner(new.Date, old.Date) THEN new.Date ELSE old.Date,
                 ExpiredObjectDeleteMarker |->
                    IF eodm # Undefined THEN eodm ELSE old.ExpiredObjectDeleteMarker]]

ApplyEarliest(store, rule, action, days) ==
    IF /\ rule[action] # Undefined
       /\ store[action] = Undefined \/ Sooner(rule[action][days], store[action][days])
    THEN [store EXCEPT ![action] = rule[action]] ELSE store

ApplyTransitions(store, rule, item, now) ==
    [store EXCEPT
        !.Transition = IF rule.Transitions = <<>> THEN @
                       ELSE GetApplicableTransition(@, rule.Transitions, item, now),
        !.NoncurrentVersionTransition =
            IF rule.NoncurrentVersionTransitions = <<>> THEN @
            ELSE GetApplicableTransition(@, rule.NoncurrentVersionTransitions, item, now)]

NothingApplies == [Expiration |-> Undefined, NoncurrentVersionExpiration |-> Undefined,
                   AbortIncompleteMultipartUpload |-> Undefined,
                   Transition |-> Undefined, NoncurrentVersionTransition |-> Undefined]

GetApplicableRules(rules, item, now) ==
    LET apply(store, rule) ==
            ApplyTransitions(
                ApplyEarliest(
                    ApplyEarliest(ApplyExpiration(store, rule), rule,
                                  "NoncurrentVersionExpiration", "NoncurrentDays"),
                    rule, "AbortIncompleteMultipartUpload", "DaysAfterInitiation"),
                rule, item, now)
        elsewhere(t) == IF t # Undefined /\ t.StorageClass = item.StorageClass
                        THEN Undefined ELSE t
    IN  [FoldLeft(apply, NothingApplies, rules) EXCEPT
            !.Transition = elsewhere(@), !.NoncurrentVersionTransition = elsewhere(@)]
=============================================================================
