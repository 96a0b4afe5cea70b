------------------------------ MODULE MCDocuments ------------------------------
(***************************************************************************)
(* Decisions made from documents: in each behaviour either a request is    *)
(* authorized by policies, or a configuration is put, read and applied.    *)
(* The instances are requests on two objects and on the statistics of an   *)
(* account, against statements chosen to meet every branch, and documents, *)
(* headers and objects that meet every rule of the parsers.                *)
(***************************************************************************)
EXTENDS PolicyEvaluation, BucketConfigurations

-----------------------------------------------------------------------------
(* Policies.                                                               *)

CONSTANTS absent, empty, notANumber

MCRequester(type, account, parent) ==
    [account |-> account, target |-> "a2", arn |-> "me", parent |-> parent, root |-> "root",
     type |-> type]

MCContext(service, requester) ==
    [service |-> service, method |-> "objectGet", action |-> absent, general |-> "b",
     specific |-> "o1", requester |-> requester, tokenIssueTime |-> "t0",
     existingTag |-> absent, requestTags |-> absent, requestTagKeys |-> absent,
     needTagEval |-> FALSE, foundResource |-> absent,
     keys |-> [ip |-> "ip1", user |-> "u1", referer |-> absent, maxKeys |-> 5]]

MCContexts ==
    {MCContext("s3", MCRequester("User", "a1", absent)),
     MCContext("utapi", MCRequester("AssumedRole", "a1", "role")),
     [MCContext("s3", MCRequester("Federated", "a1", "idp")) EXCEPT
         !.action = "s3:PutObject", !.keys.maxKeys = notANumber, !.keys.referer = "ref"],
     MCContext("s3", MCRequester("Service", "a1", "svc")),
     MCContext("s3", MCRequester("Root", "a1", absent)),
     MCContext("sts", MCRequester("User", "a2", "role"))}

MCTags ==
    {[existing |-> "k=x", request |-> "k=x", requestKeys |-> {"k"}],
     [existing |-> "k=y", request |-> absent, requestKeys |-> absent],
     [existing |-> absent, request |-> "k=y&l=z", requestKeys |-> {"k", "l"}]}

MCActionOf == [m \in {"objectGet"} |-> "s3:GetObject"]

(* Statements. *)

Lit(m) == [matches |-> m]

MCArn(service, account, specifics) ==
    <<Lit({"arn"}), Lit({"aws", "scality"}), Lit(service), Lit({empty}), Lit(account),
      Lit({"b"} \X specifics)>>

AnyObject == <<MCArn({"s3"}, {empty}, {"o1", "o2"})>>
OneObject == <<MCArn({"s3"}, {empty}, {"o2"})>>
Usage == <<MCArn({"utapi"}, {empty}, {"o1"}), MCArn({"s3", "iam"}, {"a2", empty}, {"o1", "o2"})>>

MCStatement(effect, resource, conditions) ==
    [effect |-> effect, resource |-> resource, notResource |-> FALSE,
     action |-> <<{"s3:GetObject", "s3:PutObject"}>>, notAction |-> FALSE, conditions |-> conditions]

Cond(key, op, items) == [key |-> key, op |-> op, items |-> items, ifExists |-> FALSE, prefix |-> "none"]
TagCond(key, op, items) == [tag |-> "k"] @@ Cond(key, op, items)

MCConditions ==
    {<<>>,
     <<TagCond("existingTag", "StringEquals", <<Lit({"x"})>>)>>,
     <<TagCond("requestTag", "StringNotEquals", <<Lit({"x"})>>)>>,
     <<TagCond("requestTag", "StringLike", <<Lit({"x", "y", "y&l=z"})>>)>>,
     <<TagCond("requestTag", "StringLike", <<Lit({"x"}), Lit({"y&l=z"})>>)>>,
     <<[Cond("requestTagKeys", "StringLike", <<Lit({"k"})>>) EXCEPT !.prefix = "ForAllValues"]>>,
     <<[Cond("requestTagKeys", "StringLike", <<Lit({"l"})>>) EXCEPT !.prefix = "ForAnyValue"]>>,
     <<Cond("requestTagKeys", "StringNotLike", <<Lit({"l"})>>)>>,
     <<Cond("ip", "IpAddress", <<Lit({"ip1"})>>), TagCond("existingTag", "Null", <<Lit({"false"})>>)>>,
     <<Cond("requestTagKeys", "Null", <<Lit({"true"})>>)>>,
     <<Cond("ip", "NotIpAddress", <<Lit({"ip1"})>>), TagCond("existingTag", "StringLike", <<Lit({"x"})>>)>>,
     <<[Cond("referer", "StringEquals", <<[var |-> "referer"]>>) EXCEPT !.ifExists = TRUE]>>,
     <<[Cond("user", "StringLike", <<[var |-> "user"]>>) EXCEPT !.prefix = "ForAnyValue"]>>,
     <<Cond("maxKeys", "NumericLessThan", <<Lit({4}), Lit({9, notANumber})>>),
       Cond("maxKeys", "NumericGreaterThanEquals", <<Lit({5})>>)>>,
     <<Cond("maxKeys", "NumericNotEquals", <<Lit({6})>>), Cond("maxKeys", "NumericEquals", <<Lit({5})>>)>>,
     <<Cond("tokenIssueTime", "Null", <<Lit({"true"})>>)>>}

MCStatements ==
    {MCStatement(e, AnyObject, c) : e \in {"Allow", "Deny"}, c \in MCConditions}
        \cup {MCStatement("Allow", Usage, <<>>),
              [MCStatement("Allow", OneObject, <<>>) EXCEPT !.notResource = TRUE],
              [MCStatement("Deny", AnyObject, <<>>) EXCEPT !.action = <<{"s3:GetObject"}>>, !.notAction = TRUE]}

\* One policy of two statements in both orders, or two policies of one. Two that forbid
\* decide as each of them does.
MCAllowing == {st \in MCStatements : st.effect = "Allow"}
MCPolicySets ==
    {<<>>} \cup
    {<<<<a>>>> : a \in MCStatements}
        \cup {<<<<p[1], p[2]>>>> : p \in MCAllowing \X MCStatements \cup MCStatements \X MCAllowing}
        \cup {<< <<p[1]>>, <<p[2]>> >> : p \in MCAllowing \X MCStatements}

NoOne == [Federated |-> {}, AWS |-> {}, Service |-> {}]

MCTrustStatement(effect, who, principal, notPrincipal) ==
    [effect |-> effect, who |-> who, principal |-> principal, notPrincipal |-> notPrincipal,
     conditions |-> IF effect = "Allow" THEN <<>> ELSE <<Cond("ip", "IpAddress", <<Lit({"ip1"})>>)>>]

MCTrustPolicies ==
    {[account |-> "a1", statements |-> <<>>]} \cup
    {[account |-> acc,
      statements |-> <<MCTrustStatement("Allow", "kinds", [NoOne EXCEPT !.AWS = aws, !.Federated = {"idp"}], except),
                       MCTrustStatement("Deny", who, [NoOne EXCEPT !.AWS = {"me"}, !.Service = {"svc"}], FALSE)>>] :
        acc \in {"a1", "a2"}, aws \in {{"me"}, {"root"}, {"*"}}, except \in BOOLEAN,
        who \in {"*", "kinds", "another"}}

\* Policies and trust policies are evaluated apart: each is varied with the other fixed. The
\* type of a requester only matters to trust policies.
PolicyInit ==
    /\ PeInit
    /\ policies # <<>> => rc.requester.type \notin {"Service", "Root"}
    /\ \/ trust = [account |-> "a1", statements |-> <<>>]
       \/ policies = <<>>

-----------------------------------------------------------------------------
(* Configurations.                                                         *)

CONSTANTS undefined, nan

long == <<"long">>
markup == <<"&">>
a == <<"a">>
ab == <<"a", "b">>
t1 == [Key |-> <<a>>, Value |-> <<a>>]
t3 == [Key |-> <<a>>, Value |-> <<markup>>]
t2 == [Key |-> <<ab>>, Value |-> <<<<>>>>]
tagA == [Key |-> a, Value |-> a]
tagB == [Key |-> ab, Value |-> <<>>]

-----------------------------------------------------------------------------
(* Lifecycle. *)

filters == {NoFilter, [NoFilter EXCEPT !.Prefix = <<a>>], [NoFilter EXCEPT !.Prefix = <<<<>>>>],
            [NoFilter EXCEPT !.Tag = <<t1>>], [NoFilter EXCEPT !.Prefix = <<markup>>],
            [NoFilter EXCEPT !.Tag = <<t3>>],
            [NoFilter EXCEPT !.And = <<[Prefix |-> <<a>>, Tag |-> <<t1>>]>>],
            [NoFilter EXCEPT !.And = <<[Prefix |-> <<>>, Tag |-> <<t1, t2>>]>>]}
badFilters == {[NoFilter EXCEPT !.Prefix = <<long>>],
               [NoFilter EXCEPT !.Prefix = <<a>>, !.Tag = <<t1>>],
               [NoFilter EXCEPT !.Tag = <<t1, t1>>],
               [NoFilter EXCEPT !.Tag = <<[Key |-> <<>>, Value |-> <<a>>]>>],
               [NoFilter EXCEPT !.And = <<[Prefix |-> <<>>, Tag |-> <<t1>>]>>]}

expiration(days, date, marker) == [Days |-> days, Date |-> date, ExpiredObjectDeleteMarker |-> marker]
transition(days, date, class) == [Days |-> days, Date |-> date, StorageClass |-> class]
noncurrent(days, class) == [NoncurrentDays |-> days, StorageClass |-> class]

actions ==
    {[NoActions EXCEPT !.Expiration = <<expiration(<<1>>, <<>>, <<>>)>>],
     [NoActions EXCEPT !.Expiration = <<expiration(<<nan>>, <<>>, <<>>)>>],
     [NoActions EXCEPT !.AbortIncompleteMultipartUpload = <<[DaysAfterInitiation |-> <<nan>>]>>,
                       !.NoncurrentVersionTransition = <<noncurrent(<<nan>>, <<"s1">>)>>],
     [NoActions EXCEPT !.Expiration = <<expiration(<<2>>, <<>>, <<>>)>>,
                       !.AbortIncompleteMultipartUpload = <<[DaysAfterInitiation |-> <<1>>]>>],
     [NoActions EXCEPT !.Expiration = <<expiration(<<>>, <<2>>, <<>>)>>,
                       !.NoncurrentVersionExpiration =
                           <<[NoncurrentDays |-> <<2>>, NewerNoncurrentVersions |-> <<1>>]>>],
     [NoActions EXCEPT !.Expiration = <<expiration(<<>>, <<>>, <<"true">>)>>,
                       !.NoncurrentVersionExpiration =
                           <<[NoncurrentDays |-> <<1>>, NewerNoncurrentVersions |-> <<>>]>>],
     [NoActions EXCEPT !.Transition = <<transition(<<1>>, <<>>, <<"s1">>),
                                        transition(<<2>>, <<>>, <<"s2">>)>>],
     [NoActions EXCEPT !.Transition = <<transition(<<>>, <<1>>, <<"s2">>)>>,
                       !.NoncurrentVersionTransition = <<noncurrent(<<1>>, <<"s1">>)>>],
     [NoActions EXCEPT !.NoncurrentVersionTransition = <<noncurrent(<<2>>, <<"s2">>)>>,
                       !.AbortIncompleteMultipartUpload = <<[DaysAfterInitiation |-> <<2>>]>>]}

badActions ==
    {NoActions,
     [NoActions EXCEPT !.Expiration = <<expiration(<<0>>, <<>>, <<>>)>>],
     [NoActions EXCEPT !.Expiration = <<expiration(<<1>>, <<1>>, <<>>)>>],
     [NoActions EXCEPT !.Expiration = <<expiration(<<>>, <<nan>>, <<>>)>>],
     [NoActions EXCEPT !.Expiration = <<expiration(<<>>, <<>>, <<"maybe">>)>>],
     [NoActions EXCEPT !.AbortIncompleteMultipartUpload = <<[DaysAfterInitiation |-> <<>>]>>],
     [NoActions EXCEPT !.NoncurrentVersionExpiration =
                           <<[NoncurrentDays |-> <<1>>, NewerNoncurrentVersions |-> <<nan>>]>>],
     [NoActions EXCEPT !.NoncurrentVersionTransition = <<noncurrent(<<1000>>, <<"s1">>)>>],
     [NoActions EXCEPT !.Transition = <<transition(<<1>>, <<>>, <<"s1">>),
                                        transition(<<1>>, <<>>, <<"s2">>)>>],
     [NoActions EXCEPT !.Transition = <<transition(<<1>>, <<>>, <<"s1">>),
                                        transition(<<2>>, <<>>, <<"s1">>)>>],
     [NoActions EXCEPT !.Transition = <<transition(<<1>>, <<>>, <<"s3">>)>>],
     [NoActions EXCEPT !.Transition = <<transition(<<1>>, <<>>, <<"s1">>)>>,
                       !.Expiration = <<expiration(<<>>, <<1>>, <<>>)>>]}

rule(id, status, prefix, filter, action) ==
    [ID |-> id, Status |-> status, Prefix |-> prefix, Filter |-> filter] @@ action

expireAll == [NoActions EXCEPT !.Expiration = <<expiration(<<1>>, <<>>, <<>>)>>]

validRules ==
    {rule(<<>>, <<"Enabled">>, <<>>, <<f>>, x) : f \in filters, x \in actions}
    \cup {rule(<<markup>>, <<s>>, <<p>>, <<>>, x)
          : s \in {"Enabled", "Disabled"}, p \in {<<>>, a}, x \in actions}
    \cup {rule(<<<<>>>>, <<"Enabled">>, <<markup>>, <<>>, expireAll)}

invalidRules ==
    {rule(<<>>, <<"Enabled">>, <<>>, <<f>>, expireAll) : f \in badFilters}
    \cup {rule(<<a>>, <<"Enabled">>, <<a>>, <<>>, x) : x \in badActions}
    \cup {rule(<<long>>, <<"Enabled">>, <<a>>, <<>>, expireAll),
          rule(<<a>>, <<>>, <<a>>, <<>>, expireAll),
          rule(<<a>>, <<"On">>, <<a>>, <<>>, expireAll),
          rule(<<a>>, <<"Enabled">>, <<>>, <<>>, expireAll)}

\* Two rules: the first for everything, for a prefix, for a tag, or disabled.
firstRules == {r \in validRules : r.Filter \in {<<>>, <<NoFilter>>, <<[NoFilter EXCEPT !.Tag = <<t1>>]>>}}

lifecycleDocuments ==
    {<<>>} \cup {<<r>> : r \in validRules \cup invalidRules}
           \cup {<<r, s>> : r \in firstRules, s \in {rule(<<markup>>, <<"Enabled">>, <<<<>>>>, <<>>, x)
                                                     : x \in actions}}

-----------------------------------------------------------------------------
(* Replication. *)

class(site) == [site |-> site, preferred |-> FALSE]
replicationRule(id, prefix, status, bucket, classes) ==
    [ID |-> id, Prefix |-> prefix, Status |-> status,
     Destination |-> <<[Bucket |-> bucket, StorageClass |-> classes]>>]

classLists == {<<>>, <<class("cloud")>>, <<[site |-> "local", preferred |-> TRUE], class("cloud")>>,
               <<class("STANDARD")>>, <<class("cold")>>}
replicationRules ==
    {replicationRule(<<>>, <<p>>, <<s>>, b, c)
     : p \in {a, ab}, s \in {"Enabled", "Disabled"}, b \in {<<>>, <<"b1">>, <<"b2">>, <<"bad">>}, c \in classLists}
    \cup {replicationRule(<<markup>>, <<<<"c">>>>, <<"Enabled">>, <<"b1">>, c) : c \in classLists}
    \cup {replicationRule(<<>>, <<>>, <<"Enabled">>, <<"b1">>, <<>>)}

replicationDocuments ==
    {[Rule |-> rules, Role |-> role]
     : rules \in {<<>>} \cup {<<r>> : r \in replicationRules}
                 \cup {<<r, s>> : r \in {q \in replicationRules : q.Status = <<"Enabled">>},
                                  s \in {q \in replicationRules : q.Destination[1].Bucket = <<"b1">>
                                                                  /\ q.Status = <<"Enabled">>}},
       role \in {<<>>, <<"r1">>, <<"r1", "r2">>, <<"bad">>}}

-----------------------------------------------------------------------------
(* Notification, object lock, tags, retention and legal hold. *)

queue(id, events, arn, filter) == [Id |-> id, Event |-> events, Queue |-> arn, Filter |-> filter]
s3KeyFilter(rules) == <<[S3Key |-> <<[FilterRule |-> rules]>>]>>
queues == {queue(id, <<"put">>, <<"q1">>, f)
           : id \in {<<>>, <<a>>, <<long>>, <<markup>>},
             f \in {<<>>, <<[S3Key |-> <<>>]>>, s3KeyFilter(<<[Name |-> <<"Prefix">>, Value |-> <<a>>]>>),
                    s3KeyFilter(<<[Name |-> <<"Prefix">>, Value |-> <<markup>>]>>),
                    s3KeyFilter(<<[Name |-> <<"Infix">>, Value |-> <<a>>]>>),
                    s3KeyFilter(<<[Name |-> <<"Suffix">>, Value |-> <<<<>>>>]>>)}}
          \cup {queue(<<>>, <<"put", "delete">>, <<"q2">>, <<>>), queue(<<>>, <<"fly">>, <<"q1">>, <<>>),
                queue(<<>>, <<"put">>, <<"bad">>, <<>>)}
notificationDocuments == {<<>>} \cup {<<q>> : q \in queues} \cup {<<q, r>> : q, r \in queues}

retentions == [Mode : {<<>>, <<"GOVERNANCE">>, <<"none">>}, Days : {<<>>, <<nan>>, <<0>>, <<1>>, <<99>>},
               Years : {<<>>, <<1>>}]
objectLockDocuments ==
    {[ObjectLockEnabled |-> e, Rule |-> r]
     : e \in {<<"Enabled">>, <<>>},
       r \in {<<>>, <<[DefaultRetention |-> <<>>]>>}
             \cup {<<[DefaultRetention |-> <<x>>]>> : x \in retentions}}

tagDocuments == UNION {[1 .. n -> {t1, t2, [Key |-> <<long>>, Value |-> <<a>>],
                                   [Key |-> <<<<>>>>, Value |-> <<a>>],
                                   [Key |-> <<markup>>, Value |-> <<markup>>]}] : n \in 0 .. 3}
MCQueries == {<<>>, <<<<a, a>>>>, <<<<>>, <<ab, <<>>>>>>, <<<<a, a>>, <<a, ab>>>>, <<<<a>>>>,
              <<<<long, a>>>>}

MCDocuments ==
    [lifecycle |-> lifecycleDocuments, replication |-> replicationDocuments,
     notification |-> notificationDocuments, objectLock |-> objectLockDocuments,
     tags |-> tagDocuments,
     retention |-> [Mode : {<<>>, <<"COMPLIANCE">>}, RetainUntilDate : {<<>>, <<nan>>, <<0>>, <<1>>, <<3>>}],
     legalHold |-> [Status : {<<>>, <<"ON">>, <<"OFF">>, <<"ON", "OFF">>, <<"on">>}]]

MCOtherDocuments ==
    [lifecycle |-> {<<rule(<<>>, <<"Enabled">>, <<>>, <<NoFilter>>, expireAll)>>},
     replication |-> {[Rule |-> <<replicationRule(<<>>, <<ab>>, <<"Enabled">>, <<"b1">>, <<>>)>>,
                       Role |-> <<"r1", "r2">>]},
     notification |-> {<<>>},
     objectLock |-> {[ObjectLockEnabled |-> <<"Enabled">>, Rule |-> <<>>]},
     tags |-> {<<t2>>}, retention |-> {[Mode |-> <<"COMPLIANCE">>, RetainUntilDate |-> <<2>>]},
     legalHold |-> {[Status |-> <<"OFF">>]}]

item(key, tagged, class1, modified) ==
    [Key |-> key, tags |-> tagged, StorageClass |-> class1, LastModified |-> modified]
MCItems == {item(a, {tagA}, "s0", 0), item(<<"b">>, {tagA, tagB}, "s1", 1), item(ab, {}, "s2", 0)}

endpoint(site, default, scality, cold) ==
    [site |-> site, default |-> default, scality |-> scality, cold |-> cold]
MCEndpoints == <<endpoint("local", TRUE, TRUE, FALSE), endpoint("cloud", FALSE, FALSE, FALSE),
                 endpoint("cold", FALSE, FALSE, TRUE)>>
MCGeneratedIDs == <<<<"id1">>, <<"id2">>, <<"id3">>>>
MCTooLong == {long}
MCMarkup == {markup}
MCMaxRetention == [Days |-> 50, Years |-> 10]

-----------------------------------------------------------------------------
(* The two of them.                                                        *)

VARIABLE subject

documentVars == <<subject, peVars, bcVars>>

\* What does not run is in one initial state.
IdlePolicies ==
    /\ rc = NewContext(MCContext("s3", MCRequester("User", "a1", absent)))
    /\ policies = <<>> /\ specific = absent
    /\ trust = [account |-> "a1", statements |-> <<>>]
    /\ tags = CHOOSE t \in MCTags : TRUE
    /\ wire = absent /\ verdict = absent /\ pePhase = "built"

IdleConfigurations == kind = "tags" /\ BcInit

DocumentsInit ==
    \/ subject = "policies" /\ IdleConfigurations /\ PolicyInit
    \/ subject = "configurations" /\ IdlePolicies /\ BcInit

DocumentsNext ==
    /\ UNCHANGED subject
    /\ \/ subject = "policies" /\ PeNext /\ UNCHANGED bcVars
       \/ subject = "configurations" /\ BcNext /\ UNCHANGED peVars

DocumentsSpec == DocumentsInit /\ [][DocumentsNext]_documentVars
================================================================================
