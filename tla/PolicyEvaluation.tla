--------------------------- MODULE PolicyEvaluation ---------------------------
(***************************************************************************)
(* Authorization of a request by IAM policies (policyEvaluator): the       *)
(* server that has received the request builds a RequestContext, another   *)
(* process gets it serialized, evaluates the policies and, when a          *)
(* condition needs the tags of the object or of the request, asks for      *)
(* them and evaluates the policies again.                                  *)
(*                                                                         *)
(* A string of a request is a value; a string of a policy, in which        *)
(* wildcards may be, is the set of the values it matches. A policy         *)
(* variable is [var |-> key]. An ARN is a function of its six segments. A  *)
(* condition on one tag has the key of the tag in its own, as .tag.        *)
(***************************************************************************)
EXTENDS Integers, Sequences, FiniteSets, SequencesExt

CONSTANTS
    Contexts,       \* the contexts requests come with, the tags not known yet
    ObjectTags,     \* what the tags turn out to be: [existing, request, requestKeys]
    PolicySets,     \* the policies (sequences of statements) of a requester
    TrustPolicies,  \* trust policies: [statements, account]
    Specifics,      \* specific resources that a deserialized context may be given
    ActionOf,       \* the action of a method (actionMaps)
    Absent,      \* undefined or null
    EmptySegment,   \* the empty segment of an ARN
    NotNumbers      \* values that Number.parseInt() makes NaN

ASSUME PolicyAssumption ==
    /\ Absent \notin Specifics
    /\ \A s \in PolicySets : \A i \in DOMAIN s : s[i] # <<>>

VARIABLES
    rc,         \* the RequestContext at the server that has the request
    wire,       \* the RequestContext at the process that evaluates the policies
    tags,       \* the tags of the object and of the request
    specific,   \* the specific resource to evaluate, if it is not the request's own
    policies, trust,
    verdict,    \* [verdict, isImplicit] of the last evaluation
    pePhase     \* "built", "received", "evaluated" or "decided"

peVars == <<rc, wire, tags, specific, policies, trust, verdict, pePhase>>

TagKeys == {"existingTag", "requestTag", "requestTagKeys"}

-----------------------------------------------------------------------------
(* RequestContext. *)

\* The constructor does not take what is not implemented.
NewContext(c) == [c EXCEPT !.tokenIssueTime = Absent, !.foundResource = Absent]

\* deSerialize(serialize()), which may replace the specific resource.
Transmitted(c, s) == NewContext([c EXCEPT !.specific = IF s = Absent THEN @ ELSE s])

\* setRequestObjTags(), setExistingObjTag() and setNeedTagEval().
WithTags(c, t) == [c EXCEPT !.existingTag = t.existing, !.requestTags = t.request,
                            !.requestTagKeys = t.requestKeys, !.needTagEval = TRUE]

\* _buildArn(): which ARNs have an account, and which one.
BuildArn(c) ==
    LET scality == {"utapi", "sso", "metadata", "scuba"}
        account == CASE c.service \in {"s3", "sso"} -> EmptySegment
                     [] c.service = "sts"           -> c.requester.target
                     [] OTHER                       -> c.requester.account
    IN  <<"arn", IF c.service \in scality THEN "scality" ELSE "aws",
          IF c.service = "sts" THEN "iam" ELSE c.service, EmptySegment, account,
          <<c.general, c.specific>> >>

\* getResource() and getAction() find theirs once.
FindResource(c) == IF c.foundResource = Absent THEN [c EXCEPT !.foundResource = BuildArn(c)] ELSE c
FindAction(c) == IF c.action # Absent THEN c.action ELSE ActionOf[c.method]

\* findConditionKey(): tags are there when they were asked for only.
FindConditionKey(c, key) ==
    CASE key = "existingTag"    -> IF c.needTagEval THEN c.existingTag ELSE Absent
      [] key = "requestTag"     -> IF c.needTagEval THEN c.requestTags ELSE Absent
      [] key = "requestTagKeys" -> IF c.needTagEval /\ c.requestTags # Absent
                                   THEN c.requestTagKeys ELSE Absent
      [] key = "tokenIssueTime" -> c.tokenIssueTime
      [] OTHER                  -> c.keys[key]

\* substituteVariables(): a variable without a value stays, as a string that matches nothing.
SubstituteVariables(item, c) ==
    IF "var" \notin DOMAIN item THEN item.matches
    ELSE IF c.keys[item.var] = Absent THEN {} ELSE {c.keys[item.var]}

\* transformTagKeyValue(): the key of a tag goes into the value, whatever the operator; of
\* several values it makes one string, with commas, which no tags are.
TransformTagKeyValue(cond, items) ==
    IF cond.key \notin {"existingTag", "requestTag"} THEN items
    ELSE IF Len(items) = 1 THEN <<{cond.tag \o "=" \o v : v \in items[1]}>>
    ELSE <<{}>>

-----------------------------------------------------------------------------
(* Operators of conditions. *)

OperatorsWithVariables == {"StringEquals", "StringNotEquals", "StringLike", "StringNotLike"}
NegationOperators == {"StringNotEquals", "StringNotLike", "NumericNotEquals"}

Matching(value, items) == \E i \in DOMAIN items : value \in items[i]

\* Numeric and date operators compare what parses as a number with each value.
Compared(value, items, op) ==
    /\ value \notin NotNumbers
    /\ \E i \in DOMAIN items : \E n \in items[i] \ NotNumbers :
        CASE op = "NumericLessThan"          -> value < n
          [] op = "NumericGreaterThanEquals" -> value >= n
          [] OTHER                           -> value = n

\* StringLike of a list needs a prefix, which the negated operator does not pass on.
StringLike(value, items, prefix, isList) ==
    \/ ~isList /\ Matching(value, items)
    \/ isList /\ prefix = "ForAnyValue" /\ \E v \in value : Matching(v, items)
    \/ isList /\ prefix = "ForAllValues" /\ \A v \in value : Matching(v, items)

\* convertConditionOperator(). A list equals no string.
OperatorHolds(op, value, items, prefix, isList) ==
    CASE op = "StringEquals"     -> ~isList /\ Matching(value, items)
      [] op = "StringNotEquals"  -> isList \/ ~Matching(value, items)
      [] op = "StringLike"       -> StringLike(value, items, prefix, isList)
      [] op = "StringNotLike"    -> ~StringLike(value, items, "none", isList)
      [] op \in {"NumericEquals", "NumericLessThan", "NumericGreaterThanEquals"} ->
            Compared(value, items, op)
      [] op = "NumericNotEquals" -> ~Compared(value, items, op)
      [] op = "IpAddress"        -> Matching(value, items)
      [] op = "NotIpAddress"     -> ~Matching(value, items)
      [] op = "Null"             -> (IF value = Absent THEN "true" ELSE "false") \in items[1]

\* One condition of a statement: "met", "not met", or "unknown" until tags are there.
ConditionResult(c, cond) ==
    LET values  == [i \in DOMAIN cond.items |->
                       IF cond.op \in OperatorsWithVariables THEN SubstituteVariables(cond.items[i], c)
                       ELSE cond.items[i].matches]
        items   == TransformTagKeyValue(cond, values)
        found   == FindConditionKey(c, cond.key)
        isList  == cond.key = "requestTagKeys" /\ found # Absent
        wrapped == cond.prefix # "none" /\ ~isList
        holds   == OperatorHolds(cond.op, IF wrapped THEN {found} ELSE found, items, cond.prefix,
                                 isList \/ wrapped)
    IN  IF cond.key \in TagKeys /\ ~c.needTagEval THEN "unknown"
        ELSE IF found = Absent /\ (cond.ifExists \/ cond.op \in NegationOperators) THEN "met"
        ELSE IF found = Absent /\ cond.op # "Null" THEN "not met"
        ELSE IF holds THEN "met" ELSE "not met"

\* Mutant: what is unknown counts as met.
MeetUnknownConditions(c, conds) ==
    IF \E i \in DOMAIN conds : ConditionResult(c, conds[i]) = "not met" THEN "not met" ELSE "met"

\* meetConditions(): the first condition that is not met decides.
MeetConditions(c, conds) ==
    LET results == {ConditionResult(c, conds[i]) : i \in DOMAIN conds}
    IN  IF "not met" \in results THEN "not met" ELSE IF "unknown" \in results THEN "unknown" ELSE "met"

-----------------------------------------------------------------------------
(* Statements and policies. *)

\* checkArnMatch(): the relative id, then the segments before it; an empty account matches
\* any where the service allows it.
CheckArnMatch(pattern, c, arn) ==
    LET p(j) == SubstituteVariables(pattern[j], c)
    IN  /\ arn[6] \in p(6)
        /\ \A j \in 1 .. 5 :
               \/ arn[j] \in p(j)
               \/ j = 5 /\ p(3) \in {{"utapi"}, {"scuba"}} /\ p(5) = {EmptySegment}

IsResourceApplicable(c, patterns) ==
    \E i \in DOMAIN patterns : CheckArnMatch(patterns[i], c, FindResource(c).foundResource)

IsActionApplicable(c, patterns) == \E i \in DOMAIN patterns : FindAction(c) \in patterns[i]

\* Whether a statement is about the request: Resource or NotResource, Action or NotAction.
IsApplicable(c, st) ==
    /\ st.notResource # IsResourceApplicable(c, st.resource)
    /\ st.notAction # IsActionApplicable(c, st.action)

\* The statements of a policy with an effect whose conditions give a result.
Has(c, policy, effect, result) ==
    \E i \in DOMAIN policy :
        IsApplicable(c, policy[i]) /\ policy[i].effect = effect
            /\ MeetConditions(c, policy[i].conditions) = result

\* evaluatePolicy(): Deny at once; otherwise a Deny that depends on tags is heard first.
EvaluatePolicy(c, policy) ==
    IF Has(c, policy, "Deny", "met") THEN "Deny"
    ELSE IF Has(c, policy, "Deny", "unknown") THEN "DenyWithTagCondition"
    ELSE IF Has(c, policy, "Allow", "met") THEN "Allow"
    ELSE IF Has(c, policy, "Allow", "unknown") THEN "AllowWithTagCondition"
    ELSE "Neutral"

\* standardEvaluateAllPolicies().
StandardEvaluateAllPolicies(c, all) ==
    LET verdicts == {EvaluatePolicy(c, all[i]) : i \in DOMAIN all}
        is(v, implicit) == [verdict |-> v, isImplicit |-> implicit]
    IN  IF "Deny" \in verdicts THEN is("Deny", FALSE)
        ELSE IF "Allow" \in verdicts
             THEN is(IF "DenyWithTagCondition" \in verdicts THEN "NeedTagConditionEval" ELSE "Allow", FALSE)
        ELSE IF "AllowWithTagCondition" \in verdicts THEN is("NeedTagConditionEval", FALSE)
        ELSE is("Deny", TRUE)

-----------------------------------------------------------------------------
(* Principal: the trust policy of a role. A principal is "*", another string, or a *)
(* record of the names of each kind.                                                *)

\* evaluatePrincipal(): the names that the requester goes by.
Valids(c, account) ==
    LET me     == c.requester
        parent == IF me.parent = Absent THEN me.arn ELSE me.parent
        none   == [Federated |-> {}, AWS |-> {}, Service |-> {}]
        mine   == {me.account, me.root}
    IN  IF me.account # account THEN [none EXCEPT !.AWS = mine \cup {parent}]
        ELSE CASE me.type \in {"User", "AssumedRole"} -> [none EXCEPT !.AWS = mine \cup {parent, me.arn}]
               [] me.type = "Federated" -> [none EXCEPT !.AWS = mine, !.Federated = {parent}]
               [] me.type = "Service"   -> [none EXCEPT !.Service = {parent}]
               [] OTHER                 -> Absent

EvaluateStatement(c, st) ==
    IF st.notPrincipal \/ (st.conditions # <<>> /\ MeetConditions(c, st.conditions) # "met") THEN "Neutral"
    ELSE st.effect

\* _evaluatePrincipalField(): the first kind that both sides have is compared. Without
\* names (a requester of another type) only a string can be.
EvaluatePrincipalField(c, st, valids) ==
    IF st.who = "kinds" /\ valids = Absent THEN "throws" ELSE
    LET kinds == SelectSeq(<<"Federated", "AWS", "Service">>,
                           LAMBDA k : valids # Absent /\ valids[k] # {} /\ st.principal[k] # {})
        other == IF st.notPrincipal THEN st.effect ELSE "Neutral"
    IN  CASE st.who = "*"       -> EvaluateStatement(c, st)
          [] st.who = "another" -> "Deny"
          [] st.who = "kinds" /\ kinds = <<>> -> other
          [] OTHER ->
               IF st.principal[kinds[1]] \cap (valids[kinds[1]] \cup {"*"}) # {} THEN EvaluateStatement(c, st)
               ELSE other

EvaluatePrincipal(c, t) ==
    LET result(i) == EvaluatePrincipalField(c, t.statements[i], Valids(c, t.account))
        last == {i \in DOMAIN t.statements : result(i) \in {"Deny", "throws"}}
    IN  [result |-> IF last # {} THEN result(Min(last))
                    ELSE IF \E i \in DOMAIN t.statements : result(i) = "Allow" THEN "Allow" ELSE "Deny",
         checkAction |-> c.requester.account # t.account]

-----------------------------------------------------------------------------
(* A request. *)

PeInit ==
    /\ rc \in {NewContext(c) : c \in Contexts}
    /\ tags \in ObjectTags /\ policies \in PolicySets /\ trust \in TrustPolicies
    /\ specific \in Specifics \cup {Absent}
    /\ wire = Absent /\ verdict = Absent
    /\ pePhase = "built"

\* The context is serialized, sent and deserialized.
Receive ==
    /\ pePhase = "built"
    /\ wire' = Transmitted(rc, specific)
    /\ pePhase' = "received"
    /\ UNCHANGED <<rc, tags, specific, policies, trust, verdict>>

Evaluate ==
    /\ pePhase = "received"
    /\ wire' = FindResource(wire)
    /\ verdict' = StandardEvaluateAllPolicies(wire, policies)
    /\ pePhase' = IF verdict'.verdict = "NeedTagConditionEval" THEN "evaluated" ELSE "decided"
    /\ UNCHANGED <<rc, tags, specific, policies, trust>>

\* The next evaluation has the tags.
SetTags ==
    /\ pePhase = "evaluated"
    /\ rc' = WithTags(rc, tags)
    /\ pePhase' = "built"
    /\ UNCHANGED <<wire, tags, specific, policies, trust, verdict>>

PeNext == Receive \/ Evaluate \/ SetTags

PeSpec == PeInit /\ [][PeNext]_peVars /\ WF_peVars(PeNext)

-----------------------------------------------------------------------------
(* Properties. *)

\* What the policies say of the request when all tags are at hand: each statement taken
\* by itself, whatever policy it is in.
Binding(effect) ==
    LET known == [WithTags(rc, tags) EXCEPT !.specific = IF specific = Absent THEN @ ELSE specific]
    IN  \E i \in DOMAIN policies : \E j \in DOMAIN policies[i] :
            LET st == policies[i][j]
            IN  /\ st.effect = effect /\ IsApplicable(known, st)
                /\ \A k \in DOMAIN st.conditions : ConditionResult(known, st.conditions[k]) = "met"

IsGranted == Binding("Allow") /\ ~Binding("Deny")

\* A policy that allows the request, or may, and has a Deny which depends on tags.
AllowIsHidden ==
    \E i \in DOMAIN policies :
        /\ \E result \in {"met", "unknown"} : Has(wire, policies[i], "Allow", result)
        /\ Has(wire, policies[i], "Deny", "unknown")

\* A trust policy (Principal) lets in only a requester that a statement names, or excepts
\* another, and never one that a Deny whose conditions are met names.
TrustIsJustified ==
    LET v == Valids(rc, trust.account)
        names(st) == \/ st.who = "*"
                     \/ v # Absent /\ \E k \in DOMAIN v :
                            v[k] # {} /\ st.principal[k] \cap (v[k] \cup {"*"}) # {}
        binds(st, effect) ==
            st.effect = effect /\ ~st.notPrincipal /\ names(st) /\ MeetConditions(rc, st.conditions) = "met"
        excepts(st) == st.effect = "Allow" /\ st.notPrincipal /\ ~names(st)
        all == {trust.statements[i] : i \in DOMAIN trust.statements}
    IN  EvaluatePrincipal(rc, trust).result = "Allow" =>
            /\ \E st \in all : binds(st, "Allow") \/ excepts(st)
            /\ ~\E st \in all : binds(st, "Deny")

\* Deciding without the tags, and asking for them only when they matter, decides as all
\* statements do with all tags at hand, by a process that knows the request from its
\* serialized context only: exactly what some Allow grants and no Deny forbids is allowed,
\* and an explicit Deny has a statement behind it. Excused: a Deny that depends on tags
\* hides an Allow of its own policy, and the request is denied without asking for the tags
\* (AllowIsHidden), although it says "priority is on checking tags to potentially deny".
GrantsAreJustified ==
    /\ TrustIsJustified
    /\ pePhase = "decided" =>
           /\ verdict.verdict = "Allow" => IsGranted
           /\ verdict.verdict = "Deny" /\ ~verdict.isImplicit => Binding("Deny")
           /\ verdict.verdict = "Deny" /\ ~AllowIsHidden => ~IsGranted

================================================================================
