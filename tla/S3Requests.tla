------------------------------- MODULE S3Requests -------------------------------
(***************************************************************************)
(* A request to the S3 server. The first part has the functions that find  *)
(* its bucket and key and route it to an API method: a host or a bucket    *)
(* name is the sequence of its labels, a path the sequence of its segments *)
(* (each a sequence of labels too: a segment may be a bucket's name), a    *)
(* query maps the parameters that are given to whether they have a value.  *)
(* In the second part the request is routed, the API method is called, and *)
(* the answer is sent; the data of an object is fetched location after     *)
(* location and piped into the response. The client may close the          *)
(* connection at any time; a location may fail before or while it is read. *)
(* The API methods are not part of the repository: what they answer is     *)
(* taken from how the routes use it.                                       *)
(***************************************************************************)
EXTENDS Integers, Sequences, TLC, SequencesExt, FiniteSetsExt

CONSTANTS
    AllEndpoints, WebsiteEndpoints, IpHosts,
    InternalHandlers,
    BadBucketNames,   \* what isValidBucketName() refuses
    BadKeys,          \* what isValidObjectKey() refuses
    S3RequestSet,   \* the requests
    LocationLists   \* the data an object may have: sequences of [size, known, ciphered, azure]

Absent == <<>>

-----------------------------------------------------------------------------
(* The resource. *)

ValidHosts == AllEndpoints \cup WebsiteEndpoints

IsPathStyle(host) == host \in IpHosts \cup ValidHosts

\* What stands before the first occurrence of an endpoint the host ends with. Hosts are their
\* labels: the code would also find ".ep" at the begin of a longer label (".epsilon"), and no
\* label here begins with another one.
NamesInHost(host) ==
    {SubSeq(host, 1, Min({i \in 2 .. Len(host) : IsPrefix(e, SubSeq(host, i, Len(host)))}) - 1) :
        e \in {v \in ValidHosts : IsSuffix(v, host) /\ v # host}}

\* getBucketNameFromHost(): of several endpoints the most specific.
BucketNameFromHost(host) ==
    CHOOSE name \in NamesInHost(host) : \A other \in NamesInHost(host) : Len(name) <= Len(other)

\* An empty name is none.
KeyOf(segments) == IF segments = <<Absent>> THEN Absent ELSE segments

\* Mutant: the bucket's name in the path is part of the key.
NamesKeepPath(host, path) ==
    [bucket |-> path[1], key |-> KeyOf(path), parsedHost |-> host]

NamesFromPath(host, path) ==
    [bucket |-> path[1], key |-> KeyOf(Tail(path)), parsedHost |-> host]

Resource(host, path) ==
    IF IsPathStyle(host) THEN NamesFromPath(host, path)
    ELSE LET bucket == BucketNameFromHost(host)
         IN  [bucket |-> bucket, key |-> KeyOf(path), parsedHost |-> SubSeq(host, Len(bucket) + 1, Len(host))]

-----------------------------------------------------------------------------
(* The route. *)

Reject(error) == [kind |-> "error", name |-> error]
Call(name) == [kind |-> "call", name |-> name]

Has(query, name) == name \in DOMAIN query
HasValue(query, name) == Has(query, name) /\ query[name]

\* The route of the first sub-resource of a list that is in the query.
FirstOf(subResources, query, otherwise) ==
    LET given == {i \in DOMAIN subResources : Has(query, subResources[i][1])}
    IN  IF given = {} THEN otherwise ELSE Call(subResources[Min(given)][2])

RouteGET(r) ==
    IF r.bucket = Absent THEN IF r.key = Absent THEN Call("serviceGet") ELSE Reject("NoSuchBucket")
    ELSE IF r.key = Absent
    THEN FirstOf(<< <<"acl", "bucketGetACL">>, <<"replication", "bucketGetReplication">>,
                    <<"cors", "bucketGetCors">>, <<"versioning", "bucketGetVersioning">>,
                    <<"website", "bucketGetWebsite">>, <<"tagging", "bucketGetTagging">>,
                    <<"lifecycle", "bucketGetLifecycle">>, <<"uploads", "listMultipartUploads">>,
                    <<"location", "bucketGetLocation">>, <<"policy", "bucketGetPolicy">>,
                    <<"object-lock", "bucketGetObjectLock">>, <<"notification", "bucketGetNotification">>,
                    <<"encryption", "bucketGetEncryption">>, <<"search", "metadataSearch">>,
                    <<"quota", "bucketGetQuota">> >>, r.query, Call("bucketGet"))
    ELSE FirstOf(<< <<"acl", "objectGetACL">>, <<"legal-hold", "objectGetLegalHold">>,
                    <<"tagging", "objectGetTagging">>, <<"uploadId", "listParts">>,
                    <<"retention", "objectGetRetention">> >>, r.query, Call("objectGet"))

RoutePutBucket(r) ==
    IF r.length = "bad" THEN Reject("BadRequest")
    ELSE FirstOf(<< <<"acl", "bucketPutACL">>, <<"versioning", "bucketPutVersioning">>,
                    <<"website", "bucketPutWebsite">>, <<"tagging", "bucketPutTagging">>,
                    <<"cors", "bucketPutCors">>, <<"replication", "bucketPutReplication">>,
                    <<"lifecycle", "bucketPutLifecycle">>, <<"policy", "bucketPutPolicy">>,
                    <<"object-lock", "bucketPutObjectLock">>, <<"notification", "bucketPutNotification">>,
                    <<"encryption", "bucketPutEncryption">>, <<"quota", "bucketUpdateQuota">> >>,
                 r.query, Call("bucketPut"))

RoutePutObject(r) ==
    LET whole == IF r.copySource THEN Call("objectCopy")
                 ELSE IF r.length = "none" THEN Reject("MissingContentLength")
                 ELSE IF r.length = "bad" THEN Reject("BadRequest")
                 ELSE Call("objectPut")
    IN  IF r.md5 \in {"empty", "bad"} THEN Reject("InvalidDigest")
        ELSE IF HasValue(r.query, "partNumber")
        THEN Call(IF r.copySource THEN "objectPutCopyPart" ELSE "objectPutPart")
        ELSE FirstOf(<< <<"acl", "objectPutACL">>, <<"legal-hold", "objectPutLegalHold">>,
                        <<"tagging", "objectPutTagging">>, <<"retention", "objectPutRetention">> >>,
                     r.query, whole)

RoutePOST(r) ==
    IF Has(r.query, "delete") /\ r.bucket = Absent THEN Reject("MethodNotAllowed")
    ELSE IF r.key = Absent /\ (Has(r.query, "uploads") \/ Has(r.query, "uploadId")) THEN Reject("InvalidURI")
    ELSE FirstOf(<< <<"uploads", "initiateMultipartUpload">>, <<"uploadId", "completeMultipartUpload">>,
                    <<"delete", "multiObjectDelete">>, <<"restore", "objectRestore">> >>,
                 r.query, Reject("NotImplemented"))

RouteDELETE(r) ==
    IF HasValue(r.query, "uploadId")
    THEN IF r.key = Absent THEN Reject("InvalidRequest") ELSE Call("multipartDelete")
    ELSE IF r.key = Absent
    THEN FirstOf(<< <<"website", "bucketDeleteWebsite">>, <<"cors", "bucketDeleteCors">>,
                    <<"replication", "bucketDeleteReplication">>, <<"lifecycle", "bucketDeleteLifecycle">>,
                    <<"policy", "bucketDeletePolicy">>, <<"encryption", "bucketDeleteEncryption">>,
                    <<"tagging", "bucketDeleteTagging">>, <<"quota", "bucketDeleteQuota">> >>,
                 r.query, Call("bucketDelete"))
    ELSE FirstOf(<< <<"tagging", "objectDeleteTagging">> >>, r.query, Call("objectDelete"))

RouteHEAD(r) == Call(IF r.key = Absent THEN "bucketHead" ELSE "objectHead")

RouteOPTIONS(r) == IF r.cors THEN Call("corsPreflight") ELSE Reject("BadRequest")

RouteWebsite(r) ==
    IF r.method \notin {"GET", "HEAD"} \/ r.bucket = Absent THEN Reject("MethodNotAllowed")
    ELSE Call(IF r.method = "GET" THEN "websiteGet" ELSE "websiteHead")

Methods == {"GET", "PUT", "POST", "DELETE", "HEAD", "OPTIONS"}
NoError == "none"

CheckBucketAndKey(r) ==
    CASE r.bucket = Absent /\ ~(r.method = "GET" /\ r.key = Absent) ->
            IF r.method = "OPTIONS" THEN "AccessForbidden" ELSE "MethodNotAllowed"
      [] r.bucket \in BadBucketNames -> IF r.method = "DELETE" THEN "NoSuchBucket" ELSE "InvalidBucketName"
      [] r.key \in BadKeys -> "InvalidArgument"
      [] r.key = Absent /\ (HasValue(r.query, "partNumber") \/ HasValue(r.query, "uploadId")) -> "InvalidRequest"
      [] OTHER -> NoError

RouteByMethod(r) ==
    CASE r.method = "GET" -> RouteGET(r)
      [] r.method = "PUT" -> IF r.key = Absent THEN RoutePutBucket(r) ELSE RoutePutObject(r)
      [] r.method = "POST" -> RoutePOST(r)
      [] r.method = "DELETE" -> RouteDELETE(r)
      [] r.method = "HEAD" -> RouteHEAD(r)
      [] r.method = "OPTIONS" -> RouteOPTIONS(r)

IsInternal(path) == path[1] = <<"_">> /\ Len(path) > 1

\* routes()
Route(req) ==
    IF IsInternal(req.path)
    THEN IF req.path[2] \in InternalHandlers THEN [kind |-> "internal", name |-> req.path[2]]
         ELSE Reject("InvalidURI")
    ELSE IF ~IsPathStyle(req.host) /\ NamesInHost(req.host) = {} THEN Reject("InvalidURI")
    ELSE LET r == Resource(req.host, req.path) @@ req
         IN  IF r.method \notin Methods THEN Reject("MethodNotAllowed")
             ELSE IF CheckBucketAndKey(r) # NoError THEN Reject(CheckBucketAndKey(r))
             ELSE IF r.parsedHost \in WebsiteEndpoints THEN RouteWebsite(r)
             ELSE RouteByMethod(r)

-----------------------------------------------------------------------------
(* The handling of a request. *)

VARIABLES
    request,
    apiCall,    \* the API method that has been called
    response,   \* [status, announced, ok]
    locations,  \* the data that is to be sent
    at,         \* the location that is being read
    reading,    \* "idle", "get", "kms", "pipe" or "done"
    emitted,    \* bytes the current source has emitted
    sent,       \* the body: for each byte the location it is of
    openSources,    \* locations whose source is open
    clientClosed,
    unnoticed   \* a source has failed and nobody is told

rqVars == <<request, apiCall, response, locations, at, reading, emitted, sent, openSources, clientClosed,
            unnoticed>>

retrievalVars == <<locations, at, reading, emitted, sent, openSources, unnoticed>>

NoLength == -1
NoData == <<>>   \* also what dataLocations === null stands for

Lengths(list) == FoldLeft(LAMBDA total, l : total + l.size, 0, list)
SizesAreKnown(list) == \A i \in DOMAIN list : list[i].known

-----------------------------------------------------------------------------
RqInit ==
    /\ request \in S3RequestSet
    /\ apiCall = "none"
    /\ response = [status |-> "none", announced |-> NoLength, ok |-> FALSE]
    /\ locations = NoData
    /\ at = 0 /\ reading = "idle" /\ emitted = 0 /\ sent = <<>>
    /\ openSources = {}
    /\ clientClosed = FALSE
    /\ unnoticed = FALSE

\* A response without data of a location.
Respond(ok) == response' = [response EXCEPT !.status = "ended", !.ok = ok] /\ UNCHANGED retrievalVars

\* routes()
Handle ==
    /\ apiCall = "none" /\ response.status = "none"
    /\ LET route == Route(request)
       IN  IF route.kind = "call" THEN apiCall' = route.name /\ UNCHANGED <<response, retrievalVars>>
           ELSE apiCall' = apiCall /\ Respond(route.kind = "internal")
    /\ UNCHANGED <<request, clientClosed>>

Called(names) == apiCall \in names /\ response.status = "none"
StreamCalls == {"objectGet", "websiteGet"}

\* Answers with headers, a document or an error. That there was no such object to delete is none.
AnswerCall ==
    /\ apiCall # "none" /\ Called({apiCall} \ StreamCalls)
    /\ \E err \in {NoError, "NoSuchKey", "InternalError"} :
        Respond(err = NoError \/ (apiCall = "objectDelete" /\ err = "NoSuchKey"))
    /\ UNCHANGED <<request, apiCall, clientClosed>>

AnswerApiError ==
    /\ Called(StreamCalls)
    /\ Respond(FALSE)
    /\ UNCHANGED <<request, apiCall, clientClosed>>

\* redirectRequest()
AnswerRedirect ==
    /\ Called({"websiteGet"})
    /\ Respond(TRUE)
    /\ UNCHANGED <<request, apiCall, clientClosed>>

\* retrieveData(), retrieveDataAzure()
Retrieve(list, announced, ok) ==
    /\ response' = [status |-> IF list = NoData THEN "ended" ELSE "headers", announced |-> announced, ok |-> ok]
    /\ locations' = list
    /\ at' = IF list = NoData THEN 0 ELSE 1
    /\ reading' = IF list = NoData THEN "done" ELSE "get"
    /\ UNCHANGED <<emitted, sent, openSources, unnoticed>>

\* responseStreamData(): the length the API announces is checked against the locations' sizes.
\* What the API knows no size of is announced as it is.
AnswerData ==
    /\ Called(StreamCalls)
    /\ \E list \in LocationLists, announced \in {NoLength, 0} \cup {Lengths(l) : l \in LocationLists} :
        /\ SizesAreKnown(list) \/ announced \in {NoLength, Lengths(list)}
        /\ IF announced # NoLength /\ announced # Lengths(list) THEN Respond(FALSE)
           ELSE Retrieve(IF Lengths(list) = 0 /\ SizesAreKnown(list) THEN NoData ELSE list, announced, TRUE)
    /\ UNCHANGED <<request, apiCall, clientClosed>>

\* streamUserErrorPage(), also of a redirection on error
AnswerErrorPage ==
    /\ Called({"websiteGet"})
    /\ \E list \in LocationLists : Retrieve(list, NoLength, FALSE)
    /\ UNCHANGED <<request, apiCall, clientClosed>>

-----------------------------------------------------------------------------
(* The data. *)

IsAzure == locations[1].azure
IsCiphered == locations[at].ciphered /\ ~IsAzure

\* _destroyResponse(), and the end of the series.
Abort ==
    /\ response' = [response EXCEPT !.status = "destroyed"]
    /\ reading' = "done"

\* data.get() fails.
GetDataFails ==
    /\ reading = "get"
    /\ Abort
    /\ UNCHANGED <<request, apiCall, locations, at, emitted, sent, openSources, clientClosed, unnoticed>>

\* The source of the data is there. When the client has gone it is destroyed, unless it is
\* Azure's, which is piped into the response in any case.
GetData ==
    /\ reading = "get"
    /\ IF IsCiphered THEN reading' = "kms" /\ openSources' = openSources \cup {at} /\ UNCHANGED response
       ELSE IF clientClosed /\ ~IsAzure
       THEN reading' = "done" /\ response' = [response EXCEPT !.status = "destroyed"] /\ UNCHANGED openSources
       ELSE reading' = "pipe" /\ openSources' = openSources \cup {at} /\ UNCHANGED response
    /\ emitted' = 0
    /\ UNCHANGED <<request, apiCall, locations, at, sent, clientClosed, unnoticed>>

\* createDecipherBundle(): its stream is destroyed when the client has gone, not the source.
Decipher ==
    /\ reading = "kms"
    /\ IF clientClosed THEN reading' = "done" /\ response' = [response EXCEPT !.status = "destroyed"]
       ELSE reading' = "pipe" /\ UNCHANGED response
    /\ UNCHANGED <<request, apiCall, locations, at, emitted, sent, openSources, clientClosed, unnoticed>>

DecipherFails ==
    /\ reading = "kms"
    /\ Abort
    /\ UNCHANGED <<request, apiCall, locations, at, emitted, sent, openSources, clientClosed, unnoticed>>

Flows == reading = "pipe" /\ at \in openSources /\ ~unnoticed /\ ~clientClosed

SourceEmits ==
    /\ Flows /\ emitted < locations[at].size
    /\ emitted' = emitted + 1
    /\ sent' = Append(sent, at)
    /\ UNCHANGED <<request, apiCall, response, locations, at, reading, openSources, clientClosed, unnoticed>>

\* The end of a source begins the next location, that of the last ends the response.
SourceEnds ==
    /\ Flows /\ emitted = locations[at].size
    /\ openSources' = openSources \ {at}
    /\ IF at = Len(locations)
       THEN reading' = "done" /\ response' = [response EXCEPT !.status = "ended"] /\ UNCHANGED at
       ELSE reading' = "get" /\ at' = at + 1 /\ UNCHANGED response
    /\ UNCHANGED <<request, apiCall, locations, emitted, sent, clientClosed, unnoticed>>

\* Mutant: the error of a source ends the response like the end of the data.
SourceErrorEnds ==
    /\ Flows
    /\ openSources' = openSources \ {at}
    /\ response' = [response EXCEPT !.status = "ended"]
    /\ reading' = "done"
    /\ UNCHANGED <<request, apiCall, locations, at, emitted, sent, clientClosed, unnoticed>>

\* A source that is piped through a decipher, or by the client of Azure, fails unnoticed.
SourceError ==
    /\ Flows
    /\ openSources' = openSources \ {at}
    /\ IF IsAzure \/ IsCiphered THEN unnoticed' = TRUE /\ UNCHANGED <<response, reading>>
       ELSE Abort /\ UNCHANGED unnoticed
    /\ UNCHANGED <<request, apiCall, locations, at, emitted, sent, clientClosed>>

\* The client goes: the stream that is piped is destroyed, which the series never hears of.
ClientCloses ==
    /\ ~clientClosed /\ response.status \in {"none", "headers"}
    /\ clientClosed' = TRUE
    /\ IF reading = "pipe"
       THEN /\ reading' = "done"
            /\ openSources' = IF IsAzure \/ IsCiphered THEN openSources ELSE openSources \ {at}
       ELSE UNCHANGED <<reading, openSources>>
    /\ UNCHANGED <<request, apiCall, response, locations, at, emitted, sent, unnoticed>>

Progress ==
    \/ Handle \/ AnswerCall \/ AnswerApiError \/ AnswerRedirect \/ AnswerData \/ AnswerErrorPage
    \/ GetData \/ GetDataFails \/ Decipher \/ DecipherFails
    \/ SourceEmits \/ SourceEnds \/ SourceError

RqNext == Progress \/ ClientCloses
RqFairness == WF_rqVars(Progress)
RqSpec == RqInit /\ [][RqNext]_rqVars /\ RqFairness

-----------------------------------------------------------------------------
(* Properties. *)

\* The bytes of all locations, in their order.
WholeBody == FoldLeft(LAMBDA bytes, i : bytes \o [k \in 1 .. locations[i].size |-> i], <<>>,
                 [i \in DOMAIN locations |-> i])

\* A response that ends by itself has the data of every location, in order, as many bytes as
\* were announced; one that is cut short is destroyed, so that the client can tell.
BodyIsExact ==
    /\ IsPrefix(sent, WholeBody)
    /\ response.status = "ended" => sent = WholeBody /\ response.announced \in {NoLength, Len(sent)}

\* When the request is over no source of plain data is left open, whoever ended it and when.
\* (That of ciphered data, and Azure's, may be.)
SourcesAreReleased ==
    reading = "done" => \A i \in openSources : locations[i].ciphered \/ IsAzure

ObjectCalls == {"objectGet", "objectPut", "objectCopy", "objectDelete", "objectHead", "objectPutPart",
                "objectPutCopyPart", "listParts", "initiateMultipartUpload", "completeMultipartUpload",
                "multipartDelete", "objectGetTagging", "objectPutTagging", "objectDeleteTagging",
                "objectPutRetention", "objectGetRetention", "objectPutACL", "objectGetACL"}
BucketCalls == {"bucketGet", "bucketPut", "bucketDelete", "bucketHead", "bucketPutACL", "bucketPutPolicy",
                "bucketDeletePolicy", "bucketPutVersioning", "bucketPutLifecycle", "listMultipartUploads"}

\* A bucket's name that contains an endpoint is cut at it; a key under "_/" is an internal service.
IsAddressable(req) ==
    /\ ~IsPathStyle(req.host) /\ NamesInHost(req.host) # {}
    /\ \E e \in ValidHosts : req.host = BucketNameFromHost(req.host) \o e
    /\ ~IsInternal(req.path)

\* A method on objects is called with a key, one on buckets without; and a request with the
\* bucket's name in the host goes where the same request goes with the name in the path.
CallsFitTheirResource ==
    /\ apiCall \in ObjectCalls => Resource(request.host, request.path).key # Absent
    /\ apiCall \in BucketCalls =>
        /\ Resource(request.host, request.path).bucket # Absent
        /\ Resource(request.host, request.path).key = Absent
    /\ IsAddressable(request) =>
        LET bucket == BucketNameFromHost(request.host)
        IN  Route(request) = Route([request EXCEPT !.host = SubSeq(@, Len(bucket) + 1, Len(@)),
                                                   !.path = <<bucket>> \o @])

\* Every request is answered or cut off, unless a source fails where nobody listens.
EveryRequestEnds == <>(response.status \in {"ended", "destroyed"} \/ clientClosed \/ unnoticed)
=============================================================================
