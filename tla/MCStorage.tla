------------------------------- MODULE MCStorage -------------------------------
(***************************************************************************)
(* Instances of what stores and serves the data of objects, which share    *)
(* nothing: an upload to Google Cloud, a part put on Azure, a multipart    *)
(* upload, concurrent requests on the data wrapper, a request to the S3    *)
(* server, and the write cache of the metadata (MCWriteCache). In each     *)
(* behaviour one of them runs.                                             *)
(***************************************************************************)
EXTENDS GcpUpload, AzureParts, MultipartUpload, DataWrapper, S3Requests, MCWriteCache

VARIABLE task

storageVars == <<task, guVars, apVars, muVars, dwVars, rqVars, wcVars>>

MCPieces == {<<3, 1>>}
MCPieceSizes == <<2, 1, 1>>

\* Two endpoints, one the end of the other, a website and an address.
MCAllEndpoints == {<<"ep">>, <<"eu", "ep">>}
MCWebsiteEndpoints == {<<"web">>}
MCIpHosts == {<<"ip">>}
MCInternalHandlers == {<<"health">>}
MCBadBucketNames == {<<"Bad">>}
MCBadKeys == {<< <<"reserved">> >>}

MCHosts == {<<"ep">>, <<"eu", "ep">>, <<"b", "ep">>, <<"b", "eu", "ep">>, <<"b", "ep", "ep">>, <<"ip">>,
            <<"other">>, <<"web">>, <<"b", "web">>, <<"Bad", "ep">>}
MCPaths == {<< <<>> >>, << <<"b">> >>, << <<"b">>, <<>> >>, << <<"b">>, <<"k">> >>, << <<"b">>, <<>>, <<"k">> >>,
            << <<"_">>, <<"health">> >>, << <<"_">>, <<"k">> >>, << <<>>, <<"k">> >>, << <<"reserved">> >>}

MCParameters == {"acl", "replication", "cors", "versioning", "website", "tagging", "lifecycle", "uploads",
                 "location", "policy", "object-lock", "notification", "encryption", "search", "quota",
                 "legal-hold", "uploadId", "retention", "partNumber", "delete", "restore"}
MCQueries ==
    {p :> TRUE : p \in MCParameters} \cup {p :> FALSE : p \in {"uploadId", "partNumber"}}
    \cup {"uploadId" :> TRUE @@ "partNumber" :> TRUE, "acl" :> TRUE @@ "uploadId" :> TRUE}

MCHeaders == [copySource |-> FALSE, length |-> "ok", md5 |-> "none", cors |-> TRUE]

MCRequest(method, host, path, query, headers) ==
    [method |-> method, host |-> host, path |-> path, query |-> query] @@ headers

\* All addresses without a query, all queries on a bucket and on a key, and odd headers.
MCRequests ==
    {MCRequest(m, h, p, q, MCHeaders) :
        m \in Methods \cup {"PATCH"}, h \in MCHosts, p \in MCPaths, q \in {<<>>}}
    \cup {MCRequest(m, <<"b", "ep">>, p, q, MCHeaders) :
        m \in Methods, p \in {<< <<>> >>, << <<"b">>, <<"k">> >>}, q \in MCQueries}
    \cup {MCRequest(m, <<"ep">>, p, q, h) :
        m \in {"PUT", "OPTIONS"}, p \in {<< <<"b">> >>, << <<"b">>, <<"k">> >>},
        q \in {<<>>, "partNumber" :> TRUE},
        h \in {[MCHeaders EXCEPT !.copySource = TRUE], [MCHeaders EXCEPT !.length = "bad"],
               [MCHeaders EXCEPT !.length = "none"], [MCHeaders EXCEPT !.md5 = "bad"],
               [MCHeaders EXCEPT !.cors = FALSE]}}

MCLocation(bytes) == [size |-> bytes, known |-> TRUE, ciphered |-> FALSE, azure |-> FALSE]
MCLocationLists ==
    {<<>>, <<MCLocation(0)>>, <<MCLocation(2), MCLocation(0), MCLocation(1)>>,
     <<[MCLocation(1) EXCEPT !.ciphered = TRUE], MCLocation(1)>>,
     <<[MCLocation(2) EXCEPT !.azure = TRUE]>>,
     <<MCLocation(1), [MCLocation(1) EXCEPT !.known = FALSE, !.ciphered = TRUE]>>}

\* The request of the other tasks, which nobody handles.
IdleRequest == MCRequest("GET", <<"ep">>, << <<"_">>, <<"health">> >>, <<>>, MCHeaders)

\* Requests 1 and 2 of the wrapper may be exchanged, so one order of two kinds is enough; a
\* deletion has no destination and no encryption of its own.
MCRank(r) ==
    (CASE r.kind = "put" -> 0 [] r.kind = "copy" -> 4 [] OTHER -> 8)
    + (IF r.dest = "azure" THEN 2 ELSE 0) + (IF r.sse THEN 1 ELSE 0)
MCRequestsOrdered == MCRank(req[1]) <= MCRank(req[2]) /\ \A p \in DataRequests : MCRank(req[p]) <= 8

StInit ==
    /\ task \in {"gcp", "azure", "multipart", "wrapper", "request", "cache"}
    /\ GuInit /\ (task # "gcp" => totalBytes = Max(Totals) /\ bodyType = "stream")
    /\ ApInit /\ (task # "azure" => size = 0 /\ answer = "success")
    /\ MuInit /\ (task # "multipart" => backend = "file")
    /\ DwInit /\ (task # "wrapper" =>
                    /\ source[1].key[1] = "file" /\ source[1].cipher = NoCipher
                    /\ \A p \in DataRequests : req[p].kind = "put" /\ req[p].dest = "file" /\ ~req[p].sse)
              /\ MCRequestsOrdered
    /\ RqInit /\ (task # "request" => request = IdleRequest)
    /\ WcInit

StNext ==
    /\ UNCHANGED task
    /\ \/ task = "gcp" /\ GuNext /\ UNCHANGED <<apVars, muVars, dwVars, rqVars, wcVars>>
       \/ task = "azure" /\ ApNext /\ UNCHANGED <<guVars, muVars, dwVars, rqVars, wcVars>>
       \/ task = "multipart" /\ MuNext /\ UNCHANGED <<guVars, apVars, dwVars, rqVars, wcVars>>
       \/ task = "wrapper" /\ DwNext /\ UNCHANGED <<guVars, apVars, muVars, rqVars, wcVars>>
       \/ task = "request" /\ RqNext /\ UNCHANGED <<guVars, apVars, muVars, dwVars, wcVars>>
       \/ task = "cache" /\ WcNext /\ UNCHANGED <<guVars, apVars, muVars, dwVars, rqVars>>

StSpec == StInit /\ [][StNext]_storageVars

-----------------------------------------------------------------------------
(* The properties of the modules, for the task that runs. *)

\* What an upload to Google Cloud or a part put on Azure leaves behind is what was sent, in
\* order and once, or nothing that is called an object or a part.
UploadsAreExact == GcpUploadIsExact /\ AzurePartIsExact

\* An object completed, put or copied has exactly the data that was answered to be its own, and
\* the metric of a location is the size of what it keeps.
StoredDataIsExact == CompletionIsExact /\ AnsweredDataIsStored /\ MetricIsExact

\* A request reaches the API method of what it addresses, and gets the whole of the data or a
\* response that is visibly cut; no source of plain data outlives it.
RequestsAreServed == CallsFitTheirResource /\ BodyIsExact /\ SourcesAreReleased

\* An upload to Google Cloud, a part on Azure and a request end, each under the fairness of its
\* own module: the provider, the body and the backend go on, a client need not close.
EveryStorageTaskEnds ==
    /\ task = "gcp" /\ GuFairness => GcpUploadEnds
    /\ task = "azure" /\ ApFairness => AzurePartEnds
    /\ task = "request" /\ RqFairness => EveryRequestEnds

\* Every read and every write of the key is called back in the end, under the fairness of the
\* write cache, also when the read it waited for is overtaken by a write. The
\* updates are interchangeable, so that one of them stands for all.
FairCallsAreAnswered == task = "cache" /\ WcFairness => \A r \in {u1, g1, d1} : CallAnswered(r)
=============================================================================
