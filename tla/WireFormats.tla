----------------------------- MODULE WireFormats ----------------------------
(***************************************************************************)
(* What servers write to one another and read again: the names of blobs    *)
(* and the states of operations.                                           *)
(***************************************************************************)
EXTENDS Naturals, Sequences, SequencesExt

(***************************************************************************)
(* The resource names of the ByteStream service: how ResourceInfo parses   *)
(* and prints them (nativelink-util/src/resource_info.rs), and how a       *)
(* GrpcStore that forwards a request renames it for its own instance       *)
(* (nativelink-store/src/grpc_store.rs).                                   *)
(*                                                                         *)
(* A name is the sequence of its '/'-separated parts; an instance name is  *)
(* such a sequence too, empty for the empty name.  A behaviour follows one *)
(* name: a client writes it, a server parses it, a store renames it, the   *)
(* server upstream parses what it was sent.                                *)
(***************************************************************************)

CONSTANTS
    InstanceNames,      \* instance names of clients and of the store
    Compressors,        \* COMPRESSORS
    DigestFunctions,    \* DIGEST_FUNCTIONS
    Metadata            \* optional metadata a client adds

VARIABLES
    step,               \* how far the name has come
    upload,             \* is_upload
    meant,              \* what the client means, a ResourceInfo
    instance,           \* the instance name of the GrpcStore
    resource,           \* the name as it is on the wire
    parsed              \* what the last server to parse it understood

nameVars == <<step, upload, meant, instance, resource, parsed>>

-----------------------------------------------------------------------------
\* ResourceInfo.  An optional field is {} or {value}.

Given(option) == IF option = {} THEN <<>> ELSE <<CHOOSE v \in option : TRUE>>

\* to_string: the fields that are present, in order.
PrintName(info, up) ==
    info.instance \o (IF up THEN <<"uploads">> ELSE <<>>) \o Given(info.uuid)
        \o (IF info.compressor = {} THEN <<"blobs">> ELSE <<"compressed-blobs">>)
        \o Given(info.compressor) \o Given(info.function)
        \o <<info.hash, info.size>> \o Given(info.metadata)

NoInfo == [instance |-> <<>>, uuid |-> {}, compressor |-> {}, function |-> {},
           hash |-> "", size |-> "", metadata |-> {}]

\* Mutant: the name is split into five parts at most.
LimitShort == 5

\* rsplitn(7, '/'): the parts from the right, the seventh one all that is left.
Limit == 7

RParts(name) ==
    [i \in 1 .. (IF Len(name) < Limit THEN Len(name) ELSE Limit) |->
        IF i < Limit THEN <<name[Len(name) - i + 1]>>
        ELSE SubSeq(name, 1, Len(name) - Limit + 1)]

\* One part on the way back from the marker, in the state its left neighbour
\* left (the loop of recursive_parse).
StartsPath(part) == part \in {<<"blobs">>, <<"compressed-blobs">>}
IsSize(part) == part = "5"
IsFunction(part) == part \in DigestFunctions

TakePart(acc, part) ==
    CASE acc.state = "Compressor" ->
           [acc EXCEPT !.ok = @ /\ part \in Compressors, !.info.compressor = {part},
                       !.state = "DigestFunction"]
      [] acc.state = "DigestFunction" /\ IsFunction(part) ->
           [acc EXCEPT !.info.function = {part}, !.state = "Hash"]
      [] acc.state = "Hash" \/ (acc.state = "DigestFunction" /\ ~IsFunction(part)) ->
           [acc EXCEPT !.info.hash = part, !.state = "Size"]
      [] acc.state = "Size" ->
           [acc EXCEPT !.ok = @ /\ IsSize(part), !.info.size = part, !.state = "OptionalMetadata"]
      [] acc.state = "OptionalMetadata" ->
           [acc EXCEPT !.info.metadata = {part}]

\* recursive_parse: to the left until the marker, then back to the right.
MarkerAt(parts) == SelectInSeq(parts, StartsPath)

RecursiveParse(parts) ==
    LET at == MarkerAt(parts)
        start == [info |-> NoInfo, ok |-> TRUE,
                  state |-> IF parts[at] = <<"blobs">> THEN "DigestFunction" ELSE "Compressor"]
        behind == [i \in 1 .. at - 1 |-> parts[at - i][1]]
    IN  FoldLeft(TakePart, start, behind)

\* A sequence of parts as one string: the empty string has one, empty, part.
JoinedName(parts) == IF parts = <<"">> THEN <<>> ELSE parts

\* ResourceInfo::new, {} for an error.
New(name, up) ==
    LET parts == RParts(name)
        at == MarkerAt(parts)
        acc == RecursiveParse(parts)
        beginning == SubSeq(name, 1, Len(name) - at)
    IN  IF at = 0 \/ ~acc.ok \/ acc.state # "OptionalMetadata" THEN {}
        ELSE IF ~up THEN {[acc.info EXCEPT !.instance = JoinedName(beginning)]}
        ELSE IF Len(beginning) < 2 \/ beginning[Len(beginning) - 1] # "uploads" THEN {}
        ELSE {[acc.info EXCEPT !.uuid = {Last(beginning)},
                               !.instance = JoinedName(SubSeq(beginning, 1, Len(beginning) - 2))]}

-----------------------------------------------------------------------------
\* The way of a name.

\* What clients ask for: every combination of the optional parts.
Infos(up) ==
    [instance : InstanceNames, uuid : IF up THEN {{"uuid"}} ELSE {{}},
     compressor : {{}} \cup {{c} : c \in Compressors},
     function : {{}} \cup {{f} : f \in DigestFunctions},
     hash : {"hash"}, size : {"5"}, metadata : {{}} \cup {{m} : m \in Metadata}]

NamesInit ==
    /\ step = "sent"
    /\ upload \in BOOLEAN
    /\ meant \in Infos(upload)
    /\ instance \in InstanceNames
    /\ resource = PrintName(meant, upload)
    /\ parsed = {}

\* ByteStream read, write or query_write_status: ResourceInfo::new.
ServerParses ==
    /\ step = "sent"
    /\ step' = "served"
    /\ parsed' = New(resource, upload)
    /\ UNCHANGED <<upload, meant, instance, resource>>

\* Mutant: the name is forwarded as it came.
RenamedNever(info) == resource

\* get_read_request, query_write_status and the write stream of a GrpcStore:
\* the name is written anew when it is of another instance.
Renamed(info) == IF info.instance = instance THEN resource
                 ELSE PrintName([info EXCEPT !.instance = instance], upload)

StoreRenames ==
    /\ step = "served" /\ parsed # {}
    /\ step' = "forwarded"
    /\ resource' = Renamed(CHOOSE info \in parsed : TRUE)
    /\ parsed' = {}
    /\ UNCHANGED <<upload, meant, instance>>

\* GrpcStore::update and get_part: a name of the store's own, with a leading
\* '/' when its instance name is empty.
OwnName(info) ==
    (IF instance = <<>> THEN <<"">> ELSE instance)
        \o (IF upload THEN <<"uploads", "uuid">> ELSE <<>>) \o <<"blobs", info.hash, info.size>>

StoreNames ==
    /\ step = "served" /\ parsed # {}
    /\ step' = "forwarded"
    /\ meant' = [meant EXCEPT !.compressor = {}, !.function = {}, !.metadata = {}]
    /\ resource' = OwnName(CHOOSE info \in parsed : TRUE)
    /\ parsed' = {}
    /\ UNCHANGED <<upload, instance>>

UpstreamParses ==
    /\ step = "forwarded"
    /\ step' = "upstream"
    /\ parsed' = New(resource, upload)
    /\ UNCHANGED <<upload, meant, instance, resource>>

NamesNext == ServerParses \/ StoreRenames \/ StoreNames \/ UpstreamParses

NamesSpec == NamesInit /\ [][NamesNext]_nameVars

-----------------------------------------------------------------------------
\* Properties

\* A server understands a name as the client meant it, also when the instance
\* name contains slashes and the words "uploads" and "blobs"
\* (the rules of resource_info.rs:43 allow both).
UnderstoodAsMeant == step = "served" => parsed = {meant}

\* A name a GrpcStore has forwarded means upstream the same blob and the same
\* upload, at the store's own instance (get_read_request, query_write_status,
\* update and get_part).
ForwardedMeansSame ==
    step = "upstream" => parsed = {[meant EXCEPT !.instance = instance]}

-----------------------------------------------------------------------------
(***************************************************************************)
(* The state of an action on its way from where its result is known to the *)
(* client: the conversions between ActionStage, ActionResult and the       *)
(* protocol's messages (nativelink-util/src/action_messages.rs), applied   *)
(* by every server the state passes.                                       *)
(*                                                                         *)
(* A worker's result arrives as an ExecuteResponse (WorkerApiServer), a    *)
(* cached one as a ProtoActionResult (CacheLookupScheduler).  Each server  *)
(* sends its state as an Operation (as_operation); a GrpcScheduler in      *)
(* front of it makes a state of that again (try_from_operation).  Digests, *)
(* paths and times are model values; a field that a message may leave out  *)
(* is {} or {value}.                                                       *)
(***************************************************************************)

CONSTANTS
    Outputs,        \* sequences of output files, or of symlinks
    ErrorCodes,     \* the codes of errors, never 0
    MaxHops         \* schedulers between the first server and the client

VARIABLES
    origin,         \* the stage the first server holds
    stage,          \* the stage the server reached so far holds, {} for none
    operation,      \* the Operation it sent, {} for none
    hops

messageVars == <<origin, stage, operation, hops>>

-----------------------------------------------------------------------------
\* ActionResult and ProtoActionResult.

WorkerResults ==
    [files : Outputs, fileLinks : Outputs, dirLinks : Outputs,
     stdout : {"digest"}, metadata : {"times"},
     logs : {{}, {"log"}}, error : {{}} \cup {{c} : c \in ErrorCodes},
     message : {"", "text"}]

ProtoResults ==
    [files : Outputs, fileLinks : Outputs, dirLinks : Outputs, links : {<<>>},
     stdout : {{}, {"digest"}}, metadata : {{}, {"times"}}]

\* From<ActionResult> for ProtoActionResult: the logs, the error and the message
\* are not part of it; the symlinks appear twice.
ToProto(r) ==
    [files |-> r.files, fileLinks |-> r.fileLinks, dirLinks |-> r.dirLinks,
     links |-> r.fileLinks \o r.dirLinks,
     stdout |-> {r.stdout}, metadata |-> {r.metadata}]

\* to_execute_response, and From<ActionStage> for ExecuteResponse.
ToExecuteResponse(r) ==
    [result |-> {ToProto(r)}, cached |-> FALSE, status |-> r.error,
     logs |-> r.logs, message |-> r.message]

CompletedStage(r) == [kind |-> "Completed", result |-> r]
CompletedFromCache(p) == [kind |-> "CompletedFromCache", result |-> p]
Early(kind) == [kind |-> kind, result |-> {}]

HasActionResult(s) == s.kind \in {"Completed", "CompletedFromCache"}

IntoExecuteResponse(s) ==
    IF s.kind = "Completed" THEN ToExecuteResponse(s.result)
    ELSE [result |-> {s.result}, cached |-> TRUE, status |-> {}, logs |-> {}, message |-> ""]

\* TryFrom<ExecuteResponse> for ActionStage, {} for an error: a result without
\* its digests or its metadata is refused, the symlinks are the two separate
\* lists, and a cached result keeps neither the logs nor the error.
TheOnly(option) == CHOOSE v \in option : TRUE

ErrorOf(response) == response.status

\* Mutant: the cached flag is dropped.
MessageStageNeverCached(response, r) == CompletedStage(r)

MessageStage(response, r) ==
    IF response.cached THEN CompletedFromCache(ToProto(r)) ELSE CompletedStage(r)

FromExecuteResponse(response) ==
    LET proto == TheOnly(response.result)
        r == [files |-> proto.files, fileLinks |-> proto.fileLinks,
              dirLinks |-> proto.dirLinks, stdout |-> TheOnly(proto.stdout),
              metadata |-> TheOnly(proto.metadata), logs |-> response.logs,
              error |-> ErrorOf(response), message |-> response.message]
    IN  IF response.result = {} \/ proto.stdout = {} \/ proto.metadata = {} THEN {}
        ELSE {MessageStage(response, r)}

-----------------------------------------------------------------------------
\* ActionState.

\* From<&ActionStage> for execution_stage::Value.
StageValue(s) == IF HasActionResult(s) THEN "Completed" ELSE s.kind

\* as_operation.
AsOperation(s) ==
    [stage |-> StageValue(s), done |-> HasActionResult(s),
     result |-> IF HasActionResult(s) THEN {IntoExecuteResponse(s)} ELSE {}]

\* try_from_operation: an operation that is completed needs a result.
TryFromOperation(o) ==
    IF o.stage # "Completed" THEN {Early(o.stage)}
    ELSE IF o.result = {} THEN {}
    ELSE FromExecuteResponse(TheOnly(o.result))

EarlyStages == {"Unknown", "CacheCheck", "Queued", "Executing"}

MessagesInit ==
    /\ \/ \E k \in EarlyStages : origin = Early(k)
       \/ \E r \in WorkerResults : origin = CompletedStage(r)
       \/ \E p \in ProtoResults :
            origin = CompletedFromCache([p EXCEPT !.links = p.fileLinks \o p.dirLinks])
    \* execution_response of the WorkerApiServer: the result comes as a message.
    /\ stage = IF origin.kind = "Completed"
               THEN FromExecuteResponse(ToExecuteResponse(origin.result)) ELSE {origin}
    /\ operation = {}
    /\ hops = 0

\* The server answers with its state.
Announce ==
    /\ stage # {} /\ operation = {}
    /\ operation' = {AsOperation(TheOnly(stage))}
    /\ UNCHANGED <<origin, stage, hops>>

\* A GrpcScheduler in front of it takes the state over.
Relay ==
    /\ operation # {} /\ hops < MaxHops
    /\ hops' = hops + 1
    /\ stage' = TryFromOperation(TheOnly(operation))
    /\ operation' = {}
    /\ UNCHANGED origin

MessagesNext == Announce \/ Relay

MessagesSpec == MessagesInit /\ [][MessagesNext]_messageVars

-----------------------------------------------------------------------------
\* Properties

\* The stage a server holds is the one the first server held, through any number
\* of schedulers: no output, symlink, exit status, error, log or message is lost
\* or doubled (the conversions to and from the protocol's messages). The one
\* exception is a cached result without its stdout digest or its metadata: the first
\* server answers with it, and the next scheduler refuses it.
StageSurvives ==
    \/ stage = {origin}
    \/ /\ stage = {} /\ hops > 0
       /\ origin.kind = "CompletedFromCache"
       /\ origin.result.stdout = {} \/ origin.result.metadata = {}
=============================================================================
