----------------------------- MODULE Converter ------------------------------
(***************************************************************************)
(* geth-convert (crates/converters): a callTracer response becomes a raw   *)
(* trace document, written to a file which ingest() then reads.            *)
(*                                                                         *)
(* A response's frames are numbered as a document's calls are.  JSON that  *)
(* is not of the tracer's shape does not parse; what comes on the command  *)
(* line (hash, nonce, block, chain) is readable or not.                    *)
(***************************************************************************)
EXTENDS Ingestion

CONSTANTS
    Responses,  \* what the tracer may have answered
    NoResponse, \* the document comes from elsewhere
    NoValue,    \* a frame without a value, as a delegate call's
    NestingLimit \* how deep serde_json reads objects and arrays in each other: 127

ASSUME NestingAssumption == NestingLimit \in Nat

(* The frames are a tree, as a document's calls are, and their types are spelt as
   the tracers do, in capitals: none is the lowercase name of a kind. *)
ASSUME ResponsesAssumption ==
    \A r \in Responses :
        /\ DOMAIN r.frames = 1 .. Len(r.frames) /\ IsTree(r.frames)
        /\ \A n \in 1 .. Len(r.frames) :
                /\ r.frames[n].type \notin CallKinds
                /\ r.frames[n].from \notin {NoAddress, Unreadable}
                /\ r.frames[n].to # Unreadable

VARIABLE response

converterVars == <<vars, response>>

GethFrame(n) == response.frames[n]

(* The tracer's spellings, lowercased. *)
ToLowercase ==
    [CALL |-> "call", STATICCALL |-> "staticcall", DELEGATECALL |-> "delegatecall",
     CALLCODE |-> "callcode", CREATE |-> "create", CREATE2 |-> "create2",
     SELFDESTRUCT |-> "selfdestruct"]
KindOf(frame) ==
    IF frame.type \in DOMAIN ToLowercase THEN ToLowercase[frame.type] ELSE frame.type

(* Mutant of ConvertibleKinds: one that ingestion has and the tracer's list
   lacks. *)
ConvertibleKindsBefore ==
    {"call", "staticcall", "delegatecall", "callcode", "create", "create2"}

(* convert_frame's own list of what ingestion accepts. *)
ConvertibleKinds ==
    {"call", "staticcall", "delegatecall", "callcode", "create", "create2", "selfdestruct"}

ValueOf(frame) == IF frame.value = NoValue THEN 0 ELSE frame.value

(* convert_frame: storage changes and logs are not in a response. *)
ConvertedFrame(frame) ==
    [kind |-> KindOf(frame), from |-> frame.from, to |-> frame.to, value |-> ValueOf(frame),
     readable |-> frame.readable, changes |-> <<>>, logs |-> <<>>, calls |-> frame.calls]

FrameDepth ==
    LET depth[n \in DOMAIN response.frames] ==
            IF n = 1 THEN 0
            ELSE 1 + depth[CHOOSE p \in DOMAIN response.frames :
                                n \in ToSet(GethFrame(p).calls)]
    IN  depth

(* A frame is an object in the array of its parent's calls, and the outermost one
   is the whole response or the `result` of its envelope.  In the file written it
   is below the document's `root`, and every frame has its arrays, empty or not. *)
TooDeepToRead ==
    LET around == IF response.enveloped THEN 1 ELSE 0
    IN  \E n \in DOMAIN response.frames : 2 * FrameDepth[n] + 1 + around > NestingLimit
TooDeepToReread == \E n \in DOMAIN response.frames : 2 * FrameDepth[n] + 3 > NestingLimit

(* The header is the root frame's fields and the command line's; a status is
   always one that ingestion knows. *)
ConvertedResponse ==
    [loads |-> TRUE, decodes |-> ~TooDeepToReread,
     header |-> IF response.contextReadable /\ GethFrame(1).readable THEN NoFault
                ELSE "MalformedField",
     calls |-> [n \in DOMAIN response.frames |-> ConvertedFrame(GethFrame(n))]]

NoDocument == [loads |-> FALSE, decodes |-> FALSE, header |-> NoFault, calls |-> <<>>]

ConverterInit ==
    \/ Init /\ response = NoResponse
    \/ Unread /\ response \in Responses /\ document = NoDocument /\ stage = "convert"

ConversionFault ==
    FirstFault(<<Check(~response.parses \/ TooDeepToRead, "InvalidJson"),
                 Check(\E n \in DOMAIN response.frames :
                            KindOf(GethFrame(n)) \notin ConvertibleKinds, "UnknownCallKind")>>)

(* read, convert, write; a write that fails may leave half a file. *)
Convert ==
    /\ stage = "convert"
    /\ \/ ConversionFault # NoFault /\ Fail(ConversionFault) /\ UNCHANGED document
       \/ /\ ConversionFault = NoFault
          /\ \/ stage' = "load" /\ document' = ConvertedResponse /\ UNCHANGED failure
             \/ /\ Fail("NotWritten")
                /\ document' \in {NoDocument, [NoDocument EXCEPT !.loads = TRUE]}
    /\ UNCHANGED <<walkVars, nth, callIds, logIds, arenaVars, response>>

ConverterNext == Convert \/ (Next /\ UNCHANGED response)

(* geth-convert and ingest() run one after the other, each to its end. *)
ConverterSpec == ConverterInit /\ [][ConverterNext]_converterVars /\ WF_converterVars(ConverterNext)

----------------------------------------------------------------------------

(* What the tracer calls its seven kinds of frame (geth.rs). *)
TracerTypes == {"CALL", "STATICCALL", "DELEGATECALL", "CALLCODE", "CREATE", "CREATE2",
                "SELFDESTRUCT"}

(* What is wrong with the response itself, whoever notices. *)
FaultyResponse ==
    \/ ~response.parses \/ ~response.contextReadable
    \/ GethFrame(1).type \in {"DELEGATECALL", "CALLCODE"}
    \/ \E n \in DOMAIN response.frames :
        \/ GethFrame(n).type \notin TracerTypes \/ ~GethFrame(n).readable
        \/ GethFrame(n).type = "STATICCALL" /\ GethFrame(n).value \notin {0, NoValue}
        \/ FrameDepth[n] > MaxCallDepth

(* A trace that converts is one that ingests: unless its file could not be
   written, a response is refused, by the converter or by any stage of
   ingestion, only for a fault of its own or where it is nested too deep for the
   reader, the file two levels deeper than a bare response; and the arena has a
   call for each frame and no fact the tracer did not report (geth.rs,
   "faithfully converted"). *)
ConvertedTracesIngest ==
    response # NoResponse =>
        /\ stage = "failed" =>
            \/ failure = "NotWritten" \/ FaultyResponse
            \/ TooDeepToRead /\ failure = "InvalidJson"
            \/ TooDeepToReread /\ failure = "MalformedInput"
        /\ stage = "ingested" =>
            /\ ~FaultyResponse /\ ~TooDeepToReread
            /\ Len(arenaCalls) = Len(response.frames)
            /\ arenaChanges = <<>> /\ arenaLogs = <<>> /\ arenaTransfers = <<>>
=============================================================================
