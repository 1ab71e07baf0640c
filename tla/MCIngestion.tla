---------------------------- MODULE MCIngestion -----------------------------
(* Documents of up to four calls, and chains of five and six: every shape of
   call tree, and for each call one of the cases the code tells apart; and the
   tracer's responses of up to three calls, and chains of four and five. *)
EXTENDS Converter

A == "A"
B == "B"

Change(contract) == [contract |-> contract, readable |-> TRUE]
BadWords(contract) == [contract |-> contract, readable |-> FALSE]
LogAt(index) == [index |-> index, readable |-> TRUE, dataReadable |-> TRUE, topics |-> 1,
                 transfer |-> FALSE]
TransferAt(index) == [LogAt(index) EXCEPT !.topics = 3, !.transfer = TRUE]

(* A call without its children. *)
Frame(kind, to, changes, logs) ==
    [kind |-> kind, from |-> A, to |-> to, value |-> 0, readable |-> TRUE,
     changes |-> changes, logs |-> logs]

Plain ==
    { Frame("call", B, <<Change(B)>>, <<LogAt(0), TransferAt(1)>>),
      Frame("call", A, <<Change(A), Change(A)>>, <<TransferAt(2)>>),
      Frame("delegatecall", B, <<Change(B)>>, <<>>) }

Cases ==
    Plain \union
    { Frame("delegatecall", B, <<Change(A)>>, <<>>),
      Frame("callcode", A, <<>>, <<TransferAt(3), LogAt(4)>>),
      Frame("create", NoAddress, <<Change(A)>>, <<>>),
      Frame("staticcall", B, <<>>, <<>>),
      Frame("selfdestruct", B, <<BadWords(B)>>, <<>>),
      Frame("call", B, <<Change(Unreadable)>>, <<>>),
      Frame("call", B, <<>>, <<[TransferAt(5) EXCEPT !.topics = 5]>>),
      Frame("call", B, <<>>, <<[LogAt(9) EXCEPT !.dataReadable = FALSE]>>),
      Frame("call", B, <<>>, <<LogAt(9)>>),
      Frame("call", B, <<>>, <<[TransferAt(6) EXCEPT !.topics = 4], TransferAt(7)>>),
      Frame("create2", B, <<>>, <<LogAt(Unreadable)>>),
      Frame("invalid", B, <<>>, <<>>),
      [Frame("call", B, <<>>, <<>>) EXCEPT !.readable = FALSE],
      [Frame("staticcall", B, <<>>, <<>>) EXCEPT !.value = 1] }

Chain(length) == [n \in 1 .. length |-> IF n < length THEN <<n + 1>> ELSE <<>>]

(* The shapes: the calls nested in each call, in order.  The numbers need not
   follow the order of execution. *)
Shapes ==
    { <<<<>>>>,
      <<<<2>>, <<>>>>,
      <<<<2, 3>>, <<>>, <<>>>>, <<<<2>>, <<3>>, <<>>>>,
      <<<<2, 3>>, <<4>>, <<>>, <<>>>>, <<<<3, 2>>, <<>>, <<4>>, <<>>>>,
      <<<<2, 3, 4>>, <<>>, <<>>, <<>>>>, <<<<2>>, <<4, 3>>, <<>>, <<>>>>,
      Chain(4), Chain(5) }

Document(shape, frames) ==
    [loads |-> TRUE, decodes |-> TRUE, header |-> NoFault,
     calls |-> [n \in 1 .. Len(shape) |->
        [kind |-> frames[n].kind, from |-> frames[n].from, to |-> frames[n].to,
         value |-> frames[n].value, readable |-> frames[n].readable,
         changes |-> frames[n].changes, logs |-> frames[n].logs, calls |-> shape[n]]]]

One == Document(<<<<>>>>, <<Frame("call", B, <<>>, <<>>)>>)

MCDocuments ==
    UNION {{Document(shape, frames) :
                frames \in [1 .. Len(shape) -> IF Len(shape) < 4 THEN Cases ELSE Plain]} :
           shape \in Shapes}
    \union {Document(Chain(6), [n \in 1 .. 6 |-> Frame("call", B, <<>>, <<>>)])}
    \union {[One EXCEPT !.loads = FALSE], [One EXCEPT !.decodes = FALSE],
            [One EXCEPT !.header = "UnsupportedFeature"],
            [One EXCEPT !.header = "MalformedField"]}

(* A tracer's frame without its children; NoValue is a value left out. *)
Traced(type, value) ==
    [type |-> type, from |-> A, to |-> B, value |-> value, readable |-> TRUE]

TracedCases ==
    {Traced(type, NoValue) : type \in {"CALL", "DELEGATECALL", "STATICCALL", "SELFDESTRUCT"}}
    \union {Traced("CALL", 1), Traced("STATICCALL", 1), Traced("CREATE2", 1),
            Traced("NOTAREALOPCODE", 0), [Traced("CALL", 0) EXCEPT !.readable = FALSE],
            [Traced("CREATE", 0) EXCEPT !.to = NoAddress]}

Response(shape, frames) ==
    [parses |-> TRUE, contextReadable |-> TRUE, enveloped |-> FALSE,
     frames |-> [n \in 1 .. Len(shape) |->
        [type |-> frames[n].type, from |-> frames[n].from, to |-> frames[n].to,
         value |-> frames[n].value, readable |-> frames[n].readable, calls |-> shape[n]]]]

MCResponses ==
    LET lone == Response(<<<<>>>>, <<Traced("CALLCODE", 1)>>)
    IN  UNION {{Response(shape, frames) : frames \in [1 .. Len(shape) -> TracedCases]} :
                    shape \in {s \in Shapes : Len(s) <= 3}}
        \union {[Response(Chain(k), [n \in 1 .. k |-> Traced("CALL", 0)])
                    EXCEPT !.enveloped = enveloped] : k \in 3 .. 5, enveloped \in BOOLEAN}
        \union {lone, [lone EXCEPT !.parses = FALSE],
                [Response(<<<<>>>>, <<Traced("CALL", 1)>>) EXCEPT !.contextReadable = FALSE]}
=============================================================================
