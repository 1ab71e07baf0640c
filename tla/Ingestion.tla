----------------------------- MODULE Ingestion ------------------------------
(***************************************************************************)
(* ingestion::ingest (crates/ingestion/src/pipeline.rs, normalize.rs,      *)
(* build.rs): a raw trace document becomes a FactArena.                    *)
(*                                                                         *)
(* normalize() walks the raw call tree with an explicit stack and gathers  *)
(* calls, storage changes, logs and token transfers by position; build()   *)
(* then hands them, list by list, to a FactArenaBuilder (module FactArena) *)
(* and lets it validate them.  An action is one iteration of one loop.     *)
(*                                                                         *)
(* A document's calls are numbered, its root is 1, and a call names the    *)
(* calls nested in it.  Hex fields are either readable or not.             *)
(***************************************************************************)
EXTENDS Integers, Sequences, SequencesExt

CONSTANTS
    Documents,      \* the raw trace documents a source may hold
    NoAddress,      \* Option::None as an address
    Unreadable,     \* a hex field that does not parse
    MaxCallDepth,   \* MAX_CALL_DEPTH: 1024
    MaxLogIndex,    \* u32::MAX
    NoCall, DepthModulus, OverflowChecks \* as in FactArena

ASSUME DepthFits == MaxCallDepth \in Nat /\ DepthModulus \in Nat
                        /\ MaxCallDepth + 1 < DepthModulus
ASSUME OverflowAssumption == OverflowChecks \in BOOLEAN
ASSUME NoCallIsNoPosition == NoCall \notin Nat

(* A tree of calls: each but the root is nested once, in a call numbered before
   it. *)
IsTree(calls) ==
    /\ Len(calls) \in Nat \ {0}
    /\ \A n \in 1 .. Len(calls) : calls[n].calls \in Seq(n + 1 .. Len(calls))
    /\ \A n, m \in 1 .. Len(calls) :
            \A i \in 1 .. Len(calls[n].calls), j \in 1 .. Len(calls[m].calls) :
                calls[n].calls[i] = calls[m].calls[j] => n = m /\ i = j
    /\ \A n \in 2 .. Len(calls) : \E m \in 1 .. n - 1 :
            \E i \in 1 .. Len(calls[m].calls) : calls[m].calls[i] = n

(* A call with its storage changes and logs.  A change's contract or a log's index
   that does not parse is Unreadable; where any field of the call's own does not, the
   call is not readable.  Only `to` may be left out. *)
HasFacts(raw) ==
    /\ raw.from \notin {NoAddress, Unreadable} /\ raw.to # Unreadable
    /\ Len(raw.changes) \in Nat
    /\ raw.changes = [i \in 1 .. Len(raw.changes) |-> raw.changes[i]]
    /\ Len(raw.logs) \in Nat /\ raw.logs = [i \in 1 .. Len(raw.logs) |-> raw.logs[i]]
    /\ \A i \in 1 .. Len(raw.logs) :
            raw.logs[i].topics \in Nat /\ raw.logs[i].index \in Nat \union {Unreadable}

(* What decode() makes of a source. *)
ASSUME DocumentAssumption ==
    /\ NoAddress # Unreadable /\ Unreadable \notin Nat /\ MaxLogIndex \in Nat
    /\ \A d \in Documents : d.loads /\ d.decodes =>
            IsTree(d.calls) /\ \A n \in 1 .. Len(d.calls) : HasFacts(d.calls[n])

VARIABLES
    document,   \* the raw trace document
    stage,      \* where ingest() is
    stack,      \* walk_tree's pending calls
    item,       \* the pending call under way
    nth,        \* the item of the loop under way
    acc,        \* normalize's Accumulator
    callIds,    \* build's call_ids
    logIds,     \* build's log_ids
    failure,    \* the IngestionError returned
    arenaCalls, arenaChanges, arenaLogs, arenaTransfers, \* the builder's lists
    arenaPhase, arenaCursor, arenaError                  \* and its build()

walkVars == <<stack, item, acc>>
arenaVars == <<arenaCalls, arenaChanges, arenaLogs, arenaTransfers,
               arenaPhase, arenaCursor, arenaError>>
vars == <<document, stage, walkVars, nth, callIds, logIds, failure, arenaVars>>

Arena == INSTANCE FactArena WITH
    calls <- arenaCalls, storageChanges <- arenaChanges, logs <- arenaLogs,
    transfers <- arenaTransfers, phase <- arenaPhase, cursor <- arenaCursor,
    error <- arenaError,
    StrayIds <- {}, OpenSizes <- Nat, OpenCalls <- Nat

CallKinds == {"call", "staticcall", "delegatecall", "callcode", "create", "create2",
              "selfdestruct"}
InCallerContext(kind) == kind \in {"delegatecall", "callcode"}
CanCarryValue(kind) == kind # "staticcall"

Raw(n) == document.calls[n]

Check(fails, fault) == [fails |-> fails, fault |-> fault]
NoFault == "none"

(* A chain of early returns: the fault of the first check that fails. *)
FirstFault(checks) ==
    LET failing == {i \in DOMAIN checks : checks[i].fails}
    IN  IF failing = {} THEN NoFault ELSE checks[Min(failing)].fault

Pending(n, parent, depth, context) ==
    [node |-> n, parent |-> parent, depth |-> depth, context |-> context]

Root == Pending(1, NoCall, 0, NoAddress)

(* Nothing read and nothing gathered yet. *)
Unread ==
    /\ stack = <<>> /\ item = Root /\ nth = 1
    /\ acc = [calls |-> <<>>, changes |-> <<>>, logs |-> <<>>, transfers |-> <<>>,
              seen |-> {}]
    /\ callIds = <<>> /\ logIds = <<>>
    /\ failure = NoFault
    /\ Arena!Init

Init == Unread /\ document \in Documents /\ stage = "load"

Fail(fault) == stage' = "failed" /\ failure' = fault

----------------------------------------------------------------------------
(* Source, decoder and the header of the document.                         *)

SourceCheck == Check(~document.loads, "SourceUnavailable")
DecodeCheck == Check(~document.decodes, "MalformedInput")
HeaderCheck == Check(document.header # NoFault, document.header)

(* load, decode and normalize's transaction and block fields; then the walk
   starts at the root. *)
Load ==
    /\ stage = "load"
    /\ LET fault == FirstFault(<<SourceCheck, DecodeCheck, HeaderCheck>>)
       IN  \/ fault # NoFault /\ Fail(fault) /\ UNCHANGED stack
           \/ fault = NoFault /\ stage' = "walk" /\ stack' = <<Root>> /\ UNCHANGED failure
    /\ UNCHANGED <<document, item, nth, acc, callIds, logIds, arenaVars>>

----------------------------------------------------------------------------
(* normalize::walk_tree.                                                   *)

(* Mutant of ContextOf: borrowed code is taken to work on its own storage. *)
ContextOfTarget(it) ==
    IF Raw(it.node).to = NoAddress THEN Raw(it.node).from ELSE Raw(it.node).to

(* The storage context of a call: its own account, or, if it borrows code, the
   context of the call it is nested in. *)
ContextOf(it) ==
    LET raw == Raw(it.node)
    IN  IF InCallerContext(raw.kind) THEN it.context
        ELSE IF raw.to = NoAddress THEN raw.from ELSE raw.to

VisitFault(it) ==
    LET raw == Raw(it.node)
    IN  FirstFault(<<Check(it.depth > MaxCallDepth, "UnsupportedFeature"),
                     Check(raw.kind \notin CallKinds, "UnsupportedFeature"),
                     Check(~raw.readable, "MalformedField"),
                     Check(InCallerContext(raw.kind) /\ it.context = NoAddress,
                           "UnsupportedFeature")>>)

(* Mutant of VisitCall: a faulty call is passed over, but left on the stack. *)
VisitCallOver ==
    /\ stage = "walk"
    /\ stack # <<>>
    /\ item' = Last(stack)
    /\ LET it == Last(stack)
       IN  \/ VisitFault(it) # NoFault /\ UNCHANGED <<stack, acc, stage>>
           \/ /\ VisitFault(it) = NoFault
              /\ stack' = Front(stack)
              /\ acc' = [acc EXCEPT !.calls = Append(@,
                            [node |-> it.node, parent |-> it.parent, depth |-> it.depth])]
              /\ stage' = "changes"
    /\ nth' = 1
    /\ UNCHANGED <<document, callIds, logIds, failure, arenaVars>>

(* One pending call is popped and becomes a normalized call. *)
VisitCall ==
    /\ stage = "walk"
    /\ stack # <<>>
    /\ item' = Last(stack)
    /\ stack' = Front(stack)
    /\ LET it == Last(stack)
       IN  \/ VisitFault(it) # NoFault /\ Fail(VisitFault(it)) /\ UNCHANGED acc
           \/ /\ VisitFault(it) = NoFault
              /\ acc' = [acc EXCEPT !.calls = Append(@,
                            [node |-> it.node, parent |-> it.parent, depth |-> it.depth])]
              /\ stage' = "changes"
              /\ UNCHANGED failure
    /\ nth' = 1
    /\ UNCHANGED <<document, callIds, logIds, arenaVars>>

ThisIndex == Len(acc.calls) - 1

ChangeFault(change) ==
    FirstFault(<<Check(change.contract = Unreadable, "MalformedField"),
                 Check(change.contract # ContextOf(item), "InvalidStorageOwnership"),
                 Check(~change.readable, "MalformedField")>>)

(* process_storage_changes, one change. *)
NormalizeChange ==
    /\ stage = "changes"
    /\ nth <= Len(Raw(item.node).changes)
    /\ LET change == Raw(item.node).changes[nth]
       IN  \/ ChangeFault(change) # NoFault /\ Fail(ChangeFault(change)) /\ UNCHANGED acc
           \/ /\ ChangeFault(change) = NoFault
              /\ acc' = [acc EXCEPT !.changes = Append(@,
                            [call |-> ThisIndex, contract |-> change.contract])]
              /\ UNCHANGED <<stage, failure>>
    /\ nth' = nth + 1
    /\ UNCHANGED <<document, stack, item, callIds, logIds, arenaVars>>

ChangesDone ==
    /\ stage = "changes"
    /\ nth > Len(Raw(item.node).changes)
    /\ stage' = "logs"
    /\ nth' = 1
    /\ UNCHANGED <<document, walkVars, callIds, logIds, failure, arenaVars>>

LogFault(log) ==
    FirstFault(<<Check(log.index = Unreadable, "MalformedField"),
                 Check(log.index \in acc.seen, "DuplicateLogIndex"),
                 Check(~log.readable, "MalformedField"),
                 Check(log.topics > 4, "UnsupportedFeature"),
                 Check(~log.dataReadable, "MalformedField"),
                 Check(log.index \in Nat /\ log.index > MaxLogIndex, "UnsupportedFeature")>>)

(* Mutant of TransferPosition: the log's position among its call's own logs. *)
TransferPositionInCall == nth - 1

(* log_index_in_vec: where the log the transfer is decoded from will stand. *)
TransferPosition == Len(acc.logs)

(* try_decode_token_transfer: three topics, the first the Transfer signature,
   two of them addresses, and an amount that fits; anything else is a log and
   no error. *)
DecodesTransfer(log) == log.topics = 3 /\ log.transfer

(* process_logs, one log, and the transfer it decodes to, if it does. *)
NormalizeLog ==
    /\ stage = "logs"
    /\ nth <= Len(Raw(item.node).logs)
    /\ LET log == Raw(item.node).logs[nth]
       IN  \/ LogFault(log) # NoFault /\ Fail(LogFault(log)) /\ UNCHANGED acc
           \/ /\ LogFault(log) = NoFault
              /\ acc' = [acc EXCEPT
                    !.logs = Append(@, ThisIndex),
                    !.transfers = IF DecodesTransfer(log) THEN Append(@, TransferPosition) ELSE @,
                    !.seen = @ \union {log.index}]
              /\ UNCHANGED <<stage, failure>>
    /\ nth' = nth + 1
    /\ UNCHANGED <<document, stack, item, callIds, logIds, arenaVars>>

(* Mutant of PushChildren: the children are pushed first to last. *)
PushChildrenForward ==
    /\ stage = "logs"
    /\ nth > Len(Raw(item.node).logs)
    /\ LET Child(n) == Pending(n, ThisIndex, item.depth + 1, ContextOf(item))
           children == Raw(item.node).calls
       IN  stack' = stack \o [i \in 1 .. Len(children) |-> Child(children[i])]
    /\ stage' = "walk"
    /\ nth' = 1
    /\ UNCHANGED <<document, item, acc, callIds, logIds, failure, arenaVars>>

(* The children go onto the stack last to first, so that the first one is
   popped next. *)
PushChildren ==
    /\ stage = "logs"
    /\ nth > Len(Raw(item.node).logs)
    /\ LET Child(n) == Pending(n, ThisIndex, item.depth + 1, ContextOf(item))
       IN  stack' = stack \o Reverse([i \in 1 .. Len(Raw(item.node).calls) |->
                                        Child(Raw(item.node).calls[i])])
    /\ stage' = "walk"
    /\ nth' = 1
    /\ UNCHANGED <<document, item, acc, callIds, logIds, failure, arenaVars>>

WalkDone ==
    /\ stage = "walk"
    /\ stack = <<>>
    /\ stage' = "add_calls"
    /\ nth' = 1
    /\ UNCHANGED <<document, walkVars, callIds, logIds, failure, arenaVars>>

----------------------------------------------------------------------------
(* build::build.  LogEvent::new and Trace::new cannot fail here: a log with *)
(* more than four topics is refused above, and the metadata are copied from *)
(* the transaction and the block.                                           *)

(* Mutant of AddCall: calls are numbered from 1. *)
AddCallFromOne ==
    /\ stage = "add_calls"
    /\ nth <= Len(acc.calls)
    /\ CanCarryValue(Raw(acc.calls[nth].node).kind)
    /\ arenaCalls' = Append(arenaCalls,
            [id |-> nth, depth |-> acc.calls[nth].depth,
             parent |-> IF acc.calls[nth].parent = NoCall THEN NoCall
                        ELSE callIds[acc.calls[nth].parent + 1]])
    /\ callIds' = Append(callIds, nth)
    /\ nth' = nth + 1
    /\ UNCHANGED <<document, stage, failure, walkVars, logIds, arenaChanges, arenaLogs,
                   arenaTransfers, arenaPhase, arenaCursor, arenaError>>

(* next_call_id, Call::new, add_call. *)
AddCall ==
    /\ stage = "add_calls"
    /\ nth <= Len(acc.calls)
    /\ LET nc == acc.calls[nth]
           raw == Raw(nc.node)
           id == Len(arenaCalls)
       IN  \/ /\ ~CanCarryValue(raw.kind) /\ raw.value # 0
              /\ Fail("TraceConstruction")
              /\ UNCHANGED <<arenaCalls, callIds>>
           \/ /\ CanCarryValue(raw.kind) \/ raw.value = 0
              /\ arenaCalls' = Append(arenaCalls,
                    [id |-> id, depth |-> nc.depth,
                     parent |-> IF nc.parent = NoCall THEN NoCall
                                ELSE callIds[nc.parent + 1]])
              /\ callIds' = Append(callIds, id)
              /\ UNCHANGED <<stage, failure>>
    /\ nth' = nth + 1
    /\ UNCHANGED <<document, walkVars, logIds, arenaChanges, arenaLogs, arenaTransfers,
                   arenaPhase, arenaCursor, arenaError>>

AddStorageChange ==
    /\ stage = "add_changes"
    /\ nth <= Len(acc.changes)
    /\ arenaChanges' = Append(arenaChanges, callIds[acc.changes[nth].call + 1])
    /\ nth' = nth + 1
    /\ UNCHANGED <<document, stage, walkVars, callIds, logIds, failure, arenaCalls,
                   arenaLogs, arenaTransfers, arenaPhase, arenaCursor, arenaError>>

AddLog ==
    /\ stage = "add_logs"
    /\ nth <= Len(acc.logs)
    /\ arenaLogs' = Append(arenaLogs,
                        [id |-> Len(arenaLogs), call |-> callIds[acc.logs[nth] + 1]])
    /\ logIds' = Append(logIds, Len(arenaLogs))
    /\ nth' = nth + 1
    /\ UNCHANGED <<document, stage, walkVars, callIds, failure, arenaCalls,
                   arenaChanges, arenaTransfers, arenaPhase, arenaCursor, arenaError>>

AddTokenTransfer ==
    /\ stage = "add_transfers"
    /\ nth <= Len(acc.transfers)
    /\ arenaTransfers' = Append(arenaTransfers, logIds[acc.transfers[nth] + 1])
    /\ nth' = nth + 1
    /\ UNCHANGED <<document, stage, walkVars, callIds, logIds, failure, arenaCalls,
                   arenaChanges, arenaLogs, arenaPhase, arenaCursor, arenaError>>

(* One of build()'s loops ends and the next begins. *)
Handed(from, list, to) ==
    /\ stage = from /\ nth > Len(list)
    /\ stage' = to /\ nth' = 1
    /\ UNCHANGED <<document, walkVars, callIds, logIds, failure, arenaVars>>

NextList ==
    \/ Handed("add_calls", acc.calls, "add_changes")
    \/ Handed("add_changes", acc.changes, "add_logs")
    \/ Handed("add_logs", acc.logs, "add_transfers")
    \/ Handed("add_transfers", acc.transfers, "arena")

(* FactArenaBuilder::build, step by step. *)
ValidateArena ==
    /\ stage = "arena"
    /\ Arena!Build \/ Arena!Examine \/ Arena!ReturnError \/ Arena!EndPass
    /\ UNCHANGED <<document, stage, walkVars, nth, callIds, logIds, failure>>

ArenaReturns ==
    /\ stage = "arena"
    /\ \/ arenaPhase = "built" /\ stage' = "ingested" /\ UNCHANGED failure
       \/ arenaPhase = "failed" /\ Fail("ArenaConstruction")
    /\ UNCHANGED <<document, walkVars, nth, callIds, logIds, arenaVars>>

(* ingest() has returned. *)
Returned == stage \in {"ingested", "failed"} /\ UNCHANGED vars

Next ==
    \/ Load
    \/ VisitCall \/ NormalizeChange \/ ChangesDone \/ NormalizeLog \/ PushChildren
    \/ WalkDone
    \/ AddCall \/ AddStorageChange \/ AddLog \/ AddTokenTransfer \/ NextList
    \/ ValidateArena \/ ArenaReturns
    \/ Returned

(* One thread runs ingest() to its end. *)
Spec == Init /\ [][Next]_vars /\ WF_vars(Next)

----------------------------------------------------------------------------
(* The document read as a tree: what the walk has to come to.              *)

Nodes == 1 .. Len(document.calls)

ParentNode(n) == CHOOSE p \in Nodes : n \in {Raw(p).calls[i] : i \in DOMAIN Raw(p).calls}

Nesting ==
    LET depth[n \in Nodes] == IF n = 1 THEN 0 ELSE 1 + depth[ParentNode(n)]
    IN  depth

(* The order of execution: a call before the calls nested in it, those one
   after the other. *)
Traversal ==
    LET order[n \in Nodes] ==
            <<n>> \o FlattenSeq([i \in 1 .. Len(Raw(n).calls) |-> order[Raw(n).calls[i]]])
    IN  order

PreOrder == Traversal[1]

(* The account whose storage a call works on: its own, or, if it borrows code,
   that of the call it is nested in. *)
StorageContext ==
    LET context[n \in Nodes] ==
            IF ~InCallerContext(Raw(n).kind)
            THEN IF Raw(n).to = NoAddress THEN Raw(n).from ELSE Raw(n).to
            ELSE IF n = 1 THEN NoAddress ELSE context[ParentNode(n)]
    IN  context

PositionOf(n) == (CHOOSE k \in DOMAIN PreOrder : PreOrder[k] = n) - 1

(* For each call in order, one entry per fact nested directly in it. *)
Attributed(FactsIn(_)) ==
    FlattenSeq([k \in 1 .. Len(PreOrder) |->
                    [i \in 1 .. Len(FactsIn(PreOrder[k])) |-> k - 1]])

AllLogs == FlattenSeq([k \in 1 .. Len(PreOrder) |-> Raw(PreOrder[k]).logs])

WellFormed ==
    /\ document.loads /\ document.decodes /\ document.header = NoFault
    /\ \A n \in Nodes :
        /\ Raw(n).readable /\ Raw(n).kind \in CallKinds
        /\ Nesting[n] <= MaxCallDepth
        /\ StorageContext[n] # NoAddress
        /\ Raw(n).kind = "staticcall" => Raw(n).value = 0
        /\ \A i \in DOMAIN Raw(n).changes :
                Raw(n).changes[i].readable /\ Raw(n).changes[i].contract = StorageContext[n]
    /\ \A i \in DOMAIN AllLogs :
        /\ AllLogs[i].readable /\ AllLogs[i].dataReadable
        /\ AllLogs[i].topics <= 4
        /\ AllLogs[i].index \in 0 .. MaxLogIndex
        /\ \A j \in DOMAIN AllLogs : AllLogs[i].index = AllLogs[j].index => i = j

----------------------------------------------------------------------------
(* Properties.                                                             *)

(* normalize.rs on walk_tree, "exactly matching what a recursive pre-order
   traversal would do": whatever the stack holds meanwhile, the arena's calls
   are the document's in pre-order, each below its own parent and at its own
   depth.  Order keys, and with them every sequence constraint, rest on it. *)
CallsInPreOrder ==
    stage = "ingested" =>
        arenaCalls = [k \in 1 .. Len(PreOrder) |->
            [id |-> k - 1, depth |-> Nesting[PreOrder[k]],
             parent |-> IF k = 1 THEN NoCall ELSE PositionOf(ParentNode(PreOrder[k]))]]

(* Every storage change, log and transfer of the document is in the arena once,
   in order, under the call it is nested in or the log it was decoded from. *)
FactsKeepTheirCall ==
    stage = "ingested" =>
        /\ arenaChanges = Attributed(LAMBDA n : Raw(n).changes)
        /\ [i \in DOMAIN arenaLogs |-> arenaLogs[i].call] = Attributed(LAMBDA n : Raw(n).logs)
        /\ arenaTransfers = FlattenSeq([i \in 1 .. Len(AllLogs) |->
                                IF DecodesTransfer(AllLogs[i]) THEN <<i - 1>> ELSE <<>>])

(* ingest() accepts the well-formed documents and no other: what each early
   return checks on the way adds up to one condition on the whole tree. *)
AcceptsExactlyTheWellFormed ==
    /\ stage = "ingested" => WellFormed
    /\ stage = "failed" => ~WellFormed

(* ingest() uses the builder as module FactArena lets a caller use it: ids of
   this builder only, each of them issued before it is used. *)
UsesTheBuilder == Arena!Spec

(* The walk's stack runs empty and ingest() returns, on every document. *)
Returns == <>(stage \in {"ingested", "failed"})
=============================================================================
