----------------------------- MODULE Predicates -----------------------------
(***************************************************************************)
(* What a predicate selects from a trace (crates/matcher/src/predicate.rs) *)
(* and the reentrancy index it consults (index.rs), over the facts as the  *)
(* fact model stores them (crates/fact-model/src/call.rs, storage.rs,      *)
(* log.rs, value_flow.rs, arena.rs).                                       *)
(*                                                                         *)
(* An arena is filled, TraceIndex::build walks its calls once, and then    *)
(* predicates are evaluated one after the other.  Ids are 1-based arena    *)
(* positions here.  The arena is one that FactArenaBuilder accepts: every  *)
(* fact names a call or log that exists and a parent precedes its child.   *)
(***************************************************************************)
EXTENDS Integers, Sequences, FiniteSets, SequencesExt, Hex

CONSTANTS
    None,           \* Option::None
    CallShapes,     \* [kind, from, to, value, selector, succeeded] a call may have
    ChangeShapes,   \* [slot, before, after]
    LogTopics,      \* topic lists
    TransferShapes, \* [token, from, to]
    Transactions,   \* [from, status, gasUsed]
    Queries,        \* predicates: [kind, attrs: name -> [type, value]]
    WordWidth, SelectorWidth, AddressWidth,  \* 32, 4 and 20 bytes in the code
    MaxI128,        \* i128::MAX; every attribute is an i64, every amount a u128
    MaxCalls, MaxFacts  \* model bounds: calls, and facts of every kind

ASSUME BoundsAssumption == MaxI128 \in Nat /\ MaxCalls \in Nat /\ MaxFacts \in Nat
ASSUME NoneAssumption == None \notin Nat /\ None \notin Queries

(* The attributes of each kind of predicate and the type of their literals. *)
Schema ==
    [call |-> [kind |-> "ident", reentrant |-> "bool", value_flow |-> "ident",
               min_value |-> "int", selector |-> "str", succeeded |-> "bool",
               parent_kind |-> "ident", ancestor_kind |-> "ident"],
     storage |-> [changed |-> "bool", role |-> "ident", slot |-> "str", call_kind |-> "ident"],
     value_flow |-> [direction |-> "ident", min |-> "int", max |-> "int"],
     token_transfer |-> [direction |-> "ident", unexpected |-> "bool", token |-> "str"],
     transaction |-> [status |-> "ident", gas_used_min |-> "int"],
     log |-> [topic0 |-> "str", decoded |-> "bool"]]

(* What dsl::validate lets through; an integer literal is an i64. *)
ASSUME QueriesAssumption ==
    \A q \in Queries :
        /\ q.kind \in DOMAIN Schema /\ DOMAIN q.attrs \subseteq DOMAIN Schema[q.kind]
        /\ \A name \in DOMAIN q.attrs :
                LET literal == q.attrs[name] IN
                /\ literal.type = Schema[q.kind][name]
                /\ literal.type = "bool" => literal.value \in BOOLEAN
                /\ literal.type = "int" => literal.value \in Int /\ literal.value < MaxI128
                /\ literal.type = "str" => literal.value \in Seq(STRING)
                /\ name \in {"value_flow", "direction"} => literal.value \in {"In", "Out"}

Byte == 0 .. 255
BytesOf(width) == [1 .. width -> Byte]

(* Word, Address and selectors are arrays of bytes, amounts are unsigned. *)
ASSUME ShapesAssumption ==
    /\ \A width \in {WordWidth, SelectorWidth, AddressWidth} :
            width \in Nat /\ {None, Malformed} \intersect BytesOf(width) = {}
    /\ \A call \in CallShapes :
            call.value \in Nat /\ call.selector \in BytesOf(SelectorWidth) \union {None}
    /\ \A change \in ChangeShapes : change.slot \in BytesOf(WordWidth)
    /\ LogTopics \subseteq Seq(BytesOf(WordWidth))
    /\ \A transfer \in TransferShapes : transfer.token \in BytesOf(AddressWidth)
    /\ \A t \in Transactions : t.gasUsed \in Nat

VARIABLES
    transaction,    \* the trace's transaction
    calls,          \* Seq of call shapes with a parent
    changes,        \* Seq of change shapes with their call
    logs,           \* Seq of [call, topics]
    transfers,      \* Seq of transfer shapes with their log
    targets,        \* TraceIndex::build: ancestor_targets of the calls walked
    reentrant,      \* TraceIndex.reentrant_calls
    query,          \* the predicate just evaluated, or None
    bindings        \* what it selected: [fact, order, unresolved]

vars == <<transaction, calls, changes, logs, transfers,
          targets, reentrant, query, bindings>>
trace == <<transaction, calls, changes, logs, transfers>>

CallKinds == {"Call", "StaticCall", "DelegateCall", "CallCode",
              "Create", "Create2", "Selfdestruct"}

(* CallKind::can_carry_value, which Call::new insists on. *)
CanCarryValue(kind) == kind # "StaticCall"

Init ==
    /\ transaction \in Transactions
    /\ calls = <<>> /\ changes = <<>> /\ logs = <<>> /\ transfers = <<>>
    /\ targets = <<>> /\ reentrant = {}
    /\ query = None /\ bindings = <<>>

----------------------------------------------------------------------------
(* Filling the arena.  The kinds of fact are added one after the other: no  *)
(* two lists of an arena depend on how their additions interleaved.         *)

Room == targets = <<>> /\ Len(calls) + Len(changes) + Len(logs) + Len(transfers) < MaxFacts

AddCall ==
    /\ Room /\ Len(calls) < MaxCalls
    /\ changes = <<>> /\ logs = <<>> /\ transfers = <<>>
    /\ \E shape \in CallShapes,
          parent \in IF calls = <<>> THEN {None} ELSE 1 .. Len(calls) :
            /\ CanCarryValue(shape.kind) \/ shape.value = 0
            /\ calls' = Append(calls, [shape |-> shape, parent |-> parent])
    /\ UNCHANGED <<transaction, changes, logs, transfers,
                   targets, reentrant, query, bindings>>

AddStorageChange ==
    /\ Room /\ logs = <<>> /\ transfers = <<>>
    /\ \E shape \in ChangeShapes, call \in 1 .. Len(calls) :
            changes' = Append(changes, [shape |-> shape, call |-> call])
    /\ UNCHANGED <<transaction, calls, logs, transfers,
                   targets, reentrant, query, bindings>>

AddLog ==
    /\ Room /\ transfers = <<>>
    /\ \E topics \in LogTopics, call \in 1 .. Len(calls) :
            logs' = Append(logs, [topics |-> topics, call |-> call])
    /\ UNCHANGED <<transaction, calls, changes, transfers,
                   targets, reentrant, query, bindings>>

AddTokenTransfer ==
    /\ Room
    /\ \E shape \in TransferShapes, log \in 1 .. Len(logs) :
            transfers' = Append(transfers, [shape |-> shape, log |-> log])
    /\ UNCHANGED <<transaction, calls, changes, logs,
                   targets, reentrant, query, bindings>>

----------------------------------------------------------------------------
(* TraceIndex::build.                                                       *)

Some(option) == {option} \ {None}

(* Mutant of TargetsAbove: the parent's own target is left out, the defect
   the regression test in index.rs describes. *)
TargetsAboveParent(parent) ==
    IF parent = None THEN {} ELSE targets[parent]

(* The targets of a call's strict ancestors: the parent's set, which the walk
   has already computed, and the parent's own target. *)
TargetsAbove(parent) ==
    IF parent = None THEN {}
    ELSE targets[parent] \union Some(calls[parent].shape.to)

IndexCall ==
    /\ calls # <<>> /\ Len(targets) < Len(calls)
    /\ LET id == Len(targets) + 1
           above == TargetsAbove(calls[id].parent)
       IN  /\ targets' = Append(targets, above)
           /\ reentrant' = IF Some(calls[id].shape.to) \intersect above # {}
                           THEN reentrant \union {id} ELSE reentrant
    /\ UNCHANGED <<transaction, calls, changes, logs, transfers, query, bindings>>

Indexed == calls # <<>> /\ Len(targets) = Len(calls)

----------------------------------------------------------------------------
(* The attributes of a predicate.                                           *)

(* ident, bool_attr, int_attr, str_attr: nothing when the attribute is absent
   or of another type, which satisfies a condition on what is wanted. *)
Attr(predicate, name, type) ==
    {predicate.attrs[n].value : n \in {n \in DOMAIN predicate.attrs :
                                        n = name /\ predicate.attrs[n].type = type}}

IdentAttr(predicate, name) == Attr(predicate, name, "ident")
BoolAttr(predicate, name) == Attr(predicate, name, "bool")
IntAttr(predicate, name) == Attr(predicate, name, "int")
StrAttr(predicate, name) == Attr(predicate, name, "str")

(* call_kind_matches: no call is what "Internal" names. *)
NameOfKind(kind) ==
    CASE kind = "Call" -> "External"
      [] kind = "StaticCall" -> "StaticCall"
      [] kind \in {"DelegateCall", "CallCode"} -> "Delegate"
      [] kind \in {"Create", "Create2"} -> "Create"
      [] kind = "Selfdestruct" -> "SelfDestruct"
IsOfKind(call, name) == NameOfKind(calls[call].shape.kind) = name

(* anchor: In and Out are relative to the transaction's sender. *)
Anchor == transaction.from
Moves(direction, from, to) ==
    \/ direction = "In" /\ to = Anchor
    \/ direction = "Out" /\ from = Anchor

(* Mutant of AtLeast: the amount wraps into the signed type. *)
AtLeastWrapped(amount, min) ==
    min <= 0 \/ (IF amount > MaxI128 THEN amount - 2 * (MaxI128 + 1) ELSE amount) >= min

(* i128::try_from(amount).unwrap_or(i128::MAX) against an i64. *)
AsI128(amount) == IF amount > MaxI128 THEN MaxI128 ELSE amount
AtLeast(amount, min) == min <= 0 \/ AsI128(amount) >= min
AtMost(amount, max) == max >= 0 /\ AsI128(amount) <= max

(* has_ancestor_of_kind: up the parents, the call itself left out. *)
HasAncestorOfKind(call, name) ==
    LET above[c \in 1 .. Len(calls)] ==
            /\ calls[c].parent # None
            /\ IsOfKind(calls[c].parent, name) \/ above[calls[c].parent]
    IN  above[call]

----------------------------------------------------------------------------
(* evaluate_call and its siblings: the ids each selects, in arena order.    *)

SelectsCall(predicate, id) ==
    LET call == calls[id].shape
    IN  /\ \A name \in IdentAttr(predicate, "kind") : IsOfKind(id, name)
        /\ \A want \in BoolAttr(predicate, "reentrant") : (id \in reentrant) = want
        /\ \A way \in IdentAttr(predicate, "value_flow") : Moves(way, call.from, call.to)
        /\ \A min \in IntAttr(predicate, "min_value") : AtLeast(call.value, min)
        /\ \A text \in StrAttr(predicate, "selector") :
                LET wanted == FixedBytes(text, SelectorWidth)
                IN  wanted # Malformed /\ call.selector = wanted
        /\ \A want \in BoolAttr(predicate, "succeeded") : call.succeeded = want
        /\ \A name \in IdentAttr(predicate, "parent_kind") :
                \E parent \in Some(calls[id].parent) : IsOfKind(parent, name)
        /\ \A name \in IdentAttr(predicate, "ancestor_kind") : HasAncestorOfKind(id, name)

(* StorageChange::is_net_change. *)
IsNetChange(change) == change.before # change.after

SelectsChange(predicate, id) ==
    /\ \A want \in BoolAttr(predicate, "changed") : IsNetChange(changes[id].shape) = want
    /\ \A text \in StrAttr(predicate, "slot") :
            LET wanted == FixedBytes(text, WordWidth)
            IN  wanted # Malformed /\ changes[id].shape.slot = wanted
    /\ \A name \in IdentAttr(predicate, "call_kind") : IsOfKind(changes[id].call, name)

(* ValueFlow::from_call: a call that moves nothing is no flow. *)
IsFlow(id) == calls[id].shape.value # 0

SelectsFlow(predicate, id) ==
    LET call == calls[id].shape
    IN  /\ IsFlow(id)
        /\ \A way \in IdentAttr(predicate, "direction") : Moves(way, call.from, call.to)
        /\ \A min \in IntAttr(predicate, "min") : AtLeast(call.value, min)
        /\ \A max \in IntAttr(predicate, "max") : AtMost(call.value, max)

SelectsTransfer(predicate, id) ==
    LET transfer == transfers[id].shape
    IN  /\ \A way \in IdentAttr(predicate, "direction") : Moves(way, transfer.from, transfer.to)
        /\ \A text \in StrAttr(predicate, "token") :
                LET wanted == FixedBytes(text, AddressWidth)
                IN  wanted # Malformed /\ transfer.token = wanted

SelectsTransaction(predicate) ==
    /\ \A status \in IdentAttr(predicate, "status") : transaction.status = status
    /\ \A min \in IntAttr(predicate, "gas_used_min") :
            min <= 0 \/ transaction.gasUsed >= min

IsDecoded(log) == \E t \in 1 .. Len(transfers) : transfers[t].log = log

SelectsLog(predicate, id) ==
    /\ \A text \in StrAttr(predicate, "topic0") :
            LET wanted == FixedBytes(text, WordWidth)
            IN  /\ wanted # Malformed
                /\ logs[id].topics # <<>> /\ logs[id].topics[1] = wanted
    /\ \A want \in BoolAttr(predicate, "decoded") : IsDecoded(id) = want

----------------------------------------------------------------------------
(* evaluate.                                                                *)

(* The bindings of the facts that are selected, in arena order; order gives
   the call of each fact there is. *)
Bound(kind, order, selected, unresolved) ==
    FlattenSeq([id \in DOMAIN order |->
        IF id \in selected
        THEN <<[fact |-> [kind |-> kind, id |-> id],
                order |-> order[id], unresolved |-> unresolved]>>
        ELSE <<>>])

CallOrder == [id \in DOMAIN calls |-> id]
ChangeOrder == [id \in DOMAIN changes |-> changes[id].call]
LogOrder == [id \in DOMAIN logs |-> logs[id].call]
TransferOrder == [id \in DOMAIN transfers |-> logs[transfers[id].log].call]

(* The attributes a predicate names that no fact can decide. *)
Undecidable(predicate) ==
    DOMAIN predicate.attrs \intersect
        (CASE predicate.kind = "storage" -> {"role"}
           [] predicate.kind = "token_transfer" -> {"unexpected"}
           [] OTHER -> {})

Selection(p) ==
    CASE p.kind = "call" ->
            Bound("call", CallOrder, {id \in DOMAIN calls : SelectsCall(p, id)}, {})
      [] p.kind = "storage" ->
            Bound("change", ChangeOrder, {id \in DOMAIN changes : SelectsChange(p, id)},
                  Undecidable(p))
      [] p.kind = "value_flow" ->
            Bound("call", CallOrder, {id \in DOMAIN calls : SelectsFlow(p, id)}, {})
      [] p.kind = "token_transfer" ->
            Bound("transfer", TransferOrder,
                  {id \in DOMAIN transfers : SelectsTransfer(p, id)}, Undecidable(p))
      [] p.kind = "transaction" ->
            IF SelectsTransaction(p)
            THEN <<[fact |-> [kind |-> "call", id |-> 1], order |-> None, unresolved |-> {}]>>
            ELSE <<>>
      [] p.kind = "log" ->
            Bound("log", LogOrder, {id \in DOMAIN logs : SelectsLog(p, id)}, {})
      [] OTHER -> <<>>

(* Mutant of ByOrder: the arena's order is kept. *)
AsFound(list) == list

(* sort_by_key(order): stable, None first. *)
WithOrder(list, order) ==
    FlattenSeq([i \in DOMAIN list |-> IF list[i].order = order THEN <<list[i]>> ELSE <<>>])
ByOrder(list) ==
    FlattenSeq([k \in 1 .. Len(calls) + 1 |-> WithOrder(list, IF k = 1 THEN None ELSE k - 1)])

Evaluate(predicate) ==
    /\ Indexed /\ query = None
    /\ query' = predicate
    /\ bindings' = ByOrder(Selection(predicate))
    /\ UNCHANGED <<transaction, calls, changes, logs, transfers, targets, reentrant>>

(* The caller is done with the bindings and comes back with another clause. *)
Release ==
    /\ query # None
    /\ query' = None /\ bindings' = <<>>
    /\ UNCHANGED <<transaction, calls, changes, logs, transfers, targets, reentrant>>

Next ==
    \/ AddCall \/ AddStorageChange \/ AddLog \/ AddTokenTransfer
    \/ IndexCall
    \/ \E predicate \in Queries : Evaluate(predicate)
    \/ Release

Spec == Init /\ [][Next]_vars

----------------------------------------------------------------------------
(* FactArena::net_value_extracted, in the arithmetic of i128.               *)

(* Mutant of Checked: an overflow wraps. *)
Wrapped(n) == ((n + MaxI128 + 1) % (2 * (MaxI128 + 1))) - (MaxI128 + 1)

(* checked_add and checked_sub: None outside the type. *)
Checked(n) == IF n \in -MaxI128 - 1 .. MaxI128 THEN n ELSE None

(* checked_add or checked_sub of an amount that is an i128 itself. *)
Moved(net, sign, amount) ==
    IF net = None \/ amount > MaxI128 THEN None ELSE Checked(net + sign * amount)

(* One call: what the address receives, then what it sends. *)
AfterFlow(net, call, address) ==
    LET received == IF call.to = address THEN Moved(net, 1, call.value) ELSE net
    IN  IF call.from = address THEN Moved(received, -1, call.value) ELSE received

NetValue(address) ==
    FoldLeft(LAMBDA net, call : AfterFlow(net, call.shape, address), 0, calls)

----------------------------------------------------------------------------
(* Properties.                                                              *)

(* The strict ancestors of a call: what every set of calls holds that holds
   its parent and the parent of each of its members. *)
Ancestors(id) ==
    {j \in 1 .. Len(calls) :
        \A S \in SUBSET (1 .. Len(calls)) :
            (/\ Some(calls[id].parent) \subseteq S
             /\ \A c \in S : Some(calls[c].parent) \subseteq S) => j \in S}

Reenters(id) ==
    \E j \in Ancestors(id) :
        calls[id].shape.to # None /\ calls[j].shape.to = calls[id].shape.to

(* The index built in one forward pass names exactly the calls that target a
   contract already active above them on the call stack, however deep
   (TraceIndex::build, is_reentrant). *)
ReentrancyIsOnTheStack ==
    \A id \in 1 .. Len(targets) : (id \in reentrant) <=> Reenters(id)

(* A text spells a value: its digits in either case, with or without 0x. *)
Spells(text, bytes) ==
    LET plain == SubSeq(Display(bytes), 3, 2 + 2 * Len(bytes))
        spelled(digits) ==
            /\ Len(digits) = Len(plain)
            /\ \A i \in 1 .. Len(plain) :
                    digits[i] \in HexDigit /\ ValueOfDigit[digits[i]] = ValueOfDigit[plain[i]]
    IN  spelled(text) \/ (IsPrefix(<<"0", "x">>, text) /\ spelled(SubSeq(text, 3, Len(text))))

(* What the attributes of a clause say of a fact, by the documents of
   dsl::schema and the matcher's predicate module. *)
CallMeans(name, value, id) ==
    LET call == calls[id].shape IN
    CASE name = "kind" -> NameOfKind(call.kind) = value
      [] name = "reentrant" -> Reenters(id) = value
      [] name \in {"value_flow", "direction"} ->
            (IF value = "In" THEN call.to ELSE call.from) = transaction.from
      [] name \in {"min_value", "min"} -> call.value >= value
      [] name = "max" -> call.value <= value
      [] name = "selector" -> call.selector # None /\ Spells(value, call.selector)
      [] name = "succeeded" -> call.succeeded = value
      [] name = "parent_kind" -> \E j \in Ancestors(id) :
            calls[id].parent = j /\ NameOfKind(calls[j].shape.kind) = value
      [] name = "ancestor_kind" -> \E j \in Ancestors(id) :
            NameOfKind(calls[j].shape.kind) = value

ChangeMeans(name, value, id) ==
    LET change == changes[id].shape IN
    CASE name = "changed" -> (change.before # change.after) = value
      [] name = "slot" -> Spells(value, change.slot)
      [] name = "call_kind" -> NameOfKind(calls[changes[id].call].shape.kind) = value
      [] name = "role" -> TRUE

TransferMeans(name, value, id) ==
    LET transfer == transfers[id].shape IN
    CASE name = "direction" ->
            (IF value = "In" THEN transfer.to ELSE transfer.from) = transaction.from
      [] name = "token" -> Spells(value, transfer.token)
      [] name = "unexpected" -> TRUE

LogMeans(name, value, id) ==
    CASE name = "topic0" -> logs[id].topics # <<>> /\ Spells(value, logs[id].topics[1])
      [] name = "decoded" -> (id \in {transfers[t].log : t \in DOMAIN transfers}) = value

TransactionMeans(name, value) ==
    CASE name = "status" -> transaction.status = value
      [] name = "gas_used_min" -> transaction.gasUsed >= value

FactMeans(kind, name, value, id) ==
    CASE kind \in {"call", "value_flow"} -> CallMeans(name, value, id)
      [] kind = "storage" -> ChangeMeans(name, value, id)
      [] kind = "token_transfer" -> TransferMeans(name, value, id)
      [] kind = "log" -> LogMeans(name, value, id)
      [] kind = "transaction" -> TransactionMeans(name, value)

Candidates(kind) ==
    CASE kind = "call" -> DOMAIN calls
      [] kind = "value_flow" -> {id \in DOMAIN calls : calls[id].shape.value > 0}
      [] kind = "storage" -> DOMAIN changes
      [] kind = "token_transfer" -> DOMAIN transfers
      [] kind = "log" -> DOMAIN logs
      [] kind = "transaction" -> {1}

(* A predicate selects exactly the facts its attributes are true of, with
   numbers taken as numbers whatever the width of the amount and the literal,
   hexadecimal texts in any spelling, and an attribute that no fact can decide
   reported on every binding and never used to filter (evaluate). *)
SelectsWhatTheClauseSays ==
    query # None =>
        /\ {bindings[i].fact.id : i \in DOMAIN bindings} =
           {id \in Candidates(query.kind) : \A name \in DOMAIN query.attrs :
                FactMeans(query.kind, name, query.attrs[name].value, id)}
        /\ \A i \in DOMAIN bindings :
                bindings[i].unresolved = DOMAIN query.attrs \intersect {"role", "unexpected"}

(* identity::producing_call. *)
Producer(fact) ==
    CASE fact.kind = "call" -> fact.id
      [] fact.kind = "change" -> changes[fact.id].call
      [] fact.kind = "log" -> logs[fact.id].call
      [] fact.kind = "transfer" -> logs[transfers[fact.id].log].call

(* The bindings come in the order in which their facts' calls executed and,
   within a call, in which the facts were recorded, each fact once, whatever
   order the arena holds them in: what the sequence search of the matcher and
   the abstract evaluation of module Traces rely on (evaluate's sort). *)
BindingsInExecutionOrder ==
    \A i, j \in DOMAIN bindings :
        /\ bindings[i].order \in {Producer(bindings[i].fact), None}
        /\ bindings[i].order = None <=> query.kind = "transaction"
        /\ i < j => \/ bindings[i].order < bindings[j].order
                    \/ /\ bindings[i].order = bindings[j].order
                       /\ bindings[i].fact.id < bindings[j].fact.id

(* Whatever net_value_extracted returns is what the address received less what
   it sent; an overflow on the way is no number at all, never a wrong one. *)
NetValueIsNeverWrong ==
    \A address \in {calls[id].shape.from : id \in DOMAIN calls} :
        LET total(S) == MapThenSumSet(LAMBDA id : calls[id].shape.value, S)
        IN  NetValue(address) \in
                {None, total({id \in DOMAIN calls : calls[id].shape.to = address})
                       - total({id \in DOMAIN calls : calls[id].shape.from = address})}
=============================================================================
