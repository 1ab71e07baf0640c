----------------------------- MODULE FactArena -----------------------------
(***************************************************************************)
(* FactArenaBuilder and the FactArena it produces                          *)
(* (crates/fact-model/src/arena.rs).                                       *)
(*                                                                         *)
(* A caller adds calls, storage changes, logs and token transfers in any   *)
(* order, naming calls and logs by the ids the builder hands out, and then *)
(* calls build(), which validates the four lists in six linear passes and  *)
(* either yields the arena or the first violation.                         *)
(*                                                                         *)
(* Ids are 0-based positions, as in the code; sequences are 1-based, so    *)
(* the call with id p is calls[p + 1].                                     *)
(***************************************************************************)
EXTENDS Integers, Sequences

CONSTANTS
    NoCall,         \* the parent of a call that has none
    DepthModulus,   \* CallDepth is a u16: 2^16 in the code
    OverflowChecks, \* the build profile: dev panics on overflow, release wraps
    StrayIds,       \* ids that another builder handed out to the same caller
    OpenSizes,      \* model bounds: how many facts a builder that takes another one
    OpenCalls       \* may have, and how many calls one that takes another call;
                    \* any number, in the code

ASSUME DepthAssumption == DepthModulus \in Nat \ {0}
ASSUME OverflowAssumption == OverflowChecks \in BOOLEAN
ASSUME StrayAssumption == StrayIds \subseteq Nat
ASSUME BoundAssumption == OpenSizes \subseteq Nat /\ OpenCalls \subseteq Nat
ASSUME NoCallAssumption == NoCall \notin Nat

VARIABLES
    calls,          \* Seq of [id, parent, depth]
    storageChanges, \* Seq of the call id each change names
    logs,           \* Seq of [id, call]
    transfers,      \* Seq of the log id each transfer names
    phase,          \* "open", the validation pass under way, or the outcome
    cursor,         \* the item of the pass that is examined next
    error           \* the violation build() returned

vars == <<calls, storageChanges, logs, transfers, phase, cursor, error>>
facts == <<calls, storageChanges, logs, transfers>>

NoError == "none"
Passes == {"roots", "parents", "storage", "logs", "transfers"}
TreeErrors == {"EmptyCallList", "FirstCallIsNotRoot", "MultipleRootCalls",
               "ParentNotYetSeen", "InconsistentCallDepth", "DepthOverflow"}
ReferenceErrors == {"StorageChangeReferencesUnknownCall",
                    "LogReferencesUnknownCall",
                    "TokenTransferReferencesUnknownLog"}

Depths == 0 .. DepthModulus - 1

Call == [id : Nat, parent : Nat \union {NoCall}, depth : Depths]
Log == [id : Nat, call : Nat]

TypeOK ==
    /\ calls \in Seq(Call)
    /\ storageChanges \in Seq(Nat)
    /\ logs \in Seq(Log)
    /\ transfers \in Seq(Nat)
    /\ phase \in Passes \union {"open", "built", "failed"}
    /\ cursor \in Nat \ {0}
    /\ error \in TreeErrors \union ReferenceErrors \union {NoError}

Init ==
    /\ calls = <<>> /\ storageChanges = <<>> /\ logs = <<>> /\ transfers = <<>>
    /\ phase = "open"
    /\ cursor = 1
    /\ error = NoError

----------------------------------------------------------------------------
(* The builder is open: adding facts.                                      *)

Size == Len(calls) + Len(storageChanges) + Len(logs) + Len(transfers)

(* The ids next_call_id() and next_log_id() can have handed out so far: each
   call of them returns the current length and reserves nothing, so a caller
   may hold one it used already. *)
Issued(list) == 0 .. Len(list)

Open == phase = "open" /\ Size \in OpenSizes

(* add_call pushes the call under whatever id it carries, and add_log the log. *)
AddCall ==
    /\ Open /\ Len(calls) \in OpenCalls
    /\ \E id \in Issued(calls) \union StrayIds, depth \in Depths,
          parent \in Issued(calls) \union StrayIds \union {NoCall} :
            calls' = Append(calls, [id |-> id, parent |-> parent, depth |-> depth])
    /\ UNCHANGED <<storageChanges, logs, transfers, phase, cursor, error>>

AddStorageChange ==
    /\ Open
    /\ \E call \in Issued(calls) \union StrayIds :
            storageChanges' = Append(storageChanges, call)
    /\ UNCHANGED <<calls, logs, transfers, phase, cursor, error>>

AddLog ==
    /\ Open
    /\ \E id \in Issued(logs) \union StrayIds, call \in Issued(calls) \union StrayIds :
            logs' = Append(logs, [id |-> id, call |-> call])
    /\ UNCHANGED <<calls, storageChanges, transfers, phase, cursor, error>>

AddTokenTransfer ==
    /\ Open
    /\ \E log \in Issued(logs) \union StrayIds :
            transfers' = Append(transfers, log)
    /\ UNCHANGED <<calls, storageChanges, logs, phase, cursor, error>>

----------------------------------------------------------------------------
(* build() and validate_call_tree().                                       *)

(* slice.get(id.index()) is Some. *)
Known(list, id) == id < Len(list)

ParentOf(i) == calls[i].parent

(* Mutants of UnseenParent: no order between parent and child; the parent
   must stand two places earlier. *)
UnseenParentUnordered(i) == ParentOf(i) # NoCall /\ ~Known(calls, ParentOf(i))
UnseenParentStrict(i) ==
    ParentOf(i) # NoCall /\ (~Known(calls, ParentOf(i)) \/ ParentOf(i) + 1 >= calls[i].id)

(* The precedence check compares the parent's index with the call's own id
   field, not with the call's position. *)
UnseenParent(i) ==
    /\ ParentOf(i) # NoCall
    /\ \/ ~Known(calls, ParentOf(i))
       \/ ParentOf(i) >= calls[i].id

SeenParent(i) == ParentOf(i) # NoCall /\ ~UnseenParent(i)

(* parent.depth.0 + 1 in u16 arithmetic. *)
DepthBelow(depth) == (depth + 1) % DepthModulus

Overflows(i) ==
    /\ OverflowChecks
    /\ SeenParent(i)
    /\ calls[ParentOf(i) + 1].depth = DepthModulus - 1

WrongDepth(i) ==
    /\ SeenParent(i)
    /\ calls[i].depth # DepthBelow(calls[ParentOf(i) + 1].depth)

Listed(pass) ==
    CASE pass = "storage" -> storageChanges
      [] pass = "logs" -> logs
      [] pass = "transfers" -> transfers
      [] OTHER -> calls

Fault(pass, i) ==
    CASE pass = "roots" /\ ParentOf(i) = NoCall -> "MultipleRootCalls"
      [] pass = "parents" /\ UnseenParent(i) -> "ParentNotYetSeen"
      [] pass = "parents" /\ Overflows(i) -> "DepthOverflow"
      [] pass = "parents" /\ ~Overflows(i) /\ WrongDepth(i) -> "InconsistentCallDepth"
      [] pass = "storage" /\ ~Known(calls, storageChanges[i]) ->
            "StorageChangeReferencesUnknownCall"
      [] pass = "logs" /\ ~Known(calls, logs[i].call) -> "LogReferencesUnknownCall"
      [] pass = "transfers" /\ ~Known(logs, transfers[i]) ->
            "TokenTransferReferencesUnknownLog"
      [] OTHER -> NoError

(* Mutants of FollowingPass: the logs are not looked at; storage changes before
   parents. *)
FollowingPassNoLogs(pass) ==
    CASE pass = "roots" -> "parents"
      [] pass = "parents" -> "storage"
      [] pass = "storage" -> "transfers"
      [] pass = "transfers" -> "built"

FollowingPassSwapped(pass) ==
    CASE pass = "roots" -> "storage"
      [] pass = "storage" -> "parents"
      [] pass = "parents" -> "logs"
      [] pass = "logs" -> "transfers"
      [] pass = "transfers" -> "built"

FollowingPass(pass) ==
    CASE pass = "roots" -> "parents"
      [] pass = "parents" -> "storage"
      [] pass = "storage" -> "logs"
      [] pass = "logs" -> "transfers"
      [] pass = "transfers" -> "built"

Reject(e) == phase' = "failed" /\ error' = e /\ UNCHANGED cursor

(* build() takes the lists; the first call decides at once, and the search
   for a second root begins at the second call. *)
Build ==
    /\ phase = "open"
    /\ \/ calls = <<>> /\ Reject("EmptyCallList")
       \/ calls # <<>> /\ ParentOf(1) # NoCall /\ Reject("FirstCallIsNotRoot")
       \/ /\ calls # <<>> /\ ParentOf(1) = NoCall
          /\ phase' = "roots"
          /\ cursor' = 2
          /\ UNCHANGED error
    /\ UNCHANGED facts

InPass == phase \in Passes /\ cursor <= Len(Listed(phase))

Examine ==
    /\ InPass
    /\ Fault(phase, cursor) = NoError
    /\ cursor' = cursor + 1
    /\ UNCHANGED <<facts, phase, error>>

ReturnError ==
    /\ InPass
    /\ Fault(phase, cursor) # NoError
    /\ Reject(Fault(phase, cursor))
    /\ UNCHANGED facts

EndPass ==
    /\ phase \in Passes
    /\ cursor > Len(Listed(phase))
    /\ phase' = FollowingPass(phase)
    /\ cursor' = 1
    /\ UNCHANGED <<facts, error>>

(* build() has returned; the builder is consumed and the arena immutable. *)
Returned == phase \in {"built", "failed"} /\ UNCHANGED vars

Next ==
    \/ AddCall \/ AddStorageChange \/ AddLog \/ AddTokenTransfer
    \/ Build \/ Examine \/ ReturnError \/ EndPass
    \/ Returned

Spec == Init /\ [][Next]_vars

----------------------------------------------------------------------------
(* What FactArena's "Invariants" paragraph promises of every arena.        *)

CallPositions == 1 .. Len(calls)

(* The first call is the only root, and every other call names one of the list. *)
OneRoot ==
    /\ calls # <<>>
    /\ \A i \in CallPositions : ParentOf(i) = NoCall <=> i = 1
    /\ \A i \in CallPositions \ {1} : ParentOf(i) + 1 \in CallPositions

(* Each call's depth is its parent's plus one, as a u16 computes it. *)
DepthsFollowParents ==
    \A i \in CallPositions \ {1} :
        calls[i].depth = DepthBelow(calls[ParentOf(i) + 1].depth)

(* A parent stands before its children: what lets a reader walk calls() as a
   topological order. *)
ParentsFirst == \A i \in CallPositions \ {1} : ParentOf(i) + 1 < i

(* No call but the root is at depth 0, so no depth has wrapped around. *)
NoDepthWraps == \A i \in CallPositions \ {1} : calls[i].depth > 0

(* Every call is in every set that holds the root and, with a call, the calls it
   is the parent of: the root is reached from everywhere. *)
AllUnderTheRoot ==
    \A S \in SUBSET CallPositions :
        1 \in S /\ (\A i \in CallPositions \ {1} : ParentOf(i) + 1 \in S => i \in S)
            => S = CallPositions

(* Each call carries an id that its builder had handed out by then. *)
IdsAreOwn == \A i \in CallPositions : calls[i].id < i

(* build() compares a parent with the id its child carries, not with the place
   it stands at.  If ids are the builder's own that is the order of the list;
   whatever the ids, the depths keep the parents from going in a circle. *)
CallTree ==
    /\ OneRoot /\ DepthsFollowParents
    /\ OverflowChecks => NoDepthWraps
    /\ IdsAreOwn => ParentsFirst
    /\ IdsAreOwn \/ NoDepthWraps => AllUnderTheRoot

(* Every arena holds one tree of calls, and one whose ids are its builder's lists
   parents before their children. *)
BuiltCallTree == phase = "built" => CallTree

(* What FactArena says of itself, and calls() and build() of the list: a parent
   stands earlier in it, with no forward reference. *)
BuiltInOrder == phase = "built" => ParentsFirst

(* Every reference of a built arena names a fact of that arena. *)
References ==
    /\ \A i \in 1 .. Len(storageChanges) : storageChanges[i] < Len(calls)
    /\ \A i \in 1 .. Len(logs) : logs[i].call < Len(calls)
    /\ \A i \in 1 .. Len(transfers) : transfers[i] < Len(logs)

BuiltReferencesResolve == phase = "built" => References

(* build() reports the tree first: it names a dangling reference only of a
   builder whose call tree it has found valid. *)
TreeErrorsFirst == error \in ReferenceErrors => CallTree

CallIdsArePositions == \A i \in CallPositions : calls[i].id = i - 1

(* build() refuses nothing that is well formed: a builder whose call ids are
   its positions and which fails breaks one of the promises (or, with overflow
   checks on, reaches the deepest depth a u16 holds). *)
RejectsOnlyIllFormed ==
    phase = "failed" /\ CallIdsArePositions =>
        \/ ~(OneRoot /\ ParentsFirst /\ DepthsFollowParents /\ References)
        \/ error = "DepthOverflow"

============================================================================
