-------------------------- MODULE IngestionProofs --------------------------
(***************************************************************************)
(* What ingest() comes to, for documents of any number, size and shape.    *)
(*                                                                         *)
(* It uses the arena's builder as its contract has it, and what it hands   *)
(* over always builds.  The arena's calls are the document's in pre-order, *)
(* no fact is lost, doubled or moved to another call, and a document is    *)
(* accepted just when it is well-formed.  A document that geth-convert has *)
(* written is one of these, and is accepted just when the tracer's         *)
(* response has no fault and the file is not nested too deep to be read.   *)
(*                                                                         *)
(* Inv is inductive and says where every loop is.  Relative to it, these   *)
(* are: PlanInv, what the calls visited and those on the stack are to each *)
(* other; GatherInv, what has been gathered of the visited ones; ValueInv, *)
(* what the builder's Call::new has checked; WalkInv, that the visited     *)
(* calls and the traversal of what is coming are the document's pre-order; *)
(* PlacedInv, that depths and storage contexts are those of the tree; and  *)
(* RefusedInv, that what is refused breaks a rule.                         *)
(***************************************************************************)
EXTENDS Converter, SequenceProofs, FiniteSetTheorems, TLAPS

AP == INSTANCE FactArenaProofs WITH
    calls <- arenaCalls, storageChanges <- arenaChanges, logs <- arenaLogs,
    transfers <- arenaTransfers, phase <- arenaPhase, cursor <- arenaCursor,
    error <- arenaError,
    StrayIds <- {}, OpenSizes <- Nat, OpenCalls <- Nat

-----------------------------------------------------------------------------
(* Chains of early returns.                                                *)

LEMMA MinIsLeast ==
    ASSUME NEW T \in SUBSET Nat, T # {}
    PROVE  Min(T) \in T /\ \A y \in T : Min(T) <= y
BY MinExists DEF Min

(* No fault is returned just when every check passes; otherwise it is that of
   the first one that does not. *)
LEMMA FirstFaultMeans ==
    ASSUME NEW n \in Nat, NEW checks, DOMAIN checks = 1 .. n,
           \A i \in 1 .. n : checks[i].fails => checks[i].fault # NoFault
    PROVE  /\ FirstFault(checks) = NoFault => \A i \in 1 .. n : ~checks[i].fails
           /\ FirstFault(checks) # NoFault =>
                \E i \in 1 .. n : /\ checks[i].fails /\ FirstFault(checks) = checks[i].fault
                                  /\ \A j \in 1 .. i - 1 : ~checks[j].fails
<1> DEFINE failing == {i \in DOMAIN checks : checks[i].fails}
<1>1. FirstFault(checks) = IF failing = {} THEN NoFault ELSE checks[Min(failing)].fault
  BY DEF FirstFault
<1>2. CASE failing = {}
  BY <1>1, <1>2
<1>3. CASE failing # {}
  <2>1. failing \in SUBSET Nat
    OBVIOUS
  <2>2. Min(failing) \in failing /\ \A y \in failing : Min(failing) <= y
    <3> HIDE DEF failing
    <3> QED BY <1>3, <2>1, MinIsLeast
  <2>3. Min(failing) \in 1 .. n /\ checks[Min(failing)].fails
    BY <2>2
  <2>4. \A j \in 1 .. Min(failing) - 1 : j \in 1 .. n /\ j \notin failing
    <3> HIDE DEF failing
    <3> QED BY <2>2, <2>3
  <2>5. \A j \in 1 .. Min(failing) - 1 : ~checks[j].fails
    BY <2>4
  <2>6. FirstFault(checks) = checks[Min(failing)].fault /\ FirstFault(checks) # NoFault
    <3> HIDE DEF failing
    <3> QED BY <1>1, <1>3, <2>3
  <2> HIDE DEF failing
  <2> QED BY <2>3, <2>5, <2>6
<1> QED BY <1>2, <1>3

(* What a call that passes has been checked for. *)
LEMMA CheckedCall ==
    ASSUME NEW it, VisitFault(it) = NoFault
    PROVE  /\ ~(it.depth > MaxCallDepth)
           /\ Raw(it.node).kind \in CallKinds
           /\ Raw(it.node).readable
           /\ ~(InCallerContext(Raw(it.node).kind) /\ it.context = NoAddress)
<1> DEFINE checks == <<Check(it.depth > MaxCallDepth, "UnsupportedFeature"),
                     Check(Raw(it.node).kind \notin CallKinds, "UnsupportedFeature"),
                     Check(~Raw(it.node).readable, "MalformedField"),
                     Check(InCallerContext(Raw(it.node).kind) /\ it.context = NoAddress,
                           "UnsupportedFeature")>>
<1>1. FirstFault(checks) = NoFault
  BY DEF VisitFault
<1>2. DOMAIN checks = 1 .. 4 /\ \A i \in 1 .. 4 : checks[i].fault # NoFault
  BY DEF Check, NoFault
<1>3. \A i \in 1 .. 4 : ~checks[i].fails
  <2> HIDE DEF checks
  <2> QED BY <1>1, <1>2, FirstFaultMeans
<1>4. ~checks[1].fails /\ ~checks[2].fails /\ ~checks[3].fails /\ ~checks[4].fails
  <2> HIDE DEF checks
  <2> QED BY <1>3
<1> QED BY <1>4 DEF Check

-----------------------------------------------------------------------------
(* The documents and the walk's records.                                   *)

(* A decoded document's calls are a tree, said of the calls by their number. *)
TreeOfCalls ==
    /\ Len(document.calls) \in Nat \ {0}
    /\ \A n \in Nodes : Raw(n).calls \in Seq(Nodes)
    /\ \A n \in Nodes : \A i \in 1 .. Len(Raw(n).calls) : n < Raw(n).calls[i]
    /\ \A n, m \in Nodes : \A i \in 1 .. Len(Raw(n).calls), j \in 1 .. Len(Raw(m).calls) :
            Raw(n).calls[i] = Raw(m).calls[j] => n = m /\ i = j
    /\ \A n \in Nodes : n # 1 => \E m \in Nodes : \E i \in 1 .. Len(Raw(m).calls) :
            m < n /\ Raw(m).calls[i] = n
    /\ \A n \in Nodes : HasFacts(Raw(n))

(* Whatever document there is, it is as decode() leaves one if it decodes. *)
DocumentInv ==
    document.loads /\ document.decodes =>
        IsTree(document.calls) /\ \A n \in 1 .. Len(document.calls) : HasFacts(document.calls[n])

LEMMA DocumentIsTree == ASSUME DocumentInv, document.loads, document.decodes PROVE TreeOfCalls
<1> DEFINE N == Len(document.calls)
<1>1. IsTree(document.calls) /\ \A n \in 1 .. N : HasFacts(document.calls[n])
  BY DEF DocumentInv
<1>2. Nodes = 1 .. N /\ N \in Nat \ {0}
  BY <1>1 DEF Nodes, IsTree
<1>3. ASSUME NEW n \in 1 .. N PROVE Raw(n).calls \in Seq(n + 1 .. N)
  BY <1>1 DEF Raw, IsTree
<1>6. \A n, m \in 1 .. N : \A i \in 1 .. Len(Raw(n).calls), j \in 1 .. Len(Raw(m).calls) :
            Raw(n).calls[i] = Raw(m).calls[j] => n = m /\ i = j
  BY <1>1 DEF Raw, IsTree
<1>7. ASSUME NEW n \in 1 .. N, n # 1
      PROVE  \E m \in 1 .. N : \E i \in 1 .. Len(Raw(m).calls) : m < n /\ Raw(m).calls[i] = n
  <2>1. PICK m \in 1 .. n - 1 : \E i \in 1 .. Len(Raw(m).calls) : Raw(m).calls[i] = n
    <3>1. n \in 2 .. N
      BY <1>2, <1>7
    <3> QED BY <1>1, <3>1 DEF Raw, IsTree
  <2>2. m \in 1 .. N /\ m < n
    BY <1>2, <2>1
  <2> QED BY <2>1, <2>2
<1>8. \A n \in Nodes : HasFacts(Raw(n))
  BY <1>1, <1>2 DEF Raw
<1> HIDE DEF N
<1>4. ASSUME NEW n \in 1 .. N PROVE Raw(n).calls \in Seq(1 .. N)
  <2>1. n + 1 .. N \subseteq 1 .. N
    BY <1>2
  <2> QED BY <1>3, <2>1, SeqMonotonic
<1>5. ASSUME NEW n \in 1 .. N, NEW i \in 1 .. Len(Raw(n).calls) PROVE n < Raw(n).calls[i]
  <2>1. Raw(n).calls[i] \in n + 1 .. N
    BY <1>3, ElementOfSeq
  <2> QED BY <1>2, <2>1
<1> QED BY <1>2, <1>4, <1>5, <1>6, <1>7, <1>8 DEF TreeOfCalls, N

(* A decoded document is a root call with its nested calls, changes and logs. *)
Decoded ==
    /\ Len(document.calls) \in Nat \ {0}
    /\ \A n \in Nodes :
        /\ Raw(n).calls \in Seq(Nodes)
        /\ Len(Raw(n).changes) \in Nat
        /\ Len(Raw(n).logs) \in Nat

Parents == Nat \union {NoCall}

Addresses == {Raw(n).from : n \in Nodes} \union {Raw(n).to : n \in Nodes} \union {NoAddress}
Indices == UNION {{Raw(n).logs[i].index : i \in 1 .. Len(Raw(n).logs)} : n \in Nodes}

PendingCall == [node : Nodes, parent : Parents, depth : Nat, context : Addresses]
NormalizedCall == [node : Nodes, parent : Parents, depth : 0 .. MaxCallDepth]

Accumulator ==
    [calls : Seq(NormalizedCall), changes : Seq([call : Nat, contract : Addresses]),
     logs : Seq(Nat), transfers : Seq(Nat), seen : SUBSET Indices]

InCall == {"changes", "logs"}
Adding == {"add_calls", "add_changes", "add_logs", "add_transfers"}
Stages == {"load", "walk", "arena", "ingested", "failed"} \union InCall \union Adding

TypeInv ==
    /\ stage \in Stages
    /\ nth \in Nat \ {0}
    /\ stage = "load" => DocumentInv /\ Unread
    /\ stage \notin {"load", "failed"} =>
        /\ document.loads /\ document.decodes /\ document.header = NoFault
        /\ Decoded
        /\ stack \in Seq(PendingCall)
        /\ acc \in Accumulator
    /\ stage \in InCall => item \in PendingCall

(* A parent stands before its children, whether they are visited or pending. *)
ParentInv ==
    stage \notin {"load", "failed"} =>
        /\ \A k \in 1 .. Len(acc.calls) :
                IF k = 1 THEN acc.calls[k].parent = NoCall
                ELSE acc.calls[k].parent \in 0 .. k - 2
        /\ \A k \in 1 .. Len(stack) :
                IF acc.calls = <<>> THEN k = 1 /\ stack[k].parent = NoCall
                ELSE stack[k].parent \in 0 .. Len(acc.calls) - 1
        /\ acc.calls = <<>> => stage = "walk"
        /\ acc.calls = <<>> => stack # <<>>

(* What a fact names was there when it was gathered. *)
FactInv ==
    stage \notin {"load", "failed"} =>
        /\ \A k \in 1 .. Len(acc.changes) : acc.changes[k].call \in 0 .. Len(acc.calls) - 1
        /\ \A k \in 1 .. Len(acc.logs) : acc.logs[k] \in 0 .. Len(acc.calls) - 1
        /\ \A k \in 1 .. Len(acc.transfers) : acc.transfers[k] \in 0 .. Len(acc.logs) - 1

(* The stages after the loop over each of the lists. *)
PastTransfers == {"arena", "ingested"}
PastLogs == PastTransfers \union {"add_transfers"}
PastChanges == PastLogs \union {"add_logs"}
PastCalls == PastChanges \union {"add_changes"}

(* The loop over a list has handed over its first nth - 1 items, the loops
   before it all of theirs and those after it none. *)
LoopInv ==
    /\ stage = "add_calls" => nth = Len(arenaCalls) + 1 /\ nth <= Len(acc.calls) + 1
    /\ stage = "add_changes" => nth = Len(arenaChanges) + 1 /\ nth <= Len(acc.changes) + 1
    /\ stage = "add_logs" => nth = Len(arenaLogs) + 1 /\ nth <= Len(acc.logs) + 1
    /\ stage = "add_transfers" =>
            nth = Len(arenaTransfers) + 1 /\ nth <= Len(acc.transfers) + 1
    /\ IF stage \in PastCalls THEN Len(arenaCalls) = Len(acc.calls)
       ELSE stage # "add_calls" => arenaCalls = <<>>
    /\ IF stage \in PastChanges THEN Len(arenaChanges) = Len(acc.changes)
       ELSE stage # "add_changes" => arenaChanges = <<>>
    /\ IF stage \in PastLogs THEN Len(arenaLogs) = Len(acc.logs)
       ELSE stage # "add_logs" => arenaLogs = <<>>
    /\ IF stage \in PastTransfers THEN Len(arenaTransfers) = Len(acc.transfers)
       ELSE stage # "add_transfers" => arenaTransfers = <<>>

(* The builder's lists are the accumulator's, as far as they are handed over,
   and an id is the position it was issued at. *)
Copied ==
    /\ arenaCalls = [k \in 1 .. Len(arenaCalls) |->
            [id |-> k - 1, depth |-> acc.calls[k].depth, parent |-> acc.calls[k].parent]]
    /\ arenaChanges = [k \in 1 .. Len(arenaChanges) |-> acc.changes[k].call]
    /\ arenaLogs = [k \in 1 .. Len(arenaLogs) |-> [id |-> k - 1, call |-> acc.logs[k]]]
    /\ arenaTransfers = [k \in 1 .. Len(arenaTransfers) |-> acc.transfers[k]]
    /\ callIds = [k \in 1 .. Len(arenaCalls) |-> k - 1]
    /\ logIds = [k \in 1 .. Len(arenaLogs) |-> k - 1]

BuildInv == stage \notin {"load", "failed"} => LoopInv /\ Copied

PhaseInv ==
    /\ stage \notin {"arena", "ingested", "failed"} => arenaPhase = "open"
    /\ stage = "ingested" => arenaPhase = "built"

Inv == TypeInv /\ ParentInv /\ FactInv /\ BuildInv /\ PhaseInv /\ AP!IInv

-----------------------------------------------------------------------------
(* The arena's builder, as ingest() and as the proofs about it see it.     *)

LEMMA BuilderAssumptions ==
    /\ DepthModulus \in Nat \ {0} /\ OverflowChecks \in BOOLEAN
    /\ {} \subseteq Nat /\ Nat \subseteq Nat /\ NoCall \notin Nat
BY DepthFits, OverflowAssumption, NoCallIsNoPosition

LEMMA SameFault ==
    ASSUME NEW pass, NEW i PROVE Arena!Fault(pass, i) = AP!Fault(pass, i)
BY DEF Arena!Fault, AP!Fault, Arena!ParentOf, AP!ParentOf, Arena!UnseenParent, AP!UnseenParent,
       Arena!Overflows, AP!Overflows, Arena!SeenParent, AP!SeenParent, Arena!WrongDepth,
       AP!WrongDepth, Arena!Known, AP!Known, Arena!DepthBelow, AP!DepthBelow, Arena!NoError,
       AP!NoError

LEMMA SameListed ==
    /\ \A pass : Arena!Listed(pass) = AP!Listed(pass)
    /\ \A pass : Arena!FollowingPass(pass) = AP!FollowingPass(pass)
    /\ Arena!Passes = AP!Passes /\ Arena!NoError = AP!NoError /\ Arena!vars = AP!vars
    /\ Arena!facts = AP!facts
    /\ \A e : Arena!Reject(e) <=> AP!Reject(e)
    /\ Arena!InPass <=> AP!InPass
BY DEF Arena!Listed, AP!Listed, Arena!FollowingPass, AP!FollowingPass, Arena!Passes, AP!Passes,
       Arena!NoError, AP!NoError, Arena!vars, AP!vars, Arena!facts, AP!facts, Arena!Reject,
       AP!Reject, Arena!InPass, AP!InPass

LEMMA SameAdditions ==
    /\ Arena!AddCall => AP!AddCall
    /\ Arena!AddStorageChange => AP!AddStorageChange
    /\ Arena!AddLog => AP!AddLog
    /\ Arena!AddTokenTransfer => AP!AddTokenTransfer
BY DEF Arena!AddCall, AP!AddCall, Arena!AddStorageChange, AP!AddStorageChange, Arena!AddLog,
       AP!AddLog, Arena!AddTokenTransfer, AP!AddTokenTransfer, Arena!Open, AP!Open, Arena!Size,
       AP!Size, Arena!Issued, AP!Issued, Arena!Depths, AP!Depths

LEMMA SameValidation ==
    /\ Arena!Build => AP!Build
    /\ Arena!Examine => AP!Examine
    /\ Arena!ReturnError => AP!ReturnError
    /\ Arena!EndPass => AP!EndPass
    /\ Arena!Returned => AP!Returned
<1> USE SameFault, SameListed
    DEF Arena!facts, AP!facts, Arena!vars, AP!vars, Arena!Reject, AP!Reject
<1>1. Arena!Build => AP!Build
  BY DEF Arena!Build, AP!Build, Arena!ParentOf, AP!ParentOf
<1>2. Arena!Examine => AP!Examine
  BY DEF Arena!Examine, AP!Examine
<1>3. Arena!ReturnError => AP!ReturnError
  BY DEF Arena!ReturnError, AP!ReturnError
<1>4. Arena!EndPass => AP!EndPass
  BY DEF Arena!EndPass, AP!EndPass
<1>5. Arena!Returned => AP!Returned
  BY DEF Arena!Returned, AP!Returned
<1> QED BY <1>1, <1>2, <1>3, <1>4, <1>5

(* What a step of the builder keeps of its invariant. *)
LEMMA BuilderSteps ==
    ASSUME AP!IInv, [Arena!Next]_(Arena!vars) PROVE AP!IInv'
<1>1. Arena!Next => AP!Next
  BY SameAdditions, SameValidation DEF Arena!Next, AP!Next
<1>2. UNCHANGED Arena!vars => UNCHANGED AP!vars
  BY DEF Arena!vars, AP!vars
<1>3. [AP!Next]_(AP!vars)
  BY <1>1, <1>2
<1> QED BY <1>3, AP!IInvInductive, BuilderAssumptions

-----------------------------------------------------------------------------
(* Inv is inductive: the walk.                                             *)

NothingAdded ==
    /\ arenaCalls = <<>> /\ arenaChanges = <<>> /\ arenaLogs = <<>> /\ arenaTransfers = <<>>
    /\ callIds = <<>> /\ logIds = <<>>

LEMMA NothingAddedYet == ASSUME BuildInv, stage \in {"walk"} \union InCall PROVE NothingAdded
<1>1. arenaCalls = <<>> /\ arenaChanges = <<>> /\ arenaLogs = <<>> /\ arenaTransfers = <<>>
  BY DEF BuildInv, LoopInv, InCall, PastCalls, PastChanges, PastLogs, PastTransfers
<1>2. callIds = [k \in 1 .. 0 |-> k - 1] /\ logIds = [k \in 1 .. 0 |-> k - 1]
  BY <1>1 DEF BuildInv, Copied, InCall
<1> QED BY <1>1, <1>2 DEF NothingAdded

LEMMA NothingCopied == ASSUME NothingAdded' PROVE Copied'
BY DEF NothingAdded, Copied

LEMMA NothingBuilt ==
    ASSUME NothingAdded', Len(acc.calls)' \in Nat,
           stage' \in {"walk", "add_calls"} \union InCall,
           nth' \in Nat, stage' = "add_calls" => nth' = 1
    PROVE  BuildInv'
<1>1. /\ Len(arenaCalls)' = 0 /\ arenaCalls' = <<>> /\ arenaChanges' = <<>>
      /\ arenaLogs' = <<>> /\ arenaTransfers' = <<>>
  BY DEF NothingAdded
<1>2. /\ stage' \notin {"add_changes", "add_logs", "add_transfers"}
      /\ stage' \notin PastCalls /\ stage' \notin PastChanges
      /\ stage' \notin PastLogs /\ stage' \notin PastTransfers
  BY DEF InCall, PastCalls, PastChanges, PastLogs, PastTransfers
<1>3. stage' = "add_calls" => nth' = Len(arenaCalls)' + 1 /\ nth' <= Len(acc.calls)' + 1
  <2>1. Len(arenaCalls)' + 1 = 1
    BY <1>1
  <2>2. 1 <= Len(acc.calls)' + 1
    OBVIOUS
  <2> QED BY <2>1, <2>2
<1>4. LoopInv'
  BY <1>1, <1>2, <1>3 DEF LoopInv
<1> QED BY <1>4, NothingCopied DEF BuildInv

LEMMA BuilderStarts == Arena!Init => AP!IInv
BY DepthFits DEF Arena!Init, Arena!NoError, AP!IInv, AP!TypeOK,
   AP!PassInv, AP!ErrorInv, AP!CallPositions, AP!NoError, AP!ReferenceErrors

LEMMA InitEstablishes == Unread /\ DocumentInv /\ stage = "load" => Inv
<1> SUFFICES ASSUME Unread, DocumentInv, stage = "load" PROVE Inv
  OBVIOUS
<1> USE DEF Unread
<1>1. AP!IInv
  BY BuilderStarts
<1>2. TypeInv
  BY DEF TypeInv, Stages, InCall
<1>3. ParentInv /\ FactInv /\ BuildInv /\ PhaseInv
  BY DEF ParentInv, FactInv, BuildInv, PhaseInv, Arena!Init
<1> QED BY <1>1, <1>2, <1>3 DEF Inv

(* A failing step keeps nothing but the builder. *)
LEMMA FailingPreserves ==
    ASSUME Inv, stage' = "failed", nth' \in Nat \ {0}, UNCHANGED arenaVars
    PROVE  Inv'
<1>1. AP!IInv'
  BY BuilderSteps DEF Inv, arenaVars, Arena!vars
<1> QED
  BY <1>1 DEF Inv, TypeInv, ParentInv, FactInv, BuildInv, PhaseInv, Stages, InCall

LEMMA LoadPreserves == ASSUME Inv, Load PROVE Inv'
<1> DEFINE checks == <<SourceCheck, DecodeCheck, HeaderCheck>>
<1>1. CASE FirstFault(checks) # NoFault /\ Fail(FirstFault(checks))
  BY <1>1, FailingPreserves DEF Load, Fail, Inv, TypeInv
<1>2. CASE FirstFault(checks) = NoFault /\ stage' = "walk" /\ stack' = <<Root>>
  <2>1. /\ stage = "load" /\ DocumentInv /\ Unread
        /\ UNCHANGED <<document, item, nth, acc, callIds, logIds, arenaVars>>
    BY DEF Load, Inv, TypeInv
  <2>2. ~checks[1].fails /\ ~checks[2].fails /\ ~checks[3].fails
    <3>0. checks[3].fails => checks[3].fault # NoFault
      BY DEF HeaderCheck, Check
    <3>1. /\ DOMAIN checks = 1 .. 3
          /\ \A i \in 1 .. 3 : checks[i].fails => checks[i].fault # NoFault
      BY <3>0 DEF SourceCheck, DecodeCheck, Check, NoFault
    <3>2. \A i \in 1 .. 3 : ~checks[i].fails
      <4> HIDE DEF checks
      <4> QED BY <1>2, <3>1, FirstFaultMeans
    <3> HIDE DEF checks
    <3> QED BY <3>2
  <2>3. document.loads /\ document.decodes /\ document.header = NoFault
    BY <2>2 DEF SourceCheck, DecodeCheck, HeaderCheck, Check
  <2>4. Decoded
    BY <2>1, <2>3, DocumentIsTree DEF TreeOfCalls, HasFacts, Decoded
  <2>5. Root \in PendingCall
    <3>1. 1 \in Nodes
      BY <2>4 DEF Decoded, Nodes
    <3> QED BY <3>1 DEF Root, Pending, PendingCall, Parents, Addresses
  <2>6. TypeInv'
    <3>1. Decoded' /\ Accumulator' = Accumulator /\ PendingCall' = PendingCall
      BY <2>1, <2>4 DEF Decoded, Nodes, Raw, PendingCall, Accumulator, Addresses,
         NormalizedCall, Indices
    <3>2. stack' \in Seq(PendingCall')
      BY <1>2, <2>5, <3>1
    <3>3. acc' \in Accumulator
      BY <2>1 DEF Unread, Accumulator
    <3>4. nth' \in Nat \ {0}
      BY <2>1 DEF Unread
    <3> QED BY <1>2, <2>1, <2>3, <3>1, <3>2, <3>3, <3>4 DEF TypeInv, Stages, InCall
  <2>7. ParentInv' /\ FactInv' /\ PhaseInv'
    BY <1>2, <2>1
       DEF ParentInv, FactInv, PhaseInv, Unread, Root, Pending, arenaVars, Arena!Init
  <2>a. BuildInv'
    <3>1. NothingAdded' /\ Len(acc.calls)' \in Nat
      BY <2>1 DEF Unread, NothingAdded, Arena!Init, arenaVars
    <3>2. nth' \in Nat
      BY <2>1 DEF Unread
    <3> QED BY <1>2, <3>1, <3>2, NothingBuilt
  <2>8. AP!IInv'
    BY <2>1, BuilderSteps DEF Inv, arenaVars, Arena!vars
  <2> QED BY <2>6, <2>7, <2>8, <2>a DEF Inv
<1> QED BY <1>1, <1>2 DEF Load

(* The stack without its last element, and a record with one field changed. *)
LEMMA Popped ==
    ASSUME NEW S, NEW s \in Seq(S), s # <<>>
    PROVE  /\ Len(s) \in Nat \ {0} /\ Last(s) = s[Len(s)] /\ Last(s) \in S
           /\ Front(s) \in Seq(S) /\ Len(Front(s)) = Len(s) - 1
           /\ \A k \in 1 .. Len(s) - 1 : Front(s)[k] = s[k]
<1>1. Len(s) \in Nat \ {0} /\ s[Len(s)] \in S
  OBVIOUS
<1>2. /\ Len(SubSeq(s, 1, Len(s) - 1)) = Len(s) - 1
      /\ \A k \in 1 .. Len(s) - 1 : SubSeq(s, 1, Len(s) - 1)[k] = s[k]
  <2>1. SubSeq(s, 1, Len(s) - 1) = [k \in 1 .. Len(s) - 1 |-> s[k]]
    BY <1>1
  <2>2. Len(s) - 1 \in Nat
    BY <1>1
  <2> DEFINE f == [k \in 1 .. Len(s) - 1 |-> s[k]]
  <2>3. DOMAIN f = 1 .. Len(s) - 1 /\ \A k \in 1 .. Len(s) - 1 : f[k] = s[k]
    OBVIOUS
  <2>4. f \in Seq(S)
    BY <1>1, <2>2
  <2> HIDE DEF f
  <2>5. Len(f) = Len(s) - 1
    BY <2>2, <2>3, <2>4
  <2> QED BY <2>1, <2>3, <2>5 DEF f
<1>3. SubSeq(s, 1, Len(s) - 1) \in Seq(S)
  BY <1>1
<1> QED BY <1>1, <1>2, <1>3 DEF Last, Front

LEMMA Gathered ==
    ASSUME acc \in Accumulator, NEW x
    PROVE  /\ [acc EXCEPT !.calls = x] =
                    [calls |-> x, changes |-> acc.changes, logs |-> acc.logs,
                     transfers |-> acc.transfers, seen |-> acc.seen]
           /\ [acc EXCEPT !.changes = x] =
                    [calls |-> acc.calls, changes |-> x, logs |-> acc.logs,
                     transfers |-> acc.transfers, seen |-> acc.seen]
<1>1. acc = [calls |-> acc.calls, changes |-> acc.changes, logs |-> acc.logs,
             transfers |-> acc.transfers, seen |-> acc.seen]
  BY DEF Accumulator
<1> QED BY <1>1

LogGathered(x, y, z) == [acc EXCEPT !.logs = x, !.transfers = y, !.seen = z]

LEMMA GatheredLog ==
    ASSUME acc \in Accumulator, NEW x, NEW y, NEW z
    PROVE  /\ LogGathered(x, y, z).calls = acc.calls
           /\ LogGathered(x, y, z).changes = acc.changes
           /\ LogGathered(x, y, z).logs = x
           /\ LogGathered(x, y, z).transfers = y
           /\ LogGathered(x, y, z).seen = z
           /\ x \in Seq(Nat) /\ y \in Seq(Nat) /\ z \in SUBSET Indices
                => LogGathered(x, y, z) \in Accumulator
<1> DEFINE new == LogGathered(x, y, z)
           fields == {"calls", "changes", "logs", "transfers", "seen"}
<1>1. DOMAIN new = fields /\ new = [k \in DOMAIN new |-> new[k]]
  BY DEF Accumulator, LogGathered
<1>2. /\ new.calls = acc.calls /\ new.changes = acc.changes /\ new.logs = x
      /\ new.transfers = y /\ new.seen = z
  BY DEF Accumulator, LogGathered
<1>3. acc.calls \in Seq(NormalizedCall) /\ acc.changes \in Seq([call : Nat, contract : Addresses])
  BY DEF Accumulator
<1> HIDE DEF new
<1>4. ASSUME x \in Seq(Nat), y \in Seq(Nat), z \in SUBSET Indices PROVE new \in Accumulator
  BY <1>1, <1>2, <1>3, <1>4 DEF Accumulator
<1> QED BY <1>2, <1>4 DEF new

LEMMA SameDocument ==
    ASSUME UNCHANGED document
    PROVE  /\ Decoded' <=> Decoded
           /\ PendingCall' = PendingCall /\ Accumulator' = Accumulator
BY DEF Decoded, Nodes, Raw, PendingCall, Accumulator, Addresses, NormalizedCall, Indices

(* What holds of the document and the builder from the walk's first step to
   its last. *)
LEMMA WalkStep ==
    ASSUME Inv, stage \in {"walk"} \union InCall, UNCHANGED <<document, callIds, logIds, arenaVars>>,
           stage' \in {"walk", "add_calls"} \union InCall, nth' \in Nat \ {0},
           stage' = "add_calls" => nth' = 1,
           stack' \in Seq(PendingCall), acc' \in Accumulator,
           stage' \in InCall => item' \in PendingCall,
           ParentInv', FactInv'
    PROVE  Inv'
<1>1. TypeInv /\ BuildInv /\ PhaseInv /\ AP!IInv
  BY DEF Inv
<1>2. /\ stage \notin {"load", "failed", "arena", "ingested"} /\ stage' \notin {"load", "failed"}
      /\ stage' \notin {"arena", "ingested"} /\ stage' \in Stages
  BY DEF InCall, Stages, Adding
<1>3. TypeInv'
  BY <1>1, <1>2, SameDocument DEF TypeInv
<1>4. BuildInv'
  <2>1. NothingAdded'
    BY <1>1, NothingAddedYet DEF NothingAdded, arenaVars
  <2>2. Len(acc.calls)' \in Nat
    BY DEF Accumulator
  <2> QED BY <2>1, <2>2, NothingBuilt
<1>5. PhaseInv'
  BY <1>1, <1>2 DEF PhaseInv, arenaVars
<1>6. AP!IInv'
  BY <1>1, BuilderSteps DEF arenaVars, Arena!vars
<1> QED BY <1>3, <1>4, <1>5, <1>6 DEF Inv

LEMMA VisitCallPreserves == ASSUME Inv, VisitCall PROVE Inv'
<1> DEFINE it == Last(stack)
           visited == [node |-> it.node, parent |-> it.parent, depth |-> it.depth]
<1>1. CASE VisitFault(it) # NoFault /\ Fail(VisitFault(it))
  BY <1>1, FailingPreserves DEF VisitCall, Fail, Inv, TypeInv
<1>2. CASE /\ VisitFault(it) = NoFault
           /\ acc' = [acc EXCEPT !.calls = Append(@, visited)]
           /\ stage' = "changes"
  <2>1. /\ stage = "walk" /\ stack # <<>> /\ item' = it /\ stack' = Front(stack) /\ nth' = 1
        /\ UNCHANGED <<document, callIds, logIds, arenaVars>>
    BY DEF VisitCall
  <2>2. stack \in Seq(PendingCall) /\ acc \in Accumulator
    BY <2>1 DEF Inv, TypeInv
  <2>3. /\ Len(stack) \in Nat \ {0} /\ it = stack[Len(stack)] /\ it \in PendingCall
        /\ stack' \in Seq(PendingCall) /\ Len(stack') = Len(stack) - 1
        /\ \A k \in 1 .. Len(stack') : stack'[k] = stack[k] /\ k \in 1 .. Len(stack) - 1
    BY <2>1, <2>2, Popped
  <2>4. visited \in NormalizedCall
    BY <1>2, <2>3, CheckedCall, DepthFits DEF PendingCall, NormalizedCall
  <2> HIDE DEF it, visited
  <2>5. /\ acc' \in Accumulator /\ acc'.calls = Append(acc.calls, visited)
        /\ acc'.changes = acc.changes /\ acc'.logs = acc.logs /\ acc'.transfers = acc.transfers
    <3>1. acc' = [calls |-> Append(acc.calls, visited), changes |-> acc.changes,
                  logs |-> acc.logs, transfers |-> acc.transfers, seen |-> acc.seen]
      BY <1>2, <2>2, Gathered
    <3>2. UNCHANGED document
      BY <2>1
    <3> QED BY <2>2, <2>4, <3>1 DEF Accumulator
  <2>6. /\ acc.calls \in Seq(NormalizedCall) /\ Len(acc'.calls) = Len(acc.calls) + 1
        /\ acc'.calls[Len(acc.calls) + 1] = visited
        /\ \A k \in 1 .. Len(acc.calls) : acc'.calls[k] = acc.calls[k]
    BY <2>2, <2>4, <2>5 DEF Accumulator
  <2>7. visited.parent = stack[Len(stack)].parent
    BY <2>3 DEF visited
  <2>8. ParentInv'
    <3>1. /\ \A k \in 1 .. Len(acc.calls) :
                IF k = 1 THEN acc.calls[k].parent = NoCall
                ELSE acc.calls[k].parent \in 0 .. k - 2
          /\ \A k \in 1 .. Len(stack) :
                IF acc.calls = <<>> THEN k = 1 /\ stack[k].parent = NoCall
                ELSE stack[k].parent \in 0 .. Len(acc.calls) - 1
      BY <2>1 DEF Inv, ParentInv
    <3>2. ASSUME NEW k \in 1 .. Len(acc'.calls)
          PROVE  IF k = 1 THEN acc'.calls[k].parent = NoCall
                 ELSE acc'.calls[k].parent \in 0 .. k - 2
      <4>1. CASE k \in 1 .. Len(acc.calls)
        BY <4>1, <3>1, <2>6
      <4>2. CASE k = Len(acc.calls) + 1
        BY <4>2, <3>1, <2>3, <2>6, <2>7
      <4> QED BY <4>1, <4>2, <2>6
    <3>3. ASSUME NEW k \in 1 .. Len(stack')
          PROVE  stack'[k].parent \in 0 .. Len(acc'.calls) - 1
      BY <3>1, <2>3, <2>6
    <3>4. acc'.calls # <<>>
      BY <2>6
    <3> QED BY <3>2, <3>3, <3>4 DEF ParentInv
  <2>9. FactInv'
    BY <2>1, <2>5, <2>6 DEF Inv, FactInv
  <2> QED BY <1>2, <2>1, <2>3, <2>5, <2>8, <2>9, WalkStep DEF InCall
<1> QED BY <1>1, <1>2 DEF VisitCall

(* What a storage change and a log that pass have been checked for. *)
LEMMA CheckedChange ==
    ASSUME NEW change, ChangeFault(change) = NoFault
    PROVE  change.contract # Unreadable /\ change.contract = ContextOf(item) /\ change.readable
<1> DEFINE checks == <<Check(change.contract = Unreadable, "MalformedField"),
                     Check(change.contract # ContextOf(item), "InvalidStorageOwnership"),
                     Check(~change.readable, "MalformedField")>>
<1>1. FirstFault(checks) = NoFault
  BY DEF ChangeFault
<1>2. DOMAIN checks = 1 .. 3 /\ \A i \in 1 .. 3 : checks[i].fault # NoFault
  BY DEF Check, NoFault
<1>3. \A i \in 1 .. 3 : ~checks[i].fails
  <2> HIDE DEF checks
  <2> QED BY <1>1, <1>2, FirstFaultMeans
<1>4. ~checks[1].fails /\ ~checks[2].fails /\ ~checks[3].fails
  <2> HIDE DEF checks
  <2> QED BY <1>3
<1> QED BY <1>4 DEF Check

LEMMA CheckedLog ==
    ASSUME NEW log, LogFault(log) = NoFault
    PROVE  /\ log.index # Unreadable /\ log.index \notin acc.seen
           /\ log.readable /\ ~(log.topics > 4) /\ log.dataReadable
           /\ ~(log.index \in Nat /\ log.index > MaxLogIndex)
<1> DEFINE checks == <<Check(log.index = Unreadable, "MalformedField"),
                 Check(log.index \in acc.seen, "DuplicateLogIndex"),
                 Check(~log.readable, "MalformedField"),
                 Check(log.topics > 4, "UnsupportedFeature"),
                 Check(~log.dataReadable, "MalformedField"),
                 Check(log.index \in Nat /\ log.index > MaxLogIndex, "UnsupportedFeature")>>
<1>1. FirstFault(checks) = NoFault
  BY DEF LogFault
<1>2. DOMAIN checks = 1 .. 6 /\ \A i \in 1 .. 6 : checks[i].fault # NoFault
  BY DEF Check, NoFault
<1>3. \A i \in 1 .. 6 : ~checks[i].fails
  <2> HIDE DEF checks
  <2> QED BY <1>1, <1>2, FirstFaultMeans
<1>4. /\ ~checks[1].fails /\ ~checks[2].fails /\ ~checks[3].fails
      /\ ~checks[4].fails /\ ~checks[5].fails /\ ~checks[6].fails
  <2> HIDE DEF checks
  <2> QED BY <1>3
<1> QED BY <1>4 DEF Check

LEMMA ContextIsAnAddress == ASSUME NEW it \in PendingCall PROVE ContextOf(it) \in Addresses
BY DEF ContextOf, PendingCall, Addresses

(* The call whose facts are gathered is the last one visited. *)
LEMMA ThisCall ==
    ASSUME Inv, stage \in InCall
    PROVE  /\ ThisIndex \in Nat /\ ThisIndex \in 0 .. Len(acc.calls) - 1
           /\ Len(acc.calls) \in Nat \ {0} /\ acc \in Accumulator
           /\ item \in PendingCall /\ item.node \in Nodes
           /\ stack \in Seq(PendingCall) /\ Decoded
<1>1. acc \in Accumulator /\ item \in PendingCall /\ stack \in Seq(PendingCall) /\ Decoded
  BY DEF Inv, TypeInv, InCall
<1>2. acc.calls # <<>> /\ acc.calls \in Seq(NormalizedCall)
  BY <1>1 DEF Inv, ParentInv, InCall, Accumulator
<1>3. Len(acc.calls) \in Nat \ {0}
  BY <1>2
<1> QED BY <1>1, <1>3 DEF ThisIndex, PendingCall

LEMMA NormalizeChangePreserves == ASSUME Inv, NormalizeChange PROVE Inv'
<1> DEFINE change == Raw(item.node).changes[nth]
           entry == [call |-> ThisIndex, contract |-> change.contract]
<1>0. /\ stage = "changes" /\ nth \in Nat \ {0} /\ nth' = nth + 1
      /\ UNCHANGED <<document, stack, item, callIds, logIds, arenaVars>>
  BY DEF NormalizeChange, Inv, TypeInv
<1>1. CASE ChangeFault(change) # NoFault /\ Fail(ChangeFault(change))
  BY <1>0, <1>1, FailingPreserves DEF Fail
<1>2. CASE /\ ChangeFault(change) = NoFault
           /\ acc' = [acc EXCEPT !.changes = Append(@, entry)]
           /\ UNCHANGED <<stage, failure>>
  <2>1. entry \in [call : Nat, contract : Addresses]
    BY <1>0, <1>2, ThisCall, CheckedChange, ContextIsAnAddress DEF InCall
  <2>2. entry.call \in 0 .. Len(acc.calls) - 1
    BY <1>0, ThisCall DEF InCall
  <2> HIDE DEF change, entry
  <2>3. acc' = [calls |-> acc.calls, changes |-> Append(acc.changes, entry), logs |-> acc.logs,
                transfers |-> acc.transfers, seen |-> acc.seen]
    BY <1>0, <1>2, ThisCall, Gathered DEF InCall
  <2>4. acc' \in Accumulator
    BY <1>0, <2>1, <2>3, ThisCall DEF InCall, Accumulator
  <2>5. acc.changes \in Seq([call : Nat, contract : Addresses])
    BY <1>0, ThisCall DEF InCall, Accumulator
  <2>6. FactInv'
    <3>1. \A k \in 1 .. Len(acc'.changes) : acc'.changes[k].call \in 0 .. Len(acc.calls) - 1
      BY <1>0, <2>1, <2>2, <2>3, <2>5 DEF Inv, FactInv
    <3> QED BY <1>0, <2>3, <3>1 DEF Inv, FactInv
  <2>7. ParentInv'
    BY <1>0, <1>2, <2>3 DEF Inv, ParentInv
  <2> QED BY <1>0, <1>2, <2>4, <2>6, <2>7, ThisCall, WalkStep DEF InCall
<1> QED BY <1>1, <1>2 DEF NormalizeChange

LEMMA LoopEndPreserves == ASSUME Inv, ChangesDone \/ WalkDone PROVE Inv'
<1>1. /\ stage \in {"changes", "walk"} /\ stage' \in {"logs", "add_calls"} /\ nth' = 1
      /\ UNCHANGED <<document, walkVars, callIds, logIds, failure, arenaVars>>
      /\ stage' = "logs" => stage = "changes"
  BY DEF ChangesDone, WalkDone
<1>2. /\ stack \in Seq(PendingCall) /\ acc \in Accumulator
      /\ stage = "changes" => item \in PendingCall
  BY <1>1 DEF Inv, TypeInv, InCall
<1>3. acc.calls # <<>> \/ stack # <<>>
  BY <1>1 DEF Inv, ParentInv
<1>4. stage = "walk" => stack = <<>>
  BY DEF ChangesDone, WalkDone
<1>5. acc.calls # <<>>
  BY <1>1, <1>3, <1>4 DEF Inv, ParentInv
<1>6. ParentInv' /\ FactInv'
  BY <1>1, <1>5 DEF Inv, ParentInv, FactInv, walkVars
<1> QED BY <1>1, <1>2, <1>6, WalkStep DEF InCall, walkVars

LEMMA NormalizeLogPreserves == ASSUME Inv, NormalizeLog PROVE Inv'
<1> DEFINE log == Raw(item.node).logs[nth]
           decoded == IF DecodesTransfer(log) THEN Append(acc.transfers, TransferPosition)
                      ELSE acc.transfers
<1>0. /\ stage = "logs" /\ nth \in Nat \ {0} /\ nth' = nth + 1
      /\ nth <= Len(Raw(item.node).logs)
      /\ UNCHANGED <<document, stack, item, callIds, logIds, arenaVars>>
  BY DEF NormalizeLog, Inv, TypeInv
<1>1. CASE LogFault(log) # NoFault /\ Fail(LogFault(log))
  BY <1>0, <1>1, FailingPreserves DEF Fail
<1>2. CASE /\ LogFault(log) = NoFault
           /\ acc' = [acc EXCEPT !.logs = Append(@, ThisIndex), !.transfers = decoded,
                                 !.seen = @ \union {log.index}]
           /\ UNCHANGED <<stage, failure>>
  <2>1. /\ ThisIndex \in Nat /\ ThisIndex \in 0 .. Len(acc.calls) - 1
        /\ Len(acc.calls) \in Nat \ {0} /\ acc \in Accumulator /\ item.node \in Nodes
    BY <1>0, ThisCall DEF InCall
  <2>2. /\ acc.logs \in Seq(Nat) /\ acc.transfers \in Seq(Nat) /\ acc.seen \in SUBSET Indices
        /\ Len(acc.logs) \in Nat
    BY <2>1 DEF Accumulator
  <2>3. log.index \in Indices
    <3>0. Decoded
      BY <1>0, ThisCall DEF InCall
    <3>1. nth \in 1 .. Len(Raw(item.node).logs)
      <4> HIDE DEF log, decoded
      <4> QED BY <1>0, <2>1, <3>0 DEF Decoded
    <3> QED BY <2>1, <3>1 DEF Indices
  <2>4. /\ decoded \in Seq(Nat)
        /\ \A k \in 1 .. Len(decoded) : decoded[k] \in 0 .. Len(acc.logs)
    <3>1. \A k \in 1 .. Len(acc.transfers) : acc.transfers[k] \in 0 .. Len(acc.logs) - 1
      BY <1>0 DEF Inv, FactInv
    <3>2. CASE decoded = acc.transfers
      <4> HIDE DEF decoded
      <4> QED BY <2>2, <3>1, <3>2
    <3>3. CASE decoded = Append(acc.transfers, Len(acc.logs))
      <4> HIDE DEF decoded
      <4>1. decoded \in Seq(Nat) /\ Len(decoded) = Len(acc.transfers) + 1
        BY <2>2, <3>3
      <4>2. \A k \in 1 .. Len(acc.transfers) : decoded[k] = acc.transfers[k]
        BY <2>2, <3>3
      <4>3. decoded[Len(acc.transfers) + 1] = Len(acc.logs)
        BY <2>2, <3>3
      <4>4. ASSUME NEW k \in 1 .. Len(decoded) PROVE decoded[k] \in 0 .. Len(acc.logs)
        <5>1. CASE k = Len(acc.transfers) + 1
          BY <2>2, <4>3, <5>1
        <5>2. CASE k \in 1 .. Len(acc.transfers)
          <6>1. decoded[k] \in 0 .. Len(acc.logs) - 1
            BY <3>1, <4>2, <5>2
          <6> QED BY <2>2, <6>1
        <5> QED BY <2>2, <4>1, <5>1, <5>2
      <4> QED BY <4>1, <4>4
    <3>4. decoded = acc.transfers \/ decoded = Append(acc.transfers, Len(acc.logs))
      BY DEF TransferPosition
    <3> HIDE DEF decoded
    <3> QED BY <3>2, <3>3, <3>4
  <2> HIDE DEF log, decoded
  <2>5. /\ acc'.calls = acc.calls /\ acc'.changes = acc.changes
        /\ acc'.logs = Append(acc.logs, ThisIndex) /\ acc'.transfers = decoded
        /\ acc' \in Accumulator
    <3> DEFINE x == Append(acc.logs, ThisIndex)
               z == acc.seen \union {log.index}
    <3>1. acc' = LogGathered(x, decoded, z)
      BY <1>2 DEF LogGathered
    <3>2. x \in Seq(Nat) /\ decoded \in Seq(Nat) /\ z \in SUBSET Indices
      BY <2>1, <2>2, <2>3, <2>4
    <3> HIDE DEF x, z
    <3>3. acc'.calls = acc.calls /\ acc'.changes = acc.changes /\ acc'.logs = x /\ acc'.transfers = decoded
      BY <2>1, <3>1, GatheredLog
    <3>4. LogGathered(x, decoded, z) \in Accumulator
      BY <2>1, <3>2, GatheredLog
    <3>5. acc' \in Accumulator
      BY <3>1, <3>4
    <3> QED BY <3>3, <3>5 DEF x
  <2>7. FactInv'
    <3>1. \A k \in 1 .. Len(acc'.logs) : acc'.logs[k] \in 0 .. Len(acc.calls) - 1
      <4>1. \A k \in 1 .. Len(acc.logs) : acc.logs[k] \in 0 .. Len(acc.calls) - 1
        BY <1>0 DEF Inv, FactInv
      <4>2. /\ Len(acc'.logs) = Len(acc.logs) + 1 /\ acc'.logs[Len(acc.logs) + 1] = ThisIndex
            /\ \A k \in 1 .. Len(acc.logs) : acc'.logs[k] = acc.logs[k]
        BY <2>1, <2>2, <2>5
      <4>3. \A k \in 1 .. Len(acc'.logs) : k \in 1 .. Len(acc.logs) \/ k = Len(acc.logs) + 1
        BY <2>2, <4>2
      <4> QED BY <2>1, <4>1, <4>2, <4>3
    <3>2. \A k \in 1 .. Len(acc'.transfers) : acc'.transfers[k] \in 0 .. Len(acc'.logs) - 1
      <4>1. acc'.transfers = decoded /\ acc'.logs = Append(acc.logs, ThisIndex)
        BY <2>5
      <4>2. Len(acc'.logs) - 1 = Len(acc.logs)
        BY <2>1, <2>2, <4>1
      <4> QED BY <2>4, <4>1, <4>2
    <3> QED BY <1>0, <2>5, <3>1, <3>2 DEF Inv, FactInv
  <2>8. ParentInv'
    BY <1>0, <1>2, <2>5 DEF Inv, ParentInv
  <2> QED BY <1>0, <1>2, <2>5, <2>7, <2>8, ThisCall, WalkStep DEF InCall
<1> QED BY <1>1, <1>2 DEF NormalizeLog

LEMMA PushChildrenPreserves == ASSUME Inv, PushChildren PROVE Inv'
<1> DEFINE nested == Raw(item.node).calls
           Child(n) == Pending(n, ThisIndex, item.depth + 1, ContextOf(item))
           pushed == Reverse([i \in 1 .. Len(nested) |-> Child(nested[i])])
<1>1. /\ stage = "logs" /\ stage' = "walk" /\ nth' = 1 /\ stack' = stack \o pushed
      /\ UNCHANGED <<document, item, acc, callIds, logIds, failure, arenaVars>>
  BY DEF PushChildren
<1>2. /\ ThisIndex \in 0 .. Len(acc.calls) - 1 /\ Len(acc.calls) \in Nat \ {0}
      /\ acc \in Accumulator /\ stack \in Seq(PendingCall) /\ item \in PendingCall
      /\ nested \in Seq(Nodes)
  BY <1>1, ThisCall DEF InCall, Decoded
<1>3. \A n \in Nodes : Child(n) \in PendingCall /\ Child(n).parent = ThisIndex
  BY <1>2, ContextIsAnAddress DEF Pending, PendingCall, Parents
<1>4. /\ Len(pushed) = Len(nested)
      /\ \A k \in 1 .. Len(pushed) : pushed[k] = Child(nested[Len(nested) - k + 1])
  <2> HIDE DEF Child
  <2> QED BY <1>2 DEF Reverse
<1>5. \A k \in 1 .. Len(pushed) : pushed[k] \in PendingCall /\ pushed[k].parent = ThisIndex
  <2>1. ASSUME NEW k \in 1 .. Len(pushed)
        PROVE  nested[Len(nested) - k + 1] \in Nodes
    <3> HIDE DEF Child, pushed
    <3> QED BY <1>2, <1>4
  <2> HIDE DEF Child, pushed
  <2> QED BY <1>3, <1>4, <2>1
<1>6. pushed \in Seq(PendingCall)
  <2> DEFINE Kid(k) == Child(nested[Len(nested) - k + 1])
  <2>1. pushed = [k \in 1 .. Len(nested) |-> Kid(k)]
    <3> HIDE DEF Child
    <3> QED BY <1>2 DEF Reverse
  <2>2. \A k \in 1 .. Len(nested) : Kid(k) \in PendingCall
    <3> HIDE DEF Child
    <3> QED BY <1>2, <1>3
  <2> HIDE DEF Kid, pushed
  <2> QED BY <1>2, <2>1, <2>2
<1> HIDE DEF nested, Child, pushed
<1>7. stack' \in Seq(PendingCall)
  BY <1>1, <1>2, <1>6
<1>8. ParentInv'
  <2>1. \A k \in 1 .. Len(stack) : stack[k].parent \in 0 .. Len(acc.calls) - 1
    BY <1>1, <1>2 DEF Inv, ParentInv
  <2>2. \A k \in 1 .. Len(stack') : stack'[k].parent \in 0 .. Len(acc.calls) - 1
    <3>1. /\ Len(stack') = Len(stack) + Len(pushed) /\ Len(stack) \in Nat /\ Len(pushed) \in Nat
          /\ \A k \in 1 .. Len(stack) : stack'[k] = stack[k]
          /\ \A k \in Len(stack) + 1 .. Len(stack') : stack'[k] = pushed[k - Len(stack)]
      BY <1>1, <1>2, <1>6
    <3>2. ASSUME NEW k \in Len(stack) + 1 .. Len(stack')
          PROVE  stack'[k].parent = ThisIndex
      BY <1>5, <3>1
    <3>3. \A k \in 1 .. Len(stack') : k \in 1 .. Len(stack) \/ k \in Len(stack) + 1 .. Len(stack')
      BY <3>1
    <3> QED BY <1>2, <2>1, <3>1, <3>2, <3>3
  <2>3. acc.calls # <<>>
    BY <1>2
  <2> QED BY <1>1, <2>2, <2>3 DEF Inv, ParentInv
<1>9. FactInv'
  BY <1>1 DEF Inv, FactInv
<1> QED BY <1>1, <1>2, <1>7, <1>8, <1>9, WalkStep DEF InCall

-----------------------------------------------------------------------------
(* Inv is inductive: handing over to the builder, whose steps these are.   *)

LEMMA HandingStep ==
    ASSUME Inv, stage \in Adding \union {"arena"}, UNCHANGED <<document, walkVars>>,
           stage' \in Adding \union {"arena", "ingested"}, nth' \in Nat \ {0},
           [Arena!Next]_(Arena!vars), LoopInv', Copied', PhaseInv'
    PROVE  Inv'
<1>1. /\ stage \notin {"load", "failed", "walk"} /\ stage' \notin {"load", "failed", "walk"}
      /\ stage \notin InCall /\ stage' \notin InCall /\ stage' \in Stages
  BY DEF InCall, Stages, Adding
<1>2. TypeInv'
  BY <1>1, SameDocument DEF Inv, TypeInv, walkVars
<1>3. ParentInv' /\ FactInv'
  BY <1>1 DEF Inv, ParentInv, FactInv, walkVars
<1>4. AP!IInv'
  BY BuilderSteps DEF Inv
<1> QED BY <1>1, <1>2, <1>3, <1>4 DEF Inv, BuildInv

(* What the loops find: lists, and ids that are positions. *)
LEMMA Lists ==
    ASSUME Inv, stage \in Adding \union {"arena", "ingested"}
    PROVE  /\ acc.calls \in Seq(NormalizedCall) /\ acc.logs \in Seq(Nat)
           /\ acc.changes \in Seq([call : Nat, contract : Addresses])
           /\ acc.transfers \in Seq(Nat)
           /\ Len(arenaCalls) \in Nat /\ Len(arenaChanges) \in Nat
           /\ Len(arenaLogs) \in Nat /\ Len(arenaTransfers) \in Nat
           /\ arenaCalls \in Seq(AP!Call) /\ arenaChanges \in Seq(Nat)
           /\ arenaLogs \in Seq(AP!Log) /\ arenaTransfers \in Seq(Nat)
           /\ \A k \in 1 .. Len(arenaCalls) : callIds[k] = k - 1
           /\ \A k \in 1 .. Len(arenaLogs) : logIds[k] = k - 1
           /\ LoopInv /\ Copied
           /\ acc.calls # <<>>
           /\ \A k \in 1 .. Len(acc.calls) :
                IF k = 1 THEN acc.calls[k].parent = NoCall
                ELSE acc.calls[k].parent \in 0 .. k - 2
<1>1. stage \notin {"load", "failed", "walk"}
  BY DEF Adding
<1>2. acc \in Accumulator
  BY <1>1 DEF Inv, TypeInv
<1>3. /\ arenaCalls \in Seq(AP!Call) /\ arenaChanges \in Seq(Nat)
      /\ arenaLogs \in Seq(AP!Log) /\ arenaTransfers \in Seq(Nat)
  BY DEF Inv, AP!IInv, AP!TypeOK
<1>4. LoopInv /\ Copied
  BY <1>1 DEF Inv, BuildInv
<1>5. /\ \A k \in 1 .. Len(arenaCalls) : callIds[k] = k - 1
      /\ \A k \in 1 .. Len(arenaLogs) : logIds[k] = k - 1
  BY <1>3, <1>4 DEF Copied
<1>6. /\ acc.calls # <<>>
      /\ \A k \in 1 .. Len(acc.calls) :
            IF k = 1 THEN acc.calls[k].parent = NoCall
            ELSE acc.calls[k].parent \in 0 .. k - 2
  BY <1>1 DEF Inv, ParentInv
<1> QED BY <1>2, <1>3, <1>4, <1>5, <1>6 DEF Accumulator

LEMMA AddCallHands ==
    ASSUME Inv, AddCall
    PROVE  [Arena!Next]_(Arena!vars) /\ Inv'
<1> DEFINE nc == acc.calls[nth]
           parent == IF nc.parent = NoCall THEN NoCall ELSE callIds[nc.parent + 1]
           call == [id |-> Len(arenaCalls), depth |-> nc.depth, parent |-> parent]
<1>0. /\ stage = "add_calls" /\ nth' = nth + 1 /\ nth <= Len(acc.calls)
      /\ UNCHANGED <<document, walkVars, logIds, arenaChanges, arenaLogs, arenaTransfers,
                     arenaPhase, arenaCursor, arenaError>>
      /\ arenaPhase = "open" /\ nth \in Nat \ {0}
  BY DEF AddCall, Inv, PhaseInv, TypeInv
<1>1. CASE Fail("TraceConstruction") /\ UNCHANGED <<arenaCalls, callIds>>
  <2>1. UNCHANGED arenaVars
    BY <1>0, <1>1 DEF arenaVars
  <2>2. Inv'
    BY <1>0, <1>1, <2>1, FailingPreserves DEF Fail
  <2> QED BY <2>1, <2>2 DEF arenaVars, Arena!vars
<1>2. CASE /\ arenaCalls' = Append(arenaCalls, call)
           /\ callIds' = Append(callIds, Len(arenaCalls))
           /\ UNCHANGED <<stage, failure>>
  <2>1. /\ acc.calls \in Seq(NormalizedCall) /\ Len(acc.calls) \in Nat
        /\ Len(arenaCalls) \in Nat /\ nth = Len(arenaCalls) + 1 /\ LoopInv /\ Copied
        /\ nth \in 1 .. Len(acc.calls) /\ arenaCalls \in Seq(AP!Call)
        /\ Len(arenaCalls) + 1 <= Len(acc.calls)
    BY <1>0, Lists, SMTT(30) DEF Adding, LoopInv
  <2>2. nc \in NormalizedCall
    BY <2>1
  <2>3. parent = nc.parent /\ parent \in 0 .. Len(arenaCalls) \union {NoCall}
    <3>1. IF nth = 1 THEN nc.parent = NoCall ELSE nc.parent \in 0 .. nth - 2
      BY <1>0, <2>1, Lists DEF Adding
    <3>2. CASE nth = 1
      BY <3>1, <3>2
    <3>3. CASE nth # 1
      <4>1. nc.parent \in Nat /\ nc.parent + 1 \in 1 .. Len(arenaCalls)
        BY <2>1, <3>1, <3>3
      <4>2. callIds[nc.parent + 1] = nc.parent + 1 - 1
        BY <1>0, <4>1, Lists, SMTT(30) DEF Adding
      <4> QED BY <4>1, <4>2, NoCallIsNoPosition
    <3> QED BY <3>2, <3>3
  <2>4. nc.depth \in 0 .. DepthModulus - 1
    BY <2>2, DepthFits DEF NormalizedCall
  <2> HIDE DEF nc, parent
  <2>5. Arena!AddCall
    <3>1. Arena!Open
      <4>1. Arena!Size \in Nat
        BY <1>0, Lists DEF Adding, Arena!Size
      <4> QED BY <1>0, <4>1 DEF Arena!Open
    <3>2. /\ Len(arenaCalls) \in Arena!Issued(arenaCalls) /\ nc.depth \in Arena!Depths
          /\ parent \in Arena!Issued(arenaCalls) \union {} \union {NoCall}
      BY <2>1, <2>3, <2>4 DEF Arena!Issued, Arena!Depths
    <3>3. arenaCalls' = Append(arenaCalls,
                          [id |-> Len(arenaCalls), parent |-> parent, depth |-> nc.depth])
      BY <1>2
    <3> QED BY <1>0, <3>1, <3>2, <3>3 DEF Arena!AddCall
  <2>6. [Arena!Next]_(Arena!vars)
    BY <2>5 DEF Arena!Next
  <2>7. LoopInv'
    <3>1. Len(arenaCalls') = Len(arenaCalls) + 1
      BY <1>2, <2>1
    <3>2. nth' = Len(arenaCalls') + 1 /\ nth' <= Len(acc'.calls) + 1
      BY <1>0, <2>1, <3>1 DEF walkVars
    <3> QED BY <1>0, <1>2, <2>1, <3>2
            DEF LoopInv, walkVars, PastCalls, PastChanges, PastLogs, PastTransfers
  <2>8. Copied'
    <3> DEFINE CallAt(k) == [id |-> k - 1, depth |-> acc.calls[k].depth,
                             parent |-> acc.calls[k].parent]
    <3>1. /\ arenaCalls = [k \in 1 .. Len(arenaCalls) |-> CallAt(k)]
          /\ callIds = [k \in 1 .. Len(arenaCalls) |-> k - 1]
      BY <2>1 DEF Copied
    <3>2. call = CallAt(Len(arenaCalls) + 1)
      BY <2>1, <2>3 DEF nc
    <3> HIDE DEF CallAt, call
    <3>3. arenaCalls' = [k \in 1 .. Len(arenaCalls) + 1 |-> CallAt(k)]
      BY <1>2, <2>1, <3>1, <3>2
    <3>4. callIds' = [k \in 1 .. Len(arenaCalls) + 1 |-> k - 1]
      BY <1>2, <2>1, <3>1
    <3>5. Len(arenaCalls') = Len(arenaCalls) + 1
      BY <1>2, <2>1
    <3> QED BY <1>0, <2>1, <3>3, <3>4, <3>5 DEF Copied, CallAt, walkVars
  <2>9. PhaseInv'
    BY <1>0, <1>2 DEF PhaseInv
  <2> QED BY <1>0, <1>2, <2>6, <2>7, <2>8, <2>9, HandingStep DEF Adding
<1> QED BY <1>1, <1>2 DEF AddCall

LEMMA AddStorageChangeHands ==
    ASSUME Inv, AddStorageChange
    PROVE  Arena!AddStorageChange /\ Inv'
<1> DEFINE call == callIds[acc.changes[nth].call + 1]
<1>0. /\ stage = "add_changes" /\ nth' = nth + 1 /\ nth <= Len(acc.changes)
      /\ arenaChanges' = Append(arenaChanges, call)
      /\ UNCHANGED <<document, stage, walkVars, callIds, logIds, failure, arenaCalls,
                     arenaLogs, arenaTransfers, arenaPhase, arenaCursor, arenaError>>
      /\ arenaPhase = "open" /\ nth \in Nat \ {0}
  BY DEF AddStorageChange, Inv, PhaseInv, TypeInv
<1>1. /\ acc.changes \in Seq([call : Nat, contract : Addresses]) /\ Len(acc.changes) \in Nat
      /\ Len(arenaChanges) \in Nat /\ nth = Len(arenaChanges) + 1 /\ LoopInv /\ Copied
      /\ nth \in 1 .. Len(acc.changes) /\ arenaChanges \in Seq(Nat)
      /\ Len(arenaCalls) = Len(acc.calls) /\ Len(arenaCalls) \in Nat
  BY <1>0, Lists DEF Adding, LoopInv, PastCalls
<1>2. call = acc.changes[nth].call /\ call \in 0 .. Len(arenaCalls)
  <2>1. acc.changes[nth].call \in 0 .. Len(arenaCalls) - 1
    BY <1>0, <1>1 DEF Inv, FactInv
  <2>a. Len(arenaCalls) \in Nat
    BY <1>1
  <2>2. acc.changes[nth].call \in Nat /\ acc.changes[nth].call + 1 \in 1 .. Len(arenaCalls)
    BY <2>1, <2>a
  <2>3. callIds[acc.changes[nth].call + 1] = acc.changes[nth].call
    <3> DEFINE at == acc.changes[nth].call + 1
    <3>1. at \in 1 .. Len(arenaCalls) /\ at - 1 = acc.changes[nth].call
      BY <2>2
    <3>2. callIds[at] = at - 1
      <4> HIDE DEF at
      <4> QED BY <1>0, <3>1, Lists DEF Adding
    <3> HIDE DEF at
    <3>3. callIds[at] = acc.changes[nth].call
      BY <3>1, <3>2
    <3> QED BY <3>3 DEF at
  <2> QED BY <1>1, <2>1, <2>2, <2>3
<1> HIDE DEF call
<1>3. Arena!AddStorageChange
  <2>1. Arena!Size \in Nat
    BY <1>0, Lists DEF Adding, Arena!Size
  <2>2. call \in Arena!Issued(arenaCalls) \union {}
    BY <1>2 DEF Arena!Issued
  <2> QED BY <1>0, <2>1, <2>2 DEF Arena!AddStorageChange, Arena!Open
<1>4. Len(arenaChanges') = Len(arenaChanges) + 1
  BY <1>0, <1>1
<1>5. LoopInv'
  <2>1. nth' = Len(arenaChanges') + 1 /\ nth' <= Len(acc'.changes) + 1
    BY <1>0, <1>1, <1>4 DEF walkVars
  <2> QED BY <1>0, <1>1, <2>1
          DEF LoopInv, walkVars, PastCalls, PastChanges, PastLogs, PastTransfers
<1>6. Copied'
  <2>1. arenaChanges = [k \in 1 .. Len(arenaChanges) |-> acc.changes[k].call]
    BY <1>1 DEF Copied
  <2>2. arenaChanges' = [k \in 1 .. Len(arenaChanges) + 1 |-> acc.changes[k].call]
    BY <1>0, <1>1, <1>2, <2>1, SMTT(30)
  <2> QED BY <1>0, <1>1, <1>4, <2>2 DEF Copied, walkVars
<1>7. PhaseInv'
  BY <1>0 DEF PhaseInv
<1>8. [Arena!Next]_(Arena!vars)
  BY <1>3 DEF Arena!Next
<1> QED BY <1>0, <1>3, <1>5, <1>6, <1>7, <1>8, HandingStep DEF Adding

LEMMA AddLogHands ==
    ASSUME Inv, AddLog
    PROVE  Arena!AddLog /\ Inv'
<1> DEFINE call == callIds[acc.logs[nth] + 1]
           log == [id |-> Len(arenaLogs), call |-> call]
<1>0. /\ stage = "add_logs" /\ nth' = nth + 1 /\ nth <= Len(acc.logs)
      /\ arenaLogs' = Append(arenaLogs, log) /\ logIds' = Append(logIds, Len(arenaLogs))
      /\ UNCHANGED <<document, stage, walkVars, callIds, failure, arenaCalls,
                     arenaChanges, arenaTransfers, arenaPhase, arenaCursor, arenaError>>
      /\ arenaPhase = "open" /\ nth \in Nat \ {0}
  BY DEF AddLog, Inv, PhaseInv, TypeInv
<1>1. /\ acc.logs \in Seq(Nat) /\ Len(acc.logs) \in Nat
      /\ Len(arenaLogs) \in Nat /\ nth = Len(arenaLogs) + 1 /\ LoopInv /\ Copied
      /\ nth \in 1 .. Len(acc.logs) /\ arenaLogs \in Seq(AP!Log)
      /\ Len(arenaCalls) = Len(acc.calls) /\ Len(arenaCalls) \in Nat
  BY <1>0, Lists, SMTT(30) DEF Adding, LoopInv, PastCalls, PastChanges
<1>2. call = acc.logs[nth] /\ call \in 0 .. Len(arenaCalls)
  <2>1. acc.logs[nth] \in 0 .. Len(arenaCalls) - 1
    BY <1>0, <1>1 DEF Inv, FactInv
  <2>2. acc.logs[nth] \in Nat /\ acc.logs[nth] + 1 \in 1 .. Len(arenaCalls)
    BY <1>1, <2>1
  <2>3. callIds[acc.logs[nth] + 1] = acc.logs[nth]
    <3> DEFINE at == acc.logs[nth] + 1
    <3>1. at \in 1 .. Len(arenaCalls) /\ at - 1 = acc.logs[nth]
      BY <2>2
    <3>2. callIds[at] = at - 1
      <4> HIDE DEF at
      <4> QED BY <1>0, <3>1, Lists DEF Adding
    <3> HIDE DEF at
    <3>3. callIds[at] = acc.logs[nth]
      BY <3>1, <3>2
    <3> QED BY <3>3 DEF at
  <2> QED BY <1>1, <2>1, <2>2, <2>3
<1> HIDE DEF call
<1>3. Arena!AddLog
  <2>1. Arena!Size \in Nat
    BY <1>0, Lists DEF Adding, Arena!Size
  <2>2. Len(arenaLogs) \in Arena!Issued(arenaLogs) /\ call \in Arena!Issued(arenaCalls) \union {}
    BY <1>1, <1>2 DEF Arena!Issued
  <2> QED BY <1>0, <2>1, <2>2 DEF Arena!AddLog, Arena!Open
<1>4. Len(arenaLogs') = Len(arenaLogs) + 1
  BY <1>0, <1>1
<1>5. LoopInv'
  <2>1. nth' = Len(arenaLogs') + 1 /\ nth' <= Len(acc'.logs) + 1
    BY <1>0, <1>1, <1>4 DEF walkVars
  <2> QED BY <1>0, <1>1, <2>1
          DEF LoopInv, walkVars, PastCalls, PastChanges, PastLogs, PastTransfers
<1>6. Copied'
  <2> DEFINE LogAt(k) == [id |-> k - 1, call |-> acc.logs[k]]
  <2>1. /\ arenaLogs = [k \in 1 .. Len(arenaLogs) |-> LogAt(k)]
        /\ logIds = [k \in 1 .. Len(arenaLogs) |-> k - 1]
    BY <1>1 DEF Copied
  <2>2. log = LogAt(Len(arenaLogs) + 1)
    BY <1>1, <1>2
  <2> HIDE DEF LogAt, log
  <2>3. arenaLogs' = [k \in 1 .. Len(arenaLogs) + 1 |-> LogAt(k)]
    BY <1>0, <1>1, <2>1, <2>2
  <2>4. logIds' = [k \in 1 .. Len(arenaLogs) + 1 |-> k - 1]
    BY <1>0, <1>1, <2>1
  <2> QED BY <1>0, <1>1, <1>4, <2>3, <2>4 DEF Copied, LogAt, walkVars
<1>7. PhaseInv'
  BY <1>0 DEF PhaseInv
<1>8. [Arena!Next]_(Arena!vars)
  BY <1>3 DEF Arena!Next
<1> QED BY <1>0, <1>3, <1>5, <1>6, <1>7, <1>8, HandingStep DEF Adding

LEMMA AddTokenTransferHands ==
    ASSUME Inv, AddTokenTransfer
    PROVE  Arena!AddTokenTransfer /\ Inv'
<1> DEFINE log == logIds[acc.transfers[nth] + 1]
<1>0. /\ stage = "add_transfers" /\ nth' = nth + 1 /\ nth <= Len(acc.transfers)
      /\ arenaTransfers' = Append(arenaTransfers, log)
      /\ UNCHANGED <<document, stage, walkVars, callIds, logIds, failure, arenaCalls,
                     arenaChanges, arenaLogs, arenaPhase, arenaCursor, arenaError>>
      /\ arenaPhase = "open" /\ nth \in Nat \ {0}
  BY DEF AddTokenTransfer, Inv, PhaseInv, TypeInv
<1>1. /\ acc.transfers \in Seq(Nat) /\ Len(acc.transfers) \in Nat
      /\ Len(arenaTransfers) \in Nat /\ nth = Len(arenaTransfers) + 1 /\ LoopInv /\ Copied
      /\ nth \in 1 .. Len(acc.transfers) /\ arenaTransfers \in Seq(Nat)
      /\ Len(arenaLogs) = Len(acc.logs) /\ Len(arenaLogs) \in Nat
  BY <1>0, Lists DEF Adding, LoopInv, PastLogs
<1>2. log = acc.transfers[nth] /\ log \in 0 .. Len(arenaLogs)
  <2>1. acc.transfers[nth] \in 0 .. Len(arenaLogs) - 1
    BY <1>0, <1>1 DEF Inv, FactInv
  <2>2. acc.transfers[nth] \in Nat /\ acc.transfers[nth] + 1 \in 1 .. Len(arenaLogs)
    BY <1>1, <2>1
  <2>3. logIds[acc.transfers[nth] + 1] = acc.transfers[nth]
    <3> DEFINE at == acc.transfers[nth] + 1
    <3>1. at \in 1 .. Len(arenaLogs) /\ at - 1 = acc.transfers[nth]
      BY <2>2
    <3>2. logIds[at] = at - 1
      <4> HIDE DEF at
      <4> QED BY <1>0, <3>1, Lists DEF Adding
    <3> HIDE DEF at
    <3>3. logIds[at] = acc.transfers[nth]
      BY <3>1, <3>2
    <3> QED BY <3>3 DEF at
  <2> QED BY <1>1, <2>1, <2>2, <2>3
<1> HIDE DEF log
<1>3. Arena!AddTokenTransfer
  <2>1. Arena!Size \in Nat
    BY <1>0, Lists DEF Adding, Arena!Size
  <2>2. log \in Arena!Issued(arenaLogs) \union {}
    BY <1>2 DEF Arena!Issued
  <2> QED BY <1>0, <2>1, <2>2 DEF Arena!AddTokenTransfer, Arena!Open
<1>4. Len(arenaTransfers') = Len(arenaTransfers) + 1
  BY <1>0, <1>1
<1>5. LoopInv'
  <2>1. nth' = Len(arenaTransfers') + 1 /\ nth' <= Len(acc'.transfers) + 1
    BY <1>0, <1>1, <1>4 DEF walkVars
  <2> QED BY <1>0, <1>1, <2>1
          DEF LoopInv, walkVars, PastCalls, PastChanges, PastLogs, PastTransfers
<1>6. Copied'
  <2>1. arenaTransfers = [k \in 1 .. Len(arenaTransfers) |-> acc.transfers[k]]
    BY <1>1 DEF Copied
  <2>2. arenaTransfers' = [k \in 1 .. Len(arenaTransfers) + 1 |-> acc.transfers[k]]
    BY <1>0, <1>1, <1>2, <2>1, SMTT(30)
  <2> QED BY <1>0, <1>1, <1>4, <2>2 DEF Copied, walkVars
<1>7. PhaseInv'
  BY <1>0 DEF PhaseInv
<1>8. [Arena!Next]_(Arena!vars)
  BY <1>3 DEF Arena!Next
<1> QED BY <1>0, <1>3, <1>5, <1>6, <1>7, <1>8, HandingStep DEF Adding

LEMMA NextListPreserves == ASSUME Inv, NextList PROVE Inv'
<1>1. /\ nth' = 1 /\ UNCHANGED <<document, walkVars, callIds, logIds, failure, arenaVars>>
      /\ \/ stage = "add_calls" /\ nth > Len(acc.calls) /\ stage' = "add_changes"
         \/ stage = "add_changes" /\ nth > Len(acc.changes) /\ stage' = "add_logs"
         \/ stage = "add_logs" /\ nth > Len(acc.logs) /\ stage' = "add_transfers"
         \/ stage = "add_transfers" /\ nth > Len(acc.transfers) /\ stage' = "arena"
  BY DEF NextList, Handed
<1>2. /\ Len(acc.calls) \in Nat /\ Len(acc.changes) \in Nat /\ Len(acc.logs) \in Nat
      /\ Len(acc.transfers) \in Nat /\ Len(arenaCalls) \in Nat /\ Len(arenaChanges) \in Nat
      /\ Len(arenaLogs) \in Nat /\ Len(arenaTransfers) \in Nat /\ LoopInv /\ Copied
  BY <1>1, Lists DEF Adding
<1>3. UNCHANGED <<acc, arenaCalls, arenaChanges, arenaLogs, arenaTransfers, callIds, logIds>>
  BY <1>1 DEF arenaVars, walkVars
<1>4. LoopInv'
  <2> USE DEF LoopInv, PastCalls, PastChanges, PastLogs, PastTransfers
  <2>1. CASE stage = "add_calls" /\ nth > Len(acc.calls) /\ stage' = "add_changes"
    BY <1>1, <1>2, <1>3, <2>1
  <2>2. CASE stage = "add_changes" /\ nth > Len(acc.changes) /\ stage' = "add_logs"
    BY <1>1, <1>2, <1>3, <2>2
  <2>3. CASE stage = "add_logs" /\ nth > Len(acc.logs) /\ stage' = "add_transfers"
    BY <1>1, <1>2, <1>3, <2>3
  <2>4. CASE stage = "add_transfers" /\ nth > Len(acc.transfers) /\ stage' = "arena"
    BY <1>1, <1>2, <1>3, <2>4
  <2> QED BY <1>1, <2>1, <2>2, <2>3, <2>4
<1>5. Copied'
  BY <1>2, <1>3 DEF Copied
<1>6. PhaseInv'
  BY <1>1 DEF Inv, PhaseInv, arenaVars
<1>7. UNCHANGED Arena!vars
  BY <1>1 DEF arenaVars, Arena!vars
<1> QED BY <1>1, <1>4, <1>5, <1>6, <1>7, HandingStep DEF Adding

LEMMA ValidateArenaPreserves ==
    ASSUME Inv, ValidateArena
    PROVE  [Arena!Next]_(Arena!vars) /\ Inv'
<1>1. /\ stage = "arena" /\ UNCHANGED <<document, stage, walkVars, nth, callIds, logIds, failure>>
      /\ Arena!Build \/ Arena!Examine \/ Arena!ReturnError \/ Arena!EndPass
      /\ nth \in Nat \ {0}
  BY DEF ValidateArena, Inv, TypeInv
<1>2. UNCHANGED <<arenaCalls, arenaChanges, arenaLogs, arenaTransfers>>
  BY <1>1 DEF Arena!Build, Arena!Examine, Arena!ReturnError, Arena!EndPass, Arena!facts
<1>3. LoopInv /\ Copied
  BY <1>1, Lists
<1>4. LoopInv'
  BY <1>1, <1>2, <1>3
     DEF LoopInv, walkVars, PastCalls, PastChanges, PastLogs, PastTransfers
<1>5. Copied'
  BY <1>1, <1>2, <1>3 DEF Copied, walkVars
<1>6. PhaseInv'
  BY <1>1 DEF PhaseInv
<1>7. Arena!Next
  BY <1>1 DEF Arena!Next
<1> QED BY <1>1, <1>4, <1>5, <1>6, <1>7, HandingStep DEF Adding

LEMMA ArenaReturnsPreserves == ASSUME Inv, ArenaReturns PROVE Inv'
<1>1. /\ stage = "arena" /\ UNCHANGED <<document, walkVars, nth, callIds, logIds, arenaVars>>
      /\ nth \in Nat \ {0}
  BY DEF ArenaReturns, Inv, TypeInv
<1>2. CASE arenaPhase = "built" /\ stage' = "ingested"
  <2>1. LoopInv /\ Copied
    BY <1>1, Lists
  <2>2. LoopInv'
    BY <1>1, <1>2, <2>1
       DEF LoopInv, walkVars, arenaVars, PastCalls, PastChanges, PastLogs, PastTransfers
  <2>3. Copied' /\ PhaseInv' /\ UNCHANGED Arena!vars
    BY <1>1, <1>2, <2>1 DEF Copied, PhaseInv, walkVars, arenaVars, Arena!vars
  <2> QED BY <1>1, <1>2, <2>2, <2>3, HandingStep DEF Adding
<1>3. CASE Fail("ArenaConstruction")
  BY <1>1, <1>3, FailingPreserves DEF Fail
<1> QED BY <1>2, <1>3 DEF ArenaReturns

LEMMA StutterPreserves == ASSUME Inv, UNCHANGED vars PROVE Inv'
<1> USE DEF vars, walkVars, arenaVars
<1>1. AP!IInv'
  BY BuilderSteps DEF Inv, Arena!vars
<1>2. TypeInv'
  <2>1. Unread => Unread'
    BY DEF Unread, Arena!Init, Root, Pending
  <2>2. DocumentInv => DocumentInv'
    BY DEF DocumentInv
  <2> QED BY <2>1, <2>2, SameDocument DEF Inv, TypeInv
<1>3. ParentInv' /\ FactInv' /\ PhaseInv'
  BY DEF Inv, ParentInv, FactInv, PhaseInv
<1>4. BuildInv'
  <2>1. LoopInv => LoopInv'
    BY DEF LoopInv, PastCalls, PastChanges, PastLogs, PastTransfers
  <2>2. Copied => Copied'
    BY DEF Copied
  <2> QED BY <2>1, <2>2 DEF Inv, BuildInv
<1> QED BY <1>1, <1>2, <1>3, <1>4 DEF Inv

(* A step of ingest() keeps Inv, and is a step of the builder or leaves it
   alone. *)
LEMMA StepCorrect ==
    ASSUME Inv, [Next]_vars PROVE [Arena!Next]_(Arena!vars) /\ Inv'
<1>1. CASE Load
  BY <1>1, LoadPreserves DEF Load, arenaVars, Arena!vars
<1>2. CASE VisitCall
  BY <1>2, VisitCallPreserves DEF VisitCall, arenaVars, Arena!vars
<1>3. CASE NormalizeChange
  BY <1>3, NormalizeChangePreserves DEF NormalizeChange, arenaVars, Arena!vars
<1>4. CASE ChangesDone \/ WalkDone
  BY <1>4, LoopEndPreserves DEF ChangesDone, WalkDone, arenaVars, Arena!vars
<1>5. CASE NormalizeLog
  BY <1>5, NormalizeLogPreserves DEF NormalizeLog, arenaVars, Arena!vars
<1>6. CASE PushChildren
  BY <1>6, PushChildrenPreserves DEF PushChildren, arenaVars, Arena!vars
<1>7. CASE AddCall
  BY <1>7, AddCallHands
<1>8. CASE AddStorageChange
  BY <1>8, AddStorageChangeHands DEF Arena!Next
<1>9. CASE AddLog
  BY <1>9, AddLogHands DEF Arena!Next
<1>10. CASE AddTokenTransfer
  BY <1>10, AddTokenTransferHands DEF Arena!Next
<1>11. CASE NextList
  BY <1>11, NextListPreserves DEF NextList, Handed, arenaVars, Arena!vars
<1>12. CASE ValidateArena
  BY <1>12, ValidateArenaPreserves
<1>13. CASE ArenaReturns
  BY <1>13, ArenaReturnsPreserves DEF ArenaReturns, arenaVars, Arena!vars
<1>14. CASE UNCHANGED vars
  BY <1>14, StutterPreserves DEF vars, arenaVars, Arena!vars
<1> QED
  BY <1>1, <1>2, <1>3, <1>4, <1>5, <1>6, <1>7, <1>8, <1>9, <1>10, <1>11, <1>12, <1>13, <1>14
     DEF Next, Returned

(* Wherever ingest() is, its loops and lists stand to each other and to the
   builder as Inv says: what the theorems below start from. *)
THEOREM Invariance == Spec => []Inv
<1>1. Inv /\ [Next]_vars => Inv'
  BY StepCorrect
<1>2. Init => Inv
  BY InitEstablishes, DocumentAssumption DEF Init, DocumentInv
<1> QED BY <1>1, <1>2, PTL DEF Spec

(* ingest() is a legal caller of FactArenaBuilder on documents of any number,
   size and shape: it refers to a fact only by an id that this builder handed
   out for it before, and stops adding once it builds. *)
THEOREM UsesBuilder == Spec => UsesTheBuilder
<1>1. Init => Arena!Init
  BY DEF Init, Unread
<1>2. Inv /\ [Next]_vars => [Arena!Next]_(Arena!vars)
  BY StepCorrect
<1> QED BY <1>1, <1>2, Invariance, PTL DEF Spec, UsesTheBuilder, Arena!Spec

-----------------------------------------------------------------------------
(* The plan: what the visited calls and those on the stack, in the order     *)
(* they will be visited, have to be to each other.                           *)

(* A call but the first is nested in one of the first n, and whatever stands
   between the two is nested in the same one, at whatever level. *)
Nested(list, n) ==
    \A k \in DOMAIN list \ {1} :
        /\ list[k].parent \in Nat /\ list[k].parent + 1 \in 1 .. n
        /\ list[k].parent + 1 < k
        /\ \A j \in list[k].parent + 2 .. k - 1 : list[j].parent >= list[k].parent

(* The depth of a call is one more than that of the call it is nested in. *)
Deepening(list) ==
    \A k \in DOMAIN list :
        list[k].depth = IF k = 1 THEN 0 ELSE list[list[k].parent + 1].depth + 1

(* For each of the first n, the calls that name it as their parent are those
   nested in it in the document, each of them once, in their order. *)
StandAt(at, list, k, nested) ==
    /\ \A i \in DOMAIN nested : /\ at[i] \in DOMAIN list \ {1}
                                /\ list[at[i]].node = nested[i]
                                /\ list[at[i]].parent = k - 1
    /\ \A i, j \in DOMAIN nested : i < j => at[i] < at[j]
    /\ \A j \in DOMAIN list \ {1} :
            list[j].parent = k - 1 => \E i \in DOMAIN nested : at[i] = j

ChildrenInOrder(list, n, raw) ==
    \A k \in 1 .. n : \E at : StandAt(at, list, k, raw[list[k].node].calls)

(* The calls visited, and those on the stack in the order they will be. *)
Planned ==
    [k \in 1 .. Len(acc.calls) + Len(stack) |->
        IF k <= Len(acc.calls) THEN acc.calls[k]
        ELSE [node |-> stack[Len(acc.calls) + Len(stack) + 1 - k].node,
              parent |-> stack[Len(acc.calls) + Len(stack) + 1 - k].parent,
              depth |-> stack[Len(acc.calls) + Len(stack) + 1 - k].depth]]

(* How many calls have had their children pushed. *)
Expanded == IF stage \in InCall THEN Len(acc.calls) - 1 ELSE Len(acc.calls)

PlanInv ==
    stage \notin {"load", "failed"} =>
        /\ Planned[1].node = 1
        /\ Nested(Planned, Expanded)
        /\ Deepening(Planned)
        /\ ChildrenInOrder(Planned, Expanded, document.calls)
        /\ stage \in InCall =>
             /\ Planned[Len(acc.calls)].node = item.node
             /\ Planned[Len(acc.calls)].parent = item.parent
             /\ Planned[Len(acc.calls)].depth = item.depth
        /\ stage \notin {"walk"} \union InCall => stack = <<>>

(* The children of the n-th call go where it ends and the next one begins. *)
LEMMA Insertion ==
    ASSUME NEW n \in Nat \ {0}, NEW m \in Nat, n <= m, NEW added \in Nat,
           NEW old, DOMAIN old = 1 .. m, NEW new, DOMAIN new = 1 .. m + added,
           NEW raw, DOMAIN raw[old[n].node].calls = 1 .. added,
           \A k \in 1 .. n : new[k] = old[k],
           \A k \in n + 1 .. m : new[k + added] = old[k],
           \A k \in 1 .. added : new[n + k].parent = n - 1,
           \A k \in 1 .. added : new[n + k].depth = old[n].depth + 1,
           \A k \in 1 .. added : new[n + k].node = raw[old[n].node].calls[k],
           Nested(old, n - 1), Deepening(old), ChildrenInOrder(old, n - 1, raw)
    PROVE  Nested(new, n) /\ Deepening(new) /\ ChildrenInOrder(new, n, raw)
<1>1. \A k \in 2 .. m :
        /\ old[k].parent \in Nat /\ old[k].parent + 1 \in 1 .. n - 1 /\ old[k].parent + 1 < k
        /\ \A j \in old[k].parent + 2 .. k - 1 : old[j].parent >= old[k].parent
  <2> TAKE k \in 2 .. m
  <2>1. k \in DOMAIN old \ {1}
    OBVIOUS
  <2> QED BY <2>1 DEF Nested
<1>2. \A k \in 1 .. m + added : \/ k \in 1 .. n
                                \/ k \in n + 1 .. n + added /\ k - n \in 1 .. added
                                \/ k \in n + added + 1 .. m + added /\ k - added \in n + 1 .. m
  OBVIOUS
<1>3. \A k \in n + 1 .. n + added :
        /\ new[k].parent = n - 1 /\ new[k].depth = old[n].depth + 1
        /\ new[k].node = raw[old[n].node].calls[k - n]
  <2> TAKE k \in n + 1 .. n + added
  <2>1. k - n \in 1 .. added /\ n + (k - n) = k
    OBVIOUS
  <2> QED BY <2>1
<1>4. \A k \in n + added + 1 .. m + added : k - added \in n + 1 .. m /\ new[k] = old[k - added]
  <2> TAKE k \in n + added + 1 .. m + added
  <2>1. k - added \in n + 1 .. m /\ (k - added) + added = k
    OBVIOUS
  <2> QED BY <2>1
<1>5. Nested(new, n)
  <2> SUFFICES ASSUME NEW k \in 2 .. m + added
               PROVE  /\ new[k].parent \in Nat /\ new[k].parent + 1 \in 1 .. n
                      /\ new[k].parent + 1 < k
                      /\ \A j \in new[k].parent + 2 .. k - 1 : new[j].parent >= new[k].parent
    BY DEF Nested
  <2>1. CASE k \in 1 .. n
    BY <1>1, <2>1
  <2>2. CASE k \in n + 1 .. n + added
    BY <1>3, <2>2, SMTT(30)
  <2>3. CASE k \in n + added + 1 .. m + added
    <3>1. /\ k - added \in 2 .. m /\ new[k].parent = old[k - added].parent
          /\ k - added \in n + 1 .. m
      BY <1>4, <2>3
    <3> DEFINE p == old[k - added].parent
    <3>2. /\ p \in Nat /\ p + 1 \in 1 .. n - 1 /\ p + 1 < k
          /\ \A j \in p + 2 .. (k - added) - 1 : old[j].parent >= p
      BY <1>1, <3>1
    <3> HIDE DEF p
    <3>3. ASSUME NEW j \in p + 2 .. k - 1 PROVE new[j].parent >= p
      <4>1. CASE j \in 1 .. n
        BY <3>1, <3>2, <4>1, SMTT(30)
      <4>2. CASE j \in n + 1 .. n + added
        BY <1>3, <3>2, <4>2
      <4>3. CASE j \in n + added + 1 .. m + added
        <5>1. j - added \in p + 2 .. (k - added) - 1
          BY <3>1, <3>2, <4>3, SMTT(30)
        <5> QED BY <1>4, <3>2, <4>3, <5>1
      <4> QED BY <1>2, <3>2, <4>1, <4>2, <4>3
    <3> QED BY <3>1, <3>2, <3>3 DEF p
  <2> QED BY <1>2, <2>1, <2>2, <2>3
<1>6. Deepening(new)
  <2> SUFFICES ASSUME NEW k \in 1 .. m + added
               PROVE  new[k].depth = IF k = 1 THEN 0 ELSE new[new[k].parent + 1].depth + 1
    BY DEF Deepening
  <2>0. \A i \in 1 .. m :
            old[i].depth = IF i = 1 THEN 0 ELSE old[old[i].parent + 1].depth + 1
    BY DEF Deepening
  <2>1. CASE k \in 1 .. n
    <3>1. k # 1 => old[k].parent + 1 \in 1 .. n
      BY <1>1, <2>1
    <3> QED BY <2>0, <2>1, <3>1
  <2>2. CASE k \in n + 1 .. n + added
    BY <1>3, <2>2
  <2>3. CASE k \in n + added + 1 .. m + added
    <3>1. k - added \in 2 .. m /\ new[k] = old[k - added] /\ k # 1
      BY <1>4, <2>3
    <3>2. old[k - added].parent + 1 \in 1 .. n
      BY <1>1, <3>1
    <3> QED BY <2>0, <3>1, <3>2, SMTT(30)
  <2> QED BY <1>2, <2>1, <2>2, <2>3
<1>7. ChildrenInOrder(new, n, raw)
  <2> DEFINE nested(list, k) == raw[list[k].node].calls
  <2>0. DOMAIN old \ {1} = 2 .. m /\ DOMAIN new \ {1} = 2 .. m + added
    OBVIOUS
  <2>1. ASSUME NEW k \in 1 .. n - 1 PROVE \E at : StandAt(at, new, k, nested(new, k))
    <3>1. new[k] = old[k]
      OBVIOUS
    <3> DEFINE kids == nested(old, k)
    <3>2. PICK at : StandAt(at, old, k, kids)
      BY DEF ChildrenInOrder
    <3> HIDE DEF nested, kids
    <3>3. /\ \A i \in DOMAIN kids : /\ at[i] \in 2 .. m
                                    /\ old[at[i]].node = kids[i]
                                    /\ old[at[i]].parent = k - 1
          /\ \A i, j \in DOMAIN kids : i < j => at[i] < at[j]
          /\ \A j \in 2 .. m : old[j].parent = k - 1 => \E i \in DOMAIN kids : at[i] = j
      BY <2>0, <3>2 DEF StandAt
    <3> DEFINE moved == [i \in DOMAIN kids |-> IF at[i] <= n THEN at[i] ELSE at[i] + added]
    <3>4. \A i \in DOMAIN kids : moved[i] \in 2 .. m + added /\ new[moved[i]] = old[at[i]]
      BY <3>3
    <3>5. \A i, j \in DOMAIN kids : i < j => moved[i] < moved[j]
      <4> SUFFICES ASSUME NEW i \in DOMAIN kids, NEW j \in DOMAIN kids, i < j
                   PROVE  moved[i] < moved[j]
        OBVIOUS
      <4>1. at[i] < at[j] /\ at[i] \in 2 .. m /\ at[j] \in 2 .. m
        BY <3>3
      <4> QED BY <4>1
    <3>6. ASSUME NEW j \in 2 .. m + added, new[j].parent = k - 1
          PROVE  \E i \in DOMAIN kids : moved[i] = j
      <4>1. CASE j \in 1 .. n
        <5>1. j \in 2 .. m /\ old[j].parent = k - 1
          BY <3>6, <4>1
        <5>2. PICK i \in DOMAIN kids : at[i] = j
          BY <3>3, <5>1
        <5> QED BY <4>1, <5>2
      <4>2. CASE j \in n + 1 .. n + added
        BY <1>3, <3>6, <4>2
      <4>3. CASE j \in n + added + 1 .. m + added
        <5>1. j - added \in 2 .. m /\ old[j - added].parent = k - 1 /\ j - added > n
          BY <1>4, <3>6, <4>3
        <5>2. PICK i \in DOMAIN kids : at[i] = j - added
          BY <3>3, <5>1
        <5>3. moved[i] = (j - added) + added
          BY <5>1, <5>2
        <5> QED BY <5>3
      <4> QED BY <1>2, <4>1, <4>2, <4>3
    <3> HIDE DEF moved
    <3>7. StandAt(moved, new, k, kids)
      BY <2>0, <3>3, <3>4, <3>5, <3>6 DEF StandAt
    <3>8. nested(new, k) = kids
      BY <3>1 DEF nested, kids
    <3> QED BY <3>7, <3>8
  <2>2. \E at : StandAt(at, new, n, nested(new, n))
    <3> DEFINE at == [i \in 1 .. added |-> n + i]
               kids == nested(new, n)
    <3>1. kids = raw[old[n].node].calls /\ DOMAIN kids = 1 .. added
      OBVIOUS
    <3> HIDE DEF nested, kids
    <3>2. \A i \in 1 .. added : /\ at[i] = n + i /\ at[i] \in 2 .. m + added
                                /\ new[at[i]].node = kids[i]
                                /\ new[at[i]].parent = n - 1
      <4> TAKE i \in 1 .. added
      <4>1. at[i] = n + i /\ n + i \in 2 .. m + added
        OBVIOUS
      <4>2. new[n + i].node = kids[i] /\ new[n + i].parent = n - 1
        BY <3>1
      <4> HIDE DEF at
      <4> QED BY <4>1, <4>2
    <3>3. ASSUME NEW j \in 2 .. m + added, new[j].parent = n - 1
          PROVE  \E i \in 1 .. added : at[i] = j
      <4>1. CASE j \in 1 .. n
        BY <1>1, <3>3, <4>1
      <4>2. CASE j \in n + 1 .. n + added
        <5>1. j - n \in 1 .. added /\ at[j - n] = j
          BY <4>2
        <5> QED BY <5>1
      <4>3. CASE j \in n + added + 1 .. m + added
        BY <1>1, <1>4, <3>3, <4>3
      <4> QED BY <1>2, <4>1, <4>2, <4>3
    <3> HIDE DEF at
    <3>4. \A i, j \in 1 .. added : i < j => at[i] < at[j]
      BY <3>2, SMTT(30)
    <3>5. StandAt(at, new, n, kids)
      BY <2>0, <3>1, <3>2, <3>3, <3>4 DEF StandAt
    <3> QED BY <3>5 DEF kids
  <2>3. ASSUME NEW k \in 1 .. n PROVE \E at : StandAt(at, new, k, nested(new, k))
    <3> HIDE DEF nested
    <3>1. k \in 1 .. n - 1 \/ k = n
      OBVIOUS
    <3> QED BY <2>1, <2>2, <3>1
  <2> QED BY <2>3 DEF ChildrenInOrder
<1> QED BY <1>5, <1>6, <1>7

(* What the steps that visit no call and push no children leave alone. *)
LEMMA WalkStandsStill ==
    ASSUME Inv, [Next]_vars, ~VisitCall, ~PushChildren, stage \notin {"load", "failed"},
           stage' # "failed"
    PROVE  /\ UNCHANGED <<document, stack, item, acc.calls>>
           /\ stage' # "load" /\ (stage' \in InCall <=> stage \in InCall)
           /\ stage = "walk" => stage' = "walk" \/ stack = <<>>
           /\ stage # "walk" => stage' # "walk"
<1> USE DEF InCall
<1>0. stage \in InCall => acc \in Accumulator
  BY DEF Inv, TypeInv
<1>1. CASE NormalizeChange
  <2>1. UNCHANGED <<document, stack, item, stage>>
        /\ \E x : acc' = [acc EXCEPT !.changes = x]
    BY <1>1 DEF NormalizeChange, Fail
  <2>2. stage \in InCall
    BY <1>1 DEF NormalizeChange
  <2> QED BY <1>0, <2>1, <2>2, Gathered
<1>2. CASE NormalizeLog
  <2>1. UNCHANGED <<document, stack, item, stage>>
        /\ \E x, y, z : acc' = LogGathered(x, y, z)
    BY <1>2 DEF NormalizeLog, Fail, LogGathered
  <2>2. stage \in InCall
    BY <1>2 DEF NormalizeLog
  <2>3. PICK x, y, z : acc' = LogGathered(x, y, z)
    BY <2>1
  <2>4. acc'.calls = acc.calls
    BY <1>0, <2>2, <2>3, GatheredLog
  <2> QED BY <2>1, <2>4
<1>3. CASE ChangesDone \/ WalkDone
  BY <1>3 DEF ChangesDone, WalkDone, walkVars
<1>4. CASE AddCall
  BY <1>4 DEF AddCall, Fail, walkVars
<1>5. CASE AddStorageChange \/ AddLog \/ AddTokenTransfer
  BY <1>5 DEF AddStorageChange, AddLog, AddTokenTransfer, walkVars
<1>6. CASE NextList
  BY <1>6 DEF NextList, Handed, walkVars
<1>7. CASE ValidateArena \/ ArenaReturns
  BY <1>7 DEF ValidateArena, ArenaReturns, Fail, walkVars
<1>8. CASE UNCHANGED vars
  BY <1>8 DEF vars, walkVars
<1>9. ~Load
  BY DEF Load
<1> QED BY <1>1, <1>2, <1>3, <1>4, <1>5, <1>6, <1>7, <1>8, <1>9 DEF Next, Returned

LEMMA PlanStartsAtTheRoot == ASSUME Inv, Load, stage' # "failed" PROVE PlanInv'
<1>1. /\ stage' = "walk" /\ stack' = <<Root>> /\ acc.calls = <<>> /\ acc' = acc
  BY DEF Load, Fail, Inv, TypeInv, Unread
<1>2. Len(acc'.calls) = 0 /\ Len(stack') = 1 /\ stack'[1] = Root
  BY <1>1
<1>3. /\ DOMAIN Planned' = {1} /\ Planned'[1].node = 1 /\ Planned'[1].depth = 0
      /\ Planned'[1].parent = NoCall /\ Expanded' = 0
  BY <1>1, <1>2 DEF Planned, Expanded, InCall, Root, Pending
<1>4. Nested(Planned', 0)
  BY <1>3 DEF Nested
<1>5. Deepening(Planned')
  BY <1>3 DEF Deepening
<1>6. ChildrenInOrder(Planned', 0, document'.calls)
  BY DEF ChildrenInOrder
<1> QED BY <1>1, <1>3, <1>4, <1>5, <1>6 DEF PlanInv, InCall

LEMMA VisitingKeepsThePlan ==
    ASSUME Inv, PlanInv, VisitCall, stage' # "failed" PROVE PlanInv'
<1> DEFINE it == Last(stack)
           visited == [node |-> it.node, parent |-> it.parent, depth |-> it.depth]
<1>1. /\ stage = "walk" /\ stack # <<>> /\ item' = it /\ stack' = Front(stack)
      /\ UNCHANGED document /\ acc' = [acc EXCEPT !.calls = Append(@, visited)]
      /\ stage' = "changes"
  BY DEF VisitCall, Fail
<1>2. stack \in Seq(PendingCall) /\ acc \in Accumulator
  BY <1>1 DEF Inv, TypeInv
<1>3. /\ Len(stack) \in Nat \ {0} /\ it = stack[Len(stack)] /\ it \in PendingCall
      /\ stack' \in Seq(PendingCall) /\ Len(stack') = Len(stack) - 1
      /\ \A k \in 1 .. Len(stack) - 1 : stack'[k] = stack[k]
  BY <1>1, <1>2, Popped
<1> HIDE DEF it
<1>4. visited.node = it.node /\ visited.parent = it.parent /\ visited.depth = it.depth
  OBVIOUS
<1>5. acc'.calls = Append(acc.calls, visited)
  <2> HIDE DEF visited
  <2> QED BY <1>1, <1>2, Gathered
<1>6. /\ Len(acc.calls) \in Nat /\ Len(acc'.calls) = Len(acc.calls) + 1
      /\ acc'.calls[Len(acc.calls) + 1] = visited
      /\ \A k \in 1 .. Len(acc.calls) : acc'.calls[k] = acc.calls[k]
  <2>1. acc.calls \in Seq(NormalizedCall)
    BY <1>2 DEF Accumulator
  <2> HIDE DEF visited
  <2> QED BY <1>5, <2>1
<1>7. Expanded' = Expanded /\ Expanded = Len(acc.calls)
  BY <1>1, <1>6 DEF Expanded, InCall
<1>8. Planned' = Planned
  <2> DEFINE n == Len(acc.calls)
             m == Len(acc.calls) + Len(stack)
             Ahead(s, k) == [node |-> s[k].node, parent |-> s[k].parent, depth |-> s[k].depth]
  <2>1. n \in Nat /\ m \in Nat /\ n < m /\ Len(acc'.calls) + Len(stack') = m
        /\ Len(acc'.calls) = n + 1
    BY <1>3, <1>6
  <2>2. /\ Planned = [k \in 1 .. m |-> IF k <= n THEN acc.calls[k] ELSE Ahead(stack, m + 1 - k)]
        /\ Planned' = [k \in 1 .. m |-> IF k <= n + 1 THEN acc'.calls[k]
                                        ELSE Ahead(stack', m + 1 - k)]
    BY <2>1 DEF Planned
  <2>3. ASSUME NEW k \in 1 .. m
        PROVE  (IF k <= n + 1 THEN acc'.calls[k] ELSE Ahead(stack', m + 1 - k))
                = IF k <= n THEN acc.calls[k] ELSE Ahead(stack, m + 1 - k)
    <3>1. CASE k <= n
      <4> HIDE DEF Ahead
      <4> QED BY <1>6, <2>1, <3>1
    <3>2. CASE k = n + 1
      <4>1. m + 1 - k = Len(stack)
        BY <1>3, <2>1, <3>2
      <4>2. Ahead(stack, Len(stack)) = visited
        BY <1>3
      <4> HIDE DEF Ahead, visited
      <4> QED BY <1>6, <2>1, <3>2, <4>1, <4>2
    <3>3. CASE k > n + 1
      <4>1. m + 1 - k \in 1 .. Len(stack) - 1
        BY <1>3, <2>1, <3>3
      <4>2. stack'[m + 1 - k] = stack[m + 1 - k]
        <5> HIDE DEF m
        <5> QED BY <1>3, <4>1
      <4>3. Ahead(stack', m + 1 - k) = Ahead(stack, m + 1 - k)
        BY <4>2
      <4> HIDE DEF Ahead, m
      <4> QED BY <2>1, <3>3, <4>3
    <3> QED BY <2>1, <3>1, <3>2, <3>3
  <2> HIDE DEF n, m, Ahead
  <2> QED BY <2>2, <2>3
<1>9. /\ Planned'[Len(acc'.calls)].node = it.node /\ Planned'[Len(acc'.calls)].parent = it.parent
      /\ Planned'[Len(acc'.calls)].depth = it.depth
  <2>1. Planned'[Len(acc'.calls)] = acc'.calls[Len(acc'.calls)]
    BY <1>3, <1>6 DEF Planned
  <2> HIDE DEF visited
  <2> QED BY <1>4, <1>6, <2>1
<1> QED BY <1>1, <1>7, <1>8, <1>9 DEF PlanInv, InCall

LEMMA PushingKeepsThePlan == ASSUME Inv, PlanInv, PushChildren PROVE PlanInv'
<1> DEFINE nested == Raw(item.node).calls
           Child(k) == Pending(k, ThisIndex, item.depth + 1, ContextOf(item))
           pushed == Reverse([i \in 1 .. Len(nested) |-> Child(nested[i])])
           n == Len(acc.calls)
           m == Len(acc.calls) + Len(stack)
           added == Len(nested)
           Ahead(s, k) == [node |-> s[k].node, parent |-> s[k].parent, depth |-> s[k].depth]
<1>1. /\ stage = "logs" /\ stage' = "walk" /\ stack' = stack \o pushed
      /\ UNCHANGED <<document, item, acc>>
  BY DEF PushChildren
<1>2. /\ n \in Nat \ {0} /\ acc \in Accumulator /\ stack \in Seq(PendingCall)
      /\ item \in PendingCall /\ nested \in Seq(Nodes) /\ Len(stack) \in Nat /\ added \in Nat
      /\ m \in Nat /\ n <= m /\ m = n + Len(stack)
  BY <1>1, ThisCall DEF InCall, Decoded
<1> HIDE DEF n, m, added, Child, Ahead, pushed
<1>3. /\ DOMAIN pushed = 1 .. added
      /\ \A k \in 1 .. added : pushed[k] = Child(nested[added - k + 1])
      /\ pushed = [k \in 1 .. added |-> pushed[k]]
  <2> QED BY <1>2 DEF Reverse, pushed, added
<1>4. /\ Len(stack') = Len(stack) + added
      /\ \A k \in 1 .. Len(stack) : stack'[k] = stack[k]
      /\ \A k \in 1 .. added : stack'[Len(stack) + k] = pushed[k]
  <2> HIDE DEF nested
  <2>1. Len(pushed) = added
    BY <1>2, <1>3
  <2>2. stack' = [k \in 1 .. Len(stack) + added |->
                    IF k <= Len(stack) THEN stack[k] ELSE pushed[k - Len(stack)]]
    BY <1>1, <1>2, <1>3, <2>1
  <2> QED BY <1>2, <2>2
<1>5. /\ Planned = [k \in 1 .. m |-> IF k <= n THEN acc.calls[k] ELSE Ahead(stack, m + 1 - k)]
      /\ Planned' = [k \in 1 .. m + added |->
            IF k <= n THEN acc.calls[k] ELSE Ahead(stack', m + added + 1 - k)]
  <2>1. Len(acc'.calls) + Len(stack') = m + added /\ acc' = acc
    <3>1. Len(acc'.calls) = n /\ acc' = acc
      BY <1>1 DEF n
    <3> QED BY <1>2, <1>4, <3>1
  <2> QED BY <2>1 DEF Planned, Ahead, n, m
<1>6. Expanded = n - 1 /\ Expanded' = n
  BY <1>1 DEF Expanded, InCall, n
<1>7. Planned[n].node = item.node /\ Planned[n].depth = item.depth
  BY <1>1 DEF PlanInv, InCall, n
<1>8. \A k \in 1 .. n : Planned'[k] = Planned[k]
  BY <1>2, <1>5
<1>9. \A k \in n + 1 .. m : Planned'[k + added] = Planned[k]
  <2> TAKE k \in n + 1 .. m
  <2>1. m + 1 - k \in 1 .. Len(stack) /\ m + added + 1 - (k + added) = m + 1 - k
    BY <1>2
  <2>2. stack'[m + 1 - k] = stack[m + 1 - k]
    BY <1>4, <2>1
  <2>3. Ahead(stack', m + 1 - k) = Ahead(stack, m + 1 - k)
    BY <2>2 DEF Ahead
  <2>4. k + added \in 1 .. m + added /\ ~(k + added <= n) /\ ~(k <= n) /\ k \in 1 .. m
    BY <1>2
  <2> QED BY <1>5, <2>1, <2>3, <2>4
<1>10. ASSUME NEW k \in 1 .. added
       PROVE  /\ Planned'[n + k].parent = n - 1 /\ Planned'[n + k].depth = item.depth + 1
              /\ Planned'[n + k].node = nested[k]
  <2> DEFINE r == m + added + 1 - (n + k)
  <2>1. r = Len(stack) + (added - k + 1) /\ added - k + 1 \in 1 .. added
        /\ added - (added - k + 1) + 1 = k
    BY <1>2
  <2>2. stack'[r] = Child(nested[k])
    <3> HIDE DEF nested, r
    <3> QED BY <1>3, <1>4, <2>1
  <2>3. n + k \in 1 .. m + added /\ ~(n + k <= n)
    BY <1>2
  <2>4. Planned'[n + k] = Ahead(stack', r)
    BY <1>5, <2>3
  <2>5. Ahead(stack', r) = [node |-> nested[k], parent |-> n - 1, depth |-> item.depth + 1]
    BY <2>2 DEF Child, Pending, ThisIndex, Ahead, n
  <2> QED BY <2>4, <2>5
<1>11. DOMAIN document.calls[Planned[n].node].calls = 1 .. added
  BY <1>2, <1>7 DEF Raw, added
<1>12. /\ Nested(Planned, n - 1) /\ Deepening(Planned)
       /\ ChildrenInOrder(Planned, n - 1, document.calls) /\ Planned[1].node = 1
  BY <1>1, <1>6 DEF PlanInv
<1>13. DOMAIN Planned = 1 .. m /\ DOMAIN Planned' = 1 .. m + added
  BY <1>5
<1>14. /\ \A k \in 1 .. added : Planned'[n + k].parent = n - 1
       /\ \A k \in 1 .. added : Planned'[n + k].depth = Planned[n].depth + 1
       /\ \A k \in 1 .. added :
            Planned'[n + k].node = document.calls[Planned[n].node].calls[k]
  BY <1>7, <1>10 DEF Raw
<1>15. /\ Nested(Planned', n) /\ Deepening(Planned')
       /\ ChildrenInOrder(Planned', n, document.calls)
  <2> DEFINE old == Planned
             new == Planned'
             raw == document.calls
  <2> HIDE DEF nested, old, new, raw
  <2>1. /\ n \in Nat \ {0} /\ m \in Nat /\ n <= m /\ added \in Nat
        /\ DOMAIN old = 1 .. m /\ DOMAIN new = 1 .. m + added
        /\ DOMAIN raw[old[n].node].calls = 1 .. added
        /\ \A k \in 1 .. n : new[k] = old[k]
        /\ \A k \in n + 1 .. m : new[k + added] = old[k]
        /\ \A k \in 1 .. added : new[n + k].parent = n - 1
        /\ \A k \in 1 .. added : new[n + k].depth = old[n].depth + 1
        /\ \A k \in 1 .. added : new[n + k].node = raw[old[n].node].calls[k]
        /\ Nested(old, n - 1) /\ Deepening(old) /\ ChildrenInOrder(old, n - 1, raw)
    BY <1>2, <1>8, <1>9, <1>11, <1>12, <1>13, <1>14 DEF old, new, raw
  <2>2. Nested(new, n) /\ Deepening(new) /\ ChildrenInOrder(new, n, raw)
    BY <2>1, Insertion
  <2> QED BY <2>2 DEF old, new, raw
<1>16. Planned'[1].node = 1
  BY <1>2, <1>8, <1>12
<1> QED BY <1>1, <1>6, <1>15, <1>16 DEF PlanInv, InCall

LEMMA PlanKept == ASSUME Inv, PlanInv, [Next]_vars PROVE PlanInv'
<1>1. CASE stage' = "failed"
  BY <1>1 DEF PlanInv
<1>2. CASE stage' # "failed" /\ (VisitCall \/ PushChildren)
  BY <1>2, VisitingKeepsThePlan, PushingKeepsThePlan
<1>3. CASE stage = "failed"
  BY <1>3 DEF Next, Load, VisitCall, NormalizeChange, ChangesDone, NormalizeLog, PushChildren,
     WalkDone, AddCall, AddStorageChange, AddLog, AddTokenTransfer, NextList, Handed,
     ValidateArena, ArenaReturns, Returned, vars, PlanInv
<1>4. CASE stage = "load" /\ stage' # "failed"
  <2>1. Load \/ UNCHANGED stage
    BY <1>4 DEF Next, Load, VisitCall, NormalizeChange, ChangesDone, NormalizeLog, PushChildren,
       WalkDone, AddCall, AddStorageChange, AddLog, AddTokenTransfer, NextList, Handed,
       ValidateArena, ArenaReturns, Returned, vars
  <2> QED BY <1>4, <2>1, PlanStartsAtTheRoot DEF PlanInv
<1>5. CASE /\ stage \notin {"load", "failed"} /\ stage' # "failed"
           /\ ~VisitCall /\ ~PushChildren
  <2>1. /\ UNCHANGED <<document, stack, item, acc.calls>>
        /\ stage' # "load" /\ (stage' \in InCall <=> stage \in InCall)
        /\ stage = "walk" => stage' = "walk" \/ stack = <<>>
        /\ stage # "walk" => stage' # "walk"
    BY <1>5, WalkStandsStill
  <2>2. Planned' = Planned /\ Expanded' = Expanded
    BY <2>1 DEF Planned, Expanded
  <2> QED BY <1>5, <2>1, <2>2 DEF PlanInv
<1> QED BY <1>1, <1>2, <1>3, <1>4, <1>5

-----------------------------------------------------------------------------
(* What the builder is handed.                                             *)

(* Once the walk is over, the builder's calls are the planned ones. *)
LEMMA HandedOver ==
    ASSUME Inv, PlanInv, stage \in PastTransfers
    PROVE  /\ Planned = acc.calls /\ Expanded = Len(acc.calls)
           /\ Len(arenaCalls) = Len(acc.calls) /\ Len(acc.calls) \in Nat \ {0}
           /\ \A k \in 1 .. Len(acc.calls) :
                /\ arenaCalls[k].id = k - 1 /\ arenaCalls[k].parent = acc.calls[k].parent
                /\ arenaCalls[k].depth = acc.calls[k].depth
                /\ acc.calls[k] \in NormalizedCall
           /\ acc.calls[1].parent = NoCall
<1>1. /\ acc.calls \in Seq(NormalizedCall) /\ acc.calls # <<>> /\ LoopInv /\ Copied
      /\ \A k \in 1 .. Len(acc.calls) :
            IF k = 1 THEN acc.calls[k].parent = NoCall
            ELSE acc.calls[k].parent \in 0 .. k - 2
  BY Lists DEF PastTransfers
<1>2. stack = <<>> /\ stage \notin InCall
  BY DEF PlanInv, PastTransfers, InCall
<1>3. Len(arenaCalls) = Len(acc.calls) /\ Len(acc.calls) \in Nat \ {0}
  BY <1>1 DEF LoopInv, PastCalls, PastChanges, PastLogs
<1>4. Planned = [k \in 1 .. Len(acc.calls) |-> acc.calls[k]]
  <2>1. Len(stack) = 0
    BY <1>2
  <2> QED BY <1>3, <2>1 DEF Planned
<1>5. acc.calls = [k \in 1 .. Len(acc.calls) |-> acc.calls[k]]
  BY <1>1
<1>6. \A k \in 1 .. Len(acc.calls) :
        /\ arenaCalls[k].id = k - 1 /\ arenaCalls[k].parent = acc.calls[k].parent
        /\ arenaCalls[k].depth = acc.calls[k].depth
        /\ acc.calls[k] \in NormalizedCall
  <2> TAKE k \in 1 .. Len(acc.calls)
  <2>1. arenaCalls[k] = [id |-> k - 1, depth |-> acc.calls[k].depth,
                         parent |-> acc.calls[k].parent]
    BY <1>1, <1>3 DEF Copied
  <2> QED BY <1>1, <2>1
<1> QED BY <1>1, <1>2, <1>3, <1>4, <1>5, <1>6 DEF Expanded

LEMMA NoWrap == \A m \in Nat : \A x \in 0 .. m - 1 : x % m = x
OBVIOUS

LEMMA NothingToRefuse ==
    ASSUME Inv, PlanInv, stage = "arena" PROVE arenaPhase # "failed"
<1> SUFFICES ASSUME arenaPhase = "failed" PROVE FALSE
  OBVIOUS
<1> DEFINE n == Len(acc.calls)
<1>1. /\ Planned = acc.calls /\ Expanded = n /\ Len(arenaCalls) = n /\ n \in Nat \ {0}
      /\ \A k \in 1 .. n :
            /\ arenaCalls[k].id = k - 1 /\ arenaCalls[k].parent = acc.calls[k].parent
            /\ arenaCalls[k].depth = acc.calls[k].depth
            /\ acc.calls[k] \in NormalizedCall
      /\ acc.calls[1].parent = NoCall
  BY HandedOver DEF PastTransfers
<1>2. /\ acc.calls \in Seq(NormalizedCall) /\ LoopInv /\ Copied
      /\ arenaCalls # <<>>
  BY <1>1, Lists
<1> HIDE DEF n
<1>3. \A k \in 2 .. n :
        /\ arenaCalls[k].parent \in 0 .. k - 2
        /\ arenaCalls[k].depth = arenaCalls[arenaCalls[k].parent + 1].depth + 1
        /\ arenaCalls[arenaCalls[k].parent + 1].depth \in 0 .. MaxCallDepth
  <2> TAKE k \in 2 .. n
  <2>1. k \in DOMAIN acc.calls \ {1}
    BY <1>2 DEF n
  <2>a. Nested(acc.calls, n) /\ Deepening(acc.calls)
    BY <1>1 DEF PlanInv
  <2>2. acc.calls[k].parent \in Nat /\ acc.calls[k].parent + 1 < k
    BY <2>1, <2>a DEF Nested
  <2>3. acc.calls[k].depth = acc.calls[acc.calls[k].parent + 1].depth + 1
    BY <2>1, <2>a DEF Deepening
  <2>4. acc.calls[k].parent + 1 \in 1 .. n
    BY <1>1, <2>2
  <2> DEFINE p == acc.calls[k].parent + 1
  <2>5. p \in 1 .. n /\ arenaCalls[p].depth = acc.calls[p].depth
        /\ acc.calls[p].depth \in 0 .. MaxCallDepth
    <3> HIDE DEF p
    <3>1. p \in 1 .. n
      BY <2>4 DEF p
    <3> QED BY <1>1, <3>1 DEF NormalizedCall
  <2>6. arenaCalls[k].parent + 1 = p /\ arenaCalls[k].depth = acc.calls[p].depth + 1
    BY <1>1, <2>3
  <2>7. arenaCalls[k].parent \in 0 .. k - 2
    BY <1>1, <2>2
  <2> HIDE DEF p
  <2> QED BY <2>5, <2>6, <2>7
<1>4. AP!FaultWitness
  BY DEF Inv, AP!IInv, AP!ErrorInv
<1>a. PICK pass \in AP!Passes : \E i \in 1 .. Len(AP!Listed(pass)) :
            (pass = "roots" => i > 1) /\ AP!Fault(pass, i) # AP!NoError
  BY <1>1, <1>2, <1>4 DEF AP!FaultWitness, AP!ParentOf
<1>5. PICK i \in 1 .. Len(AP!Listed(pass)) :
            (pass = "roots" => i > 1) /\ AP!Fault(pass, i) # AP!NoError
  BY <1>a
<1>6. CASE pass = "roots"
  <2>1. i \in 2 .. n
    BY <1>1, <1>5, <1>6 DEF AP!Listed
  <2> QED BY <1>3, <1>5, <1>6, <2>1, NoCallIsNoPosition DEF AP!Fault, AP!ParentOf
<1>7. CASE pass = "parents"
  <2>1. i \in 1 .. n
    BY <1>1, <1>5, <1>7 DEF AP!Listed
  <2>2. CASE i = 1
    <3>1. AP!ParentOf(i) = NoCall
      BY <1>1, <2>2 DEF AP!ParentOf
    <3> QED
      BY <1>5, <1>7, <3>1 DEF AP!Fault, AP!UnseenParent, AP!Overflows, AP!WrongDepth, AP!SeenParent
  <2>3. CASE i \in 2 .. n
    <3>1. /\ AP!ParentOf(i) \in 0 .. i - 2 /\ arenaCalls[i].id = i - 1
          /\ arenaCalls[i].depth = arenaCalls[AP!ParentOf(i) + 1].depth + 1
          /\ arenaCalls[AP!ParentOf(i) + 1].depth \in 0 .. MaxCallDepth
      BY <1>1, <1>3, <2>1, <2>3 DEF AP!ParentOf
    <3>2. ~AP!UnseenParent(i)
      BY <1>1, <2>1, <3>1 DEF AP!UnseenParent, AP!Known
    <3>3. ~AP!Overflows(i)
      BY <3>1, DepthFits DEF AP!Overflows
    <3>4. ~AP!WrongDepth(i)
      <4> DEFINE d == arenaCalls[AP!ParentOf(i) + 1].depth
      <4>1. d + 1 \in 0 .. DepthModulus - 1 /\ arenaCalls[i].depth = d + 1
        BY <3>1, DepthFits
      <4>2. (d + 1) % DepthModulus = d + 1
        <5> HIDE DEF d
        <5> QED BY <4>1, DepthFits, NoWrap
      <4> QED BY <4>1, <4>2 DEF AP!WrongDepth, AP!DepthBelow
    <3> QED BY <1>5, <1>7, <3>2, <3>3, <3>4 DEF AP!Fault
  <2> QED BY <2>1, <2>2, <2>3
<1>8. CASE pass = "storage"
  <2>1. i \in 1 .. Len(arenaChanges)
    BY <1>5, <1>8 DEF AP!Listed
  <2>2. arenaChanges[i] < Len(arenaCalls)
    <3>1. /\ Len(arenaChanges) = Len(acc.changes) /\ arenaChanges[i] = acc.changes[i].call
          /\ acc.changes[i].call \in 0 .. n - 1
      BY <1>2, <2>1 DEF Inv, FactInv, LoopInv, Copied, PastChanges, PastLogs, PastTransfers, n
    <3> QED BY <1>1, <3>1
  <2> QED BY <1>5, <1>8, <2>2 DEF AP!Fault, AP!Known
<1>9. CASE pass = "logs"
  <2>1. i \in 1 .. Len(arenaLogs)
    BY <1>5, <1>9 DEF AP!Listed
  <2>2. arenaLogs[i].call < Len(arenaCalls)
    <3>1. /\ Len(arenaLogs) = Len(acc.logs) /\ arenaLogs[i].call = acc.logs[i]
          /\ acc.logs[i] \in 0 .. n - 1
      BY <1>2, <2>1 DEF Inv, FactInv, LoopInv, Copied, PastLogs, PastTransfers, n
    <3> QED BY <1>1, <3>1
  <2> QED BY <1>5, <1>9, <2>2 DEF AP!Fault, AP!Known
<1>10. CASE pass = "transfers"
  <2>1. i \in 1 .. Len(arenaTransfers)
    BY <1>5, <1>10 DEF AP!Listed
  <2>2. arenaTransfers[i] < Len(arenaLogs)
    <3>1. /\ Len(arenaTransfers) = Len(acc.transfers) /\ arenaTransfers[i] = acc.transfers[i]
          /\ acc.transfers[i] \in 0 .. Len(acc.logs) - 1 /\ Len(arenaLogs) = Len(acc.logs)
          /\ Len(acc.logs) \in Nat
      BY <1>2, <2>1, Lists
         DEF Inv, FactInv, LoopInv, Copied, PastLogs, PastTransfers
    <3> QED BY <3>1
  <2> QED BY <1>5, <1>10, <2>2 DEF AP!Fault, AP!Known
<1> QED BY <1>5, <1>6, <1>7, <1>8, <1>9, <1>10 DEF AP!Passes

(* The plan holds at every step. *)
THEOREM Plan == Spec => []PlanInv
<1>1. Init => PlanInv
  BY DEF Init, PlanInv
<1>2. Inv /\ PlanInv /\ [Next]_vars => PlanInv'
  BY PlanKept
<1> QED BY <1>1, <1>2, Invariance, PTL DEF Spec

(* error.rs calls ArenaConstruction an error no input reaches: whatever the
   document, what normalize() gathers is a tree the builder takes, with every
   reference resolved and no depth beyond a u16. *)
ArenaTakesIt == arenaPhase # "failed"

(* build() never returns IngestionError::ArenaConstruction. *)
THEOREM NormalizedAlwaysBuilds == Spec => []ArenaTakesIt
<1> DEFINE InArena == stage = "arena" => ArenaTakesIt
<1>1. Inv /\ PlanInv => InArena
  BY NothingToRefuse DEF ArenaTakesIt
<1>2. Init => ArenaTakesIt
  BY DEF Init, Unread, Arena!Init, ArenaTakesIt
<1>3. ArenaTakesIt /\ [Next]_vars /\ InArena' => ArenaTakesIt'
  <2> SUFFICES ASSUME ArenaTakesIt, [Next]_vars, InArena' PROVE ArenaTakesIt'
    OBVIOUS
  <2>1. UNCHANGED arenaPhase \/ stage' = "arena"
    BY DEF Next, vars, arenaVars, Load, VisitCall, NormalizeChange, ChangesDone, NormalizeLog,
       PushChildren, WalkDone, AddCall, AddStorageChange, AddLog, AddTokenTransfer, NextList,
       Handed, ValidateArena, ArenaReturns, Returned
  <2> QED BY <2>1 DEF ArenaTakesIt
<1> QED BY <1>1, <1>2, <1>3, Invariance, Plan, PTL DEF Spec

-----------------------------------------------------------------------------
(* Every fact keeps its call.                                              *)

(* n facts of m calls, the p-th of them the place[p]-th of the call it names:
   those of each call, as many as count says, and no other, those of an earlier
   call first and those of one call in their order. *)
Listing(n, m, call, place, source, lists, count) ==
    /\ \A p \in 1 .. n : /\ call[p] \in Nat /\ call[p] + 1 \in 1 .. m
                         /\ place[p] \in 1 .. count[call[p] + 1]
                         /\ source[p] = lists[call[p] + 1][place[p]]
    /\ \A p, q \in 1 .. n :
            p < q => call[p] < call[q] \/ (call[p] = call[q] /\ place[p] < place[q])
    /\ \A k \in 1 .. m : \A j \in 1 .. count[k] :
            \E p \in 1 .. n : call[p] = k - 1 /\ place[p] = j

(* One fact more: the next one of the last call. *)
OneMore(n, m, call, place, source, lists, count, call2, place2, source2, count2) ==
    /\ n \in Nat /\ m \in Nat \ {0} /\ count[m] \in Nat
    /\ \A p \in 1 .. n : call2[p] = call[p] /\ place2[p] = place[p] /\ source2[p] = source[p]
    /\ call2[n + 1] = m - 1 /\ place2[n + 1] = count[m] + 1
    /\ source2[n + 1] = lists[m][count[m] + 1]
    /\ \A k \in 1 .. m - 1 : count2[k] = count[k]
    /\ count2[m] = count[m] + 1

LEMMA ListingGrows ==
    ASSUME NEW n, NEW m, NEW call, NEW place, NEW source, NEW lists, NEW count,
           NEW call2, NEW place2, NEW source2, NEW count2,
           OneMore(n, m, call, place, source, lists, count, call2, place2, source2, count2),
           Listing(n, m, call, place, source, lists, count)
    PROVE  Listing(n + 1, m, call2, place2, source2, lists, count2)
<1> USE DEF OneMore
<1>1. /\ \A p \in 1 .. n : /\ call[p] \in Nat /\ call[p] + 1 \in 1 .. m
                           /\ place[p] \in 1 .. count[call[p] + 1]
                           /\ source[p] = lists[call[p] + 1][place[p]]
      /\ \A p, q \in 1 .. n :
            p < q => call[p] < call[q] \/ (call[p] = call[q] /\ place[p] < place[q])
      /\ \A k \in 1 .. m : \A j \in 1 .. count[k] :
            \E p \in 1 .. n : call[p] = k - 1 /\ place[p] = j
  BY Zenon DEF Listing
<1>2. ASSUME NEW p \in 1 .. n + 1
      PROVE  /\ call2[p] \in Nat /\ call2[p] + 1 \in 1 .. m
             /\ place2[p] \in 1 .. count2[call2[p] + 1]
             /\ source2[p] = lists[call2[p] + 1][place2[p]]
  <2>1. CASE p = n + 1
    BY <2>1
  <2>2. CASE p \in 1 .. n
    <3>1. /\ call[p] \in Nat /\ call[p] + 1 \in 1 .. m /\ place[p] \in 1 .. count[call[p] + 1]
          /\ source[p] = lists[call[p] + 1][place[p]]
      BY <1>1, <2>2
    <3>2. CASE call[p] + 1 = m
      BY <2>2, <3>1, <3>2
    <3>3. CASE call[p] + 1 \in 1 .. m - 1
      BY <2>2, <3>1, <3>3
    <3> QED BY <3>1, <3>2, <3>3
  <2> QED BY <2>1, <2>2
<1>3. ASSUME NEW p \in 1 .. n + 1, NEW q \in 1 .. n + 1, p < q
      PROVE  call2[p] < call2[q] \/ (call2[p] = call2[q] /\ place2[p] < place2[q])
  <2>1. p \in 1 .. n
    BY <1>3
  <2>2. CASE q \in 1 .. n
    BY <1>1, <1>3, <2>1, <2>2
  <2>3. CASE q = n + 1
    <3>1. call[p] \in Nat /\ call[p] + 1 \in 1 .. m /\ place[p] \in 1 .. count[call[p] + 1]
      BY <1>1, <2>1
    <3>2. CASE call[p] + 1 = m
      <4>0. count[call[p] + 1] = count[m] /\ call[p] = m - 1
        BY <3>1, <3>2
      <4>1. place[p] \in 1 .. count[m] /\ call[p] = m - 1
        BY <3>1, <4>0, Zenon
      <4> QED BY <2>1, <2>3, <4>1
    <3>3. CASE call[p] + 1 \in 1 .. m - 1
      <4>1. call[p] < m - 1
        BY <3>1, <3>3
      <4> QED BY <2>1, <2>3, <4>1
    <3> QED BY <3>1, <3>2, <3>3
  <2> QED BY <2>2, <2>3
<1>4. ASSUME NEW k \in 1 .. m, NEW j \in 1 .. count2[k]
      PROVE  \E p \in 1 .. n + 1 : call2[p] = k - 1 /\ place2[p] = j
  <2>1. CASE j \in 1 .. count[k]
    <3>1. PICK p \in 1 .. n : call[p] = k - 1 /\ place[p] = j
      BY <1>1, <2>1
    <3> QED BY <3>1
  <2>2. CASE k = m /\ j = count[m] + 1
    BY <2>2
  <2>3. j \in 1 .. count[k] \/ (k = m /\ j = count[m] + 1)
    <3>1. CASE k = m
      BY <3>1
    <3>2. CASE k \in 1 .. m - 1
      BY <3>2
    <3> QED BY <3>1, <3>2
  <2> QED BY <2>1, <2>2, <2>3
<1>5. /\ \A p \in 1 .. n + 1 : /\ call2[p] \in Nat /\ call2[p] + 1 \in 1 .. m
                               /\ place2[p] \in 1 .. count2[call2[p] + 1]
                               /\ source2[p] = lists[call2[p] + 1][place2[p]]
      /\ \A p, q \in 1 .. n + 1 :
            p < q => call2[p] < call2[q] \/ (call2[p] = call2[q] /\ place2[p] < place2[q])
      /\ \A k \in 1 .. m : \A j \in 1 .. count2[k] :
            \E p \in 1 .. n + 1 : call2[p] = k - 1 /\ place2[p] = j
  BY <1>2, <1>3, <1>4
<1> QED BY <1>5, Zenon DEF Listing

(* A call is visited, and none of its facts is gathered yet. *)
LEMMA ListingOpens ==
    ASSUME NEW m \in Nat, NEW lists, NEW lists2, \A k \in 1 .. m : lists2[k] = lists[k],
           NEW count, NEW count2, \A k \in 1 .. m : count2[k] = count[k], count2[m + 1] = 0,
           NEW n \in Nat, NEW call, NEW place, NEW source,
           Listing(n, m, call, place, source, lists, count)
    PROVE  Listing(n, m + 1, call, place, source, lists2, count2)
<1>1. /\ \A p \in 1 .. n : /\ call[p] \in Nat /\ call[p] + 1 \in 1 .. m
                           /\ place[p] \in 1 .. count[call[p] + 1]
                           /\ source[p] = lists[call[p] + 1][place[p]]
      /\ \A p, q \in 1 .. n :
            p < q => call[p] < call[q] \/ (call[p] = call[q] /\ place[p] < place[q])
      /\ \A k \in 1 .. m : \A j \in 1 .. count[k] :
            \E p \in 1 .. n : call[p] = k - 1 /\ place[p] = j
  BY Zenon DEF Listing
<1>2. ASSUME NEW p \in 1 .. n
      PROVE  /\ call[p] \in Nat /\ call[p] + 1 \in 1 .. m + 1
             /\ place[p] \in 1 .. count2[call[p] + 1]
             /\ source[p] = lists2[call[p] + 1][place[p]]
  <2>1. call[p] \in Nat /\ call[p] + 1 \in 1 .. m
    BY <1>1
  <2>2. count2[call[p] + 1] = count[call[p] + 1] /\ lists2[call[p] + 1] = lists[call[p] + 1]
    BY <2>1
  <2> QED BY <1>1, <2>1, <2>2
<1>3. ASSUME NEW k \in 1 .. m + 1, NEW j \in 1 .. count2[k]
      PROVE  \E p \in 1 .. n : call[p] = k - 1 /\ place[p] = j
  <2>1. k \in 1 .. m
    BY <1>3
  <2> QED BY <1>1, <1>3, <2>1
<1>4. /\ \A p \in 1 .. n : /\ call[p] \in Nat /\ call[p] + 1 \in 1 .. m + 1
                           /\ place[p] \in 1 .. count2[call[p] + 1]
                           /\ source[p] = lists2[call[p] + 1][place[p]]
      /\ \A k \in 1 .. m + 1 : \A j \in 1 .. count2[k] :
            \E p \in 1 .. n : call[p] = k - 1 /\ place[p] = j
  BY <1>2, <1>3
<1> QED BY <1>1, <1>4, Zenon DEF Listing

ChangesOfCalls == [k \in 1 .. Len(acc.calls) |-> Raw(acc.calls[k].node).changes]
LogsOfCalls == [k \in 1 .. Len(acc.calls) |-> Raw(acc.calls[k].node).logs]

(* How many of them are gathered: all, but of the call under way. *)
ChangesSoFar ==
    [k \in 1 .. Len(acc.calls) |->
        IF k = Len(acc.calls) /\ stage = "changes" THEN nth - 1
        ELSE Len(Raw(acc.calls[k].node).changes)]
LogsSoFar ==
    [k \in 1 .. Len(acc.calls) |->
        IF k = Len(acc.calls) /\ stage = "changes" THEN 0
        ELSE IF k = Len(acc.calls) /\ stage = "logs" THEN nth - 1
        ELSE Len(Raw(acc.calls[k].node).logs)]

ChangeCalls == [p \in 1 .. Len(acc.changes) |-> acc.changes[p].call]

NthInv ==
    /\ stage = "changes" => nth <= Len(Raw(item.node).changes) + 1
    /\ stage = "logs" => nth <= Len(Raw(item.node).logs) + 1

ChangesInv ==
    stage \notin {"load", "failed"} =>
        \E place, source :
            /\ Listing(Len(acc.changes), Len(acc.calls), ChangeCalls, place, source,
                       ChangesOfCalls, ChangesSoFar)
            /\ \A p \in 1 .. Len(acc.changes) :
                    source[p].readable /\ source[p].contract = acc.changes[p].contract

(* What process_logs checks of a log by itself. *)
SoundLog(log) ==
    /\ log.index # Unreadable /\ log.readable /\ log.dataReadable /\ ~(log.topics > 4)
    /\ ~(log.index \in Nat /\ log.index > MaxLogIndex)

(* The transfers are those of the logs that decode to one, in their order. *)
DecodedFrom(moved, source, n) ==
    /\ \A i, j \in DOMAIN moved : i < j => moved[i] < moved[j]
    /\ \A p \in 1 .. n : DecodesTransfer(source[p]) <=> \E i \in DOMAIN moved : moved[i] = p - 1

LogsInv ==
    stage \notin {"load", "failed"} =>
        \E place, source :
            /\ Listing(Len(acc.logs), Len(acc.calls), acc.logs, place, source,
                       LogsOfCalls, LogsSoFar)
            /\ \A p \in 1 .. Len(acc.logs) : SoundLog(source[p])
            /\ acc.seen = {source[p].index : p \in 1 .. Len(acc.logs)}
            /\ \A p, q \in 1 .. Len(acc.logs) : source[p].index = source[q].index => p = q
            /\ DecodedFrom(acc.transfers, source, Len(acc.logs))

GatherInv == NthInv /\ ChangesInv /\ LogsInv

(* A step that gathers nothing and leaves what is gathered complete. *)
LEMMA GatheredStands ==
    ASSUME GatherInv, stage \notin {"load", "failed"}, UNCHANGED acc,
           ChangesOfCalls' = ChangesOfCalls, ChangesSoFar' = ChangesSoFar,
           LogsOfCalls' = LogsOfCalls, LogsSoFar' = LogsSoFar, NthInv'
    PROVE  GatherInv'
<1>1. ChangeCalls' = ChangeCalls
  BY DEF ChangeCalls
<1>2. ChangesInv'
  BY <1>1 DEF GatherInv, ChangesInv
<1>3. LogsInv'
  BY DEF GatherInv, LogsInv, SoundLog, DecodedFrom, DecodesTransfer
<1> QED BY <1>2, <1>3 DEF GatherInv

(* What is known of the call under way. *)
LEMMA CallUnderWay ==
    ASSUME Inv, PlanInv, stage \in InCall
    PROVE  /\ Len(acc.calls) \in Nat \ {0} /\ acc.calls[Len(acc.calls)].node = item.node
           /\ Len(Raw(item.node).changes) \in Nat /\ Len(Raw(item.node).logs) \in Nat
           /\ acc.changes \in Seq([call : Nat, contract : Addresses])
           /\ acc.logs \in Seq(Nat) /\ acc.transfers \in Seq(Nat) /\ acc \in Accumulator
           /\ Len(acc.changes) \in Nat /\ Len(acc.logs) \in Nat /\ Len(acc.transfers) \in Nat
           /\ ThisIndex = Len(acc.calls) - 1
<1>1. /\ Len(acc.calls) \in Nat \ {0} /\ acc \in Accumulator /\ item.node \in Nodes /\ Decoded
      /\ stack \in Seq(PendingCall)
  BY ThisCall
<1>2. Planned[Len(acc.calls)] = acc.calls[Len(acc.calls)]
  BY <1>1 DEF Planned
<1>3. Planned[Len(acc.calls)].node = item.node
  BY DEF PlanInv, InCall
<1>4. Len(Raw(item.node).changes) \in Nat /\ Len(Raw(item.node).logs) \in Nat
  BY <1>1 DEF Decoded
<1> QED BY <1>1, <1>2, <1>3, <1>4 DEF Accumulator, ThisIndex

LEMMA GatherStarts == ASSUME Inv, Load, stage' # "failed" PROVE GatherInv'
<1>1. /\ stage' = "walk" /\ acc' = acc
      /\ acc = [calls |-> <<>>, changes |-> <<>>, logs |-> <<>>, transfers |-> <<>>, seen |-> {}]
  BY DEF Load, Fail, Inv, TypeInv, Unread
<1>2. /\ Len(acc'.calls) = 0 /\ Len(acc'.changes) = 0 /\ Len(acc'.logs) = 0
      /\ acc'.transfers = <<>> /\ acc'.seen = {}
  BY <1>1
<1>3. \A call, place, source, lists, count : Listing(0, 0, call, place, source, lists, count)
  BY DEF Listing
<1>4. NthInv'
  BY <1>1 DEF NthInv
<1>5. ChangesInv'
  BY <1>2, <1>3 DEF ChangesInv
<1>6. \A source : DecodedFrom(<<>>, source, 0)
  BY DEF DecodedFrom
<1>7. LogsInv'
  <2>1. \A source : {source[p].index : p \in 1 .. 0} = {}
    OBVIOUS
  <2> QED BY <1>2, <1>3, <1>6, <2>1 DEF LogsInv
<1> QED BY <1>4, <1>5, <1>7 DEF GatherInv

LEMMA GatherOpens ==
    ASSUME Inv, GatherInv, VisitCall, stage' # "failed" PROVE GatherInv'
<1> DEFINE it == Last(stack)
           visited == [node |-> it.node, parent |-> it.parent, depth |-> it.depth]
           m == Len(acc.calls)
<1>1. /\ stage = "walk" /\ stack # <<>> /\ item' = it /\ UNCHANGED document
      /\ acc' = [acc EXCEPT !.calls = Append(@, visited)]
      /\ stage' = "changes" /\ nth' = 1
  BY DEF VisitCall, Fail
<1>2. stack \in Seq(PendingCall) /\ acc \in Accumulator /\ Decoded
  BY <1>1 DEF Inv, TypeInv
<1>3. it \in PendingCall
  BY <1>1, <1>2, Popped
<1> HIDE DEF it
<1>4. /\ acc'.calls = Append(acc.calls, visited) /\ acc'.changes = acc.changes
      /\ acc'.logs = acc.logs /\ acc'.transfers = acc.transfers /\ acc'.seen = acc.seen
  <2> HIDE DEF visited
  <2>1. acc' = [calls |-> Append(acc.calls, visited), changes |-> acc.changes,
                logs |-> acc.logs, transfers |-> acc.transfers, seen |-> acc.seen]
    BY <1>1, <1>2, Gathered
  <2> QED BY <2>1
<1>5. /\ m \in Nat /\ Len(acc'.calls) = m + 1 /\ acc'.calls[m + 1].node = it.node
      /\ \A k \in 1 .. m : acc'.calls[k] = acc.calls[k]
      /\ Len(acc.changes) \in Nat /\ Len(acc.logs) \in Nat
  <2>1. /\ acc.calls \in Seq(NormalizedCall) /\ Len(acc.changes) \in Nat
        /\ Len(acc.logs) \in Nat
    BY <1>2 DEF Accumulator
  <2>2. visited.node = it.node
    OBVIOUS
  <2> HIDE DEF visited
  <2> QED BY <1>4, <2>1, <2>2
<1> HIDE DEF m, visited
<1>a. m = Len(acc.calls)
  BY DEF m
<1>6. NthInv'
  <2>1. Len(Raw(it.node).changes) \in Nat
    BY <1>2, <1>3 DEF Decoded, PendingCall
  <2> QED BY <1>1, <2>1 DEF NthInv, Raw
<1>7. ASSUME NEW k \in 1 .. m
      PROVE  /\ ChangesOfCalls'[k] = ChangesOfCalls[k] /\ LogsOfCalls'[k] = LogsOfCalls[k]
             /\ ChangesSoFar'[k] = ChangesSoFar[k] /\ LogsSoFar'[k] = LogsSoFar[k]
  <2>1. k \in 1 .. m + 1 /\ k # m + 1 /\ k \in 1 .. Len(acc.calls) /\ k \in 1 .. Len(acc'.calls)
    BY <1>5, <1>a
  <2>2. acc'.calls[k] = acc.calls[k] /\ k # Len(acc'.calls)
    BY <1>5, <2>1
  <2>3. /\ ChangesOfCalls[k] = Raw(acc.calls[k].node).changes
        /\ LogsOfCalls[k] = Raw(acc.calls[k].node).logs
        /\ ChangesSoFar[k] = Len(Raw(acc.calls[k].node).changes)
        /\ LogsSoFar[k] = Len(Raw(acc.calls[k].node).logs)
    BY <1>1, <2>1 DEF ChangesOfCalls, LogsOfCalls, ChangesSoFar, LogsSoFar
  <2>4. /\ ChangesOfCalls'[k] = Raw(acc'.calls[k].node).changes
        /\ LogsOfCalls'[k] = Raw(acc'.calls[k].node).logs
        /\ ChangesSoFar'[k] = Len(Raw(acc'.calls[k].node).changes)
        /\ LogsSoFar'[k] = Len(Raw(acc'.calls[k].node).logs)
    BY <1>1, <2>1, <2>2 DEF ChangesOfCalls, LogsOfCalls, ChangesSoFar, LogsSoFar, Raw
  <2> QED BY <2>2, <2>3, <2>4
<1>8. ChangesSoFar'[m + 1] = 0 /\ LogsSoFar'[m + 1] = 0
  <2>1. m + 1 \in 1 .. Len(acc'.calls) /\ m + 1 = Len(acc'.calls)
    BY <1>5
  <2> QED BY <1>1, <2>1 DEF ChangesSoFar, LogsSoFar
<1>9. ChangesInv'
  <2>1. PICK place, source :
            /\ Listing(Len(acc.changes), m, ChangeCalls, place, source,
                       ChangesOfCalls, ChangesSoFar)
            /\ \A p \in 1 .. Len(acc.changes) :
                    source[p].readable /\ source[p].contract = acc.changes[p].contract
    BY <1>1 DEF GatherInv, ChangesInv, m
  <2>2. Listing(Len(acc.changes), m + 1, ChangeCalls, place, source,
                ChangesOfCalls', ChangesSoFar')
    BY <1>5, <1>7, <1>8, <2>1, ListingOpens
  <2>3. ChangeCalls' = ChangeCalls
    BY <1>4 DEF ChangeCalls
  <2> QED BY <1>4, <1>5, <2>1, <2>2, <2>3 DEF ChangesInv
<1>10. LogsInv'
  <2>1. PICK place, source :
            /\ Listing(Len(acc.logs), m, acc.logs, place, source, LogsOfCalls, LogsSoFar)
            /\ \A p \in 1 .. Len(acc.logs) : SoundLog(source[p])
            /\ acc.seen = {source[p].index : p \in 1 .. Len(acc.logs)}
            /\ \A p, q \in 1 .. Len(acc.logs) : source[p].index = source[q].index => p = q
            /\ DecodedFrom(acc.transfers, source, Len(acc.logs))
    BY <1>1 DEF GatherInv, LogsInv, m
  <2>2. Listing(Len(acc.logs), m + 1, acc.logs, place, source, LogsOfCalls', LogsSoFar')
    BY <1>5, <1>7, <1>8, <2>1, ListingOpens
  <2> QED BY <1>4, <1>5, <2>1, <2>2 DEF LogsInv
<1> QED BY <1>6, <1>9, <1>10 DEF GatherInv

LEMMA GatherChange ==
    ASSUME Inv, PlanInv, GatherInv, NormalizeChange, stage' # "failed" PROVE GatherInv'
<1> DEFINE change == Raw(item.node).changes[nth]
           entry == [call |-> ThisIndex, contract |-> change.contract]
           m == Len(acc.calls)
           n == Len(acc.changes)
<1>1. /\ stage = "changes" /\ nth \in Nat \ {0} /\ nth' = nth + 1
      /\ nth <= Len(Raw(item.node).changes) /\ ChangeFault(change) = NoFault
      /\ UNCHANGED <<document, item, stage>>
      /\ acc' = [acc EXCEPT !.changes = Append(@, entry)]
  BY DEF NormalizeChange, Fail, Inv, TypeInv
<1>2. /\ m \in Nat \ {0} /\ acc.calls[m].node = item.node /\ n \in Nat
      /\ Len(Raw(item.node).changes) \in Nat /\ ThisIndex = m - 1
      /\ acc.changes \in Seq([call : Nat, contract : Addresses]) /\ acc \in Accumulator
  BY <1>1, CallUnderWay DEF InCall
<1>3. change.readable
  BY <1>1, CheckedChange
<1> HIDE DEF change
<1>4. entry.call = m - 1 /\ entry.contract = change.contract
  BY <1>2
<1>5. /\ acc'.calls = acc.calls /\ acc'.changes = Append(acc.changes, entry)
      /\ acc'.logs = acc.logs /\ acc'.transfers = acc.transfers /\ acc'.seen = acc.seen
  <2> HIDE DEF entry
  <2>1. acc' = [calls |-> acc.calls, changes |-> Append(acc.changes, entry),
                logs |-> acc.logs, transfers |-> acc.transfers, seen |-> acc.seen]
    BY <1>1, <1>2, Gathered
  <2> QED BY <2>1
<1> HIDE DEF entry
<1>6. /\ Len(acc'.changes) = n + 1 /\ acc'.changes[n + 1] = entry
      /\ \A p \in 1 .. n : acc'.changes[p] = acc.changes[p]
  BY <1>2, <1>5
<1>a. m = Len(acc.calls) /\ n = Len(acc.changes)
  OBVIOUS
<1> HIDE DEF m, n
<1>7. NthInv'
  BY <1>1, <1>2 DEF NthInv, Raw
<1>8. ChangesOfCalls' = ChangesOfCalls /\ LogsOfCalls' = LogsOfCalls /\ LogsSoFar' = LogsSoFar
  BY <1>1, <1>5 DEF ChangesOfCalls, LogsOfCalls, LogsSoFar, Raw
<1>9. /\ \A k \in 1 .. m - 1 : ChangesSoFar'[k] = ChangesSoFar[k]
      /\ ChangesSoFar[m] = nth - 1 /\ ChangesSoFar'[m] = nth
      /\ ChangesOfCalls[m][nth] = change
  <2>1. m \in 1 .. m /\ \A k \in 1 .. m - 1 : k \in 1 .. m /\ k # m
    BY <1>2
  <2>2. nth' - 1 = nth
    BY <1>1
  <2>3. /\ ChangesSoFar = [k \in 1 .. m |-> IF k = m THEN nth - 1
                                           ELSE Len(Raw(acc.calls[k].node).changes)]
        /\ ChangesSoFar' = [k \in 1 .. m |-> IF k = m THEN nth' - 1
                                            ELSE Len(Raw(acc.calls[k].node).changes)]
    BY <1>1, <1>5, <1>a DEF ChangesSoFar, Raw
  <2>4. ChangesOfCalls[m] = Raw(item.node).changes
    BY <1>2, <1>a, <2>1 DEF ChangesOfCalls
  <2> QED BY <2>1, <2>2, <2>3, <2>4 DEF change
<1>10. /\ \A p \in 1 .. n : ChangeCalls'[p] = ChangeCalls[p]
       /\ ChangeCalls'[n + 1] = m - 1
  BY <1>2, <1>4, <1>6, <1>a DEF ChangeCalls
<1>11. ChangesInv'
  <2>1. PICK place, source :
            /\ Listing(n, m, ChangeCalls, place, source, ChangesOfCalls, ChangesSoFar)
            /\ \A p \in 1 .. n :
                    source[p].readable /\ source[p].contract = acc.changes[p].contract
    BY <1>1, <1>a DEF GatherInv, ChangesInv
  <2> DEFINE place2 == [p \in 1 .. n + 1 |-> IF p = n + 1 THEN nth ELSE place[p]]
             source2 == [p \in 1 .. n + 1 |-> IF p = n + 1 THEN change ELSE source[p]]
  <2>2. /\ \A p \in 1 .. n : place2[p] = place[p]
        /\ \A p \in 1 .. n : source2[p] = source[p]
        /\ place2[n + 1] = nth /\ source2[n + 1] = change
    BY <1>2
  <2> HIDE DEF place2, source2
  <2>3. Listing(n + 1, m, ChangeCalls', place2, source2, ChangesOfCalls, ChangesSoFar')
    <3>1. nth - 1 \in Nat /\ (nth - 1) + 1 = nth
      BY <1>1
    <3>2. /\ ChangesSoFar[m] \in Nat /\ ChangesSoFar'[m] = ChangesSoFar[m] + 1
          /\ place2[n + 1] = ChangesSoFar[m] + 1
          /\ source2[n + 1] = ChangesOfCalls[m][ChangesSoFar[m] + 1]
      BY <1>9, <2>2, <3>1
    <3>3. \A k \in 1 .. m - 1 : ChangesSoFar'[k] = ChangesSoFar[k]
      BY <1>9
    <3> DEFINE count == ChangesSoFar
               count2 == ChangesSoFar'
               lists == ChangesOfCalls
               call == ChangeCalls
               call2 == ChangeCalls'
    <3>4. OneMore(n, m, call, place, source, lists, count, call2, place2, source2, count2)
      BY <1>2, <1>10, <2>2, <3>2, <3>3 DEF OneMore
    <3> HIDE DEF count, count2, lists, call, call2
    <3>5. Listing(n, m, call, place, source, lists, count)
      BY <2>1 DEF count, lists, call
    <3>6. Listing(n + 1, m, call2, place2, source2, lists, count2)
      BY <3>4, <3>5, ListingGrows
    <3> QED BY <3>6 DEF count2, lists, call2
  <2>4. ASSUME NEW p \in 1 .. n + 1
        PROVE  source2[p].readable /\ source2[p].contract = acc'.changes[p].contract
    <3>1. CASE p = n + 1
      BY <1>3, <1>4, <1>6, <2>2, <3>1
    <3>2. CASE p \in 1 .. n
      BY <1>6, <2>1, <2>2, <3>2
    <3> QED BY <1>2, <3>1, <3>2
  <2> QED BY <1>5, <1>6, <1>8, <1>a, <2>3, <2>4 DEF ChangesInv
<1>12. LogsInv'
  BY <1>1, <1>5, <1>8 DEF GatherInv, LogsInv, SoundLog, DecodedFrom, DecodesTransfer
<1> QED BY <1>7, <1>11, <1>12 DEF GatherInv

LEMMA GatherLog ==
    ASSUME Inv, PlanInv, GatherInv, NormalizeLog, stage' # "failed" PROVE GatherInv'
<1> DEFINE log == Raw(item.node).logs[nth]
           decoded == IF DecodesTransfer(log) THEN Append(acc.transfers, TransferPosition)
                      ELSE acc.transfers
           m == Len(acc.calls)
           n == Len(acc.logs)
<1>1. /\ stage = "logs" /\ nth \in Nat \ {0} /\ nth' = nth + 1
      /\ nth <= Len(Raw(item.node).logs) /\ LogFault(log) = NoFault
      /\ UNCHANGED <<document, item, stage>>
      /\ acc' = [acc EXCEPT !.logs = Append(@, ThisIndex), !.transfers = decoded,
                            !.seen = @ \union {log.index}]
  BY DEF NormalizeLog, Fail, Inv, TypeInv
<1>2. /\ m \in Nat \ {0} /\ acc.calls[m].node = item.node /\ n \in Nat
      /\ Len(Raw(item.node).logs) \in Nat /\ ThisIndex = m - 1
      /\ acc.logs \in Seq(Nat) /\ acc.transfers \in Seq(Nat) /\ acc \in Accumulator
      /\ Len(acc.transfers) \in Nat
  BY <1>1, CallUnderWay DEF InCall
<1>3. SoundLog(log) /\ log.index \notin acc.seen
  <2> HIDE DEF log, decoded
  <2> QED BY <1>1, CheckedLog DEF SoundLog
<1>4. decoded = IF DecodesTransfer(log) THEN Append(acc.transfers, n) ELSE acc.transfers
  BY DEF TransferPosition
<1> HIDE DEF log, decoded
<1>5. /\ acc'.calls = acc.calls /\ acc'.changes = acc.changes
      /\ acc'.logs = Append(acc.logs, m - 1) /\ acc'.transfers = decoded
      /\ acc'.seen = acc.seen \union {log.index}
  <2> DEFINE x == Append(acc.logs, ThisIndex)
             z == acc.seen \union {log.index}
  <2>1. acc' = LogGathered(x, decoded, z)
    BY <1>1 DEF LogGathered
  <2>0. acc \in Accumulator
    BY <1>2
  <2> HIDE DEF x, z, m, n
  <2>2. /\ acc'.calls = acc.calls /\ acc'.changes = acc.changes
        /\ acc'.logs = x /\ acc'.transfers = decoded /\ acc'.seen = z
    BY <2>0, <2>1, GatheredLog
  <2>3. ThisIndex = m - 1
    BY <1>2
  <2> QED BY <2>2, <2>3 DEF x, z
<1>6. /\ Len(acc'.logs) = n + 1 /\ acc'.logs[n + 1] = m - 1
      /\ \A p \in 1 .. n : acc'.logs[p] = acc.logs[p]
  <2>1. m - 1 \in Nat
    BY <1>2
  <2> QED BY <1>2, <1>5, <2>1
<1>a. m = Len(acc.calls) /\ n = Len(acc.logs)
  OBVIOUS
<1> HIDE DEF m, n
<1>7. NthInv'
  BY <1>1, <1>2 DEF NthInv, Raw
<1>8. /\ LogsOfCalls' = LogsOfCalls /\ ChangesOfCalls' = ChangesOfCalls
      /\ ChangesSoFar' = ChangesSoFar /\ ChangeCalls' = ChangeCalls
  BY <1>1, <1>5 DEF ChangesOfCalls, LogsOfCalls, ChangesSoFar, ChangeCalls, Raw
<1>9. /\ \A k \in 1 .. m - 1 : LogsSoFar'[k] = LogsSoFar[k]
      /\ LogsSoFar[m] = nth - 1 /\ LogsSoFar'[m] = nth
      /\ LogsOfCalls[m][nth] = log
  <2>1. m \in 1 .. m /\ \A k \in 1 .. m - 1 : k \in 1 .. m /\ k # m
    BY <1>2
  <2>2. nth' - 1 = nth
    BY <1>1
  <2>3. /\ LogsSoFar = [k \in 1 .. m |-> IF k = m THEN nth - 1
                                        ELSE Len(Raw(acc.calls[k].node).logs)]
        /\ LogsSoFar' = [k \in 1 .. m |-> IF k = m THEN nth' - 1
                                         ELSE Len(Raw(acc.calls[k].node).logs)]
    BY <1>1, <1>5, <1>a DEF LogsSoFar, Raw
  <2>4. LogsOfCalls[m] = Raw(item.node).logs
    BY <1>2, <1>a, <2>1 DEF LogsOfCalls
  <2> QED BY <2>1, <2>2, <2>3, <2>4 DEF log
<1>10. ChangesInv'
  BY <1>1, <1>5, <1>8 DEF GatherInv, ChangesInv
<1>11. LogsInv'
  <2>1. PICK place, source :
            /\ Listing(n, m, acc.logs, place, source, LogsOfCalls, LogsSoFar)
            /\ \A p \in 1 .. n : SoundLog(source[p])
            /\ acc.seen = {source[p].index : p \in 1 .. n}
            /\ \A p, q \in 1 .. n : source[p].index = source[q].index => p = q
            /\ DecodedFrom(acc.transfers, source, n)
    BY <1>1, <1>a DEF GatherInv, LogsInv
  <2> DEFINE place2 == [p \in 1 .. n + 1 |-> IF p = n + 1 THEN nth ELSE place[p]]
             source2 == [p \in 1 .. n + 1 |-> IF p = n + 1 THEN log ELSE source[p]]
  <2>2. /\ \A p \in 1 .. n : place2[p] = place[p]
        /\ \A p \in 1 .. n : source2[p] = source[p]
        /\ place2[n + 1] = nth /\ source2[n + 1] = log
    BY <1>2
  <2> HIDE DEF place2, source2
  <2>3. Listing(n + 1, m, acc'.logs, place2, source2, LogsOfCalls, LogsSoFar')
    <3> DEFINE count == LogsSoFar
               count2 == LogsSoFar'
               lists == LogsOfCalls
               call == acc.logs
               call2 == acc'.logs
    <3>1. nth - 1 \in Nat /\ (nth - 1) + 1 = nth
      BY <1>1
    <3>2. /\ count[m] \in Nat /\ count2[m] = count[m] + 1
          /\ place2[n + 1] = count[m] + 1
          /\ source2[n + 1] = lists[m][count[m] + 1]
      BY <1>9, <2>2, <3>1
    <3>3. /\ \A k \in 1 .. m - 1 : count2[k] = count[k]
          /\ \A p \in 1 .. n : call2[p] = call[p]
          /\ call2[n + 1] = m - 1
      BY <1>6, <1>9
    <3>4. Listing(n, m, call, place, source, lists, count)
      BY <2>1
    <3> HIDE DEF count, count2, lists, call, call2
    <3>5. OneMore(n, m, call, place, source, lists, count, call2, place2, source2, count2)
      BY <1>2, <2>2, <3>2, <3>3 DEF OneMore
    <3>6. Listing(n + 1, m, call2, place2, source2, lists, count2)
      BY <3>4, <3>5, ListingGrows
    <3> QED BY <3>6 DEF count2, lists, call2
  <2>a. \A p \in 1 .. n + 1 : p \in 1 .. n \/ p = n + 1
    BY <1>2
  <2>b. \A p \in 1 .. n : source[p].index # log.index
    BY <1>3, <2>1
  <2>4. \A p \in 1 .. n + 1 : SoundLog(source2[p])
    BY <1>3, <2>1, <2>2, <2>a
  <2>5. acc'.seen = {source2[p].index : p \in 1 .. n + 1}
    <3>1. {source2[p].index : p \in 1 .. n + 1}
                = {source2[p].index : p \in 1 .. n} \union {source2[n + 1].index}
      BY <1>2, <2>a
    <3>2. {source2[p].index : p \in 1 .. n} = {source[p].index : p \in 1 .. n}
      BY <2>2
    <3> QED BY <1>5, <2>1, <2>2, <3>1, <3>2
  <2>6. ASSUME NEW p \in 1 .. n + 1, NEW q \in 1 .. n + 1, source2[p].index = source2[q].index
        PROVE  p = q
    <3>1. CASE p \in 1 .. n /\ q \in 1 .. n
      BY <2>1, <2>2, <2>6, <3>1
    <3>2. CASE p \in 1 .. n /\ q = n + 1
      BY <2>2, <2>6, <2>b, <3>2
    <3>3. CASE p = n + 1 /\ q \in 1 .. n
      BY <2>2, <2>6, <2>b, <3>3
    <3> QED BY <2>a, <3>1, <3>2, <3>3
  <2>7. DecodedFrom(decoded, source2, n + 1)
    <3>b. DOMAIN acc.transfers = 1 .. Len(acc.transfers)
      BY <1>2
    <3>0. /\ \A i, j \in 1 .. Len(acc.transfers) :
                i < j => acc.transfers[i] < acc.transfers[j]
          /\ \A p \in 1 .. n : DecodesTransfer(source[p])
                <=> \E i \in 1 .. Len(acc.transfers) : acc.transfers[i] = p - 1
      BY <2>1, <3>b, Zenon DEF DecodedFrom
    <3>a. \A i \in 1 .. Len(acc.transfers) : acc.transfers[i] \in 0 .. n - 1
      BY <1>1, <1>a DEF Inv, FactInv
    <3>1. CASE ~DecodesTransfer(log)
      <4>1. decoded = acc.transfers
        BY <1>4, <3>1
      <4>2. ASSUME NEW p \in 1 .. n + 1
            PROVE  DecodesTransfer(source2[p])
                <=> \E i \in 1 .. Len(acc.transfers) : acc.transfers[i] = p - 1
        <5>1. CASE p \in 1 .. n
          BY <2>2, <3>0, <5>1
        <5>2. CASE p = n + 1
          <6>1. \A i \in 1 .. Len(acc.transfers) : acc.transfers[i] # p - 1
            BY <1>2, <3>a, <5>2
          <6> QED BY <2>2, <3>1, <5>2, <6>1
        <5> QED BY <2>a, <5>1, <5>2
      <4>3. DOMAIN acc.transfers = 1 .. Len(acc.transfers)
        BY <1>2
      <4> QED BY <3>0, <4>1, <4>2, <4>3, Zenon DEF DecodedFrom
    <3>2. CASE DecodesTransfer(log)
      <4> DEFINE h == Len(acc.transfers)
      <4>1. /\ DOMAIN decoded = 1 .. h + 1 /\ decoded[h + 1] = n
            /\ \A i \in 1 .. h : decoded[i] = acc.transfers[i]
        BY <1>2, <1>4, <3>2
      <4>2. ASSUME NEW p \in 1 .. n + 1
            PROVE  DecodesTransfer(source2[p]) <=> \E i \in 1 .. h + 1 : decoded[i] = p - 1
        <5>1. CASE p \in 1 .. n
          <6>1. decoded[h + 1] # p - 1
            BY <1>2, <4>1, <5>1
          <6>2. \A i \in 1 .. h + 1 : i \in 1 .. h \/ i = h + 1
            BY <1>2
          <6>3. (\E i \in 1 .. h + 1 : decoded[i] = p - 1)
                    <=> \E i \in 1 .. h : acc.transfers[i] = p - 1
            <7>1. 1 .. h \subseteq 1 .. h + 1
              BY <1>2
            <7> HIDE DEF h
            <7> QED BY <4>1, <6>1, <6>2, <7>1
          <6> QED BY <2>2, <3>0, <5>1, <6>3
        <5>2. CASE p = n + 1
          <6>1. h + 1 \in 1 .. h + 1 /\ decoded[h + 1] = p - 1
            BY <1>2, <4>1, <5>2
          <6> QED BY <2>2, <3>2, <5>2, <6>1
        <5> QED BY <2>a, <5>1, <5>2
      <4>3. ASSUME NEW i \in 1 .. h + 1, NEW j \in 1 .. h + 1, i < j
            PROVE  decoded[i] < decoded[j]
        <5>0. h \in Nat
          BY <1>2
        <5>1. i \in 1 .. h /\ decoded[i] = acc.transfers[i] /\ decoded[i] \in 0 .. n - 1
          BY <1>2, <3>a, <4>1, <4>3
        <5>2. CASE j \in 1 .. h
          BY <3>0, <4>1, <4>3, <5>1, <5>2
        <5>3. CASE j = h + 1
          BY <1>2, <4>1, <5>1, <5>3
        <5>4. j \in 1 .. h \/ j = h + 1
          <6> HIDE DEF h
          <6> QED BY <5>0
        <5> QED BY <5>2, <5>3, <5>4
      <4> HIDE DEF h
      <4> QED BY <4>1, <4>2, <4>3, Zenon DEF DecodedFrom
    <3> QED BY <3>1, <3>2
  <2>8. /\ Len(acc'.logs) = n + 1 /\ Len(acc'.calls) = m
        /\ LogsOfCalls' = LogsOfCalls /\ acc'.transfers = decoded
    BY <1>5, <1>6, <1>8, <1>a
  <2>9. /\ Listing(Len(acc'.logs), Len(acc'.calls), acc'.logs, place2, source2,
                   LogsOfCalls', LogsSoFar')
        /\ \A p \in 1 .. Len(acc'.logs) : SoundLog(source2[p])
        /\ acc'.seen = {source2[p].index : p \in 1 .. Len(acc'.logs)}
        /\ \A p, q \in 1 .. Len(acc'.logs) : source2[p].index = source2[q].index => p = q
        /\ DecodedFrom(acc'.transfers, source2, Len(acc'.logs))
    BY <2>3, <2>4, <2>5, <2>6, <2>7, <2>8
  <2> QED BY <2>9 DEF LogsInv
<1> QED BY <1>7, <1>10, <1>11 DEF GatherInv

(* The steps of the walk that gather nothing. *)
LEMMA GatherEnds ==
    ASSUME Inv, PlanInv, GatherInv, ChangesDone \/ PushChildren PROVE GatherInv'
<1> DEFINE m == Len(acc.calls)
<1>1. /\ UNCHANGED <<document, item, acc>> /\ nth' = 1 /\ nth \in Nat \ {0}
      /\ \/ stage = "changes" /\ stage' = "logs" /\ nth > Len(Raw(item.node).changes)
         \/ stage = "logs" /\ stage' = "walk" /\ nth > Len(Raw(item.node).logs)
  BY DEF ChangesDone, PushChildren, walkVars, Inv, TypeInv
<1>2. /\ m \in Nat \ {0} /\ acc.calls[m].node = item.node
      /\ Len(Raw(item.node).changes) \in Nat /\ Len(Raw(item.node).logs) \in Nat
  BY <1>1, CallUnderWay DEF InCall
<1>3. /\ stage = "changes" => nth - 1 = Len(Raw(item.node).changes)
      /\ stage = "logs" => nth - 1 = Len(Raw(item.node).logs)
  BY <1>1, <1>2 DEF GatherInv, NthInv
<1>4. NthInv'
  BY <1>1, <1>2, SMTT(30) DEF NthInv, Raw
<1>5. ChangesOfCalls' = ChangesOfCalls /\ LogsOfCalls' = LogsOfCalls
  BY <1>1 DEF ChangesOfCalls, LogsOfCalls, Raw
<1>6. ChangesSoFar' = ChangesSoFar
  <2>1. ASSUME NEW k \in 1 .. m
        PROVE  (IF k = m /\ stage = "changes" THEN nth - 1
                ELSE Len(Raw(acc.calls[k].node).changes))
                 = Len(Raw(acc.calls[k].node).changes)
    BY <1>2, <1>3
  <2>2. ChangesSoFar' = [k \in 1 .. m |-> Len(Raw(acc.calls[k].node).changes)]
    BY <1>1 DEF ChangesSoFar, Raw
  <2>3. ChangesSoFar = [k \in 1 .. m |-> Len(Raw(acc.calls[k].node).changes)]
    BY <2>1 DEF ChangesSoFar
  <2> QED BY <2>2, <2>3
<1>7. LogsSoFar' = LogsSoFar
  <2>1. CASE stage = "changes"
    <3>1. nth' - 1 = 0
      BY <1>1
    <3> QED BY <1>1, <2>1, <3>1 DEF LogsSoFar, Raw
  <2>2. CASE stage = "logs"
    <3>1. ASSUME NEW k \in 1 .. m
          PROVE  (IF k = m THEN nth - 1 ELSE Len(Raw(acc.calls[k].node).logs))
                   = Len(Raw(acc.calls[k].node).logs)
      BY <1>2, <1>3, <2>2
    <3>2. LogsSoFar' = [k \in 1 .. m |-> Len(Raw(acc.calls[k].node).logs)]
      BY <1>1, <2>2 DEF LogsSoFar, Raw
    <3>3. LogsSoFar = [k \in 1 .. m |-> Len(Raw(acc.calls[k].node).logs)]
      BY <2>2, <3>1 DEF LogsSoFar
    <3> QED BY <3>2, <3>3
  <2> QED BY <1>1, <2>1, <2>2
<1> QED BY <1>1, <1>4, <1>5, <1>6, <1>7, GatheredStands

LEMMA GatherKept == ASSUME Inv, PlanInv, GatherInv, [Next]_vars PROVE GatherInv'
<1>1. CASE stage' = "failed"
  BY <1>1 DEF GatherInv, NthInv, ChangesInv, LogsInv
<1>2. CASE stage' # "failed" /\ (Load \/ VisitCall \/ NormalizeChange \/ NormalizeLog
                                 \/ ChangesDone \/ PushChildren)
  BY <1>2, GatherStarts, GatherOpens, GatherChange, GatherLog, GatherEnds
<1>3. CASE /\ stage' # "failed"
           /\ ~(Load \/ VisitCall \/ NormalizeChange \/ NormalizeLog \/ ChangesDone
                \/ PushChildren)
  <2>1. CASE UNCHANGED vars
    <3>1. UNCHANGED <<document, stage, item, nth, acc>>
      BY <2>1 DEF vars, walkVars
    <3>2. CASE stage = "load"
      BY <3>1, <3>2 DEF GatherInv, NthInv, ChangesInv, LogsInv
    <3>3. CASE stage \notin {"load", "failed"}
      <4>1. /\ NthInv' /\ ChangesOfCalls' = ChangesOfCalls /\ ChangesSoFar' = ChangesSoFar
            /\ LogsOfCalls' = LogsOfCalls /\ LogsSoFar' = LogsSoFar
        BY <3>1 DEF GatherInv, NthInv, ChangesOfCalls, ChangesSoFar, LogsOfCalls, LogsSoFar, Raw
      <4> QED BY <3>1, <3>3, <4>1, GatheredStands
    <3> QED BY <1>3, <3>1, <3>2, <3>3
  <2>2. CASE ~UNCHANGED vars
    <3>1. /\ UNCHANGED <<document, acc>> /\ stage \notin {"load", "failed"}
          /\ stage \notin InCall /\ stage' \notin InCall
      BY <1>3, <2>2 DEF Next, WalkDone, AddCall, Fail, AddStorageChange, AddLog,
         AddTokenTransfer, NextList, Handed, ValidateArena, ArenaReturns, Returned, walkVars,
         InCall
    <3>2. /\ NthInv' /\ ChangesOfCalls' = ChangesOfCalls /\ ChangesSoFar' = ChangesSoFar
          /\ LogsOfCalls' = LogsOfCalls /\ LogsSoFar' = LogsSoFar
      BY <3>1 DEF NthInv, ChangesOfCalls, ChangesSoFar, LogsOfCalls, LogsSoFar, Raw, InCall
    <3> QED BY <3>1, <3>2, GatheredStands
  <2> QED BY <2>1, <2>2
<1> QED BY <1>1, <1>2, <1>3

(* Every fact is gathered under its call, in order, at every step. *)
THEOREM Gather == Spec => []GatherInv
<1>1. Init => GatherInv
  BY DEF Init, GatherInv, NthInv, ChangesInv, LogsInv
<1>2. Inv /\ PlanInv /\ GatherInv /\ [Next]_vars => GatherInv'
  BY GatherKept
<1> QED BY <1>1, <1>2, Invariance, Plan, PTL DEF Spec

-----------------------------------------------------------------------------
(* What the builder has checked, and what it keeps.                        *)

(* A staticcall that Call::new has taken carries no value. *)
ValueInv ==
    stage \notin {"load", "failed"} =>
        \A k \in 1 .. Len(arenaCalls) :
            CanCarryValue(Raw(acc.calls[k].node).kind) \/ Raw(acc.calls[k].node).value = 0

LEMMA ValuesKept == ASSUME Inv, PlanInv, ValueInv, [Next]_vars PROVE ValueInv'
<1>1. CASE stage' = "failed" \/ stage = "failed"
  BY <1>1 DEF ValueInv, Next, Load, VisitCall, NormalizeChange, ChangesDone, NormalizeLog,
     PushChildren, WalkDone, AddCall, AddStorageChange, AddLog, AddTokenTransfer, NextList,
     Handed, ValidateArena, ArenaReturns, Returned, vars
<1>2. CASE stage = "load" \/ VisitCall \/ PushChildren
  <2>1. stage' # "failed" => stage' \in {"load", "walk", "changes"} /\ UNCHANGED arenaCalls
    BY <1>2 DEF Next, Load, Fail, VisitCall, NormalizeChange, ChangesDone, NormalizeLog,
       PushChildren, WalkDone, AddCall, AddStorageChange, AddLog, AddTokenTransfer, NextList,
       Handed, ValidateArena, ArenaReturns, Returned, vars, arenaVars
  <2>2. arenaCalls = <<>>
    <3>1. stage = "load" => arenaCalls = <<>>
      BY DEF Inv, TypeInv, Unread, Arena!Init
    <3>2. stage \in {"walk", "logs"} => arenaCalls = <<>>
      BY NothingAddedYet DEF Inv, NothingAdded, InCall
    <3> QED BY <1>2, <3>1, <3>2 DEF VisitCall, PushChildren
  <2>3. CASE stage' # "failed"
    <3>1. Len(arenaCalls') = 0
      BY <2>1, <2>2, <2>3
    <3> QED BY <3>1 DEF ValueInv
  <2> QED BY <2>3, <1>1
<1>3. CASE /\ stage \notin {"load", "failed"} /\ stage' # "failed"
           /\ ~VisitCall /\ ~PushChildren
  <2>1. UNCHANGED <<document, acc.calls>>
    BY <1>3, WalkStandsStill
  <2>2. CASE AddCall
    <3> DEFINE value == Raw(acc.calls[nth].node).value
               kind == Raw(acc.calls[nth].node).kind
    <3>1. /\ stage = "add_calls"
          /\ CanCarryValue(kind) \/ value = 0
          /\ \E call : arenaCalls' = Append(arenaCalls, call)
      BY <1>3, <2>2 DEF AddCall, Fail
    <3>2. nth = Len(arenaCalls) + 1 /\ Len(arenaCalls) \in Nat /\ arenaCalls \in Seq(AP!Call)
      <4>1. LoopInv /\ Len(arenaCalls) \in Nat /\ arenaCalls \in Seq(AP!Call)
        BY <3>1, Lists DEF Adding
      <4> QED BY <3>1, <4>1 DEF LoopInv
    <3>3. Len(arenaCalls') = Len(arenaCalls) + 1
      BY <3>1, <3>2
    <3>4. \A k \in 1 .. Len(arenaCalls') : k = nth \/ k \in 1 .. Len(arenaCalls)
      BY <3>2, <3>3
    <3> QED BY <1>3, <2>1, <3>1, <3>4 DEF ValueInv, Raw
  <2>3. CASE ~AddCall
    <3>1. UNCHANGED arenaCalls
      BY <1>3, <2>3 DEF Next, Load, Fail, NormalizeChange, ChangesDone, NormalizeLog,
         WalkDone, AddStorageChange, AddLog, AddTokenTransfer, NextList,
         Handed, ValidateArena, ArenaReturns, Returned, vars, arenaVars,
         Arena!Build, Arena!Examine, Arena!ReturnError, Arena!EndPass, Arena!facts
    <3> QED BY <1>3, <2>1, <3>1 DEF ValueInv, Raw
  <2> QED BY <2>2, <2>3
<1> QED BY <1>1, <1>2, <1>3

(* The values are checked of every call handed over. *)
THEOREM Values == Spec => []ValueInv
<1>1. Init => ValueInv
  BY DEF Init, ValueInv
<1>2. Inv /\ PlanInv /\ ValueInv /\ [Next]_vars => ValueInv'
  BY ValuesKept
<1> QED BY <1>1, <1>2, Invariance, Plan, PTL DEF Spec

(* The arena's lists are what the walk gathered. *)
LEMMA GatheredInOrder ==
    ASSUME Inv, PlanInv, stage = "ingested"
    PROVE  /\ Len(arenaCalls) = Len(acc.calls)
           /\ Len(arenaChanges) = Len(acc.changes) /\ arenaChanges = ChangeCalls
           /\ Len(arenaLogs) = Len(acc.logs)
           /\ [p \in 1 .. Len(arenaLogs) |-> arenaLogs[p].call] = acc.logs
           /\ arenaTransfers = acc.transfers
<1>1. /\ Copied /\ LoopInv /\ acc.logs \in Seq(Nat) /\ acc.transfers \in Seq(Nat)
      /\ Len(arenaCalls) \in Nat
  BY Lists
<1>2. /\ Len(arenaCalls) = Len(acc.calls) /\ Len(arenaChanges) = Len(acc.changes)
      /\ Len(arenaLogs) = Len(acc.logs) /\ Len(arenaTransfers) = Len(acc.transfers)
  BY <1>1 DEF LoopInv, PastCalls, PastChanges, PastLogs, PastTransfers
<1>3. arenaChanges = ChangeCalls
  BY <1>1, <1>2 DEF Copied, ChangeCalls
<1>4. /\ arenaLogs = [k \in 1 .. Len(acc.logs) |-> [id |-> k - 1, call |-> acc.logs[k]]]
      /\ arenaTransfers = [k \in 1 .. Len(acc.transfers) |-> acc.transfers[k]]
  BY <1>1, <1>2 DEF Copied
<1>5. /\ acc.logs = [k \in 1 .. Len(acc.logs) |-> acc.logs[k]]
      /\ acc.transfers = [k \in 1 .. Len(acc.transfers) |-> acc.transfers[k]]
  BY <1>1
<1>6. [p \in 1 .. Len(arenaLogs) |-> arenaLogs[p].call] = acc.logs
  BY <1>2, <1>4, <1>5
<1> QED BY <1>2, <1>3, <1>4, <1>5, <1>6

(* Every place of a listing is somewhere in it. *)
LEMMA Listed ==
    ASSUME NEW n, NEW m, NEW call, NEW place, NEW source, NEW lists, NEW count,
           Listing(n, m, call, place, source, lists, count),
           NEW k \in 1 .. m, NEW j \in 1 .. count[k], m \in Nat
    PROVE  \E p \in 1 .. n : call[p] = k - 1 /\ place[p] = j /\ source[p] = lists[k][j]
<1>1. PICK p \in 1 .. n : call[p] = k - 1 /\ place[p] = j
  BY Zenon DEF Listing
<1>2. source[p] = lists[call[p] + 1][place[p]]
  BY Zenon DEF Listing
<1>3. k - 1 + 1 = k
  OBVIOUS
<1> QED BY <1>1, <1>2, <1>3

-----------------------------------------------------------------------------
(* Traversal is what its recursion says.                                    *)

Traverses(f) ==
    f = [n \in Nodes |->
            <<n>> \o FlattenSeq([i \in 1 .. Len(Raw(n).calls) |-> f[Raw(n).calls[i]]])]

(* f orders the subtrees of the calls from m on. *)
Orders(f, m) ==
    /\ f \in [m .. Len(document.calls) -> Seq(Nodes)]
    /\ \A n \in m .. Len(document.calls) :
        f[n] = <<n>> \o FlattenSeq([i \in 1 .. Len(Raw(n).calls) |-> f[Raw(n).calls[i]]])

(* One more call, the subtrees of all later ones being ordered. *)
LEMMA OrdersBefore ==
    ASSUME TreeOfCalls, NEW m \in Nodes, NEW f, Orders(f, m + 1) PROVE \E g : Orders(g, m)
<1> DEFINE N == Len(document.calls)
           Below(h, n) == [i \in 1 .. Len(Raw(n).calls) |-> h[Raw(n).calls[i]]]
           g == [n \in m .. N |-> IF n = m THEN <<m>> \o FlattenSeq(Below(f, m)) ELSE f[n]]
<1>1. N \in Nat /\ m \in 1 .. N /\ Nodes = 1 .. N
  BY DEF TreeOfCalls, Nodes
<1> HIDE DEF N
<1>2. /\ f \in [m + 1 .. N -> Seq(Nodes)]
      /\ \A n \in m + 1 .. N : f[n] = <<n>> \o FlattenSeq(Below(f, n))
  BY DEF Orders, N
<1>3. \A n \in m .. N : /\ Len(Raw(n).calls) \in Nat
                        /\ \A i \in 1 .. Len(Raw(n).calls) : Raw(n).calls[i] \in n + 1 .. N
  <2> TAKE n \in m .. N
  <2>1. n \in Nodes /\ Raw(n).calls \in Seq(Nodes)
    BY <1>1 DEF TreeOfCalls
  <2>2. Len(Raw(n).calls) \in Nat /\ \A i \in 1 .. Len(Raw(n).calls) : Raw(n).calls[i] \in Nodes
    BY <2>1, ElementOfSeq, LenProperties
  <2>3. \A i \in 1 .. Len(Raw(n).calls) : n < Raw(n).calls[i]
    BY <2>1 DEF TreeOfCalls
  <2>4. \A i \in 1 .. Len(Raw(n).calls) : Raw(n).calls[i] \in n + 1 .. N
    <3> TAKE i \in 1 .. Len(Raw(n).calls)
    <3>1. Raw(n).calls[i] \in Nodes /\ n < Raw(n).calls[i]
      BY <2>2, <2>3
    <3> QED BY <1>1, <3>1
  <2> QED BY <2>2, <2>4
<1>4. \A n \in m .. N : Below(g, n) = Below(f, n) /\ Below(f, n) \in Seq(Seq(Nodes))
  <2> TAKE n \in m .. N
  <2>1. \A i \in 1 .. Len(Raw(n).calls) :
            Raw(n).calls[i] \in m + 1 .. N /\ Raw(n).calls[i] \in m .. N /\ Raw(n).calls[i] # m
    <3> TAKE i \in 1 .. Len(Raw(n).calls)
    <3>1. Raw(n).calls[i] \in n + 1 .. N
      BY <1>3
    <3> QED BY <1>1, <3>1
  <2>2. \A i \in 1 .. Len(Raw(n).calls) :
            g[Raw(n).calls[i]] = f[Raw(n).calls[i]] /\ f[Raw(n).calls[i]] \in Seq(Nodes)
    BY <1>2, <2>1
  <2> HIDE DEF g
  <2>3. Len(Raw(n).calls) \in Nat
    BY <1>3
  <2>4. Below(g, n) = Below(f, n)
    BY <2>2
  <2>5. \A i \in 1 .. Len(Raw(n).calls) : Below(f, n)[i] \in Seq(Nodes)
    BY <2>2
  <2>6. Below(f, n) = [i \in 1 .. Len(Raw(n).calls) |-> Below(f, n)[i]]
    OBVIOUS
  <2> HIDE DEF Below
  <2> QED BY <2>3, <2>4, <2>5, <2>6
<1>5. \A n \in m .. N : <<n>> \o FlattenSeq(Below(f, n)) \in Seq(Nodes)
  <2> TAKE n \in m .. N
  <2>1. FlattenSeq(Below(f, n)) \in Seq(Nodes)
    <3> HIDE DEF Below
    <3> QED BY <1>4, FlattenSeqLists
  <2>2. n \in Nodes /\ <<n>> \in Seq(Nodes)
    BY <1>1
  <2> HIDE DEF Below
  <2> QED BY <2>1, <2>2, ConcatProperties
<1>6. \A n \in m .. N : g[n] = <<n>> \o FlattenSeq(Below(f, n))
  <2> TAKE n \in m .. N
  <2>1. CASE n = m
    <3> HIDE DEF Below
    <3> QED BY <2>1
  <2>2. CASE n # m
    <3>1. n \in m + 1 .. N
      BY <1>1, <2>2
    <3> HIDE DEF Below
    <3> QED BY <1>2, <2>2, <3>1
  <2> QED BY <2>1, <2>2
<1>7. g = [n \in m .. N |-> g[n]]
  OBVIOUS
<1> HIDE DEF g
<1>8. g \in [m .. N -> Seq(Nodes)]
  <2> HIDE DEF Below
  <2> QED BY <1>5, <1>6, <1>7
<1>9. \A n \in m .. N : g[n] = <<n>> \o FlattenSeq(Below(g, n))
  <2> HIDE DEF Below
  <2> QED BY <1>4, <1>6
<1> QED BY <1>8, <1>9 DEF Orders, N

(* Every call of a tree has a traversal: itself, then those of its children. *)
LEMMA TraversalMeans ==
    ASSUME TreeOfCalls
    PROVE  /\ Traversal \in [Nodes -> Seq(Nodes)]
           /\ \A n \in Nodes : Traversal[n] =
                <<n>> \o FlattenSeq([i \in 1 .. Len(Raw(n).calls) |-> Traversal[Raw(n).calls[i]]])
<1> DEFINE N == Len(document.calls)
           T == {j \in 0 .. N : ~ \E f : Orders(f, N + 1 - j)}
<1>1. N \in Nat /\ Nodes = 1 .. N
  BY DEF TreeOfCalls, Nodes
<1>2. \E f : Orders(f, 1)
  <2>1. SUFFICES ASSUME T # {} PROVE FALSE
    <3>1. N \in 0 .. N /\ N + 1 - N = 1
      BY <1>1
    <3> HIDE DEF N
    <3> QED BY <3>1
  <2>2. PICK j \in T : \A y \in T : j <= y
    <3>1. T \in SUBSET Nat
      BY <1>1
    <3> HIDE DEF T
    <3> QED BY <2>1, <3>1, MinExists
  <2>3. j \in 0 .. N /\ ~ \E f : Orders(f, N + 1 - j)
    BY <2>2
  <2>4. CASE j = 0
    <3>1. N + 1 .. N = {} /\ N + 1 - j = N + 1
      BY <1>1, <2>4
    <3>2. Orders([n \in {} |-> n], N + 1)
      BY <3>1 DEF Orders
    <3> QED BY <2>3, <3>1, <3>2
  <2>5. CASE j # 0
    <3>1. j - 1 \in 0 .. N /\ ~(j <= j - 1) /\ N + 1 - (j - 1) = (N + 1 - j) + 1
          /\ N + 1 - j \in Nodes
      BY <1>1, <2>3, <2>5
    <3>2. j - 1 \notin T
      <4> HIDE DEF T
      <4> QED BY <2>2, <3>1
    <3>3. \E f : Orders(f, (N + 1 - j) + 1)
      <4> HIDE DEF N
      <4> QED BY <3>1, <3>2
    <3> HIDE DEF N
    <3> QED BY <2>3, <3>1, <3>3, OrdersBefore
  <2> QED BY <2>4, <2>5
<1>3. \E f : Traverses(f)
  <2>1. PICK f : Orders(f, 1)
    BY <1>2
  <2>2. f = [n \in Nodes |-> f[n]] /\ Nodes = 1 .. Len(document.calls)
    BY <1>1, <2>1 DEF Orders
  <2>3. Traverses(f)
    BY <2>1, <2>2 DEF Orders, Traverses
  <2> QED BY <2>3
<1>4. Traverses(Traversal)
  <2> DEFINE F == CHOOSE f : Traverses(f)
  <2>1. Traversal = F
    BY DEF Traversal, Traverses
  <2>2. Traverses(F)
    BY <1>3
  <2> HIDE DEF F
  <2> QED BY <2>1, <2>2
<1>5. Traversal = [n \in Nodes |-> Traversal[n]]
      /\ \A n \in Nodes : Traversal[n] =
            <<n>> \o FlattenSeq([i \in 1 .. Len(Raw(n).calls) |-> Traversal[Raw(n).calls[i]]])
  BY <1>4, Zenon DEF Traverses
<1>6. \A n \in Nodes : Traversal[n] \in Seq(Nodes)
  <2> DEFINE U == {j \in 1 .. N : Traversal[N + 1 - j] \notin Seq(Nodes)}
  <2>1. SUFFICES ASSUME U # {} PROVE FALSE
    <3> SUFFICES ASSUME NEW n \in Nodes, Traversal[n] \notin Seq(Nodes) PROVE FALSE
      OBVIOUS
    <3>1. N + 1 - n \in 1 .. N /\ N + 1 - (N + 1 - n) = n
      BY <1>1
    <3> QED BY <3>1
  <2>2. PICK j \in U : \A y \in U : j <= y
    <3>1. U \in SUBSET Nat
      BY <1>1
    <3> HIDE DEF U
    <3> QED BY <2>1, <3>1, MinExists
  <2> DEFINE n == N + 1 - j
             kids == Raw(n).calls
             below == [i \in 1 .. Len(kids) |-> Traversal[kids[i]]]
  <2>3. j \in 1 .. N /\ Traversal[n] \notin Seq(Nodes) /\ n \in Nodes
    BY <1>1, <2>2
  <2>4. kids \in Seq(Nodes) /\ \A i \in 1 .. Len(kids) : n < kids[i] /\ kids[i] \in Nodes
    <3>1. kids \in Seq(Nodes) /\ \A i \in 1 .. Len(kids) : n < kids[i]
      <4> HIDE DEF n
      <4> QED BY <2>3 DEF TreeOfCalls
    <3> HIDE DEF kids, n
    <3> QED BY <3>1
  <2>5. ASSUME NEW i \in 1 .. Len(kids) PROVE Traversal[kids[i]] \in Seq(Nodes)
    <3> DEFINE c == kids[i]
    <3>1. c \in 1 .. N /\ n < c
      <4> HIDE DEF kids, n
      <4> QED BY <1>1, <2>4
    <3> HIDE DEF kids, c
    <3>2. N + 1 - c \in 1 .. N /\ ~(j <= N + 1 - c) /\ N + 1 - (N + 1 - c) = c
      <4> HIDE DEF N
      <4> QED BY <1>1, <2>3, <3>1
    <3>3. N + 1 - c \notin U
      <4> HIDE DEF U, N
      <4> QED BY <2>2, <3>2
    <3>4. Traversal[c] \in Seq(Nodes)
      <4> HIDE DEF N
      <4> QED BY <3>2, <3>3
    <3> QED BY <3>4 DEF c
  <2>6. below \in Seq(Seq(Nodes))
    <3> HIDE DEF kids, U
    <3>1. Len(kids) \in Nat
      BY <2>4
    <3>2. \A i \in 1 .. Len(kids) : below[i] \in Seq(Nodes)
      BY <2>5
    <3> QED BY <3>1, <3>2
  <2>7. Traversal[n] = <<n>> \o FlattenSeq(below)
    <3> HIDE DEF n
    <3> QED BY <1>5, <2>3
  <2>8. Traversal[n] \in Seq(Nodes)
    <3> HIDE DEF n, below, U
    <3>1. FlattenSeq(below) \in Seq(Nodes) /\ <<n>> \in Seq(Nodes)
      BY <2>3, <2>6, FlattenSeqLists
    <3>2. <<n>> \o FlattenSeq(below) \in Seq(Nodes)
      <4> DEFINE x == FlattenSeq(below)
      <4> HIDE DEF x
      <4> QED BY <3>1 DEF x
    <3> QED BY <2>7, <3>2
  <2> QED BY <2>3, <2>8
<1> QED BY <1>5, <1>6

(* Nothing said of the document changes while it does not. *)
LEMMA SameTree ==
    ASSUME UNCHANGED document
    PROVE  /\ Nodes' = Nodes /\ (TreeOfCalls' <=> TreeOfCalls)
           /\ Traversal' = Traversal /\ PreOrder' = PreOrder
           /\ Nesting' = Nesting /\ StorageContext' = StorageContext
           /\ AllLogs' = AllLogs /\ (WellFormed' <=> WellFormed)
<1>1. Nodes' = Nodes /\ (TreeOfCalls' <=> TreeOfCalls)
  BY DEF Nodes, TreeOfCalls, Raw, HasFacts
<1>2. Traversal' = Traversal
  BY DEF Nodes, Traversal, Raw
<1>3. Nesting' = Nesting
  BY DEF Nodes, Nesting, ParentNode, Raw
<1>4. StorageContext' = StorageContext
  BY DEF Nodes, StorageContext, ParentNode, Raw, InCallerContext
<1>5. PreOrder' = PreOrder
  BY <1>2 DEF PreOrder
<1>6. AllLogs' = AllLogs
  BY <1>5 DEF AllLogs, Raw
<1>7. WellFormed' <=> WellFormed
  BY <1>1, <1>3, <1>4, <1>6 DEF WellFormed, Raw, CallKinds
<1> QED BY <1>1, <1>2, <1>3, <1>4, <1>5, <1>6, <1>7

-----------------------------------------------------------------------------
(* The walk is the traversal.                                               *)

(* The calls of a list, each with the calls below it. *)
Traverse(list) == FlattenSeq(Image(Traversal, list))

(* Lists of calls have traversals. *)
LEMMA TraverseLists ==
    ASSUME TreeOfCalls, NEW list \in Seq(Nodes)
    PROVE  /\ Image(Traversal, list) \in Seq(Seq(Nodes))
           /\ Traverse(list) \in Seq(Nodes)
<1> DEFINE each == [i \in 1 .. Len(list) |-> Traversal[list[i]]]
<1>1. \A i \in 1 .. Len(list) : Traversal[list[i]] \in Seq(Nodes)
  <2> TAKE i \in 1 .. Len(list)
  <2>1. list[i] \in Nodes
    BY ElementOfSeq
  <2> QED BY <2>1, TraversalMeans
<1>2. Len(list) \in Nat
  OBVIOUS
<1>3. each \in Seq(Seq(Nodes))
  BY <1>1, <1>2, IsASeq
<1> HIDE DEF each
<1>4. FlattenSeq(each) \in Seq(Nodes)
  BY <1>3, FlattenSeqLists
<1> QED BY <1>3, <1>4 DEF each, Traverse, Image

(* The traversal of two lists is theirs, one after the other. *)
LEMMA TraverseCat ==
    ASSUME TreeOfCalls, NEW a \in Seq(Nodes), NEW b \in Seq(Nodes)
    PROVE  Traverse(a \o b) = Traverse(a) \o Traverse(b)
<1>1. Image(Traversal, a) \in Seq(Seq(Nodes)) /\ Image(Traversal, b) \in Seq(Seq(Nodes))
  BY TraverseLists
<1>2. Image(Traversal, a \o b) = Image(Traversal, a) \o Image(Traversal, b)
  <2>1. Traversal \in [Nodes -> Seq(Nodes)]
    BY TraversalMeans
  <2>2. Joins(Image(Traversal, a \o b), Image(Traversal, a), Image(Traversal, b))
    BY <2>1, ImageCat, Zenon
  <2> QED BY <2>2 DEF Joins
<1>3. FlattenSeq(Image(Traversal, a) \o Image(Traversal, b))
        = FlattenSeq(Image(Traversal, a)) \o FlattenSeq(Image(Traversal, b))
  BY <1>1, FlattenSeqCat
<1>4. \A list : Traverse(list) = FlattenSeq(Image(Traversal, list))
  BY DEF Traverse
<1> QED BY <1>2, <1>3, <1>4

(* A call comes before those nested in it. *)
LEMMA TraverseOne ==
    ASSUME TreeOfCalls, NEW n \in Nodes
    PROVE  Traverse(<<n>>) = <<n>> \o Traverse(Raw(n).calls)
<1>1. Traversal[n] \in Seq(Nodes) /\ Traversal[n] = <<n>> \o Traverse(Raw(n).calls)
  BY TraversalMeans, Zenon DEF Traverse, Image
<1>2. Image(Traversal, <<n>>) = <<Traversal[n]>>
  BY DEF Image
<1>3. FlattenSeq(<<Traversal[n]>>) = Traversal[n]
  BY <1>1, FlattenSeqOne
<1> QED BY <1>1, <1>2, <1>3 DEF Traverse

(* A call, the calls below it and the rest of the list. *)
LEMMA TraverseNext ==
    ASSUME TreeOfCalls, NEW n \in Nodes, NEW rest \in Seq(Nodes)
    PROVE  Traverse(<<n>> \o rest) = <<n>> \o Traverse(Raw(n).calls \o rest)
<1>1. <<n>> \in Seq(Nodes) /\ Raw(n).calls \in Seq(Nodes)
  BY DEF TreeOfCalls
<1>2. Traverse(<<n>> \o rest) = (<<n>> \o Traverse(Raw(n).calls)) \o Traverse(rest)
  BY <1>1, TraverseCat, TraverseOne
<1>3. Traverse(Raw(n).calls \o rest) = Traverse(Raw(n).calls) \o Traverse(rest)
  BY <1>1, TraverseCat
<1>4. Traverse(Raw(n).calls) \in Seq(Nodes) /\ Traverse(rest) \in Seq(Nodes)
  BY <1>1, TraverseLists
<1>5. (<<n>> \o Traverse(Raw(n).calls)) \o Traverse(rest)
        = <<n>> \o (Traverse(Raw(n).calls) \o Traverse(rest))
  BY <1>1, <1>4, ConcatAssociative
<1> QED BY <1>2, <1>3, <1>5

(* No step touches the document. *)
LEMMA DocumentStands == ASSUME [Next]_vars PROVE UNCHANGED document
BY DEF Next, Load, VisitCall, NormalizeChange, ChangesDone, NormalizeLog, PushChildren,
   WalkDone, AddCall, AddStorageChange, AddLog, AddTokenTransfer, NextList, Handed,
   ValidateArena, ArenaReturns, Returned, vars

(* ingest() keeps to the document it was given, whatever it does with it. *)
THEOREM DocumentKept == Spec => []DocumentInv
<1>1. Init => DocumentInv
  BY DocumentAssumption DEF Init, DocumentInv
<1>2. DocumentInv /\ [Next]_vars => DocumentInv'
  BY DocumentStands DEF DocumentInv
<1> QED BY <1>1, <1>2, PTL DEF Spec

(* What passed the loading stage is a tree of calls. *)
LEMMA TreeWalked ==
    ASSUME Inv, DocumentInv, stage \notin {"load", "failed"} PROVE TreeOfCalls
BY DocumentIsTree DEF Inv, TypeInv, DocumentInv

(* The calls visited, those on the stack in the order they will be, and before
   them those nested in the call under way. *)
Visited == [k \in 1 .. Len(acc.calls) |-> acc.calls[k].node]
Stacked == [k \in 1 .. Len(stack) |-> stack[Len(stack) + 1 - k].node]
Coming == IF stage \in InCall THEN Raw(item.node).calls \o Stacked ELSE Stacked

(* What the walk has visited and what it is going to visit are, together, the
   document in pre-order. *)
WalkInv == stage \notin {"load", "failed"} => Visited \o Traverse(Coming) = PreOrder

(* The calls of a list of records, and of a stack from its top. *)
LEMMA NodesListed ==
    ASSUME NEW R, \A r \in R : r.node \in Nodes, NEW s \in Seq(R)
    PROVE  /\ [k \in 1 .. Len(s) |-> s[k].node] \in Seq(Nodes)
           /\ [k \in 1 .. Len(s) |-> s[Len(s) + 1 - k].node] \in Seq(Nodes)
           /\ Len([k \in 1 .. Len(s) |-> s[k].node]) = Len(s)
           /\ Len([k \in 1 .. Len(s) |-> s[Len(s) + 1 - k].node]) = Len(s)
<1>1. Len(s) \in Nat /\ \A k \in 1 .. Len(s) : s[k] \in R
  BY ElementOfSeq
<1>2. \A k \in 1 .. Len(s) : s[k].node \in Nodes /\ s[Len(s) + 1 - k].node \in Nodes
  BY <1>1
<1> QED BY <1>1, <1>2

(* The visited calls and those on the stack are calls of the document. *)
LEMMA WalkListed ==
    ASSUME Inv, stage \notin {"load", "failed"}
    PROVE  /\ Visited \in Seq(Nodes) /\ Len(Visited) = Len(acc.calls)
           /\ Stacked \in Seq(Nodes) /\ Len(Stacked) = Len(stack)
<1>1. acc.calls \in Seq(NormalizedCall) /\ stack \in Seq(PendingCall)
  BY DEF Inv, TypeInv, Accumulator
<1>2. /\ \A r \in NormalizedCall : r.node \in Nodes
      /\ \A r \in PendingCall : r.node \in Nodes
  BY DEF NormalizedCall, PendingCall
<1> QED BY <1>1, <1>2, NodesListed DEF Visited, Stacked

(* The same of the next state. *)
LEMMA WalkListedNext ==
    ASSUME Inv', UNCHANGED document, stage' \notin {"load", "failed"}
    PROVE  /\ Visited' \in Seq(Nodes) /\ Len(Visited') = Len(acc'.calls)
           /\ Stacked' \in Seq(Nodes) /\ Len(Stacked') = Len(stack')
<1>0. PendingCall' = PendingCall /\ NormalizedCall' = NormalizedCall
  BY SameDocument DEF NormalizedCall, Nodes
<1>1. acc'.calls \in Seq(NormalizedCall) /\ stack' \in Seq(PendingCall)
  BY <1>0 DEF Inv, TypeInv, Accumulator
<1>2. /\ \A r \in NormalizedCall : r.node \in Nodes
      /\ \A r \in PendingCall : r.node \in Nodes
  BY DEF NormalizedCall, PendingCall
<1> QED BY <1>1, <1>2, NodesListed DEF Visited, Stacked

(* The pre-order is the traversal of the root. *)
LEMMA PreOrderTraverses ==
    ASSUME TreeOfCalls PROVE PreOrder = Traverse(<<1>>) /\ PreOrder \in Seq(Nodes)
<1>1. 1 \in Nodes
  BY DEF TreeOfCalls, Nodes
<1>2. Traversal[1] \in Seq(Nodes)
  BY <1>1, TraversalMeans
<1>3. Image(Traversal, <<1>>) = <<Traversal[1]>>
  BY DEF Image
<1>4. FlattenSeq(<<Traversal[1]>>) = Traversal[1]
  BY <1>2, FlattenSeqOne
<1> QED BY <1>2, <1>3, <1>4 DEF PreOrder, Traverse

(* The stack holds the root, and nothing is visited. *)
LEMMA WalkStarts == ASSUME Inv, DocumentInv, Load, stage' # "failed" PROVE WalkInv'
<1>1. /\ stage' = "walk" /\ stack' = <<Root>> /\ acc' = acc /\ acc.calls = <<>>
      /\ UNCHANGED document
  BY DEF Load, Fail, Inv, TypeInv, Unread
<1>2. TreeOfCalls
  <2>1. Inv'
    BY LoadPreserves
  <2>2. document.loads /\ document.decodes
    BY <1>1, <2>1 DEF Inv, TypeInv
  <2> QED BY <2>2, DocumentIsTree DEF DocumentInv
<1>3. Visited' = <<>> /\ Coming' = <<1>>
  <2>1. Len(acc'.calls) = 0 /\ Len(stack') = 1 /\ stack'[1] = Root
    BY <1>1
  <2>2. Visited' = <<>>
    BY <2>1 DEF Visited
  <2>3. Stacked' = <<1>>
    BY <2>1 DEF Stacked, Root, Pending
  <2> QED BY <1>1, <2>2, <2>3 DEF Coming, InCall
<1>4. Traverse(Coming)' = Traverse(<<1>>) /\ PreOrder' = PreOrder
  BY <1>1, <1>3, SameTree DEF Traverse
<1>5. <<>> \o PreOrder = PreOrder /\ PreOrder = Traverse(<<1>>)
  BY <1>2, PreOrderTraverses, ConcatEmptySeq
<1> QED BY <1>3, <1>4, <1>5 DEF WalkInv

(* A popped call is visited, and what is nested in it comes next. *)
LEMMA WalkVisits == ASSUME Inv, DocumentInv, WalkInv, VisitCall, stage' # "failed" PROVE WalkInv'
<1> DEFINE it == Last(stack)
           visited == [node |-> it.node, parent |-> it.parent, depth |-> it.depth]
           n == it.node
<1>1. /\ stage = "walk" /\ stack # <<>> /\ item' = it /\ stack' = Front(stack)
      /\ UNCHANGED document /\ acc' = [acc EXCEPT !.calls = Append(@, visited)]
      /\ stage' = "changes"
  BY DEF VisitCall, Fail
<1>2. stack \in Seq(PendingCall) /\ acc \in Accumulator /\ TreeOfCalls
  BY <1>1, TreeWalked DEF Inv, TypeInv
<1>3. /\ Len(stack) \in Nat \ {0} /\ it = stack[Len(stack)] /\ it \in PendingCall
      /\ stack' \in Seq(PendingCall) /\ Len(stack') = Len(stack) - 1
      /\ \A k \in 1 .. Len(stack) - 1 : stack'[k] = stack[k]
  BY <1>1, <1>2, Popped
<1> HIDE DEF it
<1>4. visited.node = n /\ n \in Nodes
  BY <1>3 DEF PendingCall
<1>5. acc'.calls = Append(acc.calls, visited)
  <2> HIDE DEF visited, n
  <2> QED BY <1>1, <1>2, Gathered
<1>6. Visited' = Append(Visited, n)
  <2>1. acc.calls \in Seq(NormalizedCall)
    BY <1>2 DEF Accumulator
  <2> HIDE DEF visited, n
  <2>2. /\ Len(acc.calls) \in Nat /\ Len(acc'.calls) = Len(acc.calls) + 1
        /\ acc'.calls[Len(acc.calls) + 1] = visited
        /\ \A k \in 1 .. Len(acc.calls) : acc'.calls[k] = acc.calls[k]
    BY <1>5, <2>1
  <2>3. Visited' \in Seq(Nodes) /\ Visited \in Seq(Nodes) /\ Len(Visited') = Len(acc'.calls)
        /\ Len(Visited) = Len(acc.calls)
    <3>1. Inv' /\ stage' \notin {"load", "failed"}
      BY <1>1, VisitCallPreserves
    <3> QED BY <1>1, <3>1, WalkListed, WalkListedNext
  <2>4. \A k \in 1 .. Len(acc.calls) + 1 :
            Visited'[k] = IF k <= Len(acc.calls) THEN Visited[k] ELSE n
    BY <1>4, <2>2 DEF Visited
  <2>5. Append(Visited, n) \in Seq(Nodes) /\ Len(Append(Visited, n)) = Len(acc.calls) + 1
        /\ \A k \in 1 .. Len(acc.calls) + 1 :
                Append(Visited, n)[k] = IF k <= Len(acc.calls) THEN Visited[k] ELSE n
    BY <1>4, <2>2, <2>3
  <2>6. Visited' \in Seq(Nodes) /\ Len(Visited') = Len(acc.calls) + 1
    BY <2>2, <2>3
  <2> HIDE DEF n
  <2>7. \A k \in 1 .. Len(acc.calls) + 1 : Visited'[k] = Append(Visited, n)[k]
    BY <2>4, <2>5
  <2> QED BY <2>5, <2>6, <2>7, SeqEqual
<1>7. Stacked = <<n>> \o Stacked' /\ Stacked' \in Seq(Nodes)
  <2>1. Stacked' \in Seq(Nodes) /\ Len(Stacked') = Len(stack') /\ Stacked \in Seq(Nodes)
        /\ Len(Stacked) = Len(stack)
    <3>1. Inv' /\ stage' \notin {"load", "failed"}
      BY <1>1, VisitCallPreserves
    <3> QED BY <1>1, <3>1, WalkListed, WalkListedNext
  <2> HIDE DEF visited
  <2>2. <<n>> \in Seq(Nodes) /\ Len(<<n>>) = 1 /\ <<n>>[1] = n
    BY <1>4
  <2>3. \A k \in 1 .. Len(stack) : Stacked[k] = IF k <= 1 THEN n ELSE Stacked'[k - 1]
    <3> TAKE k \in 1 .. Len(stack)
    <3>1. CASE k = 1
      BY <1>3, <3>1 DEF Stacked
    <3>2. CASE k # 1
      <4>1. k - 1 \in 1 .. Len(stack') /\ Len(stack) + 1 - k \in 1 .. Len(stack) - 1
            /\ Len(stack') + 1 - (k - 1) = Len(stack) + 1 - k
        BY <1>3, <3>2
      <4>2. Stacked'[k - 1] = stack'[Len(stack) + 1 - k].node
        BY <4>1 DEF Stacked
      <4>3. Stacked[k] = stack[Len(stack) + 1 - k].node
        BY DEF Stacked
      <4>4. stack'[Len(stack) + 1 - k] = stack[Len(stack) + 1 - k]
        BY <1>3, <4>1
      <4>5. ~(k <= 1)
        BY <3>2
      <4> HIDE DEF n
      <4> QED BY <4>2, <4>3, <4>4, <4>5, Zenon
    <3> QED BY <3>1, <3>2
  <2> HIDE DEF n
  <2>4. Joins(Stacked, <<n>>, Stacked')
    <3>1. Len(Stacked) = Len(<<n>>) + Len(Stacked')
      BY <1>3, <2>1, <2>2
    <3>2. \A k \in 1 .. Len(Stacked) :
            Stacked[k] = IF k <= Len(<<n>>) THEN <<n>>[k] ELSE Stacked'[k - Len(<<n>>)]
      BY <1>3, <2>1, <2>2, <2>3
    <3> QED BY <2>1, <2>2, <3>1, <3>2, JoinedPointwise, Zenon
  <2> QED BY <2>1, <2>4 DEF Joins
<1> HIDE DEF n, visited
<1>8. Coming = <<n>> \o Stacked' /\ Coming' = Raw(n).calls \o Stacked'
  <2>1. Raw(item.node)' = Raw(n)
    BY <1>1 DEF Raw, n
  <2> QED BY <1>1, <1>7, <2>1 DEF Coming, InCall
<1>9. Traverse(Coming) = <<n>> \o Traverse(Raw(n).calls \o Stacked')
  BY <1>2, <1>4, <1>7, <1>8, TraverseNext
<1>10. Traverse(Coming)' = Traverse(Raw(n).calls \o Stacked') /\ PreOrder' = PreOrder
  BY <1>1, <1>8, SameTree DEF Traverse
<1>11. Append(Visited, n) \o Traverse(Raw(n).calls \o Stacked')
        = Visited \o (<<n>> \o Traverse(Raw(n).calls \o Stacked'))
  <2>1. Visited \in Seq(Nodes) /\ <<n>> \in Seq(Nodes) /\ Raw(n).calls \in Seq(Nodes)
    BY <1>1, <1>2, <1>4, WalkListed DEF TreeOfCalls
  <2>2. Raw(n).calls \o Stacked' \in Seq(Nodes)
    BY <1>7, <2>1, ConcatProperties
  <2>3. Traverse(Raw(n).calls \o Stacked') \in Seq(Nodes)
    BY <1>2, <2>2, TraverseLists
  <2>4. Append(Visited, n) = Visited \o <<n>>
    BY <1>4, <2>1, AppendIsConcat
  <2> QED BY <2>1, <2>3, <2>4, ConcatAssociative
<1>12. Visited \o Traverse(Coming) = PreOrder
  BY <1>1 DEF WalkInv
<1> QED BY <1>6, <1>9, <1>10, <1>11, <1>12 DEF WalkInv

(* The children are pushed from the last to the first, so that they are
   popped from the first to the last. *)
LEMMA WalkPushes == ASSUME Inv, DocumentInv, WalkInv, PushChildren PROVE WalkInv'
<1> DEFINE nested == Raw(item.node).calls
           Child(k) == Pending(k, ThisIndex, item.depth + 1, ContextOf(item))
           pushed == Reverse([i \in 1 .. Len(nested) |-> Child(nested[i])])
<1>1. /\ stage = "logs" /\ stage' = "walk" /\ stack' = stack \o pushed
      /\ UNCHANGED <<document, item, acc>>
  BY DEF PushChildren
<1>2. /\ stack \in Seq(PendingCall) /\ nested \in Seq(Nodes) /\ Len(stack) \in Nat
      /\ Len(nested) \in Nat
  BY <1>1, ThisCall DEF InCall, Decoded
<1> HIDE DEF Child
<1>3. /\ DOMAIN pushed = 1 .. Len(nested)
      /\ \A k \in 1 .. Len(nested) : pushed[k] = Child(nested[Len(nested) - k + 1])
      /\ pushed = [k \in 1 .. Len(nested) |-> pushed[k]]
  BY <1>2 DEF Reverse
<1> HIDE DEF pushed, nested
<1>4. /\ Len(stack') = Len(stack) + Len(nested)
      /\ \A k \in 1 .. Len(stack) : stack'[k] = stack[k]
      /\ \A k \in 1 .. Len(nested) : stack'[Len(stack) + k] = pushed[k]
  <2>1. Len(pushed) = Len(nested)
    BY <1>2, <1>3
  <2>2. stack' = [k \in 1 .. Len(stack) + Len(nested) |->
                    IF k <= Len(stack) THEN stack[k] ELSE pushed[k - Len(stack)]]
    BY <1>1, <1>2, <1>3, <2>1
  <2> QED BY <1>2, <2>2
<1>5. /\ Stacked' \in Seq(Nodes) /\ Len(Stacked') = Len(stack')
      /\ Stacked \in Seq(Nodes) /\ Len(Stacked) = Len(stack)
  <2>1. Inv' /\ stage' \notin {"load", "failed"}
    BY <1>1, PushChildrenPreserves
  <2> QED BY <1>1, <2>1, WalkListed, WalkListedNext
<1>6. \A k \in 1 .. Len(stack') :
        Stacked'[k] = IF k <= Len(nested) THEN nested[k] ELSE Stacked[k - Len(nested)]
  <2> TAKE k \in 1 .. Len(stack')
  <2> DEFINE r == Len(stack') + 1 - k
  <2>1. Stacked'[k] = stack'[r].node
    BY DEF Stacked
  <2>2. CASE k <= Len(nested)
    <3>1. r = Len(stack) + (Len(nested) + 1 - k) /\ Len(nested) + 1 - k \in 1 .. Len(nested)
          /\ Len(nested) - (Len(nested) + 1 - k) + 1 = k
      BY <1>2, <1>4, <2>2
    <3> HIDE DEF r
    <3>2. stack'[r] = Child(nested[k])
      BY <1>3, <1>4, <3>1
    <3> QED BY <2>1, <2>2, <3>2 DEF Child, Pending
  <2>3. CASE ~(k <= Len(nested))
    <3>1. /\ r \in 1 .. Len(stack) /\ k - Len(nested) \in 1 .. Len(stack)
          /\ Len(stack) + 1 - (k - Len(nested)) = r
      BY <1>2, <1>4, <2>3
    <3> HIDE DEF r
    <3>2. Stacked[k - Len(nested)] = stack[r].node
      BY <3>1 DEF Stacked
    <3> QED BY <1>4, <2>1, <2>3, <3>1, <3>2
  <2> QED BY <2>2, <2>3
<1>7. Stacked' = nested \o Stacked
  <2>1. Joins(Stacked', nested, Stacked)
    <3>1. Len(Stacked') = Len(nested) + Len(Stacked)
      BY <1>2, <1>4, <1>5
    <3>2. \A k \in 1 .. Len(Stacked') :
            Stacked'[k] = IF k <= Len(nested) THEN nested[k] ELSE Stacked[k - Len(nested)]
      BY <1>5, <1>6
    <3> QED BY <1>2, <1>5, <3>1, <3>2, JoinedPointwise, Zenon
  <2> QED BY <2>1 DEF Joins
<1>8. Coming' = Coming
  BY <1>1, <1>7 DEF Coming, InCall, nested
<1>9. Visited' = Visited
  BY <1>1 DEF Visited
<1> QED BY <1>1, <1>8, <1>9, SameTree DEF WalkInv, Traverse

(* Nothing else moves a call. *)
LEMMA WalkKept == ASSUME Inv, DocumentInv, WalkInv, [Next]_vars PROVE WalkInv'
<1>1. CASE stage' = "failed" \/ stage = "failed"
  BY <1>1 DEF WalkInv, Next, Load, VisitCall, NormalizeChange, ChangesDone, NormalizeLog,
     PushChildren, WalkDone, AddCall, AddStorageChange, AddLog, AddTokenTransfer, NextList,
     Handed, ValidateArena, ArenaReturns, Returned, vars
<1>2. CASE stage' # "failed" /\ (VisitCall \/ PushChildren)
  BY <1>2, WalkVisits, WalkPushes
<1>3. CASE stage = "load" /\ stage' # "failed"
  <2>1. Load \/ UNCHANGED stage
    BY <1>3 DEF Next, Load, VisitCall, NormalizeChange, ChangesDone, NormalizeLog, PushChildren,
       WalkDone, AddCall, AddStorageChange, AddLog, AddTokenTransfer, NextList, Handed,
       ValidateArena, ArenaReturns, Returned, vars
  <2> QED BY <1>3, <2>1, WalkStarts DEF WalkInv
<1>4. CASE /\ stage \notin {"load", "failed"} /\ stage' # "failed"
           /\ ~VisitCall /\ ~PushChildren
  <2>1. /\ UNCHANGED <<document, stack, item, acc.calls>>
        /\ stage' # "load" /\ (stage' \in InCall <=> stage \in InCall)
    BY <1>4, WalkStandsStill
  <2>2. Visited' = Visited /\ Stacked' = Stacked
    BY <2>1 DEF Visited, Stacked
  <2>3. Coming' = Coming
    BY <2>1, <2>2 DEF Coming, Raw
  <2> QED BY <1>4, <2>1, <2>2, <2>3, SameTree DEF WalkInv, Traverse
<1> QED BY <1>1, <1>2, <1>3, <1>4

(* The calls visited and those to come are the pre-order at every step. *)
(* walk_tree is a pre-order traversal at every step of it. *)
THEOREM Walk == Spec => []WalkInv
<1>1. Init => WalkInv
  BY DEF Init, WalkInv
<1>2. Inv /\ DocumentInv /\ WalkInv /\ [Next]_vars => WalkInv'
  BY WalkKept
<1> QED BY <1>1, <1>2, Invariance, DocumentKept, PTL DEF Spec

(* A nested call's parent is the one whose list it is in. *)
LEMMA ParentFound ==
    ASSUME TreeOfCalls, NEW m \in Nodes, NEW i \in 1 .. Len(Raw(m).calls)
    PROVE  /\ Raw(m).calls[i] \in Nodes /\ m < Raw(m).calls[i] /\ Raw(m).calls[i] # 1
           /\ ParentNode(Raw(m).calls[i]) = m
<1> DEFINE n == Raw(m).calls[i]
           Below(p) == {Raw(p).calls[j] : j \in DOMAIN Raw(p).calls}
<1>1. Raw(m).calls \in Seq(Nodes) /\ m < n
  BY DEF TreeOfCalls
<1>2. n \in Nodes /\ m \in Nat /\ m >= 1 /\ n \in Nat
  <2>1. n \in Nodes
    BY <1>1, ElementOfSeq
  <2>2. Len(document.calls) \in Nat
    BY DEF TreeOfCalls
  <2> HIDE DEF n
  <2> QED BY <2>1, <2>2 DEF Nodes
<1>3. n # 1
  <2> HIDE DEF n
  <2> QED BY <1>1, <1>2
<1>4. \A p \in Nodes : DOMAIN Raw(p).calls = 1 .. Len(Raw(p).calls)
  BY DEF TreeOfCalls
<1>5. n \in Below(m)
  BY <1>4
<1>6. ASSUME NEW p \in Nodes, n \in Below(p) PROVE p = m
  <2>1. PICK j \in 1 .. Len(Raw(p).calls) : Raw(m).calls[i] = Raw(p).calls[j]
    BY <1>4, <1>6
  <2> QED BY <2>1 DEF TreeOfCalls
<1>7. ParentNode(n) = m
  <2>1. ParentNode(n) = CHOOSE p \in Nodes : n \in Below(p)
    BY DEF ParentNode
  <2> HIDE DEF n, Below
  <2> QED BY <1>5, <1>6, <2>1
<1> QED BY <1>1, <1>2, <1>3, <1>7

(* Every call but the root is nested in an earlier one. *)
LEMMA ParentExists ==
    ASSUME TreeOfCalls, NEW n \in Nodes, n # 1
    PROVE  /\ ParentNode(n) \in Nodes /\ ParentNode(n) < n
           /\ \E i \in 1 .. Len(Raw(ParentNode(n)).calls) : Raw(ParentNode(n)).calls[i] = n
<1>1. PICK m \in Nodes : \E i \in 1 .. Len(Raw(m).calls) : m < n /\ Raw(m).calls[i] = n
  BY DEF TreeOfCalls
<1>2. ParentNode(n) = m
  BY <1>1, ParentFound
<1> QED BY <1>1, <1>2

(* Calls are numbered from 1. *)
LEMMA NodeIsNat ==
    ASSUME TreeOfCalls, NEW n \in Nodes
    PROVE  n \in Nat /\ n >= 1 /\ n <= Len(document.calls)
BY DEF TreeOfCalls, Nodes

(* f is the nesting of the first m calls. *)
Nests(f, m) == f = [n \in 1 .. m |-> IF n = 1 THEN 0 ELSE 1 + f[ParentNode(n)]]

(* The nesting of the first m calls, one call after the other. *)
LEMMA NestsExists ==
    ASSUME TreeOfCalls, NEW m \in 0 .. Len(document.calls) PROVE \E f : Nests(f, m)
<1> DEFINE N == Len(document.calls)
           T == {k \in 0 .. N : ~ \E f : Nests(f, k)}
<1>0. N \in Nat /\ Nodes = 1 .. N
  BY DEF TreeOfCalls, Nodes
<1>1. SUFFICES ASSUME T # {} PROVE FALSE
  OBVIOUS
<1>2. PICK k \in T : \A y \in T : k <= y
  <2>1. T \in SUBSET Nat
    BY <1>0
  <2> HIDE DEF T
  <2> QED BY <1>1, <2>1, MinExists
<1>3. k \in 0 .. N /\ ~ \E f : Nests(f, k)
  BY <1>2
<1>4. k # 0
  <2>1. 1 .. 0 = {}
    OBVIOUS
  <2>2. Nests([n \in 1 .. 0 |-> 0], 0)
    BY <2>1 DEF Nests
  <2> QED BY <1>3, <2>2
<1>5. PICK f : Nests(f, k - 1)
  <2>1. k - 1 \in 0 .. N /\ ~(k <= k - 1)
    BY <1>0, <1>3, <1>4
  <2>2. k - 1 \notin T
    <3> HIDE DEF T
    <3> QED BY <1>2, <2>1
  <2> QED BY <2>1, <2>2
<1>6. \A n \in 1 .. k - 1 : f[n] = IF n = 1 THEN 0 ELSE 1 + f[ParentNode(n)]
  BY <1>5, Zenon DEF Nests
<1> DEFINE last == IF k = 1 THEN 0 ELSE 1 + f[ParentNode(k)]
           g == [n \in 1 .. k |-> IF n = k THEN last ELSE f[n]]
<1>7. \A n \in 1 .. k : n # 1 => ParentNode(n) \in 1 .. n - 1
  <2> TAKE n \in 1 .. k
  <2> SUFFICES ASSUME n # 1 PROVE ParentNode(n) \in 1 .. n - 1
    OBVIOUS
  <2>1. n \in Nodes
    BY <1>0, <1>3
  <2>2. ParentNode(n) \in Nodes /\ ParentNode(n) < n
    BY <2>1, ParentExists
  <2> QED BY <1>0, <2>1, <2>2
<1>8. \A n \in 1 .. k : n # 1 => g[ParentNode(n)] = f[ParentNode(n)]
  <2> TAKE n \in 1 .. k
  <2> SUFFICES ASSUME n # 1 PROVE g[ParentNode(n)] = f[ParentNode(n)]
    OBVIOUS
  <2>1. ParentNode(n) \in 1 .. k /\ ParentNode(n) # k
    BY <1>3, <1>7
  <2> HIDE DEF last
  <2> QED BY <2>1
<1>9. \A n \in 1 .. k : g[n] = IF n = 1 THEN 0 ELSE 1 + g[ParentNode(n)]
  <2> TAKE n \in 1 .. k
  <2>1. CASE n = k
    <3>1. g[k] = last /\ k \in 1 .. k
      BY <1>3, <1>4
    <3>2. k # 1 => g[ParentNode(k)] = f[ParentNode(k)]
      BY <1>8, <3>1
    <3> HIDE DEF g
    <3> QED BY <2>1, <3>1, <3>2
  <2>2. CASE n # k
    <3>1. n \in 1 .. k - 1 /\ g[n] = f[n]
      BY <1>3, <2>2
    <3> HIDE DEF g
    <3> QED BY <1>6, <1>8, <3>1
  <2> QED BY <2>1, <2>2
<1>10. Nests(g, k)
  <2>1. g = [n \in 1 .. k |-> g[n]]
    OBVIOUS
  <2> HIDE DEF g
  <2> QED BY <1>9, <2>1, Zenon DEF Nests
<1> QED BY <1>3, <1>10

(* A call nests one deeper than its parent. *)
LEMMA NestingDefined ==
    ASSUME TreeOfCalls, NEW n \in Nodes
    PROVE  Nesting[n] = IF n = 1 THEN 0 ELSE 1 + Nesting[ParentNode(n)]
<1> DEFINE N == Len(document.calls)
           F == CHOOSE f : Nests(f, N)
<1>1. N \in 0 .. N /\ Nodes = 1 .. N
  BY DEF TreeOfCalls, Nodes
<1>2. Nests(F, N)
  BY <1>1, NestsExists
<1>3. Nesting = F
  BY <1>1 DEF Nesting, Nests
<1> HIDE DEF F
<1>4. Nests(Nesting, N)
  BY <1>2, <1>3
<1> QED BY <1>1, <1>4, Zenon DEF Nests

(* f is the storage context of the first m calls. *)
WorkOn(f, m) == f = [n \in 1 .. m |-> IF ~InCallerContext(Raw(n).kind)
            THEN IF Raw(n).to = NoAddress THEN Raw(n).from ELSE Raw(n).to
            ELSE IF n = 1 THEN NoAddress ELSE f[ParentNode(n)]]

(* The storage contexts of the first m calls, one call after the other. *)
LEMMA WorkOnExists ==
    ASSUME TreeOfCalls, NEW m \in 0 .. Len(document.calls) PROVE \E f : WorkOn(f, m)
<1> DEFINE N == Len(document.calls)
           T == {k \in 0 .. N : ~ \E f : WorkOn(f, k)}
<1>0. N \in Nat /\ Nodes = 1 .. N
  BY DEF TreeOfCalls, Nodes
<1>1. SUFFICES ASSUME T # {} PROVE FALSE
  OBVIOUS
<1>2. PICK k \in T : \A y \in T : k <= y
  <2>1. T \in SUBSET Nat
    BY <1>0
  <2> HIDE DEF T
  <2> QED BY <1>1, <2>1, MinExists
<1>3. k \in 0 .. N /\ ~ \E f : WorkOn(f, k)
  BY <1>2
<1>4. k # 0
  <2>1. 1 .. 0 = {}
    OBVIOUS
  <2>2. WorkOn([n \in 1 .. 0 |-> 0], 0)
    BY <2>1 DEF WorkOn
  <2> QED BY <1>3, <2>2
<1>5. PICK f : WorkOn(f, k - 1)
  <2>1. k - 1 \in 0 .. N /\ ~(k <= k - 1)
    BY <1>0, <1>3, <1>4
  <2>2. k - 1 \notin T
    <3> HIDE DEF T
    <3> QED BY <1>2, <2>1
  <2> QED BY <2>1, <2>2
<1>6. \A n \in 1 .. k - 1 : f[n] = IF ~InCallerContext(Raw(n).kind)
            THEN IF Raw(n).to = NoAddress THEN Raw(n).from ELSE Raw(n).to
            ELSE IF n = 1 THEN NoAddress ELSE f[ParentNode(n)]
  BY <1>5, Zenon DEF WorkOn
<1> DEFINE last == IF ~InCallerContext(Raw(k).kind)
            THEN IF Raw(k).to = NoAddress THEN Raw(k).from ELSE Raw(k).to
            ELSE IF k = 1 THEN NoAddress ELSE f[ParentNode(k)]
           g == [n \in 1 .. k |-> IF n = k THEN last ELSE f[n]]
<1>7. \A n \in 1 .. k : n # 1 => ParentNode(n) \in 1 .. n - 1
  <2> TAKE n \in 1 .. k
  <2> SUFFICES ASSUME n # 1 PROVE ParentNode(n) \in 1 .. n - 1
    OBVIOUS
  <2>1. n \in Nodes
    BY <1>0, <1>3
  <2>2. ParentNode(n) \in Nodes /\ ParentNode(n) < n
    BY <2>1, ParentExists
  <2> QED BY <1>0, <2>1, <2>2
<1>8. \A n \in 1 .. k : n # 1 => g[ParentNode(n)] = f[ParentNode(n)]
  <2> TAKE n \in 1 .. k
  <2> SUFFICES ASSUME n # 1 PROVE g[ParentNode(n)] = f[ParentNode(n)]
    OBVIOUS
  <2>1. ParentNode(n) \in 1 .. k /\ ParentNode(n) # k
    BY <1>3, <1>7
  <2> HIDE DEF last
  <2> QED BY <2>1
<1>9. \A n \in 1 .. k : g[n] = IF ~InCallerContext(Raw(n).kind)
            THEN IF Raw(n).to = NoAddress THEN Raw(n).from ELSE Raw(n).to
            ELSE IF n = 1 THEN NoAddress ELSE g[ParentNode(n)]
  <2> TAKE n \in 1 .. k
  <2>1. CASE n = k
    <3>1. g[k] = last /\ k \in 1 .. k
      BY <1>3, <1>4
    <3>2. k # 1 => g[ParentNode(k)] = f[ParentNode(k)]
      BY <1>8, <3>1
    <3> HIDE DEF g
    <3> QED BY <2>1, <3>1, <3>2
  <2>2. CASE n # k
    <3>1. n \in 1 .. k - 1 /\ g[n] = f[n]
      BY <1>3, <2>2
    <3> HIDE DEF g
    <3> QED BY <1>6, <1>8, <3>1
  <2> QED BY <2>1, <2>2
<1>10. WorkOn(g, k)
  <2>1. g = [n \in 1 .. k |-> g[n]]
    OBVIOUS
  <2> HIDE DEF g
  <2> QED BY <1>9, <2>1, Zenon DEF WorkOn
<1> QED BY <1>3, <1>10

(* A call that borrows its code works on its parent's storage, any other on
   its own. *)
LEMMA StorageContextDefined ==
    ASSUME TreeOfCalls, NEW n \in Nodes
    PROVE  StorageContext[n] = IF ~InCallerContext(Raw(n).kind)
            THEN IF Raw(n).to = NoAddress THEN Raw(n).from ELSE Raw(n).to
            ELSE IF n = 1 THEN NoAddress ELSE StorageContext[ParentNode(n)]
<1> DEFINE N == Len(document.calls)
           F == CHOOSE f : WorkOn(f, N)
<1>1. N \in 0 .. N /\ Nodes = 1 .. N
  BY DEF TreeOfCalls, Nodes
<1>2. WorkOn(F, N)
  BY <1>1, WorkOnExists
<1>3. StorageContext = F
  BY <1>1 DEF StorageContext, WorkOn
<1> HIDE DEF F
<1>4. WorkOn(StorageContext, N)
  BY <1>2, <1>3
<1> QED BY <1>1, <1>4, Zenon DEF WorkOn

(* Depths count from 0. *)
LEMMA NestingIsNat == ASSUME TreeOfCalls, NEW n \in Nodes PROVE Nesting[n] \in Nat
<1> DEFINE T == {m \in Nodes : Nesting[m] \notin Nat}
<1>1. SUFFICES ASSUME T # {} PROVE FALSE
  OBVIOUS
<1>2. PICK m \in T : \A y \in T : m <= y
  <2>1. T \in SUBSET Nat
    BY NodeIsNat
  <2> HIDE DEF T
  <2> QED BY <1>1, <2>1, MinExists
<1>3. /\ m \in Nodes /\ Nesting[m] \notin Nat
      /\ Nesting[m] = IF m = 1 THEN 0 ELSE 1 + Nesting[ParentNode(m)]
  BY <1>2, NestingDefined
<1>4. m # 1 /\ ParentNode(m) \in Nodes /\ ParentNode(m) < m
  <2>1. m # 1
    BY <1>3
  <2> QED BY <1>3, <2>1, ParentExists
<1>5. m \in Nat /\ ParentNode(m) \in Nat
  BY <1>3, <1>4, NodeIsNat
<1>6. ParentNode(m) \notin T
  <2> HIDE DEF T
  <2> QED BY <1>2, <1>4, <1>5
<1>7. Nesting[ParentNode(m)] \in Nat
  BY <1>4, <1>6
<1> QED BY <1>3, <1>4, <1>7

(* Of a readable call inside readable ones, the storage context is an address. *)
LEMMA ContextIsReadable ==
    ASSUME TreeOfCalls, NEW n \in Nodes PROVE StorageContext[n] # Unreadable
<1> DEFINE T == {m \in Nodes : StorageContext[m] = Unreadable}
<1>1. SUFFICES ASSUME T # {} PROVE FALSE
  OBVIOUS
<1>2. PICK m \in T : \A y \in T : m <= y
  <2>1. T \in SUBSET Nat
    BY NodeIsNat
  <2> HIDE DEF T
  <2> QED BY <1>1, <2>1, MinExists
<1>3. m \in Nodes /\ StorageContext[m] = Unreadable
  BY <1>2
<1>4. Raw(m).from # Unreadable /\ Raw(m).to # Unreadable /\ NoAddress # Unreadable
  BY <1>3, DocumentAssumption DEF TreeOfCalls, HasFacts
<1>5. m # 1 /\ StorageContext[m] = StorageContext[ParentNode(m)]
  BY <1>3, <1>4, StorageContextDefined
<1>6. ParentNode(m) \in Nodes /\ ParentNode(m) < m
  BY <1>3, <1>5, ParentExists
<1>7. m \in Nat /\ ParentNode(m) \in Nat
  BY <1>3, <1>6, NodeIsNat
<1>8. ParentNode(m) \notin T
  <2> HIDE DEF T
  <2> QED BY <1>2, <1>6, <1>7
<1> QED BY <1>3, <1>5, <1>6, <1>8

-----------------------------------------------------------------------------
(* Depths and storage contexts are those of the tree.                       *)

(* A pending call carries its own depth and the storage context of the call it
   is nested in. *)
Placed(it) ==
    /\ it.depth = Nesting[it.node]
    /\ it.context = IF it.node = 1 THEN NoAddress ELSE StorageContext[ParentNode(it.node)]

(* What the walk has checked of a call it visited. *)
Passed(call) ==
    /\ call.depth = Nesting[call.node]
    /\ Raw(call.node).readable /\ Raw(call.node).kind \in CallKinds
    /\ StorageContext[call.node] # NoAddress

(* Every call, visited or still to be, has its place in the tree, and every
   change gathered is to the storage its call works on. *)
PlacedInv ==
    stage \notin {"load", "failed"} =>
        /\ \A k \in 1 .. Len(stack) : Placed(stack[k])
        /\ stage \in InCall => Placed(item)
        /\ \A k \in 1 .. Len(acc.calls) : Passed(acc.calls[k])
        /\ \A p \in 1 .. Len(acc.changes) : acc.changes[p].contract =
                StorageContext[acc.calls[acc.changes[p].call + 1].node]

(* What is said of a placed call does not change with the walk. *)
LEMMA PlacedNext ==
    ASSUME UNCHANGED document,
           \A k \in 1 .. Len(stack') : Placed(stack'[k]),
           stage' \in InCall => Placed(item'),
           \A k \in 1 .. Len(acc'.calls) : Passed(acc'.calls[k]),
           \A p \in 1 .. Len(acc'.changes) : acc'.changes[p].contract =
                StorageContext[acc'.calls[acc'.changes[p].call + 1].node]
    PROVE  PlacedInv'
<1>a. Nodes' = Nodes /\ Nesting' = Nesting /\ StorageContext' = StorageContext
  BY SameTree
<1>1. \A it : Placed(it)' <=> Placed(it)
  <2>1. \A n : ParentNode(n)' = ParentNode(n)
    BY <1>a DEF ParentNode, Raw
  <2> QED BY <1>a, <2>1 DEF Placed
<1>2. \A call : Passed(call)' <=> Passed(call)
  BY <1>a DEF Passed, Raw, CallKinds
<1> QED BY <1>1, <1>2, <1>a DEF PlacedInv

(* The context that process_changes computes is the call's storage context. *)
LEMMA ContextOfPlaced ==
    ASSUME TreeOfCalls, NEW it, it.node \in Nodes, Placed(it)
    PROVE  ContextOf(it) = StorageContext[it.node]
BY StorageContextDefined DEF ContextOf, Placed

(* The root nests in nothing. *)
LEMMA PlacesStart == ASSUME Inv, DocumentInv, Load, stage' # "failed" PROVE PlacedInv'
<1>1. /\ stage' = "walk" /\ stack' = <<Root>> /\ acc' = acc /\ acc.calls = <<>>
      /\ acc.changes = <<>> /\ UNCHANGED document
  BY DEF Load, Fail, Inv, TypeInv, Unread
<1>2. TreeOfCalls
  <2>1. Inv'
    BY LoadPreserves
  <2>2. document.loads /\ document.decodes
    BY <1>1, <2>1 DEF Inv, TypeInv
  <2> QED BY <2>2, DocumentIsTree DEF DocumentInv
<1>3. Placed(Root)
  <2>1. 1 \in Nodes
    BY <1>2 DEF TreeOfCalls, Nodes
  <2>2. Nesting[1] = 0
    BY <1>2, <2>1, NestingDefined
  <2> QED BY <2>2 DEF Placed, Root, Pending
<1>4. Len(acc'.calls) = 0 /\ Len(acc'.changes) = 0 /\ Len(stack') = 1 /\ stack'[1] = Root
  BY <1>1
<1>5. \A k \in 1 .. Len(stack') : Placed(stack'[k])
  BY <1>3, <1>4
<1> QED BY <1>1, <1>4, <1>5, PlacedNext DEF InCall

(* A visited call was checked to be readable, of a kind and in a context. *)
LEMMA PlacesVisited ==
    ASSUME Inv, DocumentInv, PlacedInv, VisitCall, stage' # "failed" PROVE PlacedInv'
<1> DEFINE it == Last(stack)
           visited == [node |-> it.node, parent |-> it.parent, depth |-> it.depth]
           m == Len(acc.calls)
<1>1. /\ stage = "walk" /\ stack # <<>> /\ item' = it /\ stack' = Front(stack)
      /\ UNCHANGED document /\ acc' = [acc EXCEPT !.calls = Append(@, visited)]
      /\ stage' = "changes" /\ VisitFault(it) = NoFault
  BY DEF VisitCall, Fail
<1>2. stack \in Seq(PendingCall) /\ acc \in Accumulator /\ TreeOfCalls
  BY <1>1, TreeWalked DEF Inv, TypeInv
<1>3. /\ Len(stack) \in Nat \ {0} /\ it = stack[Len(stack)] /\ it \in PendingCall
      /\ Len(stack') = Len(stack) - 1
      /\ \A k \in 1 .. Len(stack) - 1 : stack'[k] = stack[k]
  BY <1>1, <1>2, Popped
<1>4. /\ Raw(it.node).kind \in CallKinds /\ Raw(it.node).readable
      /\ InCallerContext(Raw(it.node).kind) => it.context # NoAddress
  <2> HIDE DEF it
  <2> QED BY <1>1, CheckedCall
<1> HIDE DEF it
<1>5. /\ \A k \in 1 .. Len(stack) : Placed(stack[k])
      /\ \A k \in 1 .. m : Passed(acc.calls[k])
      /\ \A p \in 1 .. Len(acc.changes) : acc.changes[p].contract =
                StorageContext[acc.calls[acc.changes[p].call + 1].node]
  BY <1>1 DEF PlacedInv
<1>6. acc'.calls = Append(acc.calls, visited) /\ acc'.changes = acc.changes
  <2> HIDE DEF visited
  <2>1. acc' = [calls |-> Append(acc.calls, visited), changes |-> acc.changes,
                logs |-> acc.logs, transfers |-> acc.transfers, seen |-> acc.seen]
    BY <1>1, <1>2, Gathered
  <2> QED BY <2>1
<1>7. it.node \in Nodes /\ Placed(it)
  BY <1>3, <1>5 DEF PendingCall
<1>8. Passed(visited)
  <2>1. visited.node = it.node /\ visited.depth = it.depth
    OBVIOUS
  <2> HIDE DEF visited
  <2>2. StorageContext[it.node] # NoAddress
    <3>1. StorageContext[it.node] = ContextOf(it)
      BY <1>2, <1>7, ContextOfPlaced
    <3>2. Raw(it.node).from # NoAddress
      BY <1>2, <1>7 DEF TreeOfCalls, HasFacts
    <3> QED BY <1>4, <3>1, <3>2 DEF ContextOf
  <2> QED BY <1>4, <1>7, <2>1, <2>2 DEF Passed, Placed
<1>9. /\ m \in Nat /\ Len(acc'.calls) = m + 1 /\ acc'.calls[m + 1] = visited
      /\ \A k \in 1 .. m : acc'.calls[k] = acc.calls[k]
  <2>1. acc.calls \in Seq(NormalizedCall)
    BY <1>2 DEF Accumulator
  <2> HIDE DEF visited
  <2> QED BY <1>6, <2>1
<1> HIDE DEF visited
<1>10. \A k \in 1 .. Len(acc'.calls) : Passed(acc'.calls[k])
  <2>1. \A k \in 1 .. m + 1 : k \in 1 .. m \/ k = m + 1
    BY <1>9
  <2> HIDE DEF m
  <2> QED BY <1>5, <1>8, <1>9, <2>1
<1>11. \A p \in 1 .. Len(acc'.changes) : acc'.changes[p].contract =
                StorageContext[acc'.calls[acc'.changes[p].call + 1].node]
  <2> TAKE p \in 1 .. Len(acc'.changes)
  <2>1. p \in 1 .. Len(acc.changes) /\ acc'.changes[p] = acc.changes[p]
    BY <1>6
  <2>2. acc.changes[p].call \in 0 .. m - 1
    BY <1>1, <2>1 DEF Inv, FactInv
  <2>3. acc.changes[p].call + 1 \in 1 .. m
    BY <1>9, <2>2
  <2> QED BY <1>5, <1>9, <2>1, <2>3
<1>12. \A k \in 1 .. Len(stack') : Placed(stack'[k])
  <2> TAKE k \in 1 .. Len(stack')
  <2>1. k \in 1 .. Len(stack) /\ stack'[k] = stack[k]
    BY <1>3
  <2> QED BY <1>5, <2>1
<1> QED BY <1>1, <1>7, <1>10, <1>11, <1>12, PlacedNext

(* The children nest one deeper and get the context of the call under way. *)
LEMMA PlacesPushed == ASSUME Inv, DocumentInv, PlacedInv, PushChildren PROVE PlacedInv'
<1> DEFINE nested == Raw(item.node).calls
           Child(k) == Pending(k, ThisIndex, item.depth + 1, ContextOf(item))
           pushed == Reverse([i \in 1 .. Len(nested) |-> Child(nested[i])])
<1>1. /\ stage = "logs" /\ stage' = "walk" /\ stack' = stack \o pushed
      /\ UNCHANGED <<document, item, acc>>
  BY DEF PushChildren
<1>2. /\ stack \in Seq(PendingCall) /\ nested \in Seq(Nodes) /\ Len(stack) \in Nat
      /\ Len(nested) \in Nat /\ item.node \in Nodes /\ TreeOfCalls
  BY <1>1, ThisCall, TreeWalked DEF InCall, Decoded, PendingCall
<1>3. /\ \A k \in 1 .. Len(stack) : Placed(stack[k])
      /\ Placed(item)
      /\ \A k \in 1 .. Len(acc.calls) : Passed(acc.calls[k])
      /\ \A p \in 1 .. Len(acc.changes) : acc.changes[p].contract =
                StorageContext[acc.calls[acc.changes[p].call + 1].node]
  BY <1>1 DEF PlacedInv, InCall
<1>4. ASSUME NEW i \in 1 .. Len(nested) PROVE Placed(Child(nested[i]))
  <2> DEFINE n == nested[i]
  <2>1. n \in Nodes /\ n # 1 /\ ParentNode(n) = item.node
    BY <1>2, ParentFound
  <2> HIDE DEF n
  <2>2. Nesting[n] = 1 + Nesting[item.node] /\ Nesting[item.node] \in Nat
    BY <1>2, <2>1, NestingDefined, NestingIsNat
  <2>3. ContextOf(item) = StorageContext[item.node]
    BY <1>2, <1>3, ContextOfPlaced
  <2>4. Child(n).node = n /\ Child(n).depth = item.depth + 1 /\ Child(n).context = ContextOf(item)
    BY DEF Pending
  <2>5. item.depth = Nesting[item.node]
    BY <1>3 DEF Placed
  <2> HIDE DEF Child
  <2>6. item.depth + 1 = Nesting[n]
    BY <2>2, <2>5
  <2>7. Placed(Child(n))
    BY <2>1, <2>3, <2>4, <2>6 DEF Placed
  <2> QED BY <2>7 DEF n
<1> HIDE DEF Child
<1>5. /\ DOMAIN pushed = 1 .. Len(nested)
      /\ \A k \in 1 .. Len(nested) : pushed[k] = Child(nested[Len(nested) - k + 1])
      /\ pushed = [k \in 1 .. Len(nested) |-> pushed[k]]
  BY <1>2 DEF Reverse
<1> HIDE DEF pushed, nested
<1>6. /\ Len(stack') = Len(stack) + Len(nested)
      /\ \A k \in 1 .. Len(stack) : stack'[k] = stack[k]
      /\ \A k \in 1 .. Len(nested) : stack'[Len(stack) + k] = pushed[k]
  <2>1. Len(pushed) = Len(nested)
    BY <1>2, <1>5
  <2>2. stack' = [k \in 1 .. Len(stack) + Len(nested) |->
                    IF k <= Len(stack) THEN stack[k] ELSE pushed[k - Len(stack)]]
    BY <1>1, <1>2, <1>5, <2>1
  <2> QED BY <1>2, <2>2
<1>7. ASSUME NEW k \in 1 .. Len(stack') PROVE Placed(stack'[k])
  <2>1. CASE k \in 1 .. Len(stack)
    BY <1>3, <1>6, <2>1
  <2>2. CASE k \notin 1 .. Len(stack)
    <3>1. k - Len(stack) \in 1 .. Len(nested) /\ Len(stack) + (k - Len(stack)) = k
          /\ Len(nested) - (k - Len(stack)) + 1 \in 1 .. Len(nested)
      BY <1>2, <1>6, <2>2
    <3>2. stack'[k] = Child(nested[Len(nested) - (k - Len(stack)) + 1])
      BY <1>5, <1>6, <3>1
    <3> QED BY <1>4, <3>1, <3>2
  <2> QED BY <2>1, <2>2
<1> QED BY <1>1, <1>3, <1>7, PlacedNext DEF InCall

(* A gathered change is to the storage its call works on. *)
LEMMA PlacesGathered ==
    ASSUME Inv, DocumentInv, PlanInv, PlacedInv, NormalizeChange, stage' # "failed" PROVE PlacedInv'
<1> DEFINE change == Raw(item.node).changes[nth]
           entry == [call |-> ThisIndex, contract |-> change.contract]
           m == Len(acc.calls)
           n == Len(acc.changes)
<1>1. /\ stage = "changes" /\ ChangeFault(change) = NoFault
      /\ UNCHANGED <<document, item, stage, stack>>
      /\ acc' = [acc EXCEPT !.changes = Append(@, entry)]
  BY DEF NormalizeChange, Fail
<1>2. /\ m \in Nat \ {0} /\ n \in Nat /\ ThisIndex = m - 1 /\ acc.calls[m].node = item.node
      /\ acc.changes \in Seq([call : Nat, contract : Addresses]) /\ acc \in Accumulator
      /\ TreeOfCalls /\ item.node \in Nodes
  BY <1>1, CallUnderWay, ThisCall, TreeWalked DEF InCall, PendingCall
<1>3. change.contract = ContextOf(item)
  BY <1>1, CheckedChange
<1> HIDE DEF change
<1>4. entry.call = m - 1 /\ entry.contract = ContextOf(item)
  BY <1>2, <1>3
<1>5. acc'.calls = acc.calls /\ acc'.changes = Append(acc.changes, entry)
  <2> HIDE DEF entry
  <2>1. acc' = [calls |-> acc.calls, changes |-> Append(acc.changes, entry),
                logs |-> acc.logs, transfers |-> acc.transfers, seen |-> acc.seen]
    BY <1>1, <1>2, Gathered
  <2> QED BY <2>1
<1> HIDE DEF entry
<1>6. /\ Len(acc'.changes) = n + 1 /\ acc'.changes[n + 1] = entry
      /\ \A p \in 1 .. n : acc'.changes[p] = acc.changes[p]
  BY <1>2, <1>5
<1>7. /\ \A k \in 1 .. Len(stack) : Placed(stack[k])
      /\ Placed(item)
      /\ \A k \in 1 .. Len(acc.calls) : Passed(acc.calls[k])
      /\ \A p \in 1 .. n : acc.changes[p].contract =
                StorageContext[acc.calls[acc.changes[p].call + 1].node]
  BY <1>1 DEF PlacedInv, InCall
<1>8. entry.contract = StorageContext[acc.calls[entry.call + 1].node]
  <2>1. (m - 1) + 1 = m
    BY <1>2
  <2>2. ContextOf(item) = StorageContext[item.node]
    BY <1>2, <1>7, ContextOfPlaced
  <2> HIDE DEF m
  <2> QED BY <1>2, <1>4, <2>1, <2>2
<1>9. \A p \in 1 .. Len(acc'.changes) : acc'.changes[p].contract =
                StorageContext[acc'.calls[acc'.changes[p].call + 1].node]
  <2> TAKE p \in 1 .. Len(acc'.changes)
  <2>1. p \in 1 .. n \/ p = n + 1
    BY <1>2, <1>6
  <2> HIDE DEF n
  <2> QED BY <1>5, <1>6, <1>7, <1>8, <2>1
<1> QED BY <1>1, <1>5, <1>7, <1>9, PlacedNext

(* Nothing else places a call. *)
LEMMA PlacesKept == ASSUME Inv, DocumentInv, PlanInv, PlacedInv, [Next]_vars PROVE PlacedInv'
<1>1. CASE stage' = "failed" \/ stage = "failed"
  BY <1>1 DEF PlacedInv, Next, Load, VisitCall, NormalizeChange, ChangesDone, NormalizeLog,
     PushChildren, WalkDone, AddCall, AddStorageChange, AddLog, AddTokenTransfer, NextList,
     Handed, ValidateArena, ArenaReturns, Returned, vars
<1>2. CASE stage' # "failed" /\ (VisitCall \/ PushChildren \/ NormalizeChange)
  BY <1>2, PlacesVisited, PlacesPushed, PlacesGathered
<1>3. CASE stage = "load" /\ stage' # "failed"
  <2>1. Load \/ UNCHANGED stage
    BY <1>3 DEF Next, Load, VisitCall, NormalizeChange, ChangesDone, NormalizeLog, PushChildren,
       WalkDone, AddCall, AddStorageChange, AddLog, AddTokenTransfer, NextList, Handed,
       ValidateArena, ArenaReturns, Returned, vars
  <2> QED BY <1>3, <2>1, PlacesStart DEF PlacedInv
<1>4. CASE /\ stage \notin {"load", "failed"} /\ stage' # "failed"
           /\ ~VisitCall /\ ~PushChildren /\ ~NormalizeChange
  <2>1. /\ UNCHANGED <<document, stack, item, acc.calls>> /\ stage' # "load"
        /\ (stage' \in InCall <=> stage \in InCall)
    BY <1>4, WalkStandsStill
  <2>2. acc'.changes = acc.changes
    <3>1. CASE NormalizeLog
      <4>1. acc \in Accumulator
        BY <1>4 DEF Inv, TypeInv
      <4>2. PICK x, y, z : acc' = LogGathered(x, y, z)
        BY <1>4, <3>1 DEF NormalizeLog, Fail, LogGathered
      <4> QED BY <4>1, <4>2, GatheredLog
    <3>2. CASE ~NormalizeLog
      BY <1>4, <3>2 DEF Next, Load, ChangesDone, WalkDone, AddCall, AddStorageChange, AddLog,
         AddTokenTransfer, NextList, Handed, ValidateArena, ArenaReturns, Returned, vars,
         walkVars
    <3> QED BY <3>1, <3>2
  <2>3. /\ \A k \in 1 .. Len(stack) : Placed(stack[k])
        /\ stage \in InCall => Placed(item)
        /\ \A k \in 1 .. Len(acc.calls) : Passed(acc.calls[k])
        /\ \A p \in 1 .. Len(acc.changes) : acc.changes[p].contract =
                StorageContext[acc.calls[acc.changes[p].call + 1].node]
    BY <1>4 DEF PlacedInv
  <2> QED BY <2>1, <2>2, <2>3, PlacedNext
<1> QED BY <1>1, <1>2, <1>3, <1>4

(* Depths and contexts are the tree's at every step. *)
THEOREM Places == Spec => []PlacedInv
<1>1. Init => PlacedInv
  BY DEF Init, PlacedInv
<1>2. Inv /\ DocumentInv /\ PlanInv /\ PlacedInv /\ [Next]_vars => PlacedInv'
  BY PlacesKept
<1> QED BY <1>1, <1>2, Invariance, DocumentKept, Plan, PTL DEF Spec

-----------------------------------------------------------------------------
(* A listing, from both ends: what a call has, and what the arena has.      *)

(* out lists n facts, the p-th of them the place[p]-th of the call it names. *)
IsListed(out, X, n, seqs, call, place) ==
    /\ out \in Seq(X) /\ Len(out) = n
    /\ \A p \in 1 .. n : out[p] = seqs[call[p] + 1][place[p]]

(* A listing of facts is the lists of facts one after the other. *)
LEMMA ListingFlattens ==
    ASSUME NEW X, NEW seqs \in Seq(Seq(X)), NEW n \in Nat, NEW call, NEW place, NEW source,
           NEW lists, NEW count, \A k \in 1 .. Len(seqs) : count[k] = Len(seqs[k]),
           Listing(n, Len(seqs), call, place, source, lists, count)
    PROVE  IsListed(FlattenSeq(seqs), X, n, seqs, call, place)
<1> DEFINE m == Len(seqs)
           out == FlattenSeq(seqs)
           rows == [p \in 1 .. n |-> call[p] + 1]
           counts == [k \in 1 .. m |-> Len(seqs[k])]
<1>1. m \in Nat /\ \A k \in 1 .. m : Len(seqs[k]) \in Nat
  <2>1. \A k \in 1 .. m : seqs[k] \in Seq(X)
    BY ElementOfSeq
  <2> QED BY <2>1, LenProperties
<1>2. counts \in [1 .. m -> Nat]
  BY <1>1
<1>3. out \in Seq(X) /\ \E row, col : ComesFrom(out, row, col, seqs, m)
  BY FlattenSeqLists
<1> HIDE DEF m, out
<1>4. Len(out) \in Nat
  BY <1>3
<1>5. PICK row, col : ComesFrom(out, row, col, seqs, m)
  BY <1>3
<1>6. RowByRow(Len(out), row, col, m, counts)
  <2>1. \A p \in 1 .. Len(out) : row[p] \in 1 .. m /\ col[p] \in 1 .. Len(seqs[row[p]])
    <3> TAKE p \in 1 .. Len(out)
    <3>1. row \in Seq(1 .. m) /\ Len(row) = Len(out)
      BY <1>5 DEF ComesFrom
    <3>2. row[p] \in 1 .. m
      BY <3>1, ElementOfSeq
    <3> QED BY <1>5, <3>2 DEF ComesFrom
  <2>2. \A i \in 1 .. m : counts[i] = Len(seqs[i])
    OBVIOUS
  <2>3. \A p, q \in 1 .. Len(out) : p < q => row[p] < row[q] \/ (row[p] = row[q] /\ col[p] < col[q])
    BY <1>5, Zenon DEF ComesFrom
  <2>4. \A i \in 1 .. m : \A j \in 1 .. Len(seqs[i]) :
            \E p \in 1 .. Len(out) : row[p] = i /\ col[p] = j
    BY <1>5, Zenon DEF ComesFrom
  <2> HIDE DEF counts
  <2> QED BY <2>1, <2>2, <2>3, <2>4, Zenon DEF RowByRow
<1>7. RowByRow(n, rows, place, m, counts)
  <2>1. /\ \A p \in 1 .. n : /\ call[p] \in Nat /\ call[p] + 1 \in 1 .. m
                             /\ place[p] \in 1 .. count[call[p] + 1]
        /\ \A p, q \in 1 .. n :
                p < q => call[p] < call[q] \/ (call[p] = call[q] /\ place[p] < place[q])
        /\ \A k \in 1 .. m : \A j \in 1 .. count[k] :
                \E p \in 1 .. n : call[p] = k - 1 /\ place[p] = j
    BY Zenon DEF Listing, m
  <2>2. \A k \in 1 .. m : count[k] = counts[k]
    BY DEF m
  <2>3. \A p \in 1 .. n : rows[p] = call[p] + 1
    OBVIOUS
  <2> HIDE DEF counts, rows
  <2>4. \A p, q \in 1 .. n :
            p < q => rows[p] < rows[q] \/ (rows[p] = rows[q] /\ place[p] < place[q])
    <3> SUFFICES ASSUME NEW p \in 1 .. n, NEW q \in 1 .. n, p < q
                 PROVE  rows[p] < rows[q] \/ (rows[p] = rows[q] /\ place[p] < place[q])
      OBVIOUS
    <3>1. call[p] < call[q] \/ (call[p] = call[q] /\ place[p] < place[q])
      BY <2>1
    <3>2. call[p] \in Nat /\ call[q] \in Nat /\ rows[p] = call[p] + 1 /\ rows[q] = call[q] + 1
      BY <2>1, <2>3
    <3> QED BY <3>1, <3>2
  <2>5. ASSUME NEW k \in 1 .. m, NEW j \in 1 .. counts[k]
        PROVE  \E p \in 1 .. n : rows[p] = k /\ place[p] = j
    <3>1. PICK p \in 1 .. n : call[p] = k - 1 /\ place[p] = j
      BY <2>1, <2>2
    <3>2. rows[p] = k
      BY <1>1, <2>3, <3>1
    <3> QED BY <3>1, <3>2
  <2>6. \A p \in 1 .. n : rows[p] \in 1 .. m /\ place[p] \in 1 .. counts[rows[p]]
    <3> TAKE p \in 1 .. n
    <3>1. call[p] + 1 \in 1 .. m /\ place[p] \in 1 .. count[call[p] + 1] /\ rows[p] = call[p] + 1
      BY <2>1, <2>3
    <3>2. count[call[p] + 1] = counts[call[p] + 1]
      BY <2>2, <3>1
    <3> QED BY <3>1, <3>2
  <2> QED BY <2>4, <2>5, <2>6, Zenon DEF RowByRow
<1> HIDE DEF rows, counts
<1>8. n = Len(out) /\ \A p \in 1 .. n : rows[p] = row[p] /\ place[p] = col[p]
  <2>1. m \in Nat
    BY <1>1
  <2> QED BY <1>2, <1>4, <1>6, <1>7, <2>1, OneListing DEF SamePlaces
<1>9. \A p \in 1 .. n : out[p] = seqs[call[p] + 1][place[p]]
  <2> TAKE p \in 1 .. n
  <2>1. out[p] = seqs[row[p]][col[p]]
    BY <1>5, <1>8, Zenon DEF ComesFrom
  <2>2. row[p] = call[p] + 1 /\ col[p] = place[p]
    BY <1>8 DEF rows
  <2> QED BY <2>1, <2>2
<1> QED BY <1>3, <1>8, <1>9 DEF out, IsListed

-----------------------------------------------------------------------------
(* The calls visited are the nodes of the tree, each of them once.          *)

(* A list of nested calls: the root first, and every call where its parent's
   children stand. *)
NestedList(list, n) ==
    /\ n \in Nat \ {0} /\ DOMAIN list = 1 .. n
    /\ \A k \in 1 .. n : list[k].node \in Nodes
    /\ list[1].node = 1
    /\ Nested(list, n)
    /\ ChildrenInOrder(list, n, document.calls)

(* Such a list leaves no call of the tree out. *)
LEMMA ListHoldsAll ==
    ASSUME TreeOfCalls, NEW n, NEW list, NestedList(list, n), NEW x \in Nodes
    PROVE  \E k \in 1 .. n : list[k].node = x
<1> DEFINE T == {y \in Nodes : \A k \in 1 .. n : list[k].node # y}
<1>1. SUFFICES ASSUME T # {} PROVE FALSE
  OBVIOUS
<1>2. PICK m \in T : \A y \in T : m <= y
  <2>1. T \in SUBSET Nat
    BY NodeIsNat
  <2> HIDE DEF T
  <2> QED BY <1>1, <2>1, MinExists
<1>3. m \in Nodes /\ \A k \in 1 .. n : list[k].node # m
  BY <1>2
<1>4. n \in Nat \ {0} /\ list[1].node = 1 /\ ChildrenInOrder(list, n, document.calls)
  BY DEF NestedList
<1>5. m # 1
  BY <1>3, <1>4
<1>6. PICK i \in 1 .. Len(Raw(ParentNode(m)).calls) : Raw(ParentNode(m)).calls[i] = m
  BY <1>3, <1>5, ParentExists
<1>7. ParentNode(m) \in Nodes /\ ParentNode(m) < m
  BY <1>3, <1>5, ParentExists
<1>8. m \in Nat /\ ParentNode(m) \in Nat
  BY <1>3, <1>7, NodeIsNat
<1>9. ParentNode(m) \notin T
  <2> HIDE DEF T
  <2> QED BY <1>2, <1>7, <1>8
<1>10. PICK k \in 1 .. n : list[k].node = ParentNode(m)
  BY <1>7, <1>9
<1>11. PICK at : StandAt(at, list, k, document.calls[list[k].node].calls)
  BY <1>4 DEF ChildrenInOrder
<1>12. document.calls[list[k].node].calls = Raw(ParentNode(m)).calls
  BY <1>10 DEF Raw
<1>13. i \in DOMAIN Raw(ParentNode(m)).calls
  BY <1>6, <1>7 DEF TreeOfCalls
<1>14. at[i] \in DOMAIN list /\ list[at[i]].node = m
  BY <1>6, <1>11, <1>12, <1>13 DEF StandAt
<1> QED BY <1>3, <1>14 DEF NestedList

(* A call but the first stands below the call it is nested in. *)
LEMMA ListedBelow ==
    ASSUME TreeOfCalls, NEW n, NEW list, NestedList(list, n), NEW k \in 1 .. n, k # 1
    PROVE  /\ list[k].parent \in Nat /\ list[k].parent + 1 \in 1 .. n /\ list[k].parent + 1 < k
           /\ list[k].node # 1
           /\ ParentNode(list[k].node) = list[list[k].parent + 1].node
<1> DEFINE q == list[k].parent + 1
           nested == Raw(list[q].node).calls
<1>1. /\ n \in Nat \ {0} /\ DOMAIN list = 1 .. n /\ \A j \in 1 .. n : list[j].node \in Nodes
      /\ Nested(list, n) /\ ChildrenInOrder(list, n, document.calls)
  BY DEF NestedList
<1>2. list[k].parent \in Nat /\ q \in 1 .. n /\ q < k
  BY <1>1 DEF Nested
<1> HIDE DEF q
<1>3. PICK at : StandAt(at, list, q, nested)
  BY <1>1, <1>2 DEF ChildrenInOrder, Raw
<1>4. list[k].parent = q - 1
  BY <1>2 DEF q
<1>5. PICK i \in DOMAIN nested : at[i] = k
  <2>1. k \in DOMAIN list \ {1}
    BY <1>1
  <2> HIDE DEF nested
  <2> QED BY <1>3, <1>4, <2>1 DEF StandAt
<1>6. nested[i] = list[k].node
  <2> HIDE DEF nested
  <2> QED BY <1>3, <1>5 DEF StandAt
<1>7. list[q].node \in Nodes /\ DOMAIN nested = 1 .. Len(nested)
  BY <1>1, <1>2 DEF TreeOfCalls
<1>8. nested[i] # 1 /\ ParentNode(nested[i]) = list[q].node
  BY <1>5, <1>7, ParentFound
<1> QED BY <1>2, <1>6, <1>8 DEF q

(* Nor does it hold one twice. *)
LEMMA ListedOnce ==
    ASSUME TreeOfCalls, NEW n, NEW list, NestedList(list, n), NEW k \in 1 .. n, NEW l \in 1 .. n,
           list[k].node = list[l].node
    PROVE  k = l
<1> DEFINE T == {y \in 1 .. n : \E x \in 1 .. n : x < y /\ list[x].node = list[y].node}
<1>0. /\ n \in Nat \ {0} /\ DOMAIN list = 1 .. n /\ \A j \in 1 .. n : list[j].node \in Nodes
      /\ list[1].node = 1 /\ Nested(list, n) /\ ChildrenInOrder(list, n, document.calls)
  BY DEF NestedList
<1>1. SUFFICES ASSUME T # {} PROVE FALSE
  BY <1>0
<1>2. PICK b \in T : \A y \in T : b <= y
  <2>1. T \in SUBSET Nat
    BY <1>0
  <2> HIDE DEF T
  <2> QED BY <1>1, <2>1, MinExists
<1>3. PICK a \in 1 .. n : a < b /\ list[a].node = list[b].node
  BY <1>2
<1>4. b \in 1 .. n /\ b # 1
  BY <1>2, <1>3
<1> DEFINE pa == list[a].parent + 1
           pb == list[b].parent + 1
<1>5. pb \in 1 .. n /\ pb < b /\ list[b].node # 1 /\ ParentNode(list[b].node) = list[pb].node
  BY <1>4, ListedBelow
<1>6. a # 1
  BY <1>0, <1>3, <1>5
<1>7. pa \in 1 .. n /\ pa < a /\ ParentNode(list[a].node) = list[pa].node
  BY <1>6, ListedBelow
<1>8. list[pa].node = list[pb].node
  BY <1>3, <1>5, <1>7
<1>9. pa = pb
  <2>1. pa \notin T /\ pb \notin T
    <3> HIDE DEF T, pa, pb
    <3> QED BY <1>2, <1>3, <1>4, <1>5, <1>7
  <2>2. ~(pa < pb) /\ ~(pb < pa)
    <3> HIDE DEF pa, pb
    <3> QED BY <1>5, <1>7, <1>8, <2>1
  <2> HIDE DEF pa, pb
  <2> QED BY <1>5, <1>7, <2>2
<1> DEFINE nested == Raw(list[pa].node).calls
<1>10. list[a].parent = pa - 1 /\ list[b].parent = pa - 1
  <2>1. list[a].parent \in Nat /\ list[b].parent \in Nat
    BY <1>4, <1>6, ListedBelow
  <2> QED BY <1>9, <2>1
<1> HIDE DEF pa, pb
<1>11. PICK at : StandAt(at, list, pa, nested)
  BY <1>0, <1>7 DEF ChildrenInOrder, Raw
<1>12. /\ \E i \in DOMAIN nested : at[i] = a
       /\ \E j \in DOMAIN nested : at[j] = b
  <2>1. a \in DOMAIN list \ {1} /\ b \in DOMAIN list \ {1}
    BY <1>0, <1>4, <1>6
  <2> HIDE DEF nested
  <2> QED BY <1>10, <1>11, <2>1 DEF StandAt
<1>13. PICK i \in DOMAIN nested : at[i] = a
  BY <1>12
<1>14. PICK j \in DOMAIN nested : at[j] = b
  BY <1>12
<1>15. nested[i] = nested[j]
  <2>1. nested[i] = list[a].node /\ nested[j] = list[b].node
    <3> HIDE DEF nested
    <3> QED BY <1>11, <1>13, <1>14 DEF StandAt
  <2> QED BY <1>3, <2>1
<1>16. i = j
  <2>1. list[pa].node \in Nodes /\ DOMAIN nested = 1 .. Len(nested)
    BY <1>0, <1>7 DEF TreeOfCalls
  <2> QED BY <1>13, <1>14, <1>15, <2>1 DEF TreeOfCalls
<1> QED BY <1>3, <1>13, <1>14, <1>16

-----------------------------------------------------------------------------
(* What is ingested: the document's calls in pre-order.                     *)

(* At the end the visited calls are the pre-order. *)
LEMMA WalkedAll ==
    ASSUME Inv, DocumentInv, PlanInv, WalkInv, stage = "ingested"
    PROVE  /\ TreeOfCalls /\ NestedList(acc.calls, Len(acc.calls))
           /\ Len(acc.calls) \in Nat \ {0}
           /\ PreOrder \in Seq(Nodes) /\ Len(PreOrder) = Len(acc.calls)
           /\ \A k \in 1 .. Len(acc.calls) : PreOrder[k] = acc.calls[k].node
<1>1. TreeOfCalls
  BY TreeWalked
<1>2. Planned = acc.calls /\ Expanded = Len(acc.calls) /\ Len(acc.calls) \in Nat \ {0}
      /\ \A k \in 1 .. Len(acc.calls) : acc.calls[k].node \in Nodes
  BY HandedOver DEF PastTransfers, NormalizedCall
<1>3. acc.calls \in Seq(NormalizedCall)
  BY Lists
<1>4. NestedList(acc.calls, Len(acc.calls))
  BY <1>2, <1>3 DEF PlanInv, NestedList
<1>5. stack = <<>>
  BY DEF PlanInv, InCall
<1>6. Coming = <<>>
  <2>1. Len(stack) = 0
    BY <1>5
  <2>2. Stacked = <<>>
    BY <2>1 DEF Stacked
  <2> QED BY <2>2 DEF Coming, InCall
<1>7. Traverse(<<>>) = <<>>
  <2>1. Image(Traversal, <<>>) = <<>>
    BY DEF Image
  <2> QED BY <2>1, FlattenSeqEmpty DEF Traverse
<1>8. Visited \in Seq(Nodes) /\ Len(Visited) = Len(acc.calls)
  BY WalkListed
<1>9. Visited = PreOrder
  <2>1. Visited \o <<>> = Visited
    BY <1>8, ConcatEmptySeq
  <2>2. Visited \o Traverse(Coming) = PreOrder
    BY DEF WalkInv
  <2> QED BY <1>6, <1>7, <2>1, <2>2
<1>10. \A k \in 1 .. Len(acc.calls) : Visited[k] = acc.calls[k].node
  BY DEF Visited
<1> QED BY <1>1, <1>2, <1>4, <1>8, <1>9, <1>10

(* What the walk comes to: depths, parents and order are the tree's. *)
LEMMA IngestedInPreOrder ==
    ASSUME Inv, DocumentInv, PlanInv, WalkInv, PlacedInv, stage = "ingested"
    PROVE  CallsInPreOrder
<1> DEFINE n == Len(acc.calls)
<1>1. /\ TreeOfCalls /\ NestedList(acc.calls, n) /\ n \in Nat \ {0}
      /\ PreOrder \in Seq(Nodes) /\ Len(PreOrder) = n
      /\ \A k \in 1 .. n : PreOrder[k] = acc.calls[k].node
  BY WalkedAll
<1>2. /\ Len(arenaCalls) = n
      /\ arenaCalls = [k \in 1 .. n |->
            [id |-> k - 1, depth |-> acc.calls[k].depth, parent |-> acc.calls[k].parent]]
      /\ acc.calls[1].parent = NoCall
  <2>1. Len(arenaCalls) = n /\ acc.calls[1].parent = NoCall
    BY HandedOver DEF PastTransfers
  <2>2. Copied
    BY DEF Inv, BuildInv
  <2> QED BY <2>1, <2>2 DEF Copied
<1> HIDE DEF n
<1>3. ASSUME NEW k \in 1 .. n PROVE acc.calls[k].depth = Nesting[PreOrder[k]]
  BY <1>1 DEF PlacedInv, Passed, n
<1>4. ASSUME NEW k \in 1 .. n, k # 1
      PROVE  acc.calls[k].parent = PositionOf(ParentNode(PreOrder[k]))
  <2> DEFINE q == acc.calls[k].parent + 1
  <2>1. acc.calls[k].parent \in Nat /\ q \in 1 .. n
        /\ ParentNode(acc.calls[k].node) = acc.calls[q].node
    BY <1>1, <1>4, ListedBelow
  <2>2. DOMAIN PreOrder = 1 .. n
    BY <1>1
  <2> HIDE DEF q
  <2>3. q \in DOMAIN PreOrder /\ PreOrder[q] = acc.calls[q].node
    BY <1>1, <2>1, <2>2
  <2>4. \A x \in DOMAIN PreOrder : PreOrder[x] = acc.calls[q].node => x = q
    BY <1>1, <2>1, <2>2, ListedOnce
  <2>5. (CHOOSE x \in DOMAIN PreOrder : PreOrder[x] = acc.calls[q].node) = q
    BY <2>3, <2>4
  <2>6. PositionOf(ParentNode(PreOrder[k])) = q - 1
    BY <1>1, <2>1, <2>5 DEF PositionOf
  <2> QED BY <2>1, <2>6 DEF q
<1>5. \A k \in 1 .. n :
          [id |-> k - 1, depth |-> acc.calls[k].depth, parent |-> acc.calls[k].parent]
          = [id |-> k - 1, depth |-> Nesting[PreOrder[k]],
             parent |-> IF k = 1 THEN NoCall ELSE PositionOf(ParentNode(PreOrder[k]))]
  BY <1>2, <1>3, <1>4
<1>6. arenaCalls = [k \in 1 .. Len(PreOrder) |->
            [id |-> k - 1, depth |-> Nesting[PreOrder[k]],
             parent |-> IF k = 1 THEN NoCall ELSE PositionOf(ParentNode(PreOrder[k]))]]
  BY <1>1, <1>2, <1>5
<1> QED BY <1>6 DEF CallsInPreOrder

(* Once ingest() has returned an arena, its calls are the document's in
   pre-order: each below its own parent and at its own depth. *)
THEOREM WalkIsPreOrder == Spec => []CallsInPreOrder
<1>1. Inv /\ DocumentInv /\ PlanInv /\ WalkInv /\ PlacedInv => CallsInPreOrder
  BY IngestedInPreOrder DEF CallsInPreOrder
<1> QED BY <1>1, Invariance, DocumentKept, Plan, Walk, Places, PTL

-----------------------------------------------------------------------------
(* Facts keep their call.                                                   *)

(* The calls that facts name, from the number of facts of each. *)
Attributes(m, count, call) ==
    FlattenSeq([k \in 1 .. m |-> [i \in 1 .. count[k] |-> k - 1]]) = call

(* The calls the facts of a listing name, one entry per fact. *)
LEMMA ListingAttributes ==
    ASSUME NEW n \in Nat, NEW m \in Nat, NEW call \in Seq(Nat), Len(call) = n,
           NEW place, NEW source, NEW lists,
           NEW count, \A k \in 1 .. m : count[k] \in Nat,
           Listing(n, m, call, place, source, lists, count)
    PROVE  Attributes(m, count, call)
<1> DEFINE entries == [k \in 1 .. m |-> [i \in 1 .. count[k] |-> k - 1]]
<1>1. \A k \in 1 .. m : entries[k] \in Seq(Nat) /\ Len(entries[k]) = count[k]
  <2> TAKE k \in 1 .. m
  <2>1. k - 1 \in Nat /\ count[k] \in Nat
    OBVIOUS
  <2> DEFINE entry == [i \in 1 .. count[k] |-> k - 1]
  <2>2. entry \in Seq(Nat) /\ Len(entry) = count[k]
    BY <2>1
  <2>3. entries[k] = entry
    OBVIOUS
  <2> HIDE DEF entry, entries
  <2> QED BY <2>2, <2>3
<1>2. \A k \in 1 .. m : \A i \in 1 .. count[k] : entries[k][i] = k - 1
  OBVIOUS
<1>3. entries \in Seq(Seq(Nat)) /\ Len(entries) = m
  BY <1>1
<1> HIDE DEF entries
<1>4. /\ FlattenSeq(entries) \in Seq(Nat) /\ Len(FlattenSeq(entries)) = n
      /\ \A p \in 1 .. n : FlattenSeq(entries)[p] = entries[call[p] + 1][place[p]]
  <2>1. \A k \in 1 .. Len(entries) : count[k] = Len(entries[k])
    BY <1>1, <1>3
  <2>2. Listing(n, Len(entries), call, place, source, lists, count)
    BY <1>3
  <2>3. IsListed(FlattenSeq(entries), Nat, n, entries, call, place)
    BY <1>3, <2>1, <2>2, ListingFlattens, Zenon
  <2> QED BY <2>3, Zenon DEF IsListed
<1>5. \A p \in 1 .. n : FlattenSeq(entries)[p] = call[p]
  <2> TAKE p \in 1 .. n
  <2>1. call[p] \in Nat /\ call[p] + 1 \in 1 .. m /\ place[p] \in 1 .. count[call[p] + 1]
    BY DEF Listing
  <2>2. entries[call[p] + 1][place[p]] = (call[p] + 1) - 1
    BY <1>2, <2>1
  <2>3. (call[p] + 1) - 1 = call[p]
    BY <2>1
  <2>4. FlattenSeq(entries)[p] = entries[call[p] + 1][place[p]]
    BY <1>4
  <2> QED BY <2>2, <2>3, <2>4, Zenon
<1>6. FlattenSeq(entries) = call
  BY <1>4, <1>5, SeqEqual
<1> QED BY <1>6 DEF entries, Attributes

(* What the arena and the document have once everything is handed over. *)
LEMMA LogsAreAll ==
    ASSUME Inv, DocumentInv, PlanInv, WalkInv, stage = "ingested", NEW place, NEW source,
           Listing(Len(acc.logs), Len(acc.calls), acc.logs, place, source,
                   LogsOfCalls, LogsSoFar)
    PROVE  /\ Len(AllLogs) = Len(acc.logs) /\ DOMAIN AllLogs = 1 .. Len(acc.logs)
           /\ \A p \in 1 .. Len(acc.logs) : AllLogs[p] = source[p]
<1> DEFINE n == Len(acc.calls)
           X == UNION {{Raw(x).logs[i] : i \in 1 .. Len(Raw(x).logs)} : x \in Nodes}
           seqs == [k \in 1 .. Len(PreOrder) |-> Raw(PreOrder[k]).logs]
<1>1. /\ TreeOfCalls /\ n \in Nat \ {0} /\ PreOrder \in Seq(Nodes) /\ Len(PreOrder) = n
      /\ \A k \in 1 .. n : PreOrder[k] = acc.calls[k].node
  BY WalkedAll
<1>2. \A k \in 1 .. n : PreOrder[k] \in Nodes
  BY <1>1, ElementOfSeq
<1>3. \A x \in Nodes : Raw(x).logs \in Seq(X)
  <2> TAKE x \in Nodes
  <2>1. /\ Len(Raw(x).logs) \in Nat
        /\ Raw(x).logs = [i \in 1 .. Len(Raw(x).logs) |-> Raw(x).logs[i]]
    BY <1>1 DEF TreeOfCalls, HasFacts
  <2>2. \A i \in 1 .. Len(Raw(x).logs) : Raw(x).logs[i] \in X
    OBVIOUS
  <2> HIDE DEF X
  <2> DEFINE f == [i \in 1 .. Len(Raw(x).logs) |-> Raw(x).logs[i]]
  <2>3. f \in Seq(X)
    BY <2>1, <2>2
  <2> HIDE DEF f
  <2>4. Raw(x).logs = f
    BY <2>1, Zenon DEF f
  <2> QED BY <2>3, <2>4
<1> HIDE DEF n, X
<1>4. /\ DOMAIN seqs = 1 .. n /\ \A k \in 1 .. n : seqs[k] = Raw(PreOrder[k]).logs
      /\ seqs = [k \in 1 .. n |-> Raw(PreOrder[k]).logs]
  BY <1>1
<1>5. seqs \in Seq(Seq(X)) /\ Len(seqs) = n
  BY <1>1, <1>2, <1>3, <1>4
<1> HIDE DEF seqs
<1>6. \A k \in 1 .. n : LogsSoFar[k] = Len(seqs[k]) /\ LogsOfCalls[k] = seqs[k]
  BY <1>1, <1>4 DEF LogsSoFar, LogsOfCalls, n
<1>7. Len(acc.logs) \in Nat /\ acc.logs \in Seq(Nat)
  <2>1. acc.logs \in Seq(Nat)
    BY Lists
  <2> QED BY <2>1, LenProperties
<1>8. /\ FlattenSeq(seqs) \in Seq(X) /\ Len(FlattenSeq(seqs)) = Len(acc.logs)
      /\ \A p \in 1 .. Len(acc.logs) :
            FlattenSeq(seqs)[p] = seqs[acc.logs[p] + 1][place[p]]
  <2>1. \A k \in 1 .. Len(seqs) : LogsSoFar[k] = Len(seqs[k])
    BY <1>5, <1>6
  <2>2. Listing(Len(acc.logs), Len(seqs), acc.logs, place, source, LogsOfCalls, LogsSoFar)
    BY <1>5 DEF n
  <2>3. IsListed(FlattenSeq(seqs), X, Len(acc.logs), seqs, acc.logs, place)
    BY <1>5, <1>7, <2>1, <2>2, ListingFlattens, Zenon
  <2> QED BY <2>3, Zenon DEF IsListed
<1>9. \A p \in 1 .. Len(acc.logs) : source[p] = seqs[acc.logs[p] + 1][place[p]]
  <2> TAKE p \in 1 .. Len(acc.logs)
  <2>1. /\ acc.logs[p] + 1 \in 1 .. n
        /\ source[p] = LogsOfCalls[acc.logs[p] + 1][place[p]]
    BY DEF Listing, n
  <2> QED BY <1>6, <2>1
<1>10. AllLogs = FlattenSeq(seqs)
  BY DEF AllLogs, seqs
<1>11. DOMAIN FlattenSeq(seqs) = 1 .. Len(acc.logs)
  BY <1>8
<1> QED BY <1>8, <1>9, <1>10, <1>11

(* The transfers are those of the logs that decode to one, by position. *)
LEMMA TransfersAreAll ==
    ASSUME NEW n \in Nat, NEW logs, NEW source, \A p \in 1 .. n : logs[p] = source[p],
           NEW moved \in Seq(Nat), \A k \in 1 .. Len(moved) : moved[k] \in 0 .. n - 1,
           DecodedFrom(moved, source, n)
    PROVE  FlattenSeq([i \in 1 .. n |-> IF DecodesTransfer(logs[i]) THEN <<i - 1>> ELSE <<>>])
                = moved
<1> DEFINE selected == {i \in 1 .. n : DecodesTransfer(logs[i])}
           e == [i \in 1 .. n |-> i - 1]
           seqs == [i \in 1 .. n |-> IF i \in selected THEN <<e[i]>> ELSE <<>>]
           given == [i \in 1 .. n |-> IF DecodesTransfer(logs[i]) THEN <<i - 1>> ELSE <<>>]
<1>1. /\ selected \in SUBSET (1 .. n) /\ \A i \in 1 .. n : e[i] = i - 1
      /\ \A i \in selected : i \in 1 .. n /\ e[i] \in Nat
  OBVIOUS
<1>2. given = seqs
  <2>1. \A i \in 1 .. n : (IF DecodesTransfer(logs[i]) THEN <<i - 1>> ELSE <<>>)
                            = IF i \in selected THEN <<e[i]>> ELSE <<>>
    BY <1>1
  <2> HIDE DEF selected, e
  <2> QED BY <2>1
<1>3. DOMAIN moved = 1 .. Len(moved) /\ \A k \in 1 .. Len(moved) : moved[k] \in Nat
  OBVIOUS
<1>4. /\ \A i, j \in DOMAIN moved : i < j => moved[i] < moved[j]
      /\ \A p \in 1 .. n :
            DecodesTransfer(source[p]) <=> \E i \in DOMAIN moved : moved[i] = p - 1
  BY DEF DecodedFrom
<1>5. Selects(moved, selected)
  <2>1. ASSUME NEW k \in 1 .. Len(moved) PROVE moved[k] + 1 \in selected
    <3>1. moved[k] + 1 \in 1 .. n /\ moved[k] = (moved[k] + 1) - 1
      BY <1>3
    <3>2. \E i \in DOMAIN moved : moved[i] = (moved[k] + 1) - 1
      BY <1>3, <3>1
    <3>3. DecodesTransfer(source[moved[k] + 1])
      BY <1>4, <3>1, <3>2
    <3>4. DecodesTransfer(logs[moved[k] + 1])
      BY <3>1, <3>3
    <3> QED BY <3>1, <3>4
  <2>2. ASSUME NEW i \in selected PROVE \E k \in 1 .. Len(moved) : moved[k] = i - 1
    <3>1. i \in 1 .. n /\ DecodesTransfer(source[i])
      OBVIOUS
    <3> QED BY <1>3, <1>4, <3>1
  <2>3. \A k, l \in 1 .. Len(moved) : k < l => moved[k] < moved[l]
    BY <1>3, <1>4
  <2> HIDE DEF selected
  <2> QED BY <2>1, <2>2, <2>3 DEF Selects
<1> HIDE DEF selected, e
<1>6. FlattenSeq(seqs) \in Seq(Nat)
      /\ \E row : Keeps(FlattenSeq(seqs), row, e, n, selected)
  <2>1. \A i \in selected : e[i] \in Nat
    BY <1>1
  <2> QED BY <1>1, <2>1, FlattenSelected
<1> HIDE DEF seqs
<1>7. PICK row : Keeps(FlattenSeq(seqs), row, e, n, selected)
  BY <1>6
<1>8. FlattenSeq(seqs) = moved
  BY <1>1, <1>5, <1>6, <1>7, OneSelection
<1> QED BY <1>2, <1>8

(* What gathering and handing over come to. *)
LEMMA IngestedFacts ==
    ASSUME Inv, DocumentInv, PlanInv, WalkInv, GatherInv, stage = "ingested"
    PROVE  FactsKeepTheirCall
<1> DEFINE n == Len(acc.calls)
<1>1. /\ TreeOfCalls /\ n \in Nat \ {0} /\ PreOrder \in Seq(Nodes) /\ Len(PreOrder) = n
      /\ \A k \in 1 .. n : PreOrder[k] = acc.calls[k].node
  BY WalkedAll
<1>2. \A k \in 1 .. n : PreOrder[k] \in Nodes
  BY <1>1, ElementOfSeq
<1>3. \A k \in 1 .. n : /\ Len(Raw(PreOrder[k]).changes) \in Nat
                        /\ Len(Raw(PreOrder[k]).logs) \in Nat
  BY <1>1, <1>2 DEF TreeOfCalls, HasFacts
<1>4. \A k \in 1 .. n : /\ ChangesSoFar[k] = Len(Raw(PreOrder[k]).changes)
                        /\ LogsSoFar[k] = Len(Raw(PreOrder[k]).logs)
  BY <1>1 DEF ChangesSoFar, LogsSoFar
<1>5. /\ arenaChanges = ChangeCalls /\ arenaTransfers = acc.transfers
      /\ [p \in 1 .. Len(arenaLogs) |-> arenaLogs[p].call] = acc.logs
      /\ Len(arenaLogs) = Len(acc.logs)
  BY GatheredInOrder
<1>6. /\ acc.changes \in Seq([call : Nat, contract : Addresses])
      /\ acc.logs \in Seq(Nat) /\ acc.transfers \in Seq(Nat)
  BY Lists
<1>7. /\ Len(acc.changes) \in Nat /\ Len(acc.logs) \in Nat /\ Len(acc.transfers) \in Nat
  BY <1>6, LenProperties
<1>8. ChangeCalls \in Seq(Nat) /\ Len(ChangeCalls) = Len(acc.changes)
  <2>1. \A p \in 1 .. Len(acc.changes) : acc.changes[p].call \in Nat
    <3> TAKE p \in 1 .. Len(acc.changes)
    <3>1. acc.changes[p] \in [call : Nat, contract : Addresses]
      BY <1>6, ElementOfSeq
    <3> QED BY <3>1
  <2> QED BY <1>7, <2>1 DEF ChangeCalls
<1> HIDE DEF n
<1>9. arenaChanges = Attributed(LAMBDA x : Raw(x).changes)
  <2>1. PICK place, source :
          Listing(Len(acc.changes), n, ChangeCalls, place, source, ChangesOfCalls, ChangesSoFar)
    BY DEF GatherInv, ChangesInv, n
  <2>2. \A k \in 1 .. n : ChangesSoFar[k] \in Nat
    BY <1>3, <1>4
  <2>3. FlattenSeq([k \in 1 .. n |-> [i \in 1 .. ChangesSoFar[k] |-> k - 1]]) = ChangeCalls
    <3>1. n \in Nat
      BY <1>1
    <3>2. Attributes(n, ChangesSoFar, ChangeCalls)
      BY <1>7, <1>8, <2>1, <2>2, <3>1, ListingAttributes, Zenon
    <3> QED BY <3>2 DEF Attributes
  <2>4. [k \in 1 .. n |-> [i \in 1 .. ChangesSoFar[k] |-> k - 1]]
          = [k \in 1 .. n |-> [i \in 1 .. Len(Raw(PreOrder[k]).changes) |-> k - 1]]
    BY <1>4
  <2> QED BY <1>1, <1>5, <2>3, <2>4 DEF Attributed
<1>10. PICK place, source :
          /\ Listing(Len(acc.logs), n, acc.logs, place, source, LogsOfCalls, LogsSoFar)
          /\ DecodedFrom(acc.transfers, source, Len(acc.logs))
  BY DEF GatherInv, LogsInv, n
<1>11. [i \in DOMAIN arenaLogs |-> arenaLogs[i].call] = Attributed(LAMBDA x : Raw(x).logs)
  <2>1. \A k \in 1 .. n : LogsSoFar[k] \in Nat
    BY <1>3, <1>4
  <2>2. FlattenSeq([k \in 1 .. n |-> [i \in 1 .. LogsSoFar[k] |-> k - 1]]) = acc.logs
    <3>1. n \in Nat
      BY <1>1
    <3>2. Attributes(n, LogsSoFar, acc.logs)
      BY <1>6, <1>7, <1>10, <2>1, <3>1, ListingAttributes, Zenon
    <3> QED BY <3>2 DEF Attributes
  <2>3. [k \in 1 .. n |-> [i \in 1 .. LogsSoFar[k] |-> k - 1]]
          = [k \in 1 .. n |-> [i \in 1 .. Len(Raw(PreOrder[k]).logs) |-> k - 1]]
    BY <1>4
  <2>4. DOMAIN arenaLogs = 1 .. Len(arenaLogs)
    BY <1>7 DEF Inv, BuildInv, Copied
  <2> QED BY <1>1, <1>5, <2>2, <2>3, <2>4 DEF Attributed
<1>12. arenaTransfers = FlattenSeq([i \in 1 .. Len(AllLogs) |->
                              IF DecodesTransfer(AllLogs[i]) THEN <<i - 1>> ELSE <<>>])
  <2>1. /\ Len(AllLogs) = Len(acc.logs)
        /\ \A p \in 1 .. Len(acc.logs) : AllLogs[p] = source[p]
    BY <1>10, LogsAreAll DEF n
  <2>2. \A k \in 1 .. Len(acc.transfers) : acc.transfers[k] \in 0 .. Len(acc.logs) - 1
    BY DEF Inv, FactInv
  <2>3. FlattenSeq([i \in 1 .. Len(acc.logs) |->
                      IF DecodesTransfer(AllLogs[i]) THEN <<i - 1>> ELSE <<>>])
          = acc.transfers
    BY <1>6, <1>7, <1>10, <2>1, <2>2, TransfersAreAll
  <2> QED BY <1>5, <2>1, <2>3
<1> QED BY <1>9, <1>11, <1>12 DEF FactsKeepTheirCall

(* Once ingest() has returned an arena, it holds every storage change, log and
   transfer of the document once, in order, under its call or log. *)
THEOREM FactsKept == Spec => []FactsKeepTheirCall
<1>1. Inv /\ DocumentInv /\ PlanInv /\ WalkInv /\ GatherInv => FactsKeepTheirCall
  BY IngestedFacts DEF FactsKeepTheirCall
<1> QED BY <1>1, Invariance, DocumentKept, Plan, Walk, Gather, PTL

-----------------------------------------------------------------------------
(* What is accepted is well-formed, and what is refused is not.             *)

(* Every log of every call stands in AllLogs, at a place of its own. *)
LogPlaces(row, col) ==
    \A k \in 1 .. Len(PreOrder) : \A j \in 1 .. Len(Raw(PreOrder[k]).logs) :
        \E p \in DOMAIN AllLogs :
            row[p] = k /\ col[p] = j /\ AllLogs[p] = Raw(PreOrder[k]).logs[j]

(* AllLogs holds every log of every call, at a place of its own, and no other. *)
LEMMA LogsListed ==
    ASSUME TreeOfCalls
    PROVE  /\ \A p \in DOMAIN AllLogs : \E n \in Nodes : \E i \in 1 .. Len(Raw(n).logs) :
                AllLogs[p] = Raw(n).logs[i]
           /\ \E row, col : LogPlaces(row, col)
<1> DEFINE m == Len(PreOrder)
           X == UNION {{Raw(x).logs[i] : i \in 1 .. Len(Raw(x).logs)} : x \in Nodes}
           seqs == [k \in 1 .. m |-> Raw(PreOrder[k]).logs]
           out == FlattenSeq(seqs)
<1>1. PreOrder \in Seq(Nodes) /\ m \in Nat /\ \A k \in 1 .. m : PreOrder[k] \in Nodes
  <2>1. PreOrder \in Seq(Nodes)
    BY PreOrderTraverses
  <2> QED BY <2>1, LenProperties, ElementOfSeq
<1>2. \A x \in Nodes : Raw(x).logs \in Seq(X)
  <2> TAKE x \in Nodes
  <2>1. /\ Len(Raw(x).logs) \in Nat
        /\ Raw(x).logs = [i \in 1 .. Len(Raw(x).logs) |-> Raw(x).logs[i]]
    BY DEF TreeOfCalls, HasFacts
  <2>2. \A i \in 1 .. Len(Raw(x).logs) : Raw(x).logs[i] \in X
    OBVIOUS
  <2> HIDE DEF X
  <2> DEFINE f == [i \in 1 .. Len(Raw(x).logs) |-> Raw(x).logs[i]]
  <2>3. f \in Seq(X)
    BY <2>1, <2>2
  <2> HIDE DEF f
  <2>4. Raw(x).logs = f
    BY <2>1, Zenon DEF f
  <2> QED BY <2>3, <2>4
<1> HIDE DEF X, m
<1>3. seqs \in Seq(Seq(X)) /\ Len(seqs) = m /\ \A k \in 1 .. m : seqs[k] = Raw(PreOrder[k]).logs
  BY <1>1, <1>2
<1> HIDE DEF seqs
<1>4. out \in Seq(X) /\ \E row, col : ComesFrom(out, row, col, seqs, m)
  BY <1>3, FlattenSeqLists
<1> HIDE DEF out
<1>5. AllLogs = out
  BY DEF AllLogs, out, seqs, m
<1>6. DOMAIN out = 1 .. Len(out) /\ \A p \in DOMAIN out : out[p] \in X
  BY <1>4
<1>7. ASSUME NEW p \in DOMAIN AllLogs
      PROVE  \E n \in Nodes : \E i \in 1 .. Len(Raw(n).logs) : AllLogs[p] = Raw(n).logs[i]
  BY <1>5, <1>6 DEF X
<1>8. PICK row, col : ComesFrom(out, row, col, seqs, m)
  BY <1>4
<1>9. ASSUME NEW k \in 1 .. m, NEW j \in 1 .. Len(Raw(PreOrder[k]).logs)
      PROVE  \E p \in DOMAIN AllLogs :
                row[p] = k /\ col[p] = j /\ AllLogs[p] = Raw(PreOrder[k]).logs[j]
  <2>1. j \in 1 .. Len(seqs[k])
    BY <1>3
  <2>2. PICK p \in 1 .. Len(out) : row[p] = k /\ col[p] = j
    BY <1>8, <2>1, Zenon DEF ComesFrom
  <2>3. out[p] = seqs[row[p]][col[p]]
    BY <1>8, Zenon DEF ComesFrom
  <2>4. out[p] = Raw(PreOrder[k]).logs[j] /\ p \in DOMAIN out
    BY <1>3, <1>6, <2>2, <2>3
  <2> QED BY <1>5, <2>2, <2>4
<1>10. \A k \in 1 .. m : \A j \in 1 .. Len(Raw(PreOrder[k]).logs) :
            \E p \in DOMAIN AllLogs :
                row[p] = k /\ col[p] = j /\ AllLogs[p] = Raw(PreOrder[k]).logs[j]
  BY <1>9
<1>11. LogPlaces(row, col)
  BY <1>10 DEF m, LogPlaces
<1> QED BY <1>7, <1>11

(* The calls visited are the first of the pre-order. *)
LEMMA VisitedFirst ==
    ASSUME Inv, DocumentInv, WalkInv, stage \notin {"load", "failed"}
    PROVE  /\ TreeOfCalls /\ Len(PreOrder) \in Nat /\ Len(acc.calls) \in Nat
           /\ Len(acc.calls) <= Len(PreOrder)
           /\ \A k \in 1 .. Len(acc.calls) : PreOrder[k] = acc.calls[k].node
<1>1. TreeOfCalls
  BY TreeWalked
<1>2. Visited \in Seq(Nodes) /\ Len(Visited) = Len(acc.calls) /\ Stacked \in Seq(Nodes)
  BY WalkListed
<1>3. Coming \in Seq(Nodes)
  <2>1. CASE stage \in InCall
    <3>1. item.node \in Nodes
      BY <2>1, ThisCall
    <3>2. Raw(item.node).calls \in Seq(Nodes)
      BY <1>1, <3>1 DEF TreeOfCalls
    <3> QED BY <1>2, <2>1, <3>2, ConcatProperties DEF Coming
  <2>2. CASE stage \notin InCall
    BY <1>2, <2>2 DEF Coming
  <2> QED BY <2>1, <2>2
<1>4. Traverse(Coming) \in Seq(Nodes)
  BY <1>1, <1>3, TraverseLists
<1> DEFINE rest == Traverse(Coming)
<1>5. PreOrder = Visited \o rest
  BY DEF WalkInv
<1> HIDE DEF rest
<1>6. Len(Visited) \in Nat /\ Len(rest) \in Nat
  BY <1>2, <1>4, LenProperties DEF rest
<1>7. /\ Len(PreOrder) = Len(Visited) + Len(rest)
      /\ \A k \in 1 .. Len(Visited) : PreOrder[k] = Visited[k]
  <2>1. rest \in Seq(Nodes)
    BY <1>4 DEF rest
  <2>2. /\ Len(Visited \o rest) = Len(Visited) + Len(rest)
        /\ \A k \in 1 .. Len(Visited) + Len(rest) :
              (Visited \o rest)[k] = IF k <= Len(Visited) THEN Visited[k]
                                     ELSE rest[k - Len(Visited)]
    BY <1>2, <2>1, ConcatProperties
  <2> QED BY <1>5, <1>6, <2>2
<1>8. \A k \in 1 .. Len(acc.calls) : Visited[k] = acc.calls[k].node
  BY DEF Visited
<1> QED BY <1>1, <1>2, <1>6, <1>7, <1>8

(* Every rule of the document's holds once ingest() has returned an arena. *)
LEMMA AcceptedIsWellFormed ==
    ASSUME Inv, DocumentInv, PlanInv, WalkInv, PlacedInv, GatherInv, ValueInv, stage = "ingested"
    PROVE  WellFormed
<1> DEFINE n == Len(acc.calls)
<1>1. /\ TreeOfCalls /\ NestedList(acc.calls, n) /\ n \in Nat \ {0}
      /\ PreOrder \in Seq(Nodes) /\ Len(PreOrder) = n
      /\ \A k \in 1 .. n : PreOrder[k] = acc.calls[k].node
  BY WalkedAll
<1>2. document.loads /\ document.decodes /\ document.header = NoFault
  BY DEF Inv, TypeInv
<1>3. /\ Len(arenaCalls) = n
      /\ \A k \in 1 .. n : acc.calls[k] \in NormalizedCall
  BY HandedOver DEF PastTransfers
<1>4. \A k \in 1 .. n : /\ ChangesSoFar[k] = Len(Raw(acc.calls[k].node).changes)
                        /\ ChangesOfCalls[k] = Raw(acc.calls[k].node).changes
  BY DEF ChangesSoFar, ChangesOfCalls
<1> HIDE DEF n
<1>5. ASSUME NEW x \in Nodes
      PROVE  /\ Raw(x).readable /\ Raw(x).kind \in CallKinds
             /\ Nesting[x] <= MaxCallDepth
             /\ StorageContext[x] # NoAddress
             /\ Raw(x).kind = "staticcall" => Raw(x).value = 0
             /\ \A i \in DOMAIN Raw(x).changes :
                    Raw(x).changes[i].readable /\ Raw(x).changes[i].contract = StorageContext[x]
  <2>1. PICK k \in 1 .. n : acc.calls[k].node = x
    BY <1>1, ListHoldsAll
  <2>2. Passed(acc.calls[k])
    BY DEF PlacedInv, n
  <2>3. Raw(x).readable /\ Raw(x).kind \in CallKinds /\ StorageContext[x] # NoAddress
    BY <2>1, <2>2 DEF Passed
  <2>4. Nesting[x] <= MaxCallDepth
    <3>1. acc.calls[k].depth \in 0 .. MaxCallDepth
      BY <1>3 DEF NormalizedCall
    <3>2. acc.calls[k].depth = Nesting[x]
      BY <2>1, <2>2 DEF Passed
    <3> QED BY <3>1, <3>2, DepthFits
  <2>5. Raw(x).kind = "staticcall" => Raw(x).value = 0
    BY <1>3, <2>1 DEF ValueInv, CanCarryValue
  <2>6. ASSUME NEW i \in DOMAIN Raw(x).changes
        PROVE  Raw(x).changes[i].readable /\ Raw(x).changes[i].contract = StorageContext[x]
    <3>1. PICK place, source :
            /\ Listing(Len(acc.changes), n, ChangeCalls, place, source,
                       ChangesOfCalls, ChangesSoFar)
            /\ \A p \in 1 .. Len(acc.changes) :
                    source[p].readable /\ source[p].contract = acc.changes[p].contract
      BY DEF GatherInv, ChangesInv, n
    <3>2. i \in 1 .. ChangesSoFar[k]
      <4>1. Raw(x).changes = [j \in 1 .. Len(Raw(x).changes) |-> Raw(x).changes[j]]
        BY <1>1 DEF TreeOfCalls, HasFacts
      <4>2. i \in 1 .. Len(Raw(x).changes)
        BY <4>1
      <4> QED BY <1>4, <2>1, <4>2
    <3>3. PICK p \in 1 .. Len(acc.changes) :
            ChangeCalls[p] = k - 1 /\ source[p] = ChangesOfCalls[k][i]
      BY <1>1, <3>1, <3>2, Listed
    <3>4. source[p] = Raw(x).changes[i]
      BY <1>4, <2>1, <3>3
    <3>5. acc.changes[p].call + 1 = k
      <4>1. acc.changes[p].call = k - 1
        BY <3>3 DEF ChangeCalls
      <4> QED BY <1>1, <4>1
    <3>6. acc.changes[p].contract = StorageContext[x]
      BY <2>1, <3>5 DEF PlacedInv
    <3> QED BY <3>1, <3>4, <3>6
  <2> QED BY <2>3, <2>4, <2>5, <2>6
<1>6. PICK place, source :
        /\ Listing(Len(acc.logs), Len(acc.calls), acc.logs, place, source, LogsOfCalls, LogsSoFar)
        /\ \A p \in 1 .. Len(acc.logs) : SoundLog(source[p])
        /\ \A p, q \in 1 .. Len(acc.logs) : source[p].index = source[q].index => p = q
  BY DEF GatherInv, LogsInv
<1>7. /\ DOMAIN AllLogs = 1 .. Len(acc.logs)
      /\ \A p \in 1 .. Len(acc.logs) : AllLogs[p] = source[p]
  BY <1>6, LogsAreAll
<1>8. ASSUME NEW i \in DOMAIN AllLogs
      PROVE  /\ AllLogs[i].readable /\ AllLogs[i].dataReadable
             /\ AllLogs[i].topics <= 4
             /\ AllLogs[i].index \in 0 .. MaxLogIndex
             /\ \A j \in DOMAIN AllLogs : AllLogs[i].index = AllLogs[j].index => i = j
  <2>1. SoundLog(AllLogs[i])
    BY <1>6, <1>7
  <2>2. AllLogs[i].topics \in Nat /\ AllLogs[i].index \in Nat \union {Unreadable}
    <3>1. PICK x \in Nodes : \E k \in 1 .. Len(Raw(x).logs) : AllLogs[i] = Raw(x).logs[k]
      BY <1>1, LogsListed
    <3>2. PICK k \in 1 .. Len(Raw(x).logs) : AllLogs[i] = Raw(x).logs[k]
      BY <3>1
    <3>3. HasFacts(Raw(x))
      BY <1>1 DEF TreeOfCalls
    <3> HIDE DEF Raw
    <3>4. Raw(x).logs[k].topics \in Nat /\ Raw(x).logs[k].index \in Nat \union {Unreadable}
      BY <3>3 DEF HasFacts
    <3> QED BY <3>2, <3>4
  <2>3. AllLogs[i].topics <= 4 /\ AllLogs[i].index \in 0 .. MaxLogIndex
    BY <2>1, <2>2, DocumentAssumption DEF SoundLog
  <2>4. \A j \in DOMAIN AllLogs : AllLogs[i].index = AllLogs[j].index => i = j
    BY <1>6, <1>7
  <2> QED BY <2>1, <2>3, <2>4 DEF SoundLog
<1> QED BY <1>2, <1>5, <1>8 DEF WellFormed

-----------------------------------------------------------------------------
(* Refusals.                                                                *)

(* What is wrong with a call that is refused. *)
LEMMA RefusedCall ==
    ASSUME NEW it, VisitFault(it) # NoFault
    PROVE  \/ it.depth > MaxCallDepth
           \/ Raw(it.node).kind \notin CallKinds
           \/ ~Raw(it.node).readable
           \/ InCallerContext(Raw(it.node).kind) /\ it.context = NoAddress
<1> DEFINE checks == <<Check(it.depth > MaxCallDepth, "UnsupportedFeature"),
                     Check(Raw(it.node).kind \notin CallKinds, "UnsupportedFeature"),
                     Check(~Raw(it.node).readable, "MalformedField"),
                     Check(InCallerContext(Raw(it.node).kind) /\ it.context = NoAddress,
                           "UnsupportedFeature")>>
<1>1. FirstFault(checks) # NoFault
  BY DEF VisitFault
<1>2. DOMAIN checks = 1 .. 4 /\ \A i \in 1 .. 4 : checks[i].fault # NoFault
  BY DEF Check, NoFault
<1>3. \E i \in 1 .. 4 : checks[i].fails
  <2> HIDE DEF checks
  <2> QED BY <1>1, <1>2, FirstFaultMeans
<1>4. checks[1].fails \/ checks[2].fails \/ checks[3].fails \/ checks[4].fails
  <2> HIDE DEF checks
  <2> QED BY <1>3
<1> QED BY <1>4 DEF Check

(* Why process_changes refuses. *)
LEMMA RefusedChange ==
    ASSUME NEW change, ChangeFault(change) # NoFault
    PROVE  \/ change.contract = Unreadable
           \/ change.contract # ContextOf(item)
           \/ ~change.readable
<1> DEFINE checks == <<Check(change.contract = Unreadable, "MalformedField"),
                     Check(change.contract # ContextOf(item), "InvalidStorageOwnership"),
                     Check(~change.readable, "MalformedField")>>
<1>1. FirstFault(checks) # NoFault
  BY DEF ChangeFault
<1>2. DOMAIN checks = 1 .. 3 /\ \A i \in 1 .. 3 : checks[i].fault # NoFault
  BY DEF Check, NoFault
<1>3. \E i \in 1 .. 3 : checks[i].fails
  <2> HIDE DEF checks
  <2> QED BY <1>1, <1>2, FirstFaultMeans
<1>4. checks[1].fails \/ checks[2].fails \/ checks[3].fails
  <2> HIDE DEF checks
  <2> QED BY <1>3
<1> QED BY <1>4 DEF Check

(* Why process_logs refuses. *)
LEMMA RefusedLog ==
    ASSUME NEW log, LogFault(log) # NoFault
    PROVE  \/ log.index = Unreadable
           \/ log.index \in acc.seen
           \/ ~log.readable
           \/ log.topics > 4
           \/ ~log.dataReadable
           \/ log.index \in Nat /\ log.index > MaxLogIndex
<1> DEFINE checks == <<Check(log.index = Unreadable, "MalformedField"),
                 Check(log.index \in acc.seen, "DuplicateLogIndex"),
                 Check(~log.readable, "MalformedField"),
                 Check(log.topics > 4, "UnsupportedFeature"),
                 Check(~log.dataReadable, "MalformedField"),
                 Check(log.index \in Nat /\ log.index > MaxLogIndex, "UnsupportedFeature")>>
<1>1. FirstFault(checks) # NoFault
  BY DEF LogFault
<1>2. DOMAIN checks = 1 .. 6 /\ \A i \in 1 .. 6 : checks[i].fault # NoFault
  BY DEF Check, NoFault
<1>3. \E i \in 1 .. 6 : checks[i].fails
  <2> HIDE DEF checks
  <2> QED BY <1>1, <1>2, FirstFaultMeans
<1>4. \/ checks[1].fails \/ checks[2].fails \/ checks[3].fails
      \/ checks[4].fails \/ checks[5].fails \/ checks[6].fails
  <2> HIDE DEF checks
  <2> QED BY <1>3
<1> QED BY <1>4 DEF Check

(* A document that is refused unread breaks a rule. *)
LEMMA LoadRefuses == ASSUME Inv, Load, stage' = "failed" PROVE ~WellFormed
<1> DEFINE checks == <<SourceCheck, DecodeCheck, HeaderCheck>>
<1>1. FirstFault(checks) # NoFault
  BY DEF Load
<1>2. DOMAIN checks = 1 .. 3 /\ \A i \in 1 .. 3 : checks[i].fails => checks[i].fault # NoFault
  <2>1. checks[3].fails => checks[3].fault # NoFault
    BY DEF HeaderCheck, Check
  <2> QED BY <2>1 DEF SourceCheck, DecodeCheck, Check, NoFault
<1>3. \E i \in 1 .. 3 : checks[i].fails
  <2> HIDE DEF checks
  <2> QED BY <1>1, <1>2, FirstFaultMeans
<1>4. checks[1].fails \/ checks[2].fails \/ checks[3].fails
  <2> HIDE DEF checks
  <2> QED BY <1>3
<1> QED BY <1>4 DEF Check, SourceCheck, DecodeCheck, HeaderCheck, WellFormed

(* So does one with a call that is refused. *)
LEMMA VisitRefuses ==
    ASSUME Inv, DocumentInv, PlacedInv, VisitCall, stage' = "failed" PROVE ~WellFormed
<1> DEFINE it == Last(stack)
<1>1. stage = "walk" /\ stack # <<>> /\ VisitFault(it) # NoFault
  BY DEF VisitCall
<1>2. stack \in Seq(PendingCall) /\ TreeOfCalls
  BY <1>1, TreeWalked DEF Inv, TypeInv
<1>3. Len(stack) \in Nat \ {0} /\ it = stack[Len(stack)] /\ it \in PendingCall
  BY <1>1, <1>2, Popped
<1> HIDE DEF it
<1>4. Placed(it) /\ it.node \in Nodes
  BY <1>1, <1>3 DEF PlacedInv, PendingCall
<1>5. ContextOf(it) = StorageContext[it.node] /\ Nesting[it.node] \in Nat
  BY <1>2, <1>4, ContextOfPlaced, NestingIsNat
<1> SUFFICES ASSUME WellFormed PROVE FALSE
  OBVIOUS
<1>6. /\ Raw(it.node).readable /\ Raw(it.node).kind \in CallKinds
      /\ Nesting[it.node] <= MaxCallDepth
      /\ StorageContext[it.node] # NoAddress
  BY <1>4 DEF WellFormed
<1>7. CASE it.depth > MaxCallDepth
  BY <1>4, <1>5, <1>6, <1>7, DepthFits DEF Placed
<1>8. CASE InCallerContext(Raw(it.node).kind) /\ it.context = NoAddress
  BY <1>5, <1>6, <1>8 DEF ContextOf
<1> QED BY <1>1, <1>6, <1>7, <1>8, RefusedCall

(* So does one with a storage change that is refused. *)
LEMMA ChangeRefuses ==
    ASSUME Inv, DocumentInv, PlacedInv, NormalizeChange, stage' = "failed" PROVE ~WellFormed
<1> DEFINE change == Raw(item.node).changes[nth]
<1>1. /\ stage = "changes" /\ ChangeFault(change) # NoFault
      /\ nth \in Nat \ {0} /\ nth <= Len(Raw(item.node).changes)
  BY DEF NormalizeChange, Inv, TypeInv
<1>2. TreeOfCalls /\ item.node \in Nodes /\ Placed(item)
  BY <1>1, TreeWalked, ThisCall DEF InCall, PlacedInv
<1>3. ContextOf(item) = StorageContext[item.node] /\ StorageContext[item.node] # Unreadable
  BY <1>2, ContextOfPlaced, ContextIsReadable
<1>4. nth \in DOMAIN Raw(item.node).changes
  <2>1. /\ Len(Raw(item.node).changes) \in Nat
        /\ Raw(item.node).changes = [i \in 1 .. Len(Raw(item.node).changes) |->
                                        Raw(item.node).changes[i]]
    BY <1>2 DEF TreeOfCalls, HasFacts
  <2> QED BY <1>1, <2>1
<1> SUFFICES ASSUME WellFormed PROVE FALSE
  OBVIOUS
<1>5. change.readable /\ change.contract = StorageContext[item.node]
  BY <1>2, <1>4 DEF WellFormed
<1> HIDE DEF change
<1> QED BY <1>1, <1>3, <1>5, RefusedChange

(* So does one with a log that is refused, be it for an index used twice. *)
LEMMA LogRefuses ==
    ASSUME Inv, DocumentInv, PlanInv, WalkInv, GatherInv, NormalizeLog, stage' = "failed"
    PROVE  ~WellFormed
<1> DEFINE log == Raw(item.node).logs[nth]
           m == Len(acc.calls)
<1>1. /\ stage = "logs" /\ LogFault(log) # NoFault
      /\ nth \in Nat \ {0} /\ nth <= Len(Raw(item.node).logs)
  BY DEF NormalizeLog, Inv, TypeInv
<1>2. /\ TreeOfCalls /\ Len(PreOrder) \in Nat /\ m <= Len(PreOrder)
      /\ \A k \in 1 .. m : PreOrder[k] = acc.calls[k].node
  BY <1>1, VisitedFirst
<1>3. /\ m \in Nat \ {0} /\ acc.calls[m].node = item.node /\ Len(Raw(item.node).logs) \in Nat
  BY <1>1, CallUnderWay DEF InCall
<1>4. PICK row, col : LogPlaces(row, col)
  BY <1>2, LogsListed
<1> HIDE DEF m
<1>5. m \in 1 .. m /\ m \in 1 .. Len(PreOrder) /\ PreOrder[m] = item.node
  BY <1>2, <1>3
<1>6. PICK p \in DOMAIN AllLogs : row[p] = m /\ col[p] = nth /\ AllLogs[p] = log
  <2>1. nth \in 1 .. Len(Raw(PreOrder[m]).logs)
    BY <1>1, <1>3, <1>5
  <2> QED BY <1>4, <1>5, <2>1 DEF LogPlaces
<1> HIDE DEF log
<1>7. log.topics \in Nat /\ log.index \in Nat \union {Unreadable}
  <2>1. PICK x \in Nodes : \E k \in 1 .. Len(Raw(x).logs) : AllLogs[p] = Raw(x).logs[k]
    BY <1>2, LogsListed
  <2>2. PICK k \in 1 .. Len(Raw(x).logs) : log = Raw(x).logs[k]
    BY <1>6, <2>1
  <2>3. HasFacts(Raw(x))
    BY <1>2 DEF TreeOfCalls
  <2> QED BY <2>2, <2>3 DEF HasFacts
<1> SUFFICES ASSUME WellFormed PROVE FALSE
  OBVIOUS
<1>8. /\ log.readable /\ log.dataReadable /\ log.topics <= 4
      /\ log.index \in 0 .. MaxLogIndex
      /\ \A q \in DOMAIN AllLogs : log.index = AllLogs[q].index => p = q
  BY <1>6 DEF WellFormed
<1>9. log.index \notin acc.seen
  <2> SUFFICES ASSUME log.index \in acc.seen PROVE FALSE
    OBVIOUS
  <2>1. PICK place, source :
          /\ Listing(Len(acc.logs), m, acc.logs, place, source, LogsOfCalls, LogsSoFar)
          /\ acc.seen = {source[q].index : q \in 1 .. Len(acc.logs)}
    BY <1>1 DEF GatherInv, LogsInv, m
  <2>2. PICK s \in 1 .. Len(acc.logs) : log.index = source[s].index
    BY <2>1
  <2> DEFINE r == acc.logs[s] + 1
             c == place[s]
  <2>3. r \in 1 .. m /\ c \in 1 .. LogsSoFar[r] /\ source[s] = LogsOfCalls[r][c]
    BY <2>1 DEF Listing
  <2> HIDE DEF r, c
  <2>4. /\ LogsSoFar[r] = IF r = m THEN nth - 1 ELSE Len(Raw(acc.calls[r].node).logs)
        /\ LogsOfCalls[r] = Raw(acc.calls[r].node).logs
    BY <1>1, <2>3 DEF LogsSoFar, LogsOfCalls, m
  <2>5. ~(r = m /\ c = nth)
    BY <1>1, <2>3, <2>4
  <2>6. c \in 1 .. Len(Raw(acc.calls[r].node).logs)
    BY <1>1, <1>3, <2>3, <2>4
  <2>7. PreOrder[r] = acc.calls[r].node /\ r \in 1 .. Len(PreOrder)
    BY <1>2, <1>3, <2>3
  <2>8. PICK q \in DOMAIN AllLogs :
          row[q] = r /\ col[q] = c /\ AllLogs[q] = Raw(PreOrder[r]).logs[c]
    BY <1>4, <2>6, <2>7 DEF LogPlaces
  <2>9. AllLogs[q] = source[s]
    BY <2>3, <2>4, <2>7, <2>8
  <2>10. p = q
    BY <1>8, <2>2, <2>9
  <2> QED BY <1>6, <2>5, <2>8, <2>10
<1>10. /\ log.index # Unreadable /\ ~(log.index \in Nat /\ log.index > MaxLogIndex)
       /\ ~(log.topics > 4)
  BY <1>7, <1>8, DocumentAssumption
<1> QED BY <1>1, <1>8, <1>9, <1>10, RefusedLog

(* So does one with a call that the builder refuses. *)
LEMMA AddRefuses == ASSUME Inv, AddCall, stage' = "failed" PROVE ~WellFormed
<1> DEFINE raw == Raw(acc.calls[nth].node)
<1>1. /\ stage = "add_calls" /\ nth <= Len(acc.calls) /\ nth \in Nat \ {0}
      /\ ~CanCarryValue(raw.kind) /\ raw.value # 0
  BY DEF AddCall, Inv, TypeInv
<1>2. acc.calls \in Seq(NormalizedCall)
  BY <1>1, Lists DEF Adding
<1>3. nth \in 1 .. Len(acc.calls)
  BY <1>1, <1>2
<1>4. acc.calls[nth] \in NormalizedCall
  BY <1>2, <1>3, ElementOfSeq
<1>5. acc.calls[nth].node \in Nodes
  BY <1>4 DEF NormalizedCall
<1> QED BY <1>1, <1>5 DEF WellFormed, CanCarryValue

(* A document that was refused breaks a rule. *)
RefusedInv == stage = "failed" => ~WellFormed

(* Nothing else is refused. *)
LEMMA RefusedKept ==
    ASSUME Inv, DocumentInv, PlanInv, WalkInv, PlacedInv, GatherInv, RefusedInv, [Next]_vars
    PROVE  RefusedInv'
<1> SUFFICES ASSUME stage' = "failed" PROVE ~WellFormed'
  BY DEF RefusedInv
<1>1. WellFormed' <=> WellFormed
  BY DocumentStands, SameTree
<1>2. CASE stage = "failed"
  BY <1>1, <1>2 DEF RefusedInv
<1>3. CASE stage # "failed"
  <2>1. Load \/ VisitCall \/ NormalizeChange \/ NormalizeLog \/ AddCall
    BY <1>3, NothingToRefuse DEF Next, ChangesDone, PushChildren, WalkDone, AddStorageChange,
       AddLog, AddTokenTransfer, NextList, Handed, ValidateArena, ArenaReturns, Returned, vars
  <2> QED BY <1>1, <2>1, LoadRefuses, VisitRefuses, ChangeRefuses, LogRefuses, AddRefuses
<1> QED BY <1>2, <1>3

(* ingest() accepts the well-formed documents and no other. *)
THEOREM AcceptsExactly == Spec => []AcceptsExactlyTheWellFormed
<1>1. Init => RefusedInv
  BY DEF Init, RefusedInv
<1>2. Inv /\ DocumentInv /\ PlanInv /\ WalkInv /\ PlacedInv /\ GatherInv /\ RefusedInv
        /\ [Next]_vars => RefusedInv'
  BY RefusedKept
<1>3. Inv /\ DocumentInv /\ PlanInv /\ WalkInv /\ PlacedInv /\ GatherInv /\ ValueInv
        /\ RefusedInv => AcceptsExactlyTheWellFormed
  BY AcceptedIsWellFormed DEF RefusedInv, AcceptsExactlyTheWellFormed
<1> QED
  BY <1>1, <1>2, <1>3, Invariance, DocumentKept, Plan, Walk, Places, Gather, Values, PTL DEF Spec

-----------------------------------------------------------------------------
(* geth-convert: what it writes is well formed just when the response is not
   faulty.                                                                   *)

(* The document under way is what became of a response. *)
FromResponse ==
    response \in Responses /\ document = ConvertedResponse /\ ConversionFault = NoFault

(* A conversion fault is the response's. *)
LEMMA ConversionFaultMeans ==
    /\ ConversionFault = NoFault <=>
            /\ response.parses /\ ~TooDeepToRead
            /\ \A n \in DOMAIN response.frames : KindOf(GethFrame(n)) \in ConvertibleKinds
    /\ ConversionFault # NoFault =>
            FaultyResponse \/ (TooDeepToRead /\ ConversionFault = "InvalidJson")
<1> DEFINE unknown == \E n \in DOMAIN response.frames :
                            KindOf(GethFrame(n)) \notin ConvertibleKinds
           unread == ~response.parses \/ TooDeepToRead
           checks == <<Check(unread, "InvalidJson"), Check(unknown, "UnknownCallKind")>>
<1>1. ConversionFault = FirstFault(checks)
  BY Zenon DEF ConversionFault
<1>2. DOMAIN checks = 1 .. 2 /\ \A i \in 1 .. 2 : checks[i].fails => checks[i].fault # NoFault
  BY DEF Check, NoFault
<1>3. checks[1].fails = unread /\ checks[2].fails = unknown /\ checks[1].fault = "InvalidJson"
  BY DEF Check
<1>4. /\ ConversionFault = NoFault => ~checks[1].fails /\ ~checks[2].fails
      /\ ConversionFault # NoFault =>
            (checks[1].fails /\ ConversionFault = checks[1].fault) \/ checks[2].fails
  <2> HIDE DEF checks
  <2>1. /\ FirstFault(checks) = NoFault => \A i \in 1 .. 2 : ~checks[i].fails
        /\ FirstFault(checks) # NoFault =>
                \E i \in 1 .. 2 : checks[i].fails /\ FirstFault(checks) = checks[i].fault
    BY <1>2, FirstFaultMeans
  <2> QED BY <1>1, <2>1
<1>5. /\ ConversionFault = NoFault <=> ~unread /\ ~unknown
      /\ ConversionFault # NoFault => (unread /\ ConversionFault = "InvalidJson") \/ unknown
  <2>1. checks[1].fails \/ checks[2].fails => ConversionFault # NoFault
    <3> HIDE DEF checks, unread, unknown
    <3> QED BY <1>4
  <2> HIDE DEF checks, unread, unknown
  <2> QED BY <1>3, <1>4, <2>1
<1>6. ASSUME unknown PROVE FaultyResponse
  <2>1. PICK n \in DOMAIN response.frames : KindOf(GethFrame(n)) \notin ConvertibleKinds
    BY <1>6
  <2>2. GethFrame(n).type \notin TracerTypes
    BY <2>1 DEF KindOf, ToLowercase, TracerTypes, ConvertibleKinds
  <2> QED BY <2>1, <2>2 DEF FaultyResponse
<1>7. ~response.parses => FaultyResponse
  BY DEF FaultyResponse
<1> QED BY <1>5, <1>6, <1>7

(* Every frame becomes a call with the frame's nested ones, and without storage
   changes or logs. *)
LEMMA CallOfFrame ==
    ASSUME FromResponse
    PROVE  /\ Nodes = DOMAIN response.frames /\ DOMAIN response.frames = 1 .. Len(response.frames)
           /\ Len(response.frames) \in Nat \ {0}
           /\ Len(document.calls) = Len(response.frames)
           /\ document.loads /\ document.decodes = ~TooDeepToReread
           /\ \A n \in Nodes : Raw(n) = ConvertedFrame(GethFrame(n))
<1>1. /\ DOMAIN response.frames = 1 .. Len(response.frames)
      /\ Len(response.frames) \in Nat \ {0}
  BY ResponsesAssumption DEF FromResponse, IsTree
<1>2. document.calls = [n \in DOMAIN response.frames |-> ConvertedFrame(GethFrame(n))]
  BY DEF FromResponse, ConvertedResponse
<1>3. Len(document.calls) = Len(response.frames)
  BY <1>1, <1>2
<1>4. Nodes = DOMAIN response.frames
  BY <1>1, <1>3 DEF Nodes
<1>5. \A n \in Nodes : Raw(n) = ConvertedFrame(GethFrame(n))
  BY <1>2, <1>4 DEF Raw
<1>6. document.loads /\ document.decodes = ~TooDeepToReread
  BY DEF FromResponse, ConvertedResponse
<1> QED BY <1>1, <1>3, <1>4, <1>5, <1>6

(* So it is a document as decode() leaves one. *)
LEMMA ConvertedIsDocument == ASSUME FromResponse PROVE DocumentInv
<1> DEFINE N == Len(document.calls)
<1>1. /\ Nodes = DOMAIN response.frames /\ DOMAIN response.frames = 1 .. N
      /\ N = Len(response.frames) /\ N \in Nat \ {0}
      /\ \A n \in Nodes : Raw(n) = ConvertedFrame(GethFrame(n))
  BY CallOfFrame
<1>2. /\ IsTree(response.frames)
      /\ \A n \in 1 .. N : /\ response.frames[n].from \notin {NoAddress, Unreadable}
                           /\ response.frames[n].to # Unreadable
  BY <1>1, ResponsesAssumption DEF FromResponse
<1>3. \A n \in 1 .. N : document.calls[n].calls = response.frames[n].calls
  <2> TAKE n \in 1 .. N
  <2>1. document.calls[n] = ConvertedFrame(response.frames[n])
    BY <1>1 DEF Raw, GethFrame
  <2> QED BY <2>1 DEF ConvertedFrame
<1>4. IsTree(document.calls)
  <2> HIDE DEF N
  <2>1. Len(document.calls) = N /\ Len(response.frames) = N
    BY <1>1 DEF N
  <2> DEFINE frames == response.frames
  <2>3. IsTree(frames)
    BY <1>2
  <2> HIDE DEF frames
  <2>4. /\ \A n \in 1 .. N : frames[n].calls \in Seq(n + 1 .. N)
        /\ \A n, m \in 1 .. N :
             \A i \in 1 .. Len(frames[n].calls), j \in 1 .. Len(frames[m].calls) :
                frames[n].calls[i] = frames[m].calls[j] => n = m /\ i = j
        /\ \A n \in 2 .. N : \E m \in 1 .. n - 1 :
             \E i \in 1 .. Len(frames[m].calls) : frames[m].calls[i] = n
    <3>1. Len(frames) = N
      BY <2>1 DEF frames
    <3> QED BY <2>3, <3>1 DEF IsTree
  <2>5. \A n \in 2 .. N : n \in 1 .. N /\ \A m \in 1 .. n - 1 : m \in 1 .. N
    BY <1>1
  <2>6. \A n \in 1 .. N : document.calls[n].calls = frames[n].calls
    BY <1>3 DEF frames
  <2>7. \A n \in 1 .. N : document.calls[n].calls \in Seq(n + 1 .. N)
    BY <2>4, <2>6
  <2>8. \A n, m \in 1 .. N :
             \A i \in 1 .. Len(document.calls[n].calls), j \in 1 .. Len(document.calls[m].calls) :
                document.calls[n].calls[i] = document.calls[m].calls[j] => n = m /\ i = j
    <3> TAKE n, m \in 1 .. N
    <3>1. /\ document.calls[n].calls = frames[n].calls
          /\ document.calls[m].calls = frames[m].calls
      BY <2>6
    <3> QED BY <2>4, <3>1
  <2>9. \A n \in 2 .. N : \E m \in 1 .. n - 1 :
             \E i \in 1 .. Len(document.calls[m].calls) : document.calls[m].calls[i] = n
    <3> TAKE n \in 2 .. N
    <3>1. PICK m \in 1 .. n - 1 : \E i \in 1 .. Len(frames[m].calls) : frames[m].calls[i] = n
      BY <2>4
    <3>2. document.calls[m].calls = frames[m].calls
      BY <2>5, <2>6, <3>1
    <3> QED BY <3>1, <3>2
  <2> QED BY <1>1, <2>1, <2>7, <2>8, <2>9, Zenon DEF IsTree
<1>5. ASSUME NEW n \in 1 .. N PROVE HasFacts(document.calls[n])
  <2>1. document.calls[n] = ConvertedFrame(response.frames[n])
    BY <1>1 DEF Raw, GethFrame
  <2>2. /\ document.calls[n].from \notin {NoAddress, Unreadable}
        /\ document.calls[n].to # Unreadable
        /\ document.calls[n].changes = <<>> /\ document.calls[n].logs = <<>>
    BY <1>2, <2>1 DEF ConvertedFrame
  <2>3. Len(<<>>) = 0
    OBVIOUS
  <2> QED BY <2>2, <2>3 DEF HasFacts
<1> QED BY <1>4, <1>5 DEF DocumentInv

(* A frame's depth in the response is its call's in the document. *)
LEMMA FrameDepths ==
    ASSUME FromResponse, TreeOfCalls, NEW x \in Nodes PROVE FrameDepth[x] = Nesting[x]
<1> DEFINE Parent(n) == CHOOSE p \in DOMAIN response.frames : n \in ToSet(GethFrame(p).calls)
           G(f) == [n \in Nodes |-> IF n = 1 THEN 0 ELSE 1 + f[Parent(n)]]
           h == [n \in Nodes |-> Nesting[n]]
           T == {n \in Nodes : FrameDepth[n] # Nesting[n]}
<1>1. /\ Nodes = DOMAIN response.frames
      /\ \A n \in Nodes : Raw(n).calls = GethFrame(n).calls
  BY CallOfFrame DEF ConvertedFrame
<1>2. FrameDepth = CHOOSE f : f = G(f)
  BY <1>1, Zenon DEF FrameDepth
<1>3. ASSUME NEW n \in Nodes, n # 1 PROVE Parent(n) = ParentNode(n)
  <2>1. ParentNode(n) \in Nodes /\ \E i \in 1 .. Len(Raw(ParentNode(n)).calls) :
                                        Raw(ParentNode(n)).calls[i] = n
    BY <1>3, ParentExists
  <2>2. \A p \in Nodes : DOMAIN Raw(p).calls = 1 .. Len(Raw(p).calls)
    BY DEF TreeOfCalls
  <2>3. \A p \in Nodes : n \in ToSet(GethFrame(p).calls) <=>
            \E i \in 1 .. Len(Raw(p).calls) : Raw(p).calls[i] = n
    BY <1>1, <2>2 DEF ToSet
  <2>4. Parent(n) \in Nodes /\ n \in ToSet(GethFrame(Parent(n)).calls)
    <3> DEFINE Holds1(p) == n \in ToSet(GethFrame(p).calls)
    <3>1. ParentNode(n) \in DOMAIN response.frames /\ Holds1(ParentNode(n))
      BY <1>1, <2>1, <2>3
    <3>2. Parent(n) = CHOOSE p \in DOMAIN response.frames : Holds1(p)
      OBVIOUS
    <3> HIDE DEF Holds1, Parent
    <3>3. Parent(n) \in DOMAIN response.frames /\ Holds1(Parent(n))
      BY <3>1, <3>2, Zenon
    <3> QED BY <1>1, <3>3 DEF Holds1
  <2> HIDE DEF Parent
  <2>5. PICK i \in 1 .. Len(Raw(Parent(n)).calls) : Raw(Parent(n)).calls[i] = n
    BY <2>3, <2>4
  <2>6. ParentNode(Raw(Parent(n)).calls[i]) = Parent(n)
    BY <2>4, ParentFound
  <2> QED BY <2>5, <2>6
<1>4. h = G(h)
  <2>1. ASSUME NEW n \in Nodes
        PROVE  Nesting[n] = IF n = 1 THEN 0 ELSE 1 + h[Parent(n)]
    <3>1. n # 1 => Parent(n) = ParentNode(n) /\ ParentNode(n) \in Nodes
      BY <1>3, ParentExists
    <3>2. n # 1 => h[Parent(n)] = Nesting[ParentNode(n)]
      <4> HIDE DEF Parent
      <4> QED BY <3>1
    <3> HIDE DEF Parent, h
    <3> QED BY <3>2, NestingDefined
  <2> HIDE DEF Parent
  <2>2. \A n \in Nodes : h[n] = IF n = 1 THEN 0 ELSE 1 + h[Parent(n)]
    BY <2>1
  <2>3. h = [n \in Nodes |-> h[n]]
    OBVIOUS
  <2> HIDE DEF h
  <2> QED BY <2>2, <2>3
<1>5. FrameDepth = G(FrameDepth)
  <2> HIDE DEF G, h
  <2> QED BY <1>2, <1>4, Zenon
<1>6. \A n \in Nodes : FrameDepth[n] = IF n = 1 THEN 0 ELSE 1 + FrameDepth[Parent(n)]
  <2> HIDE DEF Parent
  <2> QED BY <1>5, Zenon
<1> HIDE DEF Parent, G, h
<1>7. SUFFICES ASSUME T # {} PROVE FALSE
  OBVIOUS
<1>8. PICK m \in T : \A y \in T : m <= y
  <2>1. T \in SUBSET Nat
    BY NodeIsNat
  <2> HIDE DEF T
  <2> QED BY <1>7, <2>1, MinExists
<1>9. m \in Nodes /\ FrameDepth[m] # Nesting[m]
  BY <1>8
<1>10. m # 1
  BY <1>6, <1>9, NestingDefined
<1>11. ParentNode(m) \in Nodes /\ ParentNode(m) < m /\ Parent(m) = ParentNode(m)
  BY <1>3, <1>9, <1>10, ParentExists
<1>12. m \in Nat /\ ParentNode(m) \in Nat
  BY <1>9, <1>11, NodeIsNat
<1>13. ParentNode(m) \notin T
  <2> HIDE DEF T
  <2> QED BY <1>8, <1>11, <1>12
<1>14. FrameDepth[ParentNode(m)] = Nesting[ParentNode(m)]
  BY <1>11, <1>13
<1> QED BY <1>6, <1>9, <1>10, <1>11, <1>14, NestingDefined

(* Unless the root borrows its code, every frame has storage to work on. *)
LEMMA FramesHaveContexts ==
    ASSUME FromResponse, TreeOfCalls, NEW x \in Nodes, ~InCallerContext(Raw(1).kind)
    PROVE  StorageContext[x] # NoAddress
<1> DEFINE T == {n \in Nodes : StorageContext[n] = NoAddress}
<1>1. SUFFICES ASSUME T # {} PROVE FALSE
  OBVIOUS
<1>2. PICK m \in T : \A y \in T : m <= y
  <2>1. T \in SUBSET Nat
    BY NodeIsNat
  <2> HIDE DEF T
  <2> QED BY <1>1, <2>1, MinExists
<1>3. m \in Nodes /\ StorageContext[m] = NoAddress
  BY <1>2
<1>4. HasFacts(Raw(m))
  BY <1>3 DEF TreeOfCalls
<1>5. Raw(m).from # NoAddress
  BY <1>4 DEF HasFacts
<1>6. InCallerContext(Raw(m).kind) /\ m # 1 /\ StorageContext[ParentNode(m)] = NoAddress
  <2> HIDE DEF T
  <2> QED BY <1>3, <1>5, StorageContextDefined
<1>7. ParentNode(m) \in Nodes /\ ParentNode(m) < m
  BY <1>3, <1>6, ParentExists
<1>8. m \in Nat /\ ParentNode(m) \in Nat
  BY <1>3, <1>7, NodeIsNat
<1>9. ParentNode(m) \notin T
  <2> HIDE DEF T
  <2> QED BY <1>2, <1>7, <1>8
<1> QED BY <1>6, <1>7, <1>9

(* What the tracer's spelling says of a call. *)
LEMMA FrameKinds ==
    ASSUME FromResponse, NEW n \in Nodes
    PROVE  /\ GethFrame(n).type \in TracerTypes /\ Raw(n).kind \in CallKinds
           /\ Raw(n).kind = "staticcall" <=> GethFrame(n).type = "STATICCALL"
           /\ InCallerContext(Raw(n).kind) <=> GethFrame(n).type \in {"DELEGATECALL", "CALLCODE"}
           /\ Raw(n).value = ValueOf(GethFrame(n)) /\ Raw(n).readable = GethFrame(n).readable
           /\ Raw(n).changes = <<>> /\ Raw(n).logs = <<>>
<1> DEFINE type == GethFrame(n).type
<1>1. n \in DOMAIN response.frames /\ n \in 1 .. Len(response.frames)
      /\ Raw(n) = ConvertedFrame(GethFrame(n))
  BY CallOfFrame
<1>2. KindOf(GethFrame(n)) \in ConvertibleKinds
  BY <1>1, ConversionFaultMeans DEF FromResponse
<1>3. type \notin CallKinds
  BY <1>1, ResponsesAssumption DEF FromResponse, GethFrame
<1>4. /\ Raw(n).kind = KindOf(GethFrame(n)) /\ Raw(n).value = ValueOf(GethFrame(n))
      /\ Raw(n).readable = GethFrame(n).readable /\ Raw(n).changes = <<>> /\ Raw(n).logs = <<>>
  BY <1>1 DEF ConvertedFrame
<1>5. /\ KindOf(GethFrame(n)) = IF type \in DOMAIN ToLowercase THEN ToLowercase[type] ELSE type
      /\ DOMAIN ToLowercase = TracerTypes
  BY DEF KindOf, ToLowercase, TracerTypes
<1>6. type \in TracerTypes /\ KindOf(GethFrame(n)) = ToLowercase[type]
  BY <1>2, <1>3, <1>5 DEF ConvertibleKinds, CallKinds
<1>7. /\ ToLowercase["CALL"] = "call" /\ ToLowercase["STATICCALL"] = "staticcall"
      /\ ToLowercase["DELEGATECALL"] = "delegatecall" /\ ToLowercase["CALLCODE"] = "callcode"
      /\ ToLowercase["CREATE"] = "create" /\ ToLowercase["CREATE2"] = "create2"
      /\ ToLowercase["SELFDESTRUCT"] = "selfdestruct"
  BY DEF ToLowercase
<1> HIDE DEF type
<1>8. /\ ToLowercase[type] \in CallKinds
      /\ ToLowercase[type] = "staticcall" <=> type = "STATICCALL"
      /\ ToLowercase[type] \in {"delegatecall", "callcode"} <=> type \in {"DELEGATECALL", "CALLCODE"}
  BY <1>6, <1>7 DEF TracerTypes, CallKinds
<1> QED BY <1>4, <1>6, <1>8 DEF InCallerContext, type

(* A response has no logs. *)
LEMMA NoLogs == ASSUME FromResponse, TreeOfCalls PROVE DOMAIN AllLogs = {}
<1> SUFFICES ASSUME NEW p \in DOMAIN AllLogs PROVE FALSE
  OBVIOUS
<1>1. PICK n \in Nodes : \E i \in 1 .. Len(Raw(n).logs) : AllLogs[p] = Raw(n).logs[i]
  BY LogsListed
<1>2. Raw(n).logs = <<>>
  BY FrameKinds
<1>3. Len(Raw(n).logs) = 0
  BY <1>2
<1> QED BY <1>1, <1>3

(* What it is written to is, unless too deep to be read back, well formed just when
   it is without a fault. *)
LEMMA WellFormedResponse ==
    ASSUME FromResponse, ~TooDeepToReread PROVE WellFormed <=> ~FaultyResponse
<1>1. TreeOfCalls
  <2>1. document.loads /\ document.decodes
    BY CallOfFrame
  <2> QED BY <2>1, ConvertedIsDocument, DocumentIsTree
<1>2. /\ Nodes = DOMAIN response.frames /\ 1 \in Nodes
      /\ document.loads /\ document.decodes /\ response.parses
  <2>1. response.parses
    BY ConversionFaultMeans DEF FromResponse
  <2>2. document.loads /\ document.decodes
    BY CallOfFrame
  <2>3. Nodes = DOMAIN response.frames /\ 1 \in DOMAIN response.frames
    BY CallOfFrame
  <2> QED BY <2>1, <2>2, <2>3
<1>3. document.header = NoFault <=> response.contextReadable /\ GethFrame(1).readable
  BY DEF FromResponse, ConvertedResponse, NoFault
<1>4. DOMAIN AllLogs = {}
  BY <1>1, NoLogs
<1> DEFINE Faulty(n) == \/ GethFrame(n).type \notin TracerTypes \/ ~GethFrame(n).readable
                        \/ GethFrame(n).type = "STATICCALL"
                             /\ GethFrame(n).value \notin {0, NoValue}
                        \/ FrameDepth[n] > MaxCallDepth
           Sound(n) == /\ Raw(n).readable /\ Raw(n).kind \in CallKinds
                       /\ Nesting[n] <= MaxCallDepth
                       /\ Raw(n).kind = "staticcall" => Raw(n).value = 0
<1>5. ASSUME NEW n \in Nodes PROVE Sound(n) <=> ~Faulty(n)
  <2>1. FrameDepth[n] = Nesting[n] /\ Nesting[n] \in Nat
    BY <1>1, FrameDepths, NestingIsNat
  <2>2. Nesting[n] <= MaxCallDepth <=> ~(FrameDepth[n] > MaxCallDepth)
    BY <2>1, DepthFits
  <2>3. Raw(n).value = 0 <=> GethFrame(n).value \in {0, NoValue}
    BY FrameKinds DEF ValueOf
  <2>4. /\ GethFrame(n).type \in TracerTypes /\ Raw(n).kind \in CallKinds
        /\ Raw(n).kind = "staticcall" <=> GethFrame(n).type = "STATICCALL"
        /\ Raw(n).readable = GethFrame(n).readable
    BY FrameKinds
  <2> QED BY <2>2, <2>3, <2>4
<1>6. InCallerContext(Raw(1).kind) <=> GethFrame(1).type \in {"DELEGATECALL", "CALLCODE"}
  BY <1>2, FrameKinds
<1>7. (\A n \in Nodes : StorageContext[n] # NoAddress) <=> ~InCallerContext(Raw(1).kind)
  <2>1. InCallerContext(Raw(1).kind) => StorageContext[1] = NoAddress
    BY <1>1, <1>2, StorageContextDefined
  <2> QED BY <1>1, <1>2, <2>1, FramesHaveContexts
<1>8. \A n \in Nodes : Raw(n).changes = <<>> /\ DOMAIN Raw(n).changes = {}
  <2>1. DOMAIN <<>> = {}
    OBVIOUS
  <2> QED BY <2>1, FrameKinds
<1>9. GethFrame(1).readable = Raw(1).readable
  BY <1>2, FrameKinds
<1>10. FaultyResponse <=> \/ ~response.parses \/ ~response.contextReadable
                          \/ GethFrame(1).type \in {"DELEGATECALL", "CALLCODE"}
                          \/ \E n \in Nodes : Faulty(n)
  BY <1>2 DEF FaultyResponse
<1>11. WellFormed <=> /\ document.header = NoFault
                      /\ \A n \in Nodes : Sound(n)
                      /\ \A n \in Nodes : StorageContext[n] # NoAddress
  BY <1>2, <1>4, <1>8 DEF WellFormed
<1>12. Sound(1) => Raw(1).readable
  OBVIOUS
<1> HIDE DEF Sound, Faulty
<1> QED BY <1>2, <1>3, <1>5, <1>6, <1>7, <1>9, <1>10, <1>11, <1>12

(* The walk lists every call once, so as many as there are. *)
LEMMA AsManyCalls ==
    ASSUME Inv, DocumentInv, PlanInv, WalkInv, stage = "ingested"
    PROVE  Len(acc.calls) = Len(document.calls)
<1> DEFINE n == Len(acc.calls)
           f == [k \in 1 .. n |-> acc.calls[k].node]
<1>1. TreeOfCalls /\ NestedList(acc.calls, n) /\ n \in Nat
  BY WalkedAll
<1>2. Len(document.calls) \in Nat /\ Nodes = 1 .. Len(document.calls)
  BY <1>1 DEF TreeOfCalls, Nodes
<1> HIDE DEF n
<1>3. f \in [1 .. n -> Nodes]
  BY <1>1 DEF NestedList
<1>4. \A x \in Nodes : \E k \in 1 .. n : f[k] = x
  BY <1>1, ListHoldsAll
<1>5. \A k, l \in 1 .. n : f[k] = f[l] => k = l
  BY <1>1, ListedOnce
<1> HIDE DEF f
<1>6. f \in Surjection(1 .. n, Nodes) /\ f \in Injection(1 .. n, Nodes)
  BY <1>3, <1>4, <1>5 DEF Surjection, Injection, IsInjective
<1>7. ASSUME NEW m \in Nat PROVE IsFiniteSet(1 .. m) /\ Cardinality(1 .. m) = m
  <2>1. /\ IsFiniteSet(1 .. m)
        /\ Cardinality(1 .. m) = IF 1 > m THEN 0 ELSE m - 1 + 1
    BY FS_Interval
  <2> QED BY <2>1
<1>8. Cardinality(Nodes) = Cardinality(1 .. n)
  <2>1. IsFiniteSet(1 .. n)
    BY <1>1, <1>7
  <2> QED BY <1>6, <2>1, FS_Surjection
<1>9. Cardinality(1 .. n) = n /\ Cardinality(Nodes) = Len(document.calls)
  BY <1>1, <1>2, <1>7
<1> QED BY <1>8, <1>9 DEF n

(* A listing of nothing. *)
LEMMA NothingListed ==
    ASSUME NEW n \in Nat, NEW m, NEW call, NEW place, NEW source, NEW lists, NEW count,
           \A k \in 1 .. m : count[k] = 0,
           Listing(n, m, call, place, source, lists, count)
    PROVE  n = 0
<1> SUFFICES ASSUME n # 0 PROVE FALSE
  OBVIOUS
<1>1. 1 \in 1 .. n
  OBVIOUS
<1>2. call[1] + 1 \in 1 .. m /\ place[1] \in 1 .. count[call[1] + 1]
  BY <1>1 DEF Listing
<1> QED BY <1>2

(* The arena of a converted trace has a call for each frame, and no facts. *)
LEMMA ArenaOfResponse ==
    ASSUME FromResponse, Inv, DocumentInv, PlanInv, WalkInv, GatherInv, stage = "ingested"
    PROVE  /\ Len(arenaCalls) = Len(response.frames)
           /\ arenaChanges = <<>> /\ arenaLogs = <<>> /\ arenaTransfers = <<>>
<1>1. /\ TreeOfCalls /\ NestedList(acc.calls, Len(acc.calls)) /\ Len(acc.calls) \in Nat
      /\ \A k \in 1 .. Len(acc.calls) : acc.calls[k].node \in Nodes
  BY WalkedAll DEF NestedList
<1>2. \A k \in 1 .. Len(acc.calls) : /\ Len(Raw(acc.calls[k].node).changes) = 0
                                     /\ Len(Raw(acc.calls[k].node).logs) = 0
  <2>1. Len(<<>>) = 0
    OBVIOUS
  <2> QED BY <1>1, <2>1, FrameKinds
<1>3. \A k \in 1 .. Len(acc.calls) : ChangesSoFar[k] = 0 /\ LogsSoFar[k] = 0
  BY <1>2 DEF ChangesSoFar, LogsSoFar
<1>4. acc \in Accumulator
  BY DEF Inv, TypeInv
<1>5. Len(acc.changes) \in Nat /\ Len(acc.logs) \in Nat /\ acc.transfers \in Seq(Nat)
  BY <1>4 DEF Accumulator
<1>6. Len(acc.changes) = 0
  <2>1. PICK place, source :
            Listing(Len(acc.changes), Len(acc.calls), ChangeCalls, place, source,
                    ChangesOfCalls, ChangesSoFar)
    BY DEF GatherInv, ChangesInv
  <2> QED BY <1>3, <1>5, <2>1, NothingListed
<1>7. Len(acc.logs) = 0
  <2>1. PICK place, source :
            Listing(Len(acc.logs), Len(acc.calls), acc.logs, place, source,
                    LogsOfCalls, LogsSoFar)
    BY DEF GatherInv, LogsInv
  <2> QED BY <1>3, <1>5, <2>1, NothingListed
<1>8. acc.transfers = <<>>
  <2> SUFFICES ASSUME acc.transfers # <<>> PROVE FALSE
    OBVIOUS
  <2>1. 1 \in 1 .. Len(acc.transfers)
    BY <1>5
  <2>2. acc.transfers[1] \in 0 .. Len(acc.logs) - 1
    BY <2>1 DEF Inv, FactInv
  <2> QED BY <1>7, <2>2
<1>9. /\ Len(arenaCalls) = Len(acc.calls) /\ Len(arenaChanges) = 0 /\ Len(arenaLogs) = 0
      /\ arenaTransfers = <<>>
  BY <1>6, <1>7, <1>8, GatheredInOrder
<1>10. arenaChanges = <<>> /\ arenaLogs = <<>>
  <2>1. Copied
    BY DEF Inv, BuildInv
  <2> QED BY <1>9, <2>1 DEF Copied
<1>11. Len(acc.calls) = Len(response.frames)
  BY AsManyCalls, CallOfFrame
<1> QED BY <1>9, <1>10, <1>11

-----------------------------------------------------------------------------
(* ingest() started by geth-convert.                                        *)

(* All that the theorems above say of ingest(), whatever it was started on. *)
Ingesting ==
    /\ Inv /\ DocumentInv /\ PlanInv /\ WalkInv /\ PlacedInv
    /\ GatherInv /\ ValueInv /\ RefusedInv

(* geth-convert has just ended: ingest() is about to read what a response was
   converted to, or is not called at all. *)
Begun ==
    \/ stage = "load" /\ Unread /\ FromResponse
    \/ stage = "failed" /\ nth = 1 /\ Arena!Init /\ ~(document.loads /\ document.decodes)

(* Nothing is ingested until a response is converted, and what is ingested then
   is what it was converted to. *)
Converting ==
    /\ stage = "convert" => Unread /\ document = NoDocument /\ response \in Responses
    /\ response # NoResponse /\ stage # "convert" =>
        \/ /\ FromResponse
           /\ TooDeepToReread =>
                stage = "load" \/ (stage = "failed" /\ failure = "MalformedInput")
        \/ /\ stage = "failed"
           /\ \/ failure = "NotWritten" \/ FaultyResponse
              \/ TooDeepToRead /\ failure = "InvalidJson"

LEMMA IngestingStarts ==
    ASSUME Inv, DocumentInv, stage \in {"load", "failed"}, RefusedInv PROVE Ingesting
BY DEF Ingesting, PlanInv, WalkInv, PlacedInv, GatherInv, NthInv, ChangesInv, LogsInv, ValueInv

LEMMA BegunIsIngesting == Begun => Ingesting
<1>1. ASSUME stage = "load", Unread, FromResponse PROVE Ingesting
  <2>1. DocumentInv
    BY <1>1, ConvertedIsDocument
  <2>2. RefusedInv
    BY <1>1 DEF RefusedInv
  <2> QED BY <1>1, <2>1, <2>2, InitEstablishes, IngestingStarts
<1>2. ASSUME stage = "failed", nth = 1, Arena!Init, ~(document.loads /\ document.decodes)
      PROVE  Ingesting
  <2>1. Inv
    BY <1>2, BuilderStarts
       DEF Inv, TypeInv, ParentInv, FactInv, BuildInv, PhaseInv, Stages, InCall
  <2>2. DocumentInv /\ RefusedInv
    BY <1>2 DEF DocumentInv, RefusedInv, WellFormed
  <2> QED BY <1>2, <2>1, <2>2, IngestingStarts
<1> QED BY <1>1, <1>2 DEF Begun

(* ingest() keeps all of it. *)
LEMMA IngestingKept == ASSUME Ingesting, [Next]_vars PROVE Ingesting'
<1>1. /\ Inv /\ DocumentInv /\ PlanInv /\ WalkInv /\ PlacedInv
      /\ GatherInv /\ ValueInv /\ RefusedInv
  BY DEF Ingesting
<1>2. Inv' /\ PlanInv' /\ WalkInv' /\ PlacedInv'
  BY <1>1, StepCorrect, PlanKept, WalkKept, PlacesKept
<1>3. GatherInv' /\ ValueInv' /\ RefusedInv'
  BY <1>1, GatherKept, ValuesKept, RefusedKept
<1>4. DocumentInv'
  BY <1>1, DocumentStands DEF DocumentInv
<1> QED BY <1>2, <1>3, <1>4 DEF Ingesting

(* What a response is, and what is wrong with it, does not change. *)
LEMMA ResponseStands ==
    ASSUME UNCHANGED response
    PROVE  /\ FaultyResponse' <=> FaultyResponse
           /\ ConvertedResponse' = ConvertedResponse
           /\ ConversionFault' = ConversionFault
           /\ TooDeepToRead' <=> TooDeepToRead
           /\ TooDeepToReread' <=> TooDeepToReread
<1>1. FrameDepth' = FrameDepth
  BY DEF FrameDepth, GethFrame
<1>2. (TooDeepToRead' <=> TooDeepToRead) /\ (TooDeepToReread' <=> TooDeepToReread)
  BY <1>1 DEF TooDeepToRead, TooDeepToReread
<1>3. /\ FaultyResponse' <=> FaultyResponse
      /\ ConvertedResponse' = ConvertedResponse
  BY <1>1 DEF FaultyResponse, ConvertedResponse, TooDeepToReread, GethFrame
<1>4. ConversionFault' = ConversionFault
  BY <1>1 DEF ConversionFault, TooDeepToRead, GethFrame
<1> QED BY <1>2, <1>3, <1>4

(* geth-convert's one step. *)
LEMMA ConvertBegins == ASSUME Converting, Convert PROVE Converting' /\ Begun'
<1>1. /\ stage = "convert" /\ Unread /\ document = NoDocument /\ response \in Responses
      /\ UNCHANGED <<walkVars, nth, callIds, logIds, arenaVars, response>>
  BY DEF Convert, Converting
<1>2. nth' = 1 /\ Arena!Init'
  BY <1>1 DEF Unread, Arena!Init, arenaVars
<1>3. CASE ConversionFault # NoFault /\ Fail(ConversionFault) /\ UNCHANGED document
  <2>1. /\ stage' = "failed"
        /\ FaultyResponse' \/ (TooDeepToRead' /\ failure' = "InvalidJson")
    BY <1>1, <1>3, ConversionFaultMeans, ResponseStands DEF Fail
  <2>2. ~(document'.loads /\ document'.decodes)
    BY <1>1, <1>3 DEF NoDocument
  <2> QED BY <1>2, <2>1, <2>2 DEF Converting, Begun
<1>4. CASE /\ ConversionFault = NoFault
           /\ stage' = "load" /\ document' = ConvertedResponse /\ UNCHANGED failure
  <2>1. FromResponse'
    BY <1>1, <1>4, ResponseStands DEF FromResponse
  <2>2. Unread'
    BY <1>1, <1>4 DEF Unread, Arena!Init, arenaVars, walkVars, Root, Pending
  <2> QED BY <1>4, <2>1, <2>2 DEF Converting, Begun
<1>5. CASE Fail("NotWritten") /\ document' \in {NoDocument, [NoDocument EXCEPT !.loads = TRUE]}
  <2>1. stage' = "failed" /\ failure' = "NotWritten"
    BY <1>5 DEF Fail
  <2>2. ~(document'.loads /\ document'.decodes)
    BY <1>5 DEF NoDocument
  <2> QED BY <1>2, <2>1, <2>2 DEF Converting, Begun
<1> QED BY <1>3, <1>4, <1>5 DEF Convert

(* ingest() does nothing before it is called or once it has failed. *)
LEMMA NotUnderWay ==
    ASSUME [Next]_vars, stage \in {"convert", "failed"} PROVE UNCHANGED vars
BY DEF Next, Load, VisitCall, NormalizeChange, ChangesDone, NormalizeLog, PushChildren,
   WalkDone, AddCall, AddStorageChange, AddLog, AddTokenTransfer, NextList, Handed,
   ValidateArena, ArenaReturns, Returned

(* A file that decode() does not read is refused at once. *)
LEMMA NotDecoded ==
    ASSUME [Next]_vars, stage = "load", document.loads, ~document.decodes
    PROVE  \/ UNCHANGED <<stage, failure>>
           \/ stage' = "failed" /\ failure' = "MalformedInput"
<1> DEFINE checks == <<SourceCheck, DecodeCheck, HeaderCheck>>
<1>0. checks[3].fails => checks[3].fault # NoFault
  BY DEF HeaderCheck, Check
<1>1. /\ DOMAIN checks = 1 .. 3
      /\ \A i \in 1 .. 3 : checks[i].fails => checks[i].fault # NoFault
  BY <1>0 DEF SourceCheck, DecodeCheck, Check, NoFault
<1>2. ~checks[1].fails
  BY DEF SourceCheck, Check
<1>3. checks[2].fails
  BY DEF DecodeCheck, Check
<1>4. checks[2].fault = "MalformedInput"
  BY DEF DecodeCheck, Check
<1>5. FirstFault(checks) = "MalformedInput"
  <2> HIDE DEF checks
  <2>1. PICK i \in 1 .. 3 : /\ checks[i].fails /\ FirstFault(checks) = checks[i].fault
                            /\ \A j \in 1 .. i - 1 : ~checks[j].fails
    <3>1. FirstFault(checks) = NoFault => \A i \in 1 .. 3 : ~checks[i].fails
      BY <1>1, FirstFaultMeans
    <3>2. FirstFault(checks) # NoFault
      BY <1>3, <3>1
    <3> QED BY <1>1, <3>2, FirstFaultMeans
  <2>2. i = 2
    BY <1>2, <1>3, <2>1
  <2> QED BY <1>4, <2>1, <2>2
<1>6. Load => stage' = "failed" /\ failure' = "MalformedInput"
  BY <1>5, Zenon DEF Load, Fail, NoFault
<1>7. Next => Load
  BY DEF Next, VisitCall, NormalizeChange, ChangesDone, NormalizeLog, PushChildren,
     WalkDone, AddCall, AddStorageChange, AddLog, AddTokenTransfer, NextList, Handed,
     ValidateArena, ArenaReturns, Returned
<1> QED BY <1>6, <1>7 DEF vars

(* ingest() keeps to the response, once it has begun. *)
LEMMA ConvertedStands ==
    ASSUME Converting, [Next]_vars, UNCHANGED response
    PROVE  /\ Converting' /\ (stage' = "convert" <=> stage = "convert")
<1>1. UNCHANGED document
  BY DocumentStands
<1>2. FromResponse => FromResponse'
  BY <1>1, ResponseStands DEF FromResponse
<1>3. stage \in {"convert", "failed"} => UNCHANGED vars
  BY NotUnderWay
<1>4. stage # "convert" => stage' # "convert"
  BY DEF Next, Load, Fail, VisitCall, NormalizeChange, ChangesDone, NormalizeLog, PushChildren,
     WalkDone, AddCall, AddStorageChange, AddLog, AddTokenTransfer, NextList, Handed,
     ValidateArena, ArenaReturns, Returned, vars
<1>5. CASE stage = "convert"
  <2>1. Unread => Unread'
    BY <1>3, <1>5 DEF Unread, Arena!Init, vars, arenaVars, walkVars, Root, Pending
  <2> QED BY <1>3, <1>5, <2>1 DEF Converting, vars, NoDocument
<1>6. CASE stage # "convert"
  <2>1. stage = "failed" => UNCHANGED <<stage, failure>>
    BY <1>3 DEF vars
  <2>2. FromResponse => document.loads /\ document.decodes = ~TooDeepToReread
    BY CallOfFrame
  <2>3. ASSUME FromResponse, TooDeepToReread, stage = "load"
        PROVE  stage' = "load" \/ (stage' = "failed" /\ failure' = "MalformedInput")
    BY <2>2, <2>3, NotDecoded
  <2> QED BY <1>2, <1>4, <1>6, <2>1, <2>3, ResponseStands DEF Converting
<1> QED BY <1>3, <1>4, <1>5, <1>6 DEF vars

(* What the two come to together. *)
LEMMA ConvertedIngests ==
    ASSUME Converting, stage # "convert" => Ingesting PROVE ConvertedTracesIngest
<1> SUFFICES ASSUME response # NoResponse, stage \in {"failed", "ingested"}
             PROVE  /\ stage = "failed" =>
                        \/ failure = "NotWritten" \/ FaultyResponse
                        \/ TooDeepToRead /\ failure = "InvalidJson"
                        \/ TooDeepToReread /\ failure = "MalformedInput"
                    /\ stage = "ingested" =>
                        /\ ~FaultyResponse /\ ~TooDeepToReread
                        /\ Len(arenaCalls) = Len(response.frames)
                        /\ arenaChanges = <<>> /\ arenaLogs = <<>> /\ arenaTransfers = <<>>
  BY DEF ConvertedTracesIngest
<1>1. Ingesting
  OBVIOUS
<1>2. CASE ~FromResponse
  BY <1>2 DEF Converting
<1>3. CASE TooDeepToReread
  BY <1>2, <1>3 DEF Converting
<1>4. CASE FromResponse /\ ~TooDeepToReread /\ stage = "failed"
  BY <1>1, <1>4, WellFormedResponse DEF Ingesting, RefusedInv
<1>5. CASE FromResponse /\ ~TooDeepToReread /\ stage = "ingested"
  BY <1>1, <1>5, WellFormedResponse, AcceptedIsWellFormed, ArenaOfResponse DEF Ingesting
<1> QED BY <1>2, <1>3, <1>4, <1>5

(* Where a trace that starts as a response is. *)
Converts == Converting /\ (stage # "convert" => Ingesting)

THEOREM Conversion == ConverterSpec => []Converts
<1> DEFINE Next1 == Converting /\ (stage # "convert" => Ingesting \/ Begun)
<1>1. ConverterInit => Converts
  <2>1. ASSUME Init, response = NoResponse PROVE Converts
    <3>1. stage = "load" /\ Unread /\ DocumentInv
      BY <2>1, DocumentAssumption DEF Init, DocumentInv
    <3>2. Inv /\ RefusedInv
      BY <3>1, InitEstablishes DEF RefusedInv
    <3> QED BY <2>1, <3>1, <3>2, IngestingStarts DEF Converts, Converting
  <2>2. ASSUME Unread, response \in Responses, document = NoDocument, stage = "convert"
        PROVE  Converts
    BY <2>2 DEF Converts, Converting
  <2> QED BY <2>1, <2>2 DEF ConverterInit
<1>2. Converts /\ [ConverterNext]_converterVars => Next1'
  <2> SUFFICES ASSUME Converts, [ConverterNext]_converterVars PROVE Next1'
    OBVIOUS
  <2>1. CASE Convert
    BY <2>1, ConvertBegins DEF Converts
  <2>2. CASE [Next]_vars /\ UNCHANGED response
    <3>1. Converting' /\ (stage' = "convert" <=> stage = "convert")
      BY <2>2, ConvertedStands DEF Converts
    <3>2. stage # "convert" => Ingesting'
      BY <2>2, IngestingKept DEF Converts
    <3> QED BY <3>1, <3>2
  <2> QED BY <2>1, <2>2 DEF ConverterNext, converterVars
<1>3. Next1 => Converts
  BY BegunIsIngesting DEF Converts
<1> HIDE DEF Next1
<1> QED BY <1>1, <1>2, <1>3, PTL DEF ConverterSpec

(* A trace that converts is one that ingests: a response is refused, by the
   converter or by ingest(), only for a fault of its own or, by the reader of JSON,
   for the depth of its nesting, and the arena has a call for each of its frames
   and nothing else. *)
THEOREM ConvertedIngest == ConverterSpec => []ConvertedTracesIngest
<1>1. Converts => ConvertedTracesIngest
  BY ConvertedIngests DEF Converts
<1> QED BY <1>1, Conversion, PTL

(* What ingest() makes of a document, and how it uses the builder, is the same
   for one that geth-convert wrote. *)
THEOREM ConvertedAreDocuments ==
    ConverterSpec =>
        /\ [](CallsInPreOrder /\ FactsKeepTheirCall /\ AcceptsExactlyTheWellFormed)
        /\ UsesTheBuilder
<1>1. Ingesting => CallsInPreOrder /\ FactsKeepTheirCall /\ AcceptsExactlyTheWellFormed
  <2> SUFFICES ASSUME Ingesting
               PROVE  CallsInPreOrder /\ FactsKeepTheirCall /\ AcceptsExactlyTheWellFormed
    OBVIOUS
  <2>1. CallsInPreOrder /\ FactsKeepTheirCall
    BY IngestedInPreOrder, IngestedFacts DEF Ingesting, CallsInPreOrder, FactsKeepTheirCall
  <2>2. AcceptsExactlyTheWellFormed
    BY AcceptedIsWellFormed DEF Ingesting, RefusedInv, AcceptsExactlyTheWellFormed
  <2> QED BY <2>1, <2>2
<1>2. stage = "convert" => CallsInPreOrder /\ FactsKeepTheirCall /\ AcceptsExactlyTheWellFormed
  BY DEF CallsInPreOrder, FactsKeepTheirCall, AcceptsExactlyTheWellFormed
<1>3. Converts => CallsInPreOrder /\ FactsKeepTheirCall /\ AcceptsExactlyTheWellFormed
  BY <1>1, <1>2 DEF Converts
<1>4. ConverterInit => Arena!Init
  BY DEF ConverterInit, Init, Unread
<1>5. Converts /\ [ConverterNext]_converterVars => [Arena!Next]_(Arena!vars)
  <2> SUFFICES ASSUME Converts, [ConverterNext]_converterVars PROVE [Arena!Next]_(Arena!vars)
    OBVIOUS
  <2>1. CASE Convert
    BY <2>1 DEF Convert, arenaVars, Arena!vars
  <2>2. CASE [Next]_vars /\ stage = "convert"
    BY <2>2, NotUnderWay DEF vars, arenaVars, Arena!vars
  <2>3. CASE [Next]_vars /\ stage # "convert"
    BY <2>3, StepCorrect DEF Converts, Ingesting
  <2> QED BY <2>1, <2>2, <2>3 DEF ConverterNext, converterVars
<1> QED BY <1>3, <1>4, <1>5, Conversion, PTL DEF ConverterSpec, UsesTheBuilder, Arena!Spec

=============================================================================
