-------------------------- MODULE FactArenaProofs --------------------------
(***************************************************************************)
(* What FactArenaBuilder::build guarantees for every number of facts,      *)
(* every depth width and both build profiles.                              *)
(*                                                                         *)
(* build() checks each item once and by the id it carries, which may be    *)
(* anyone's.  The invariant says what the passes so far have established   *)
(* of the items before the cursor.  That the calls are one tree follows    *)
(* from it in two ways, each by a least counterexample: the first call in  *)
(* the list that is not under the root, when the ids are the builder's     *)
(* own, and the shallowest one, when no depth has wrapped around.          *)
(***************************************************************************)
EXTENDS FactArena, SequenceProofs

Rooted == calls # <<>> /\ ParentOf(1) = NoCall

(* No second root, resp. no fault of a later pass, before item n. *)
SoleRootBefore(n) == \A i \in CallPositions : 1 < i /\ i < n => ParentOf(i) # NoCall

ParentsFollowBefore(n) ==
    \A i \in CallPositions : 1 < i /\ i < n =>
        /\ ParentOf(i) \in Nat /\ ParentOf(i) < Len(calls)
        /\ ParentOf(i) < calls[i].id
        /\ calls[i].depth = DepthBelow(calls[ParentOf(i) + 1].depth)
        /\ OverflowChecks => calls[i].depth > 0

StorageKnownBefore(n) ==
    \A i \in 1 .. Len(storageChanges) : i < n => storageChanges[i] < Len(calls)

LogsKnownBefore(n) == \A i \in 1 .. Len(logs) : i < n => logs[i].call < Len(calls)

TransfersKnownBefore(n) ==
    \A i \in 1 .. Len(transfers) : i < n => transfers[i] < Len(logs)

(* What the checks of the tree come to, for whatever ids. *)
Tree ==
    /\ OneRoot /\ DepthsFollowParents
    /\ OverflowChecks => NoDepthWraps
    /\ IdsAreOwn => ParentsFirst

PassInv ==
    /\ phase = "roots" => Rooted /\ cursor > 1 /\ SoleRootBefore(cursor)
    /\ phase = "parents" =>
         Rooted /\ SoleRootBefore(Len(calls) + 1) /\ ParentsFollowBefore(cursor)
    /\ phase = "storage" => Tree /\ StorageKnownBefore(cursor)
    /\ phase = "logs" =>
         Tree /\ StorageKnownBefore(Len(storageChanges) + 1) /\ LogsKnownBefore(cursor)
    /\ phase = "transfers" =>
         /\ Tree /\ StorageKnownBefore(Len(storageChanges) + 1)
         /\ LogsKnownBefore(Len(logs) + 1) /\ TransfersKnownBefore(cursor)
    /\ phase = "built" => Tree /\ References

(* The item a returned error points at. *)
FaultWitness ==
    \/ error = "EmptyCallList" /\ calls = <<>>
    \/ error = "FirstCallIsNotRoot" /\ calls # <<>> /\ ParentOf(1) # NoCall
    \/ \E pass \in Passes : \E i \in 1 .. Len(Listed(pass)) :
            /\ pass = "roots" => i > 1
            /\ error = Fault(pass, i)
            /\ error # NoError

ErrorInv ==
    /\ error # NoError => phase = "failed"
    /\ error \in ReferenceErrors => Tree
    /\ phase = "failed" => FaultWitness

IInv == TypeOK /\ PassInv /\ ErrorInv

LEMMA CallTypes ==
    ASSUME TypeOK, NEW i \in CallPositions
    PROVE  /\ i \in Nat /\ calls[i].id \in Nat /\ calls[i].depth \in Depths
           /\ ParentOf(i) \in Nat \union {NoCall}
<1>1. calls[i] \in Call
  BY DEF TypeOK, CallPositions
<1> QED BY <1>1 DEF CallPositions, Call, ParentOf

(* Whether the calls are a tree is a matter of the list of calls alone. *)
LEMMA TreeIsOfCalls == UNCHANGED calls => Tree' = Tree
BY DEF Tree, OneRoot, DepthsFollowParents, NoDepthWraps, IdsAreOwn, ParentsFirst,
       CallPositions, ParentOf

----------------------------------------------------------------------------
(* Adding a fact leaves the builder open. *)

LEMMA AddCallPreserves == IInv /\ AddCall => IInv'
<1> SUFFICES ASSUME IInv, AddCall PROVE IInv'
    OBVIOUS
<1> USE DepthAssumption, StrayAssumption
<1>1. PICK id \in Issued(calls) \union StrayIds, depth \in Depths,
           parent \in Issued(calls) \union StrayIds \union {NoCall} :
         calls' = Append(calls, [id |-> id, parent |-> parent, depth |-> depth])
    BY DEF AddCall
<1> DEFINE c == [id |-> id, parent |-> parent, depth |-> depth]
<1>a. calls \in Seq(Call) /\ c \in Call
    BY DEF Issued, Call, IInv, TypeOK
<1> HIDE DEF c
<1>b. calls' = Append(calls, c)
    BY <1>1 DEF c
<1>2. phase = "open" /\ phase' = "open" /\ error' = error /\ error = NoError
      /\ UNCHANGED <<storageChanges, logs, transfers, cursor>>
    BY DEF AddCall, Open, IInv, ErrorInv
<1>3. TypeOK'
    BY <1>a, <1>b, <1>2 DEF IInv, TypeOK
<1>4. PassInv' /\ ErrorInv'
    BY <1>2 DEF PassInv, ErrorInv, ReferenceErrors, NoError
<1> QED
    BY <1>3, <1>4 DEF IInv

LEMMA AddOtherPreserves ==
    IInv /\ (AddStorageChange \/ AddLog \/ AddTokenTransfer) => IInv'
<1> SUFFICES ASSUME IInv, AddStorageChange \/ AddLog \/ AddTokenTransfer PROVE IInv'
    OBVIOUS
<1> USE StrayAssumption
<1>1. phase = "open" /\ error = NoError /\ UNCHANGED <<calls, phase, cursor, error>>
    BY DEF AddStorageChange, AddLog, AddTokenTransfer, Open, IInv, ErrorInv
<1>2. TypeOK'
  <2>1. CASE AddStorageChange
    BY <2>1 DEF AddStorageChange, Issued, IInv, TypeOK
  <2>2. CASE AddLog
    BY <2>2 DEF AddLog, Issued, IInv, TypeOK, Log
  <2>3. CASE AddTokenTransfer
    BY <2>3 DEF AddTokenTransfer, Issued, IInv, TypeOK
  <2> QED
    BY <2>1, <2>2, <2>3
<1>3. PassInv' /\ ErrorInv'
    BY <1>1 DEF PassInv, ErrorInv, ReferenceErrors, NoError
<1> QED
    BY <1>2, <1>3 DEF IInv

----------------------------------------------------------------------------
(* build(): the invariant after each step of the validation.               *)

LEMMA BuildPreserves == IInv /\ Build => IInv'
<1> SUFFICES ASSUME IInv, Build PROVE IInv'
    OBVIOUS
<1>1. UNCHANGED facts /\ phase = "open" /\ error = NoError
    BY DEF Build, IInv, ErrorInv
<1>2. TypeOK'
    BY <1>1 DEF Build, Reject, IInv, TypeOK, CallPositions,
                facts, TreeErrors, Passes
<1>3. CASE calls = <<>> /\ Reject("EmptyCallList")
    BY <1>1, <1>2, <1>3 DEF IInv, PassInv, ErrorInv, FaultWitness, Reject, facts,
                            ReferenceErrors
<1>4. CASE calls # <<>> /\ ParentOf(1) # NoCall /\ Reject("FirstCallIsNotRoot")
    BY <1>1, <1>2, <1>4 DEF IInv, PassInv, ErrorInv, FaultWitness, Reject, facts,
                            ParentOf, ReferenceErrors
<1>5. CASE /\ calls # <<>> /\ ParentOf(1) = NoCall
           /\ phase' = "roots" /\ cursor' = 2 /\ UNCHANGED error
    BY <1>1, <1>2, <1>5 DEF IInv, PassInv, ErrorInv, Rooted, SoleRootBefore,
                            CallPositions, ParentOf, facts, NoError, ReferenceErrors
<1> QED
    BY <1>3, <1>4, <1>5 DEF Build

(* An item of a pass without a fault satisfies what the pass checks. *)
LEMMA NoFaultMeans ==
    ASSUME IInv, NEW pass \in Passes, NEW i \in 1 .. Len(Listed(pass)),
           Fault(pass, i) = NoError
    PROVE  /\ pass = "roots" => ParentOf(i) # NoCall
           /\ pass = "parents" /\ ParentOf(i) # NoCall =>
                /\ ParentOf(i) \in Nat /\ ParentOf(i) < Len(calls)
                /\ ParentOf(i) < calls[i].id
                /\ calls[i].depth = DepthBelow(calls[ParentOf(i) + 1].depth)
                /\ OverflowChecks => calls[i].depth > 0
           /\ pass = "storage" => storageChanges[i] < Len(calls)
           /\ pass = "logs" => logs[i].call < Len(calls)
           /\ pass = "transfers" => transfers[i] < Len(logs)
<1>1. CASE pass = "parents" /\ ParentOf(i) # NoCall
  <2>0. calls[i] \in Call
    BY <1>1 DEF IInv, TypeOK, Listed
  <2>1. ParentOf(i) \in Nat /\ calls[i].id \in Nat
    BY <1>1, <2>0 DEF Call, ParentOf
  <2>2. ~UnseenParent(i)
    BY <1>1 DEF Fault, NoError
  <2>3. ~Overflows(i) /\ ~WrongDepth(i)
    BY <1>1, <2>2 DEF Fault, NoError
  <2>4. ParentOf(i) < calls[i].id /\ ParentOf(i) < Len(calls)
    BY <1>1, <2>1, <2>2 DEF UnseenParent, Known, IInv, TypeOK
  <2>5. calls[i].depth = DepthBelow(calls[ParentOf(i) + 1].depth)
    BY <1>1, <2>2, <2>3 DEF WrongDepth, SeenParent
  <2>6. ASSUME OverflowChecks PROVE calls[i].depth > 0
    <3>1. calls[ParentOf(i) + 1] \in Call
      BY <2>1, <2>4 DEF IInv, TypeOK
    <3>2. calls[ParentOf(i) + 1].depth \in 0 .. DepthModulus - 2
      BY <1>1, <2>2, <2>3, <2>6, <3>1, DepthAssumption DEF Call, Depths, Overflows, SeenParent
    <3> QED BY <2>5, <3>2, DepthAssumption DEF DepthBelow
  <2> QED
    BY <1>1, <2>1, <2>4, <2>5, <2>6
<1>2. CASE pass = "roots"
    BY <1>2 DEF Fault, NoError
<1>3. CASE pass = "storage"
    BY <1>3 DEF Fault, NoError, Known
<1>4. CASE pass = "logs"
    BY <1>4 DEF Fault, NoError, Known
<1>5. CASE pass = "transfers"
    BY <1>5 DEF Fault, NoError, Known
<1> QED
    BY <1>1, <1>2, <1>3, <1>4, <1>5 DEF Passes

LEMMA ExaminePreserves == IInv /\ Examine => IInv'
<1> SUFFICES ASSUME IInv, Examine PROVE IInv'
    OBVIOUS
<1>1. /\ UNCHANGED <<facts, phase, error>> /\ phase \in Passes
      /\ cursor \in 1 .. Len(Listed(phase)) /\ cursor' = cursor + 1
      /\ Fault(phase, cursor) = NoError
    BY DEF Examine, InPass, IInv, TypeOK, Listed
<1>2. TypeOK'
    BY <1>1 DEF IInv, TypeOK, CallPositions, facts
<1>3. ErrorInv'
  <2>1. error = NoError
    BY <1>1 DEF IInv, ErrorInv, Passes
  <2> QED
    BY <2>1, <1>1 DEF ErrorInv, Passes, ReferenceErrors, NoError
<1>4. PassInv'
  <2>1. CASE phase = "roots"
    <3>1. SoleRootBefore(cursor + 1)
        BY <1>1, <2>1, NoFaultMeans
           DEF IInv, PassInv, TypeOK, SoleRootBefore, CallPositions
    <3> QED
        BY <1>1, <2>1, <3>1 DEF IInv, PassInv, TypeOK, facts, Rooted, SoleRootBefore,
                                CallPositions, ParentOf
  <2>2. CASE phase = "parents"
    <3>1. ParentsFollowBefore(cursor + 1)
      <4> SUFFICES ASSUME NEW i \in CallPositions, 1 < i, i < cursor + 1
                   PROVE  /\ ParentOf(i) \in Nat /\ ParentOf(i) < Len(calls)
                          /\ ParentOf(i) < calls[i].id
                          /\ calls[i].depth = DepthBelow(calls[ParentOf(i) + 1].depth)
                          /\ OverflowChecks => calls[i].depth > 0
          BY DEF ParentsFollowBefore
      <4>1. ParentOf(i) # NoCall
          BY <2>2 DEF IInv, PassInv, SoleRootBefore, CallPositions, TypeOK
      <4>2. CASE i = cursor
          BY <4>1, <4>2, <1>1, <2>2, NoFaultMeans
      <4>3. CASE i < cursor
          BY <4>3, <2>2 DEF IInv, PassInv, ParentsFollowBefore
      <4> QED
          BY <4>2, <4>3 DEF IInv, TypeOK, CallPositions
    <3> QED
        BY <1>1, <2>2, <3>1 DEF IInv, PassInv, facts, Rooted, SoleRootBefore,
                                ParentsFollowBefore, CallPositions, ParentOf
  <2>3. CASE phase = "storage"
    <3>1. StorageKnownBefore(cursor + 1)
        BY <1>1, <2>3, NoFaultMeans DEF IInv, PassInv, TypeOK, StorageKnownBefore
    <3> QED
        BY <1>1, <2>3, <3>1, TreeIsOfCalls DEF IInv, PassInv, facts,
                                StorageKnownBefore, CallPositions, ParentOf
  <2>4. CASE phase = "logs"
    <3>1. LogsKnownBefore(cursor + 1)
      <4> SUFFICES ASSUME NEW i \in 1 .. Len(logs), i < cursor + 1
                   PROVE  logs[i].call < Len(calls)
          BY DEF LogsKnownBefore
      <4>1. CASE i = cursor
          BY <4>1, <1>1, <2>4, NoFaultMeans
      <4>2. CASE i < cursor
          BY <4>2, <2>4 DEF IInv, PassInv, LogsKnownBefore
      <4> QED
          BY <4>1, <4>2 DEF IInv, TypeOK
    <3> QED
        BY <1>1, <2>4, <3>1, TreeIsOfCalls DEF IInv, PassInv, facts,
                                StorageKnownBefore, LogsKnownBefore, CallPositions, ParentOf
  <2>5. CASE phase = "transfers"
    <3>1. TransfersKnownBefore(cursor + 1)
        BY <1>1, <2>5, NoFaultMeans DEF IInv, PassInv, TypeOK, TransfersKnownBefore
    <3> QED
        BY <1>1, <2>5, <3>1, TreeIsOfCalls DEF IInv, PassInv, facts,
                                StorageKnownBefore, LogsKnownBefore, TransfersKnownBefore,
                                CallPositions, ParentOf
  <2> QED
    BY <1>1, <2>1, <2>2, <2>3, <2>4, <2>5 DEF Passes
<1> QED
    BY <1>2, <1>3, <1>4 DEF IInv

LEMMA ReturnErrorPreserves == IInv /\ ReturnError => IInv'
<1> SUFFICES ASSUME IInv, ReturnError PROVE IInv'
    OBVIOUS
<1>1. /\ UNCHANGED <<facts, cursor>> /\ phase \in Passes /\ phase' = "failed"
      /\ cursor \in 1 .. Len(Listed(phase))
      /\ error' = Fault(phase, cursor) /\ error' # NoError
    BY DEF ReturnError, Reject, InPass, IInv, TypeOK, Listed
<1>2. Fault(phase, cursor) \in TreeErrors \union ReferenceErrors \union {NoError}
    BY DEF Fault, TreeErrors, ReferenceErrors
<1>3. TypeOK'
    BY <1>1, <1>2 DEF IInv, TypeOK, CallPositions, facts
<1>4. PassInv'
    BY <1>1 DEF PassInv
<1>5. FaultWitness'
  <2>1. phase = "roots" => cursor > 1
    BY DEF IInv, PassInv
  <2>3. \A pass, i : Fault(pass, i)' = Fault(pass, i)
    BY <1>1 DEF Fault, facts, ParentOf, UnseenParent, Overflows, WrongDepth,
               SeenParent, Known
  <2>4. \A pass : Listed(pass)' = Listed(pass)
    BY <1>1 DEF Listed, facts
  <2> QED
    BY <1>1, <2>1, <2>3, <2>4 DEF FaultWitness
<1>6. error' \in ReferenceErrors => Tree'
  <2>1. phase \in {"roots", "parents"} => Fault(phase, cursor) \notin ReferenceErrors
    BY DEF Fault, ReferenceErrors, NoError
  <2>2. phase \in {"storage", "logs", "transfers"} => Tree
    BY DEF IInv, PassInv
  <2> QED
    BY <1>1, <2>1, <2>2, TreeIsOfCalls DEF Passes, facts
<1> QED
    BY <1>1, <1>3, <1>4, <1>5, <1>6 DEF IInv, ErrorInv

(* What the second pass has established, for the whole list. *)
LEMMA PassedTree ==
    ASSUME TypeOK, Rooted, ParentsFollowBefore(Len(calls) + 1)
    PROVE  Tree
<1>1. ASSUME NEW i \in CallPositions, i # 1
      PROVE  /\ ParentOf(i) \in Nat /\ ParentOf(i) + 1 \in CallPositions
             /\ ParentOf(i) < calls[i].id
             /\ calls[i].depth = DepthBelow(calls[ParentOf(i) + 1].depth)
             /\ OverflowChecks => calls[i].depth > 0
  <2>1. Len(calls) \in Nat /\ 1 < i /\ i < Len(calls) + 1
    BY <1>1 DEF CallPositions, TypeOK
  <2> QED BY <2>1 DEF ParentsFollowBefore, CallPositions
<1>2. OneRoot
  <2>1. \A i \in CallPositions \ {1} : ParentOf(i) # NoCall
    BY <1>1, NoCallAssumption
  <2> QED BY <1>1, <2>1 DEF OneRoot, Rooted
<1>3. ASSUME IdsAreOwn, NEW i \in CallPositions \ {1} PROVE ParentOf(i) + 1 < i
  <2>1. calls[i].id \in Nat /\ calls[i].id < i /\ i \in Nat
    BY <1>3, CallTypes DEF IdsAreOwn
  <2> QED BY <1>1, <2>1
<1> QED
    BY <1>1, <1>2, <1>3 DEF Tree, DepthsFollowParents, NoDepthWraps, ParentsFirst

LEMMA EndPassPreserves == IInv /\ EndPass => IInv'
<1> SUFFICES ASSUME IInv, EndPass PROVE IInv'
    OBVIOUS
<1>1. /\ UNCHANGED <<facts, error>> /\ phase \in Passes /\ cursor > Len(Listed(phase))
      /\ phase' = FollowingPass(phase) /\ cursor' = 1
    BY DEF EndPass
<1>2. TypeOK'
    BY <1>1 DEF IInv, TypeOK, CallPositions, facts,
                FollowingPass, Passes
<1>3. ErrorInv'
  <2>1. error = NoError /\ phase' # "failed"
    BY <1>1 DEF IInv, ErrorInv, Passes, FollowingPass
  <2> QED
    BY <2>1, <1>1 DEF ErrorInv, ReferenceErrors, NoError
<1>u. UNCHANGED <<calls, storageChanges, logs, transfers>>
    BY <1>1 DEF facts
<1>4. PassInv'
  <2>1. CASE phase = "roots"
    <3>1. Rooted /\ SoleRootBefore(Len(calls) + 1) /\ ParentsFollowBefore(1)
        BY <1>1, <2>1 DEF IInv, PassInv, TypeOK, SoleRootBefore, ParentsFollowBefore,
                          CallPositions, Listed
    <3> QED
        BY <1>1, <1>u, <2>1, <3>1 DEF PassInv, FollowingPass, Rooted, SoleRootBefore,
                          ParentsFollowBefore, CallPositions, ParentOf
  <2>2. CASE phase = "parents"
    <3>1. Rooted /\ ParentsFollowBefore(Len(calls) + 1)
        BY <1>1, <2>2 DEF IInv, PassInv, TypeOK, ParentsFollowBefore, CallPositions, Listed
    <3>2. Tree /\ StorageKnownBefore(1)
        BY <3>1, PassedTree DEF IInv, TypeOK, StorageKnownBefore
    <3> QED
        BY <1>1, <1>u, <2>2, <3>2, TreeIsOfCalls DEF PassInv, FollowingPass,
                          CallPositions, ParentOf, StorageKnownBefore
  <2>3. CASE phase = "storage"
    <3>1. Tree /\ StorageKnownBefore(Len(storageChanges) + 1) /\ LogsKnownBefore(1)
        BY <1>1, <2>3 DEF IInv, PassInv, TypeOK, StorageKnownBefore, LogsKnownBefore, Listed
    <3> QED
        BY <1>1, <1>u, <2>3, <3>1, TreeIsOfCalls DEF PassInv, FollowingPass,
                          CallPositions, ParentOf,
                          StorageKnownBefore, LogsKnownBefore
  <2>4. CASE phase = "logs"
    <3>1. /\ Tree /\ StorageKnownBefore(Len(storageChanges) + 1)
          /\ LogsKnownBefore(Len(logs) + 1) /\ TransfersKnownBefore(1)
        BY <1>1, <2>4 DEF IInv, PassInv, TypeOK, LogsKnownBefore, TransfersKnownBefore, Listed
    <3> QED
        BY <1>1, <1>u, <2>4, <3>1, TreeIsOfCalls DEF PassInv, FollowingPass,
                          CallPositions, ParentOf,
                          StorageKnownBefore, LogsKnownBefore, TransfersKnownBefore
  <2>5. CASE phase = "transfers"
    <3>1. Tree /\ References
        BY <1>1, <2>5 DEF IInv, PassInv, TypeOK, References, StorageKnownBefore,
                          LogsKnownBefore, TransfersKnownBefore, Listed
    <3> QED
        BY <1>1, <1>u, <2>5, <3>1, TreeIsOfCalls DEF PassInv, FollowingPass,
                          References, CallPositions, ParentOf
  <2> QED
    BY <1>1, <2>1, <2>2, <2>3, <2>4, <2>5 DEF Passes
<1> QED
    BY <1>2, <1>3, <1>4 DEF IInv

----------------------------------------------------------------------------
LEMMA IInvInductive == IInv /\ [Next]_vars => IInv'
<1> SUFFICES ASSUME IInv, [Next]_vars PROVE IInv'
    OBVIOUS
<1>1. CASE AddCall
    BY <1>1, AddCallPreserves
<1>2. CASE AddStorageChange \/ AddLog \/ AddTokenTransfer
    BY <1>2, AddOtherPreserves
<1>3. CASE Build
    BY <1>3, BuildPreserves
<1>4. CASE Examine
    BY <1>4, ExaminePreserves
<1>5. CASE ReturnError
    BY <1>5, ReturnErrorPreserves
<1>6. CASE EndPass
    BY <1>6, EndPassPreserves
<1>7. CASE UNCHANGED vars
    BY <1>7, TreeIsOfCalls DEF vars, IInv, TypeOK, PassInv, ErrorInv, Rooted,
                SoleRootBefore, ParentsFollowBefore, StorageKnownBefore,
                LogsKnownBefore, TransfersKnownBefore,
                References, FaultWitness, Fault, Listed,
                UnseenParent, SeenParent, Overflows, WrongDepth, Known,
                CallPositions, ParentOf
<1> QED
    BY <1>1, <1>2, <1>3, <1>4, <1>5, <1>6, <1>7 DEF Next, Returned

(* The invariant holds of every reachable state of the builder. *)
THEOREM Invariance == Spec => []IInv
<1>1. Init => IInv
    BY DEF Init, IInv, TypeOK, PassInv, ErrorInv, CallPositions,
           NoError, ReferenceErrors
<1> QED
    BY <1>1, IInvInductive, PTL DEF Spec

(* The builder's lists, cursor and outcome keep their types. *)
THEOREM TypeCorrect == Spec => []TypeOK
<1>1. IInv => TypeOK
    BY DEF IInv
<1> QED
    BY <1>1, Invariance, PTL

LEMMA DepthBelowIs ==
    ASSUME NEW depth \in Depths, DepthBelow(depth) > 0
    PROVE  DepthBelow(depth) = depth + 1
<1> USE DepthAssumption
<1>1. CASE depth + 1 = DepthModulus
  BY <1>1 DEF DepthBelow
<1>2. CASE depth + 1 < DepthModulus
  BY <1>2 DEF DepthBelow, Depths
<1> QED BY <1>1, <1>2 DEF Depths

(* In a list with parents first, and in one whose depths do not wrap, no call is
   left out of a set that holds the root and whatever is below what it holds. *)
LEMMA NoneLeftOut ==
    ASSUME TypeOK, Tree, IdsAreOwn \/ NoDepthWraps PROVE AllUnderTheRoot
<1> SUFFICES ASSUME NEW S \in SUBSET CallPositions, 1 \in S,
                    \A i \in CallPositions \ {1} : ParentOf(i) + 1 \in S => i \in S,
                    S # CallPositions
             PROVE  FALSE
  BY DEF AllUnderTheRoot
<1> DEFINE Left == CallPositions \ S
           Parent(i) == ParentOf(i) + 1
<1>1. Left # {} /\ Left \in SUBSET Nat /\ 1 \notin Left
  BY CallTypes
<1>2. \A i \in Left : Parent(i) \in Left
  BY <1>1 DEF Tree, OneRoot
<1>3. CASE IdsAreOwn
  <2>1. PICK i \in Left : \A j \in Left : i <= j
    BY <1>1, MinExists
  <2>2. Parent(i) < i
    BY <1>1, <1>3 DEF Tree, ParentsFirst
  <2> QED BY <1>1, <1>2, <2>1, <2>2
<1>4. CASE NoDepthWraps
  <2> DEFINE D == {calls[i].depth : i \in Left}
  <2>1. \A i \in CallPositions : calls[i].depth \in Depths
    BY CallTypes
  <2>2. D \in SUBSET Nat /\ D # {}
    BY <1>1, <2>1, DepthAssumption DEF Depths
  <2> HIDE DEF D
  <2>3. PICK d \in D : \A e \in D : d <= e
    BY <2>2, MinExists
  <2> USE DEF D
  <2>4. PICK i \in Left : d = calls[i].depth
    BY <2>3
  <2>5. calls[Parent(i)].depth \in D
    BY <1>2
  <2>6. calls[i].depth = DepthBelow(calls[Parent(i)].depth) /\ calls[i].depth > 0
    BY <1>1, <1>4 DEF Tree, DepthsFollowParents, NoDepthWraps
  <2>7. calls[i].depth = calls[Parent(i)].depth + 1 /\ calls[Parent(i)].depth \in Nat
    <3> DEFINE above == calls[Parent(i)].depth
    <3>1. above \in Depths
      BY <1>2, <2>1
    <3>2. DepthBelow(above) > 0
      BY <2>6
    <3> HIDE DEF above
    <3>3. DepthBelow(above) = above + 1
      BY <3>1, <3>2, DepthBelowIs
    <3>4. above \in Nat
      BY <3>1, DepthAssumption DEF Depths
    <3> QED BY <2>6, <3>3, <3>4 DEF above
  <2> HIDE DEF D, Parent
  <2>8. d <= calls[Parent(i)].depth
    BY <2>3, <2>5
  <2> QED BY <2>4, <2>7, <2>8
<1> QED BY <1>3, <1>4

LEMMA TreeIsCallTree == ASSUME TypeOK, Tree PROVE CallTree
BY NoneLeftOut DEF Tree, CallTree

(* A built arena's calls are one tree with consistent depths, whoever's ids they
   carry, and in topological order if the ids are the builder's own: the second,
   third and fourth invariants of arena.rs as far as build() establishes them. *)
THEOREM CallTreeCorrect == Spec => []BuiltCallTree
<1>1. IInv => BuiltCallTree
    BY TreeIsCallTree DEF IInv, PassInv, BuiltCallTree
<1> QED
    BY <1>1, Invariance, PTL

(* A built arena has no dangling reference. *)
THEOREM ReferencesCorrect == Spec => []BuiltReferencesResolve
<1>1. IInv => BuiltReferencesResolve
    BY DEF IInv, PassInv, BuiltReferencesResolve
<1> QED
    BY <1>1, Invariance, PTL

(* A dangling reference is reported only of a valid call tree. *)
THEOREM TreeFirst == Spec => []TreeErrorsFirst
<1>1. IInv => TreeErrorsFirst
    BY TreeIsCallTree DEF IInv, ErrorInv, TreeErrorsFirst
<1> QED
    BY <1>1, Invariance, PTL

(* build() refuses nothing well formed. *)
THEOREM NoFalseRejection == Spec => []RejectsOnlyIllFormed
<1>1. IInv => RejectsOnlyIllFormed
  <2> SUFFICES ASSUME IInv, phase = "failed", CallIdsArePositions, error # "DepthOverflow",
                      OneRoot, ParentsFirst, DepthsFollowParents, References
               PROVE  FALSE
      BY DEF RejectsOnlyIllFormed
  <2>0. FaultWitness
      BY DEF IInv, ErrorInv
  <2>a. PICK pass \in Passes : \E i \in 1 .. Len(Listed(pass)) :
            (pass = "roots" => i > 1) /\ error = Fault(pass, i) /\ error # NoError
      BY <2>0 DEF FaultWitness, OneRoot, CallPositions, IInv, TypeOK
  <2>1. PICK i \in 1 .. Len(Listed(pass)) :
            (pass = "roots" => i > 1) /\ error = Fault(pass, i) /\ error # NoError
      BY <2>a
  <2>2. CASE pass \in {"roots", "parents"}
    <3>1. i \in CallPositions /\ calls[i].id = i - 1 /\ i \in Nat
        BY <2>2 DEF Listed, CallPositions, CallIdsArePositions
    <3>2. CASE i = 1
      <4>1. pass = "parents" /\ ParentOf(i) = NoCall
          BY <2>1, <2>2, <3>1, <3>2 DEF OneRoot
      <4> QED
          BY <2>1, <4>1 DEF Fault, UnseenParent, Overflows, WrongDepth, SeenParent
    <3>3. CASE i # 1
      <4>1. ParentOf(i) \in 0 .. i - 2
        <5>1. ParentOf(i) \in Nat
            BY <3>1, <3>3, CallTypes DEF OneRoot, IInv
        <5> QED BY <3>1, <3>3, <5>1 DEF ParentsFirst
      <4>2. ParentOf(i) # NoCall
          BY <4>1, <3>1, NoCallAssumption
      <4>3. ~UnseenParent(i)
          BY <3>1, <4>1 DEF UnseenParent, Known, CallPositions, IInv, TypeOK
      <4>4. ~WrongDepth(i)
          BY <3>1, <3>3 DEF WrongDepth, DepthsFollowParents
      <4> QED
          BY <2>1, <2>2, <4>2, <4>3, <4>4 DEF Fault
    <3> QED
        BY <3>2, <3>3
  <2>3. CASE pass = "storage"
      BY <2>1, <2>3 DEF Fault, Listed, Known, References
  <2>4. CASE pass = "logs"
      BY <2>1, <2>4 DEF Fault, Listed, Known, References
  <2>5. CASE pass = "transfers"
      BY <2>1, <2>5 DEF Fault, Listed, Known, References
  <2> QED
      BY <2>2, <2>3, <2>4, <2>5 DEF Passes
<1> QED
    BY <1>1, Invariance, PTL
============================================================================
