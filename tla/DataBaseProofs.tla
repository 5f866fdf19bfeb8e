--------------------------- MODULE DataBaseProofs ---------------------------
(***************************************************************************)
(* The bound on refused commands, for any thresholds and any width of the  *)
(* counter.  A refusal is counted twice, in the history and in             *)
(* m_dwConnectCount; only an attempt makes the history shorter, and the    *)
(* counter goes round, or is set to 0, only during an attempt, so the       *)
(* history never passes it.                                                *)
(***************************************************************************)
EXTENDS DataBase, TLAPS

IInv ==
  /\ TypeOK
  /\ refused <= count
  /\ opening # "no" => refused = 0
  /\ RefusalsBounded

LEMMA CountStep ==
  ASSUME NEW n \in 0 .. Width - 1
  PROVE  /\ (n + 1) % Width \in 0 .. Width - 1
         /\ n + 1 < Width => (n + 1) % Width = n + 1
  BY DataBaseAssumption

LEMMA CloseConnectionFacts ==
  ASSUME TypeOK, NEW open \in BOOLEAN, NEW caller \in {"sink", "TryConnectAgain"},
         CloseConnection(open, caller)
  PROVE  /\ link' \in {"closed", "alive", "dead"}
         /\ recordset' \in BOOLEAN
         /\ opening' \in {"no", "sink", "TryConnectAgain"}
  BY DEF CloseConnection, TypeOK

LEMMA TryConnectAgainInv ==
  ASSUME IInv, NEW open \in BOOLEAN, TryConnectAgain(open), UNCHANGED server,
         opening = "no"
  PROVE  IInv'
<1>1. /\ count \in 0 .. Width - 1 /\ count' \in 0 .. Width - 1 /\ refused \in Nat
      /\ elapsed \in 0 .. ResumeConnectTime /\ elapsed' \in 0 .. ResumeConnectTime
      /\ server' \in BOOLEAN
  BY CountStep, DataBaseAssumption DEF IInv, TypeOK, TryConnectAgain
<1>2. CASE Recent \/ count > ResumeConnectCount
  <2>1. refused' = 0 /\ CloseConnection(open, "TryConnectAgain")
    BY <1>2 DEF TryConnectAgain
  <2>2. TypeOK'
    BY <1>1, <2>1, CloseConnectionFacts DEF IInv, TypeOK
  <2> QED
    BY <1>1, <2>1, <2>2, DataBaseAssumption DEF IInv, RefusalsBounded
<1>3. CASE ~Recent /\ count <= ResumeConnectCount
  <2>1. refused <= ResumeConnectCount /\ count + 1 < Width /\ refused < Width
    BY <1>1, <1>3, DataBaseAssumption DEF IInv
  <2>2. count' = count + 1
    BY <1>1, <2>1, CountStep DEF TryConnectAgain
  <2>3. Refuse(open)
    BY <1>1, <1>3, DataBaseAssumption DEF TryConnectAgain
  <2>4. refused' = refused + 1 /\ recordset' = open /\ UNCHANGED <<link, opening>>
    BY <2>1, <2>3 DEF Refuse
  <2>5. TypeOK'
    BY <1>1, <2>4 DEF IInv, TypeOK
  <2> QED
    BY <1>1, <2>1, <2>2, <2>4, <2>5, DataBaseAssumption DEF IInv, RefusalsBounded
<1> QED
  BY <1>1, <1>2, <1>3, DataBaseAssumption

LEMMA InitInv ==
  ASSUME Init
  PROVE  IInv
<1>1. /\ count \in 0 .. Width - 1 /\ elapsed \in 0 .. ResumeConnectTime
      /\ refused \in Nat /\ refused <= count /\ refused <= ResumeConnectCount + 1
  BY DataBaseAssumption DEF Init
<1> QED
  BY <1>1 DEF Init, IInv, TypeOK, RefusalsBounded

LEMMA StepInv ==
  ASSUME IInv, [Next]_vars
  PROVE  IInv'
<1>1. /\ recordset \in BOOLEAN /\ TypeOK /\ count \in Nat /\ refused \in Nat
      /\ 0 \in 0 .. Width - 1 /\ ResumeConnectTime \in 0 .. ResumeConnectTime
      /\ 0 <= ResumeConnectCount + 1
  BY DataBaseAssumption DEF IInv, TypeOK
<1>2. CASE ServerChanges \/ LinkBreaks
  BY <1>1, <1>2 DEF ServerChanges, LinkBreaks, IInv, TypeOK, RefusalsBounded
<1>3. CASE Tick
  BY <1>1, <1>3, DataBaseAssumption DEF Tick, IInv, TypeOK, RefusalsBounded
<1>4. CASE OpenConnection
  <2>1. CloseConnection(recordset, "sink") /\ refused' = 0
        /\ UNCHANGED <<server, count, elapsed>>
    BY <1>4 DEF OpenConnection
  <2>2. TypeOK'
    BY <1>1, <2>1, CloseConnectionFacts DEF TypeOK
  <2> QED
    BY <1>1, <2>1, <2>2 DEF IInv, RefusalsBounded
<1>5. CASE OpenConnectionReturns
  <2>1. refused' = 0 /\ UNCHANGED <<server, recordset>> /\ opening' = "no"
    BY <1>5 DEF OpenConnectionReturns, IInv
  <2>2. /\ count' \in 0 .. Width - 1 /\ elapsed' \in 0 .. ResumeConnectTime
        /\ link' \in {"closed", "alive", "dead"}
    BY <1>1, <1>5 DEF OpenConnectionReturns, TypeOK
  <2> QED
    BY <1>1, <2>1, <2>2 DEF IInv, TypeOK, RefusalsBounded
<1>6. CASE CloseRecordset
  BY <1>1, <1>6 DEF CloseRecordset, IInv, TypeOK, RefusalsBounded
<1>7. CASE Execute
  <2>1. CASE UNCHANGED vars
    BY <2>1 DEF vars, IInv, TypeOK, RefusalsBounded
  <2> QED
    BY <1>1, <1>7, <2>1, TryConnectAgainInv DEF Execute
<1>8. CASE ExecuteCommand
  <2>1. CASE UNCHANGED vars
    BY <2>1 DEF vars, IInv, TypeOK, RefusalsBounded
  <2>2. CASE /\ recordset' \in BOOLEAN
             /\ UNCHANGED <<server, link, count, elapsed, opening, refused>>
    BY <2>2 DEF IInv, TypeOK, RefusalsBounded
  <2> QED
    BY <1>1, <1>8, <2>1, <2>2, TryConnectAgainInv DEF ExecuteCommand
<1>9. CASE UNCHANGED vars
  BY <1>9 DEF vars, IInv, TypeOK, RefusalsBounded
<1> QED
  BY <1>2, <1>3, <1>4, <1>5, <1>6, <1>7, <1>8, <1>9 DEF Next

(* What the history of refusals and the counter have to do with each other *)
(* holds in every state.                                                   *)
THEOREM InductiveInvariant == Spec => []IInv
  BY InitInv, StepInv, PTL DEF Spec

(* Every variable keeps its type. *)
THEOREM TypeCorrect == Spec => []TypeOK
<1>1. IInv => TypeOK
  BY DEF IInv
<1> QED
  BY <1>1, InductiveInvariant, PTL

(* For any thresholds: after m_dwResumeConnectCount + 1 refused commands   *)
(* the next connection error leads to an attempt, although the counter of  *)
(* errors is set to 0 and goes round.                                      *)
THEOREM RefusalsAlwaysBounded == Spec => []RefusalsBounded
<1>1. IInv => RefusalsBounded
  BY DEF IInv
<1> QED
  BY <1>1, InductiveInvariant, PTL
=============================================================================
