------------------------------ MODULE DataBase ------------------------------
(***************************************************************************)
(* CDataBase (DataBaseEngine.cpp): commands on a connection that can break,*)
(* and TryConnectAgain, which opens it anew after a command failed.  Only  *)
(* some failures lead to an attempt: those shortly after another, and      *)
(* those after many others.  The failed command itself is not repeated.    *)
(*                                                                         *)
(* ADO and the server are outside of the code: a connection whose link is  *)
(* dead is still "open" for GetState, every command on it fails with a     *)
(* connection error; Open succeeds when the server can be reached; Close   *)
(* may fail while it cannot.  One thread uses the object.                  *)
(***************************************************************************)
EXTENDS Naturals

CONSTANTS
  ResumeConnectCount, (* m_dwResumeConnectCount                          *)
  ResumeConnectTime,  (* m_dwResumeConnectTime                           *)
  Width               (* 2^w of the width w of m_dwConnectCount          *)

ASSUME DataBaseAssumption ==
  /\ ResumeConnectCount \in Nat
  /\ ResumeConnectTime \in Nat
  /\ Width \in Nat
  /\ Width > ResumeConnectCount + 1

VARIABLES
  server,    (* the server can be reached                                   *)
  link,      (* of m_DBConnection: closed, alive, or dead but still open    *)
  recordset, (* m_DBRecordset is open                                       *)
  count,     (* m_dwConnectCount                                            *)
  elapsed,   (* time since m_dwConnectErrorTime, up to ResumeConnectTime    *)
  opening,   (* the caller of the OpenConnection that waits for the server  *)
  refused    (* connection errors since the last attempt to open            *)

vars == <<server, link, recordset, count, elapsed, opening, refused>>

TypeOK ==
  /\ server \in BOOLEAN
  /\ link \in {"closed", "alive", "dead"}
  /\ recordset \in BOOLEAN
  /\ count \in 0 .. Width - 1
  /\ elapsed \in 0 .. ResumeConnectTime
  /\ opening \in {"no", "sink", "TryConnectAgain"}
  /\ refused \in Nat

(* m_dwConnectErrorTime is 0: as long ago as makes a difference. *)
Init ==
  /\ server \in BOOLEAN
  /\ link = "closed"
  /\ recordset = FALSE
  /\ count = 0
  /\ elapsed = ResumeConnectTime
  /\ opening = "no"
  /\ refused = 0

-----------------------------------------------------------------------------
(* Outside of the code. *)

ServerChanges ==
  /\ server' = ~server
  /\ link' = IF link = "alive" /\ ~server' THEN "dead" ELSE link
  /\ UNCHANGED <<recordset, count, elapsed, opening, refused>>

LinkBreaks ==
  /\ link = "alive"
  /\ link' = "dead"
  /\ UNCHANGED <<server, recordset, count, elapsed, opening, refused>>

Tick ==
  /\ elapsed < ResumeConnectTime
  /\ elapsed' = elapsed + 1
  /\ UNCHANGED <<server, link, recordset, count, opening, refused>>

-----------------------------------------------------------------------------
(* OpenConnection closes the connection, of which the recordset may be     *)
(* open, and then waits for the server.  Closing either may throw.         *)
CloseConnection(open, caller) ==
  \/ link' = "closed" /\ recordset' = FALSE /\ opening' = caller
  \/ /\ ~server
     /\ \/ open /\ recordset' = TRUE
        \/ link # "closed" /\ recordset' = FALSE
     /\ UNCHANGED <<link, opening>>

OpenConnection ==
  /\ opening = "no"
  /\ CloseConnection(recordset, "sink")
  /\ refused' = 0
  /\ UNCHANGED <<server, count, elapsed>>

(* With the server's answer it returns, or throws to its caller. *)
OpenConnectionReturns ==
  /\ opening # "no"
  /\ opening' = "no"
  /\ IF server
     THEN link' = "alive" /\ count' = 0 /\ elapsed' = ResumeConnectTime
     ELSE UNCHANGED <<link, count, elapsed>>
  /\ UNCHANGED <<server, recordset, refused>>

CloseRecordset ==
  /\ opening = "no"
  /\ recordset
  /\ recordset' = FALSE
  /\ UNCHANGED <<server, link, count, elapsed, opening, refused>>

(* The command is refused: its caller gets the error and no attempt. *)
Refuse(open) ==
  /\ refused' = IF refused < Width THEN refused + 1 ELSE refused
  /\ recordset' = open
  /\ UNCHANGED <<link, opening>>

Recent == elapsed < ResumeConnectTime

(* Faults: a refusal is not counted; the count is not looked at. *)
TryConnectAgainUncounted(open) ==
  /\ elapsed' = 0
  /\ IF Recent \/ count > ResumeConnectCount
     THEN CloseConnection(open, "TryConnectAgain") /\ refused' = 0
            /\ count' = (count + 1) % Width
     ELSE Refuse(open) /\ UNCHANGED count

TryConnectAgainIfRecent(open) ==
  /\ elapsed' = 0
  /\ count' = (count + 1) % Width
  /\ IF Recent
     THEN CloseConnection(open, "TryConnectAgain") /\ refused' = 0
     ELSE Refuse(open)

(* An attempt when the last error is recent or errors were many. *)
TryConnectAgain(open) ==
  /\ elapsed' = 0
  /\ count' = (count + 1) % Width
  /\ IF Recent \/ count > ResumeConnectCount
     THEN CloseConnection(open, "TryConnectAgain") /\ refused' = 0
     ELSE Refuse(open)

(* What IsConnectError takes for an error of the connection need not be    *)
(* one, even on a live link: the server has one number for many failures,  *)
(* and the list of errors may be an earlier command's.                     *)
Execute ==
  /\ opening = "no"
  /\ \/ TryConnectAgain(recordset) /\ UNCHANGED server
     \/ link = "alive" /\ UNCHANGED vars

(* The recordset is closed first, and no reconnection is tried when that   *)
(* throws; a command that returns records leaves it open.                  *)
ExecuteCommand ==
  /\ opening = "no"
  /\ \/ TryConnectAgain(FALSE) /\ UNCHANGED server
     \/ /\ link = "alive"
        /\ recordset' \in BOOLEAN
        /\ UNCHANGED <<server, link, count, elapsed, opening, refused>>
     \/ ~server /\ recordset /\ UNCHANGED vars

-----------------------------------------------------------------------------
Next ==
  \/ ServerChanges \/ LinkBreaks \/ Tick
  \/ OpenConnection \/ OpenConnectionReturns \/ CloseRecordset
  \/ Execute \/ ExecuteCommand

Spec == Init /\ [][Next]_vars

-----------------------------------------------------------------------------
(* Properties. *)

(* However the errors are spread over time and over commands that work,    *)
(* no more than m_dwResumeConnectCount + 1 commands are refused for a      *)
(* connection error before one makes the attempt to reconnect; the counter *)
(* going round is no exception.                                            *)
RefusalsBounded == refused <= ResumeConnectCount + 1

(* Fairness: commands go on being made, and OpenConnection returns. *)
FairSpec == Spec /\ WF_vars(Execute) /\ WF_vars(OpenConnectionReturns)

(* Once the server can be reached for good, the connection is usable again *)
(* and again, however often the link breaks, whatever an outage has left,  *)
(* and however long the commands are apart.                                *)
ConnectionResumes == <>[]server => []<>(link = "alive")
=============================================================================
