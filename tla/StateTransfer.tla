--------------------------- MODULE StateTransfer ---------------------------
(***************************************************************************)
(* What wsrep_sst_mariabackup promises to the mysqld that waits for it.    *)
(* The database of the joining node is its own, or that of a donor, or     *)
(* there is none, or it is in parts: while one is removed or moved in, or  *)
(* where that broke off.  One attempt at a time works on it.  An attempt   *)
(* that succeeds returns co-ordinates, and those are the co-ordinates of   *)
(* the whole database of one donor that there is, unless the donor chose   *)
(* IST: then the attempt leaves the database alone and the co-ordinates    *)
(* are where IST starts from.                                              *)
(***************************************************************************)
EXTENDS Integers

CONSTANT Attempts     \* attempts at a transfer, and their donors: above 0

OwnData == 0
NoData  == -1
Partial == -2
Results == {"none", "running", "ist", "joined", "failed"}

VARIABLES
  data,      \* whose state the database of the joiner is
  result,    \* of each attempt; "ist" while it runs and its donor chose IST
  coords     \* returned by each attempt, NoData until then

vars == <<data, result, coords>>

Init ==
  /\ data = OwnData
  /\ result = [a \in Attempts |-> "none"]
  /\ coords = [a \in Attempts |-> NoData]

Turn(a, from, to) == result[a] = from /\ result' = [result EXCEPT ![a] = to]

Start(a) ==
  /\ \A b \in Attempts : result[b] \notin {"running", "ist"}
  /\ Turn(a, "none", "running")
  /\ UNCHANGED <<data, coords>>

SelectIst(a) == Turn(a, "running", "ist") /\ UNCHANGED <<data, coords>>

\* Only a running attempt replaces the database, and only after removing what
\* there was; either may take several steps.
Remove(a) ==
  /\ result[a] = "running"
  /\ data' \in {NoData, Partial}
  /\ UNCHANGED <<result, coords>>

Install(a) ==
  /\ result[a] = "running"
  /\ data \in {NoData, Partial}
  /\ data' \in Attempts \union {Partial}
  /\ UNCHANGED <<result, coords>>

JoinBySst(a) ==
  /\ data \in Attempts
  /\ Turn(a, "running", "joined")
  /\ coords' = [coords EXCEPT ![a] = data]
  /\ UNCHANGED data

JoinByIst(a) ==
  /\ Turn(a, "ist", "joined")
  /\ \E d \in Attempts : coords' = [coords EXCEPT ![a] = d]
  /\ UNCHANGED data

Fail(a) ==
  /\ \E r \in {"running", "ist"} : Turn(a, r, "failed")
  /\ UNCHANGED <<data, coords>>

Next == \E a \in Attempts :
          Start(a) \/ SelectIst(a) \/ Remove(a) \/ Install(a) \/ JoinBySst(a)
          \/ JoinByIst(a) \/ Fail(a)

Spec == Init /\ [][Next]_vars

=============================================================================
