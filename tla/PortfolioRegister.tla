------------------------- MODULE PortfolioRegister -------------------------
(***************************************************************************)
(* What the portfolio routes promise: each request takes effect in one     *)
(* step.  A name is given to one portfolio at a time, only a portfolio     *)
(* that exists is booked to, and only one that never was is deleted.       *)
(***************************************************************************)
CONSTANTS Ids, Names, NoName

VARIABLES name, booked

registerVars == <<name, booked>>

RegisterInit == name = [i \in Ids |-> NoName] /\ booked = {}

Create(i, n) ==
  /\ name[i] = NoName
  /\ \A j \in Ids : name[j] # n
  /\ name' = [name EXCEPT ![i] = n]
  /\ UNCHANGED booked

Delete(i) ==
  /\ i \notin booked
  /\ name' = [name EXCEPT ![i] = NoName]
  /\ UNCHANGED booked

Book(i) ==
  /\ name[i] # NoName
  /\ booked' = booked \cup {i}
  /\ UNCHANGED name

RegisterNext ==
  \E i \in Ids : Delete(i) \/ Book(i) \/ \E n \in Names : Create(i, n)

RegisterSpec == RegisterInit /\ [][RegisterNext]_registerVars
=============================================================================
