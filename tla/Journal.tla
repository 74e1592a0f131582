------------------------------ MODULE Journal ------------------------------
(***************************************************************************)
(* What an import promises its client, whatever runs beside it: the        *)
(* journal only grows, one entry at a time; each key is entered at most    *)
(* once, for a request that carries it; "recorded" is answered in the step *)
(* that enters the request and in no other; "duplicate" is answered with   *)
(* an entry already there; any other answer leaves the client knowing      *)
(* only that the key is entered at most once, so that it may send the      *)
(* request again.                                                          *)
(***************************************************************************)
EXTENDS PositionStore

CONSTANTS Threads

VARIABLES journal,   \* the entries, in the order they were entered
          request,   \* [Threads -> the request being served]
          answer     \* [Threads -> the last reply, "pending" while serving]

journalVars == <<journal, request, answer>>

JournalInit ==
  /\ journal = << >>
  /\ request \in [Threads -> Requests]
  /\ answer = [t \in Threads |-> Idle]

Submit(t, r) ==
  /\ answer[t] # Pending
  /\ request' = [request EXCEPT ![t] = r]
  /\ answer' = [answer EXCEPT ![t] = Pending]
  /\ UNCHANGED journal

(* t gets answer a; what the thread keeps of the request is its own affair.*)
Settle(t, a) ==
  /\ answer[t] = Pending
  /\ answer' = [answer EXCEPT ![t] = a]
  /\ \E r \in Requests : request' = [request EXCEPT ![t] = r]

(* The request of t is entered, in a position of the request's portfolio   *)
(* whose symbol is the request's: spelled as the request spells it, or     *)
(* equal to it once lowered.                                               *)
Enter(t, p) ==
  /\ ~KeyUsed(journal, request[t].idempotency_key)
  /\ p[1] = request[t].portfolio
  /\ p[2] = request[t].ticker \/ Lower[p[2]] = StripLower[request[t].ticker]
  /\ journal' = Append(journal, LedgerEntry(request[t], p))
  /\ Settle(t, Recorded(request[t], p)) \/ Settle(t, Error)

AnswerDuplicate(t, i) ==
  /\ journal[i].idempotency_key = request[t].idempotency_key
  /\ Settle(t, Duplicate(request[t], journal[i]))
  /\ UNCHANGED journal

Refuse(t) ==
  /\ Settle(t, Rejected) \/ Settle(t, Error)
  /\ UNCHANGED journal

(* A request refused on arrival was never pending.                         *)
RefuseAtOnce(t) ==
  /\ answer[t] # Pending
  /\ answer' = [answer EXCEPT ![t] = Rejected]
  /\ \E r \in Requests : request' = [request EXCEPT ![t] = r]
  /\ UNCHANGED journal

JournalNext ==
  \E t \in Threads :
    \/ \E r \in Requests : Submit(t, r)
    \/ \E p \in PositionIds : Enter(t, p)
    \/ \E i \in 1..Len(journal) : AnswerDuplicate(t, i)
    \/ Refuse(t)
    \/ RefuseAtOnce(t)

JournalSpec == JournalInit /\ [][JournalNext]_journalVars
=============================================================================
