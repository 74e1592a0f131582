--------------------------- MODULE ReadsProperties ---------------------------
(***************************************************************************)
(* What the reads show while imports go on.                                *)
(***************************************************************************)
EXTENDS LedgerReads

(***************************************************************************)
(* Pages by OFFSET shift under an import, but no further than it moves     *)
(* them: to one who has read all pages, a row that was there from first to *)
(* last can be missing only for each row that has left the list meanwhile  *)
(* (ledger.py:255-256, positions.py:52-53).  No entry ever leaves, so none *)
(* is skipped.                                                             *)
(***************************************************************************)
Finished == query # Unset /\ ~More

Skipped == (start \ shown) \cap Selected(query)

SkipsOnlyForLeavers ==
  Finished => /\ Cardinality(Skipped) <= left
              /\ query.of = "entries" => Skipped = {}

(***************************************************************************)
(* And a row is shown twice only for each row that has joined the list     *)
(* meanwhile (the same lines): an import in the past of the entries, or of *)
(* a ticker behind the page, repeats nothing.                              *)
(***************************************************************************)
RepeatsOnlyForNewcomers ==
  query # Unset => received - Cardinality(shown) <= came

(***************************************************************************)
(* What an import has recorded can be looked up by the ticker it was sent  *)
(* with, in whatever spelling (positions.py:112-128 against                *)
(* ledger.py:109-144): the position the reply names is among those the     *)
(* lookup finds, and only another one of the symbol is ever shown instead, *)
(* a closed one before an open one and else the newer.  For positions      *)
(* whose stored spelling has no blanks around it.                          *)
(***************************************************************************)
ImportIsFound ==
  \A t \in Threads : Acknowledged(reply[t]) /\ Findable(reply[t].position_id) =>
    LET p == reply[t].position_id
        s == reply[t].submitted_ticker
        q == Shown(p[1], s)
    IN  /\ p \in OfTicker(p[1], s)
        /\ q \in OfTicker(p[1], s) /\ (q = p \/ ShownBefore(q, p))
=============================================================================
