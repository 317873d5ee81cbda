--------------------------- MODULE MCEmailPolling ---------------------------
(***************************************************************************)
(* Small instances of EmailPolling for TLC.                                *)
(***************************************************************************)
EXTENDS EmailPolling
CONSTANTS p1, p2, e1, e2

(* Mails 1 and 2 are received in second 0, mails 3 and 4 in second 1.  A   *)
(* list names three and a poll takes two, so four new mails are cut, three *)
(* overflow, and the watermark moves into a second of which it has seen a  *)
(* part.                                                                   *)
MCSecond == <<0, 0, 1, 1>>

(* The polls are alike, and so are the edits: the second of each begins    *)
(* only when the first has.                                                *)
InTurn ==
  /\ poll[p2].at # "idle" => poll[p1].at # "idle"
  /\ edit[e2] # "new" => edit[e1] # "new"
  /\ restarts > 0 => edit[e2] \in {"new", "done"}
  /\ mailbox[2] # "unsent" => mailbox[1] # "unsent"
=============================================================================
