---------------------------- MODULE MCChangeFeed ----------------------------
EXTENDS ChangeFeed, TLC

Idle == [k \in Bounded |-> 0]

(* A client follows the log while edits and reconciles feed it beyond its  *)
(* bound; edits fail and are undone while markers expire; two clients poll *)
(* a run around its end; commits change what is dirty meanwhile; an edit   *)
(* overlaps a run.                                                         *)
Following == [Idle EXCEPT !["edit"] = 2, !["changes"] = 2, !["outside"] = 1]
Failing == [Idle EXCEPT !["edit"] = 1, !["changes"] = 1, !["outside"] = 1,
                        !["fault"] = 2, !["expire"] = 1]
Running == [Idle EXCEPT !["start"] = 1, !["poll"] = 2, !["runwrite"] = 1,
                        !["outside"] = 1]
Committing == [Idle EXCEPT !["start"] = 1, !["poll"] = 1, !["commit"] = 1,
                           !["outside"] = 1, !["fault"] = 1]
Overlapping == [Idle EXCEPT !["start"] = 1, !["poll"] = 1, !["edit"] = 1]
MCWorkloads == {Following, Failing, Running, Committing, Overlapping}

Symmetry == Permutations(Requests)
=============================================================================
