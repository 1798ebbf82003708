------------------------- MODULE MCRepositoryPublish ------------------------
(* Instances of RepositoryPublish for TLC. *)
EXTENDS RepositoryPublish, TLC

Symmetry == Permutations(Calls) \cup Permutations(Branches)

(* A head that is not published, or was read of another branch than was    *)
(* pushed, is looked at by no property but for being there: what it was,   *)
(* and whether preflight has passed, makes no difference to any later step. *)
Seen(r) ==
  IF r.repo.publication = "published" /\ r.repo.pushed # Base THEN r
  ELSE [r EXCEPT !.repo.publication = "none", !.repo.pushed = Base,
                 !.repo.published = IF @ = NoSha THEN @ ELSE <<>>]
View == <<storage, Seen(row), Seen(saved), crossed, worker, remote,
          [c \in Calls |-> [calls[c] EXCEPT !.mine = Seen(@)]]>>
=============================================================================
