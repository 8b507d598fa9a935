-------------------------- MODULE MCAuthorityChain --------------------------
(* Small instances of AuthorityChain: two concurrent callers, two revisions,*)
(* a fresh and a stale truth or two keys.  Callers are interchangeable.     *)
EXTENDS AuthorityChain, TLC

CONSTANTS c1, c2, fresh, stale, k1, k2

Symmetry == Permutations({c1, c2})
=============================================================================
