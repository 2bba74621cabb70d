------------------------------ MODULE MCCommands ------------------------------
(* Two processes; an alias the environment of either may inject a secret for,   *)
(* and one that is the name of its backend section.  The keyring has a bucket,   *)
(* or both kinds.                                                            *)
EXTENDS Commands, TLC

MCAliases == {"a", "a.s3"}
MCBackendOf == [a \in MCAliases |-> IF a = "a" THEN "a.s3" ELSE "none"]
MCEnvironments == {Unset, [Unset EXCEPT !["a"] = "z"]}

Identity == Email("custom", 143, "tls", "x", <<143, "tls", "x">>)
MCKeyrings ==
  {[Empty EXCEPT !["a"] = Bucket("x", "x", "unset")],
   [Empty EXCEPT !["a"] = Identity, !["a.s3"] = Bucket("x", "x", "unset")]}

Symmetry == Permutations(Processes)
=============================================================================
