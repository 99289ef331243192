----------------------------- MODULE MCMigrations -----------------------------
(* Small instances of Migrations for TLC: releases with up to three versions, *)
(* one with a file changed after its release and one with a gap.              *)
EXTENDS Migrations, TLC

CONSTANTS u1, u2, web, a, b, b2, c

Contents(files) == [i \in DOMAIN files |-> [version |-> i, content |-> files[i]]]

AllReleases == {<<a>>, <<a, b>>, <<a, b2>>, <<a, b, c>>, (1 :> a) @@ (3 :> c)}

Database(executed, damaged, rows) ==
  [schema |-> executed, broken |-> damaged, recorded |-> rows]

\* Empty, bootstrapped, migrated, damaged, and restored without its record.
AllDatabases ==
  {Database(<<>>, FALSE, <<>>), Database(Contents(<<a>>), FALSE, <<>>),
   Database(Contents(<<a>>), FALSE, <<a>>), Database(<<>>, TRUE, <<>>),
   Database(Contents(<<a, b>>), FALSE, <<>>)}

Symmetry == Permutations(Runner)
===============================================================================
