---------------------------- MODULE MCStoreDisk -----------------------------
(* TLC instances of StoreDisk.  Values are short byte strings over two       *)
(* symbols, so that a mixture of two values is a value too.                  *)
EXTENDS StoreDisk

Bytes2 == UNION {[1..n -> {"a", "b"}] : n \in 0..2}
MCSize == [v \in Bytes2 |-> Len(v)]

CONSTANT Chunk   \* the content-addressed key

\* A name record has a short and a long version, a chunk one value.
MCAllowed == [k \in Keys |-> IF k = Chunk THEN {<<"a">>} ELSE {<<"a">>, <<"b", "b">>}]

DiskSymmetry == Permutations(Threads)
=============================================================================
