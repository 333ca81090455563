------------------------------ MODULE MCLookup ------------------------------
(* TLC instances of Lookup. *)
EXTENDS Lookup

\* Every live node but node 1 knows a live one closer to the target; the dead know
\* nobody.
Progressive ==
  {f \in [Contacts -> SUBSET Contacts] :
     \A c \in Contacts : IF c \in Dead THEN f[c] = {}
                      ELSE c \notin f[c] /\ (c > 1 => \E d \in f[c] \ Dead : d < c)}

\* Nobody knows anybody.
Isolated == {[c \in Contacts |-> {}]}

\* What the proof of convergence assumes holds in the networks it is checked on.
ASSUME NetworksAssumption == Networks = Isolated \/ ProgressiveNetworks
=============================================================================
