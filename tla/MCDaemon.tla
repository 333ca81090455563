------------------------------ MODULE MCDaemon -------------------------------
(***************************************************************************)
(* Instances of Daemon: two bootstrap peers, files that end at and beyond  *)
(* a chunk boundary, and DNS packets, whole and broken.                    *)
(***************************************************************************)
EXTENDS Daemon, SequencesExt

CONSTANTS b1, b2

MCBoot == <<b1, b2>>

MCFiles == {<<>>, <<1, 2, 3>>, <<1, 2, 3, 4>>}

\* Names of up to 3 bytes; byte 2 is the capital of byte 1, and 192 starts a
\* compression pointer.  Rests of questions of type A, AAAA and MX.
MCBodies ==
  {n \o t : n \in BoundedSeq({0, 1, 2, 192}, 3),
            t \in {<<>>, <<0, 1, 0>>, <<0, 1, 0, 1>>, <<0, 28, 0, 1>>, <<0, 2, 0, 1, 0>>}}

MCPackets ==
  {[qdcount |-> -1, body |-> <<>>], [qdcount |-> 0, body |-> <<0, 0, 1, 0, 1>>]}
  \cup {[qdcount |-> 1, body |-> b] : b \in MCBodies}

MCLower(b) == IF b = 2 THEN 1 ELSE b

MCTLD == <<1>>

MCConfigurations ==
  {{"keys"}, {"maintenance", "bootstrap"}, {"maintenance", "relay"}, {"gateway"}, {"dns"}}

MCJoining == {{"maintenance", "bootstrap"}}
MCQuitting == {{"maintenance", "relay"}}
MCServing == {{"gateway"}}
=============================================================================
