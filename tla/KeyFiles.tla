------------------------------ MODULE KeyFiles -------------------------------
(***************************************************************************)
(* The keys a node keeps on disk: its identity (core/crypto/identity.go)   *)
(* and the local certificate authority of the HTTPS gateway                *)
(* (apps/altca/altca.go), loaded or created when the daemon starts         *)
(* (cli/main.go).  os.WriteFile truncates a file before it writes it, and  *)
(* the process may die at any point and be started again.                  *)
(***************************************************************************)
EXTENDS Integers

CONSTANT MaxKeys   \* bound: how many key pairs are ever generated

ASSUME KeysAssumption == MaxKeys \in Nat

Missing == 0
Torn == -1
Good(content) == content \notin {Missing, Torn}

VARIABLES
  disk,      \* what every file holds: nothing, a torn write, or a key pair by number
  proc,      \* "down", "identity", "ca", "up", "import" or "refused" (exit 1)
  writing,   \* the file that is to be written next, or "none"
  opened,    \* it has been truncated
  ident,     \* the identity in memory
  caCert,    \* the CA certificate in memory
  caKey,     \* the CA key in memory
  keys,      \* how many key pairs have been generated
  owner,     \* history: the identity that was created or imported last
  derTorn    \* history: the missing DER copy could not be written

KeyFile == "peer.key"
FileNames == {KeyFile, "crt", "cer", "key"}

memVars == <<ident, caCert, caKey>>
keyVars == <<disk, proc, writing, opened, memVars, keys, owner, derTorn>>

\* A fresh machine, or an install from before the DER copy was written (pair 1 is
\* the CA's, 2 the identity).
KeysInit ==
  /\ \/ disk = [f \in FileNames |-> Missing] /\ keys = 0 /\ owner = Missing
     \/ /\ disk = [f \in FileNames |-> IF f = KeyFile THEN 2 ELSE IF f = "cer" THEN Missing ELSE 1]
        /\ keys = 2 /\ owner = 2
  /\ proc = "down" /\ writing = "none" /\ opened = FALSE
  /\ ident = Missing /\ caCert = Missing /\ caKey = Missing
  /\ derTorn = FALSE

Start ==
  /\ proc = "down"
  /\ proc' = "identity"
  /\ UNCHANGED <<disk, writing, opened, memVars, keys, owner, derTorn>>

\* crypto.LoadOrCreate: a file that is there must parse.
LoadIdentity ==
  /\ proc = "identity" /\ writing = "none"
  /\ \/ /\ Good(disk[KeyFile])
        /\ ident' = disk[KeyFile] /\ proc' = "ca"
        /\ UNCHANGED <<writing, keys>>
     \/ /\ disk[KeyFile] = Torn
        /\ proc' = "refused"
        /\ UNCHANGED <<ident, writing, keys>>
     \/ /\ disk[KeyFile] = Missing /\ keys < MaxKeys
        /\ keys' = keys + 1 /\ ident' = keys + 1
        /\ writing' = KeyFile
        /\ UNCHANGED proc
  /\ UNCHANGED <<disk, opened, caCert, caKey, owner, derTorn>>

\* -import-key, in a process of its own.
Import ==
  /\ proc \in {"down", "refused"} /\ keys < MaxKeys
  /\ proc' = "import"
  /\ keys' = keys + 1 /\ ident' = keys + 1
  /\ writing' = KeyFile
  /\ UNCHANGED <<disk, opened, caCert, caKey, owner, derTorn>>

\* parseCA: both files parse; that they belong together is not tested.
PairParses == Good(disk["crt"]) /\ Good(disk["key"])

\* altca.LoadOrCreate: a pair that parses is used, and its DER copy written if there
\* is none; otherwise generate makes a new pair.
LoadCA ==
  /\ proc = "ca" /\ writing = "none"
  /\ \/ /\ PairParses
        /\ caCert' = disk["crt"] /\ caKey' = disk["key"]
        /\ IF disk["cer"] = Missing
           THEN writing' = "der" /\ UNCHANGED proc
           ELSE proc' = "up" /\ UNCHANGED writing
        /\ UNCHANGED keys
     \/ /\ ~PairParses /\ keys < MaxKeys
        /\ keys' = keys + 1
        /\ caCert' = keys + 1 /\ caKey' = keys + 1
        /\ writing' = "crt"
        /\ UNCHANGED proc
  /\ UNCHANGED <<disk, opened, ident, owner, derTorn>>

OnDisk(f) == IF f = "der" THEN "cer" ELSE f

\* os.WriteFile: open and truncate,
OpenFile ==
  /\ writing # "none" /\ ~opened
  /\ disk' = [disk EXCEPT ![OnDisk(writing)] = Torn]
  /\ opened' = TRUE
  /\ UNCHANGED <<proc, writing, memVars, keys, owner, derTorn>>

\* generate: certificate, DER copy, key.
NextFile(f) ==
  CASE f = "crt" -> "cer" [] f = "cer" -> "key" [] OTHER -> "none"

\* and write.  The last file of a step ends it.
WriteFile ==
  /\ writing # "none" /\ opened
  /\ disk' = [disk EXCEPT ![OnDisk(writing)] =
                CASE writing = KeyFile -> ident [] writing = "key" -> caKey [] OTHER -> caCert]
  /\ opened' = FALSE
  /\ writing' = NextFile(writing)
  /\ owner' = IF writing = KeyFile THEN ident ELSE owner
  /\ proc' = CASE proc = "import" -> "down"
               [] proc = "identity" -> "ca"
               [] proc = "ca" /\ NextFile(writing) = "none" -> "up"
               [] OTHER -> proc
  /\ UNCHANGED <<memVars, keys, derTorn>>

\* A DER copy that cannot be added to an old install is given up.
CopyFails ==
  /\ writing = "der"
  /\ proc' = "up" /\ writing' = "none" /\ opened' = FALSE
  /\ derTorn' = TRUE
  /\ UNCHANGED <<disk, memVars, keys, owner>>

\* The process dies, or another write fails and it exits.
Crash ==
  /\ proc \in {"identity", "ca", "up", "import"}
  /\ proc' = "down" /\ writing' = "none" /\ opened' = FALSE
  /\ ident' = Missing /\ caCert' = Missing /\ caKey' = Missing
  /\ derTorn' = (derTorn \/ (writing = "der" /\ opened))
  /\ UNCHANGED <<disk, keys, owner>>

KeysNext ==
  Start \/ LoadIdentity \/ Import \/ LoadCA \/ OpenFile \/ WriteFile \/ CopyFails \/ Crash

KeysSpec == KeysInit /\ [][KeysNext]_keyVars
-----------------------------------------------------------------------------
\* What makes the pair on disk safe to use untested: two files that parse come from
\* one generation, for the certificate is written first and the key last, so
\* that a key that parses has its certificate, and neither is written after that.
FilesOrdered ==
  /\ keys \in Nat
  /\ disk \in [FileNames -> Nat \cup {Torn}]
  /\ proc \in {"down", "identity", "ca", "up", "import", "refused"}
  /\ writing \in {"none", KeyFile, "crt", "cer", "key", "der"}
  /\ ident \in Nat /\ caCert \in Nat /\ caKey \in Nat /\ owner \in Nat
  /\ Good(disk[KeyFile]) => disk[KeyFile] = owner
  /\ PairParses =>
       /\ disk["crt"] = disk["key"]
       /\ \/ disk["cer"] = disk["crt"] \/ disk["cer"] = Missing
          \/ derTorn \/ (writing = "der" /\ opened)
  /\ writing = "none" => ~opened
  /\ writing = KeyFile => proc \in {"identity", "import"} /\ ident # Missing
  /\ writing \in {"crt", "cer", "key", "der"} =>
       proc = "ca" /\ caCert = caKey /\ caCert # Missing
  /\ Good(disk["key"]) => PairParses
  /\ writing \in {"crt", "cer", "key"} => ~Good(disk["key"])
  /\ writing \in {"cer", "key"} => disk["crt"] = caCert
  /\ writing = "key" => disk["cer"] = caCert
  /\ writing = "der" => PairParses /\ disk["crt"] = caCert
  /\ writing # "none" /\ opened => disk[OnDisk(writing)] = Torn
  /\ proc \in {"ca", "up"} => ident = owner /\ disk[KeyFile] = owner
  /\ proc = "up" =>
       /\ writing = "none"
       /\ PairParses /\ caCert = disk["crt"] /\ caKey = disk["key"]
       /\ disk["cer"] = caCert \/ derTorn

\* Shapes, and the order of the files.
KeysInv == opened \in BOOLEAN /\ derTorn \in BOOLEAN /\ FilesOrdered

\* Whenever and however often the process died before, a daemon that is up runs
\* under the identity that was created or imported last, and its CA signs with the
\* key of the certificate it presents and that the DER copy for the trust store
\* holds, unless adding that copy to an old install failed.
KeysAgree ==
  proc = "up" => /\ ident = owner
                 /\ caCert = caKey
                 /\ disk["cer"] = caCert \/ derTorn

\* A daemon that is started again comes up: violated when the first start dies
\* while it writes the identity.
StartsAgain == proc # "refused"
=============================================================================
