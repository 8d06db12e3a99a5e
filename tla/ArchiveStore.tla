---------------------------- MODULE ArchiveStore ----------------------------
(***************************************************************************)
(* What the loaders and writers promise, whatever the format: a file that  *)
(* was written and not damaged gives the archive it was written from; a    *)
(* file that is known to be incomplete gives an error; and a load that     *)
(* fails leaves nothing in the archive but what was there, or entries of   *)
(* the file at their own places.                                           *)
(***************************************************************************)
EXTENDS Integers, Sequences

CONSTANT Null

VARIABLES
  archive,  \* the archive of the client
  stored,   \* the archive the file was written from
  seal,     \* of the file: "whole"; "torn", "bad" if what is left of it is
            \* not as it was; or "loose" if a load cannot tell
  base,     \* entries that stay in front of those of the file
  busy,     \* a load runs
  pal,      \* it was given a palette
  code      \* what the last call returned

svars == <<archive, stored, seal, base, busy, pal, code>>

Seals    == {"whole", "torn", "bad", "loose"}
Faithful == seal \in {"whole", "torn"}

(* Entries of a and, behind them, entries of b, as far as they are there.  *)
PartOf(x, a, b) ==
  /\ Len(x) >= Len(a) /\ Len(x) =< Len(a \o b)
  /\ \A i \in DOMAIN x : x[i] = (a \o b)[i] \/ (i > Len(a) /\ x[i] = Null)

Init == archive = <<>> /\ base = <<>> /\ ~busy /\ ~pal /\ code = "none" /\ seal \in Seals

Edit ==
  /\ ~busy
  /\ code' \in {"none", "threw"} /\ (code' = "threw" => archive' = archive)
  /\ UNCHANGED <<stored, seal, base, busy, pal>>

(* A write that fails before the file is opened leaves the file. *)
Store ==
  /\ ~busy
  /\ \/ stored' = archive /\ seal' \in Seals /\ (code' # "NONE" => seal' # "whole")
     \/ code' # "NONE" /\ UNCHANGED <<stored, seal>>
  /\ UNCHANGED <<archive, base, busy, pal>>

Tear ==
  /\ ~busy
  /\ seal' \in Seals \ {"whole"} /\ code' = "none"
  /\ UNCHANGED <<archive, stored, base, busy, pal>>

Begin ==
  /\ ~busy /\ busy' /\ code' = "none"
  /\ base' \in {<<>>, archive}
  /\ Faithful => archive' = archive \/ PartOf(archive', base', stored)
  /\ UNCHANGED <<stored, seal>>

Part ==
  /\ busy
  /\ Faithful => archive' = archive \/ PartOf(archive', base, stored)
  /\ UNCHANGED <<stored, seal, base, busy, pal, code>>

Succeed ==
  /\ busy /\ ~busy' /\ ~pal' /\ code' = "NONE"
  /\ seal \in {"whole", "loose"}
  /\ seal = "whole" => archive' = base \o stored
  /\ base' = <<>> /\ UNCHANGED <<stored, seal>>

(* A load may fail before it has begun, or later; that of a whole file     *)
(* fails only if it needs a palette.                                       *)
Fail ==
  /\ ~busy' /\ ~pal' /\ code' # "NONE" /\ base' = <<>>
  /\ seal = "whole" => ~pal /\ code' = "PALETTE_MISSING"
  /\ UNCHANGED <<archive, stored, seal>>

Next == Edit \/ Store \/ Tear \/ Begin \/ Part \/ Succeed \/ Fail

Spec == Init /\ [][Next]_svars
===============================================================================
