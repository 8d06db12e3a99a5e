------------------------------- MODULE Archive -------------------------------
(***************************************************************************)
(* An archive, a sequence of items and empty entries, one file on disk and *)
(* the call that runs.  Clients change the archive; the modules of the     *)
(* file formats write it to the file and load it, one step per entry.      *)
(***************************************************************************)
EXTENDS Integers, Sequences, SequencesExt

CONSTANTS
  Null,      \* an empty entry
  MaxItems   \* bound: clients make no longer archive

VARIABLES
  client,  \* what kind of items its client has
  archive,
  disk,  \* [fmt, toks, idx, len, ilen, holds, seal]: the format, what was
         \* written and how much of it is left (of the index file too), the
         \* archive it holds, and whether a load must give that archive
         \* ("whole"), must fail after a part of it ("torn") or with
         \* anything ("bad"), or may do as it likes ("loose")
  io,    \* the load that runs: [op, pos, i, pal, part, base], or Idle
  ret    \* what the last call returned: [op, code]

avars == <<client, archive, disk, io, ret>>

File(fmt, toks, idx, holds, seal) ==
  [fmt |-> fmt, toks |-> toks, idx |-> idx, len |-> Len(toks), ilen |-> Len(idx),
   holds |-> holds, seal |-> seal]

(* The seal of a file that has lost what a load needs. *)
Broken(seal) == IF seal \in {"whole", "torn"} THEN "torn" ELSE "bad"

(* base: the entries that were there before and stay. *)
Job(op, pos, i, pal, base) ==
  [op |-> op, pos |-> pos, i |-> i, pal |-> pal, part |-> Null, base |-> base]

Idle  == Job("idle", 0, 0, FALSE, <<>>)
NoRet == [op |-> "none", code |-> "none"]

(* An empty file cannot be mapped to memory. *)
Opens == io = Idle /\ disk.len > 0

Is(pos, t) == pos =< disk.len /\ disk.toks[pos].t = t
AtEnd(pos) == pos > disk.len

(* A byte of a text; two of them mark an archive of texts (0xFDE7). *)
Char(c) == [t |-> "c", v |-> c]
Chars(s) == [i \in DOMAIN s |-> Char(s[i])]
Mark     == Chars(<<231, 253>>)
HasMark  == disk.len >= 2 /\ SubSeq(disk.toks, 1, 2) = Mark

Nulls(n) == [i \in 1..n |-> Null]

(* operator[] of an archive *)
Get(n) == IF n \in DOMAIN archive THEN archive[n] ELSE Null

-------------------------------------------------------------------------------
(* How a call begins, goes on and returns *)

Begins(a, job) == io = Idle /\ archive' = a /\ io' = job /\ ret' = NoRet /\ UNCHANGED <<client, disk>>

(* Bound: a load that adds to the archive finds it not too long. *)
HasRoom == Len(archive) < MaxItems

Goes(a, job) == archive' = a /\ io' = job /\ UNCHANGED <<client, disk, ret>>

Returns(a, code) ==
  /\ archive' = a /\ io' = Idle /\ ret' = [op |-> io.op, code |-> code]
  /\ UNCHANGED <<client, disk>>

Fails(codes) == \E c \in codes : Returns(archive, c)

OpenFails ==
  /\ io = Idle /\ disk.fmt \notin {"none", "anims"} /\ disk.len = 0
  /\ Fails({"FILE_NOT_ACCESSIBLE"})

Writes(f, code) ==
  io = Idle /\ disk' = f /\ ret' = [op |-> "write", code |-> code] /\ UNCHANGED <<client, archive, io>>

-------------------------------------------------------------------------------
(* push, set, release, alloc, alloc_inc, clear *)

Calls(a, code) ==
  /\ io = Idle /\ Len(a) =< MaxItems
  /\ archive' = a /\ ret' = [op |-> "edit", code |-> code] /\ UNCHANGED <<client, disk, io>>

Push(x) == Calls(Append(archive, x), "none")

Set(n, x) ==
  IF n > Len(archive) THEN Calls(archive, "threw")
  ELSE Calls([archive EXCEPT ![n] = x], "none")

(* The entry stays, empty. *)
Release(n) == Calls(IF n > Len(archive) THEN archive ELSE [archive EXCEPT ![n] = Null], "none")

Alloc(n)    == Calls(Nulls(n), "none")
AllocInc(n) == Calls(archive \o Nulls(n), "none")

(* The end of a file is lost; seal is what that makes of it. *)
Tears(f, seal) ==
  /\ io = Idle
  /\ disk' = [f EXCEPT !.seal = seal]
  /\ ret' = NoRet /\ UNCHANGED <<client, archive, io>>

ArchiveInit == archive = <<>> /\ io = Idle /\ ret = NoRet

ArchiveEdit(items) ==
  \/ \E x \in items : Push(x)
  \/ \E n \in 1..(MaxItems + 1), x \in items : Set(n, x)
  \/ \E n \in 1..(MaxItems + 1) : Release(n)
  \/ \E n \in 0..MaxItems : Alloc(n)
  \/ AllocInc(1)
===============================================================================
