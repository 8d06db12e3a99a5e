------------------------------ MODULE FilesProofs ------------------------------
(***************************************************************************)
(* Proofs about Load and Write of texts, bobs, BMP and LBM pictures,       *)
(* palette animations and INI files: FInv holds in all reachable states    *)
(* and gives TextsStayApart, FiguresComplete, BmpShowsSame, LbmShowsSame,  *)
(* AnimsAtPlace and LastValueStands.  A file holds what it should          *)
(* (FileOK), whether it was found or written; a load knows what it has     *)
(* read of it (TextOK, BobOK, BmpOK, LbmOK, AnimsOK, IniOK).               *)
(***************************************************************************)
EXTENDS Files, NatSetLemmas, SequenceTheorems, FiniteSetTheorems, TLAPS

-------------------------------------------------------------------------------
(* Numbers *)

(* What a number is made of by division. *)
LEMMA Divided ==
  ASSUME NEW n \in Nat, NEW d \in Nat \ {0}
  PROVE  n \div d \in Nat /\ n % d \in 0..(d - 1) /\ n = (n \div d) * d + (n % d)
OBVIOUS

(* A product with a number above 0 is not below the other factor. *)
LEMMA TimesGrows ==
  ASSUME NEW a \in Nat, NEW b \in Nat, NEW d \in Nat, a =< b
  PROVE  a * d \in Nat /\ a * d =< b * d
<1>1. PICK c \in Nat : b = a + c
  OBVIOUS
<1>2. b * d = a * d + c * d /\ c * d \in Nat /\ a * d \in Nat
  BY <1>1
<1> QED BY <1>2

(* There is one way to divide. *)
LEMMA DividedOnce ==
  ASSUME NEW d \in Nat \ {0}, NEW q \in Nat, NEW r \in 0..(d - 1)
  PROVE  (q * d + r) \div d = q /\ (q * d + r) % d = r
<1> DEFINE n == q * d + r
<1>1. q * d \in Nat
  OBVIOUS
<1>2. n \in Nat
  BY <1>1
<1> HIDE DEF n
<1>3. n \div d \in Nat /\ n % d \in 0..(d - 1) /\ n = (n \div d) * d + (n % d)
  BY <1>2, Divided
<1>4. PICK u \in Nat, s \in 0..(d - 1) : u = n \div d /\ s = n % d
  BY <1>3
<1>5. u * d + s = q * d + r /\ u * d \in Nat
  BY <1>3, <1>4 DEF n
<1>6. ~(u < q)
  <2> SUFFICES ASSUME u < q PROVE FALSE
    OBVIOUS
  <2>1. (u + 1) * d =< q * d
    BY TimesGrows
  <2>2. (u + 1) * d = u * d + d
    OBVIOUS
  <2> QED BY <1>1, <1>5, <2>1, <2>2
<1>7. ~(q < u)
  <2> SUFFICES ASSUME q < u PROVE FALSE
    OBVIOUS
  <2>1. (q + 1) * d =< u * d
    BY TimesGrows
  <2>2. (q + 1) * d = q * d + d
    OBVIOUS
  <2> QED BY <1>1, <1>5, <2>1, <2>2
<1>8. u = q
  BY <1>6, <1>7
<1> QED BY <1>1, <1>4, <1>5, <1>8 DEF n

(* Two digits make a number. *)
LEMMA TwoDigits ==
  ASSUME NEW n \in Nat, NEW d \in Nat \ {0}, NEW h \in 0..(n - 1), NEW r \in 0..(d - 1)
  PROVE  h * d + r \in 0..(n * d - 1)
<1>1. h * d \in Nat /\ (h + 1) * d =< n * d /\ n * d \in Nat
  BY TimesGrows
<1>2. (h + 1) * d = h * d + d
  OBVIOUS
<1> QED BY <1>1, <1>2

(* A number below n * d has a digit of base d, and one below n. *)
LEMMA TwoDigitsOf ==
  ASSUME NEW n \in Nat, NEW d \in Nat \ {0}, NEW k \in 0..(n * d - 1)
  PROVE  k \div d \in 0..(n - 1) /\ k % d \in 0..(d - 1) /\ k = (k \div d) * d + (k % d)
<1>0. n * d \in Nat /\ k \in Nat
  OBVIOUS
<1>1. k \div d \in Nat /\ k % d \in 0..(d - 1) /\ k = (k \div d) * d + (k % d)
  BY <1>0, Divided
<1>2. PICK u \in Nat, s \in 0..(d - 1) : u = k \div d /\ s = k % d /\ k = u * d + s
  BY <1>1
<1>3. ~(n =< u)
  <2> SUFFICES ASSUME n =< u PROVE FALSE
    OBVIOUS
  <2>1. n * d =< u * d /\ u * d \in Nat
    BY TimesGrows
  <2> QED BY <1>0, <1>2, <2>1
<1> QED BY <1>1, <1>2, <1>3

-------------------------------------------------------------------------------
(* The links of a bob *)

(* The bodies are a number, and what the links of a job are. *)
LEMMA BodiesAre == Bodies \in Nat \ {0} /\ Bodies = Steps * 2 * Dirs /\ Steps * 2 \in Nat \ {0}
<1>1. Dirs \in Nat \ {0} /\ Steps \in Nat \ {0}
  BY BobAssumption
<1>2. PICK d \in Nat, s \in Nat : Dirs = d + 1 /\ Steps = s + 1
  <2>1. Dirs - 1 \in Nat /\ Steps - 1 \in Nat /\ Dirs = Dirs - 1 + 1 /\ Steps = Steps - 1 + 1
    BY <1>1
  <2> QED BY <2>1
<1>3. 2 * (d + 1) * (s + 1) = 2 * (d * s) + 2 * d + 2 * s + 2 /\ d * s \in Nat
  OBVIOUS
<1>4. 2 * Dirs * Steps = Steps * 2 * Dirs
  BY <1>1
<1> QED BY <1>1, <1>2, <1>3, <1>4 DEF Bodies

(* The link of a job is one of its links, and goes in its direction. *)
LEMMA LinkOfJob ==
  ASSUME NEW jobs \in Nat, NEW job \in 0..(jobs - 1), NEW fat \in {0, 1},
         NEW dir \in 0..(Dirs - 1), NEW step \in 0..(Steps - 1)
  PROVE  LinkOf(job, fat, dir, step) \in 0..(jobs * Bodies - 1) /\ LinkOf(job, fat, dir, step) % Dirs = dir
<1>1. Dirs \in Nat \ {0} /\ Steps \in Nat \ {0}
  BY BobAssumption
<1>2. PICK a \in 0..(jobs * Steps - 1) : a = job * Steps + step
  BY <1>1, TwoDigits
<1>3. jobs * Steps \in Nat
  BY <1>1
<1>4. PICK b \in 0..(jobs * Steps * 2 - 1) : b = a * 2 + fat
  BY <1>3, TwoDigits
<1>5. jobs * Steps * 2 \in Nat
  BY <1>3
<1>6. b * Dirs + dir \in 0..(jobs * Steps * 2 * Dirs - 1)
  BY <1>1, <1>5, TwoDigits
<1>7. (b * Dirs + dir) % Dirs = dir
  BY <1>1, <1>5, DividedOnce
<1>8. jobs * Steps * 2 * Dirs = jobs * Bodies
  <2>1. jobs * Steps * 2 * Dirs = jobs * (Steps * 2 * Dirs)
    BY <1>1
  <2> QED BY <2>1, BodiesAre
<1> QED BY <1>2, <1>4, <1>6, <1>7, <1>8 DEF LinkOf

(* Every link of a job is for some build, direction and step of it. *)
LEMMA LinkIsOfJob ==
  ASSUME NEW jobs \in Nat, NEW k \in 0..(jobs * Bodies - 1)
  PROVE  \E job \in 0..(jobs - 1), fat \in {0, 1}, step \in 0..(Steps - 1) :
           k % Dirs \in 0..(Dirs - 1) /\ k = LinkOf(job, fat, k % Dirs, step)
<1>1. Dirs \in Nat \ {0} /\ Steps \in Nat \ {0}
  BY BobAssumption
<1>2. jobs * Bodies = jobs * Steps * 2 * Dirs /\ jobs * Steps \in Nat /\ jobs * Steps * 2 \in Nat
  <2>1. jobs * Steps * 2 * Dirs = jobs * (Steps * 2 * Dirs)
    BY <1>1
  <2> QED BY <1>1, <2>1, BodiesAre
<1>3. k \in 0..(jobs * Steps * 2 * Dirs - 1)
  BY <1>2
<1>4. PICK b \in 0..(jobs * Steps * 2 - 1) : k = b * Dirs + (k % Dirs) /\ k % Dirs \in 0..(Dirs - 1)
  <2>1. PICK n \in Nat : n = jobs * Steps * 2
    BY <1>2
  <2>2. k \in 0..(n * Dirs - 1)
    BY <1>3, <2>1
  <2>3. k \div Dirs \in 0..(n - 1) /\ k % Dirs \in 0..(Dirs - 1) /\ k = (k \div Dirs) * Dirs + (k % Dirs)
    BY <1>1, <2>2, TwoDigitsOf
  <2> QED BY <2>1, <2>3
<1>5. PICK a \in 0..(jobs * Steps - 1), fat \in 0..1 : b = a * 2 + fat
  BY <1>2, <1>4, TwoDigitsOf
<1>6. PICK job \in 0..(jobs - 1), step \in 0..(Steps - 1) : a = job * Steps + step
  <2>1. a \div Steps \in 0..(jobs - 1) /\ a % Steps \in 0..(Steps - 1) /\ a = (a \div Steps) * Steps + (a % Steps)
    BY <1>1, TwoDigitsOf
  <2> QED BY <2>1
<1>7. k = LinkOf(job, fat, k % Dirs, step)
  <2>1. PICK dir \in 0..(Dirs - 1) : dir = k % Dirs
    BY <1>4
  <2>2. k = ((job * Steps + step) * 2 + fat) * Dirs + dir
    BY <1>4, <1>5, <1>6, <2>1
  <2> QED BY <2>1, <2>2 DEF LinkOf
<1>8. fat \in {0, 1}
  OBVIOUS
<1> QED BY <1>4, <1>6, <1>7, <1>8

-------------------------------------------------------------------------------
(* Calls and loads, whatever the format *)

Fields(x) == x = [op |-> x.op, pos |-> x.pos, i |-> x.i, pal |-> x.pal, part |-> x.part, base |-> x.base]

IsSeq(s) == \E S : s \in Seq(S)

(* While a load runs, nothing was returned. *)
Calm ==
  /\ Fields(io) /\ (io.op = "idle" => io = Idle)
  /\ io # Idle => ret = NoRet
  /\ IsSeq(archive)

(* A call that loads nothing, and one that begins to load. *)
Called(ops) ==
  /\ io = Idle /\ io' = Idle /\ ret'.op \in ops /\ client' = client

Started(ops) ==
  /\ io = Idle /\ Fields(io') /\ io'.op \in ops /\ ret' = NoRet /\ disk' = disk /\ client' = client

(* A step of a load. *)
Stepped(op) ==
  /\ io.op = op /\ disk' = disk /\ client' = client
  /\ \/ Fields(io') /\ io'.op = op /\ io'.base = io.base /\ ret' = ret
     \/ io' = Idle /\ ret'.op = op

(* What Idle and NoRet are. *)
LEMMA IdleIsIdle == Fields(Idle) /\ Idle.op = "idle" /\ NoRet.op = "none"
BY DEF Fields, Idle, Job, NoRet

(* What the steps make of an archive is an archive. *)
LEMMA SeqGrows ==
  ASSUME NEW s, NEW r, IsSeq(s), IsSeq(r), NEW x, NEW n
  PROVE  IsSeq(Append(s, x)) /\ IsSeq(s \o r) /\ IsSeq(<<x>>) /\ IsSeq(<<>>) /\ IsSeq([s EXCEPT ![n] = x])
<1>1. PICK S : s \in Seq(S)
  BY DEF IsSeq
<1>2. PICK T : r \in Seq(T)
  BY DEF IsSeq
<1>3. Append(s, x) \in Seq(S \union {x}) /\ <<x>> \in Seq({x}) /\ <<>> \in Seq({x})
  BY <1>1
<1>4. s \o r \in Seq(S \union T)
  <2>1. s \in Seq(S \union T) /\ r \in Seq(S \union T)
    BY <1>1, <1>2
  <2> QED BY <2>1
<1>5. [s EXCEPT ![n] = x] \in Seq(S \union {x})
  <2>1. s \in [1..Len(s) -> S \union {x}] /\ Len(s) \in Nat
    BY <1>1
  <2>2. [s EXCEPT ![n] = x] \in [1..Len(s) -> S \union {x}]
    BY <2>1
  <2> QED BY <2>1, <2>2
<1> QED BY <1>3, <1>4, <1>5 DEF IsSeq

(* alloc makes an archive of as many entries. *)
LEMMA NullsAreSeq == ASSUME NEW n \in Nat PROVE IsSeq(Nulls(n)) /\ Len(Nulls(n)) = n
<1>1. Nulls(n) \in Seq({Null}) /\ Len(Nulls(n)) = n
  BY DEF Nulls
<1> QED BY <1>1 DEF IsSeq

(* How Begins, Goes, Returns and Writes show. *)
LEMMA BeginsIs ==
  ASSUME NEW a, NEW job, Begins(a, job), Fields(job), NEW ops, job.op \in ops
  PROVE  Started(ops) /\ archive' = a
BY DEF Begins, Started

(* A call that fails changes no archive and no file. *)
LEMMA FailsIs ==
  ASSUME NEW codes, Fails(codes), Calm
  PROVE  /\ archive' = archive /\ disk' = disk
         /\ io = Idle => Called({"idle"})
         /\ io # Idle => Stepped(io.op)
<1>1. archive' = archive /\ disk' = disk /\ client' = client /\ io' = Idle /\ ret'.op = io.op
  BY DEF Fails, Returns
<1> QED BY <1>1, IdleIsIdle DEF Called, Stepped

(* A load that returns. *)
LEMMA ReturnsIs ==
  ASSUME NEW a, NEW code, Returns(a, code)
  PROVE  Stepped(io.op) /\ archive' = a
BY DEF Returns, Stepped

(* A load that goes on. *)
LEMMA GoesIs ==
  ASSUME NEW a, NEW job, Goes(a, job), Fields(job), job.op = io.op, job.base = io.base
  PROVE  Stepped(io.op) /\ archive' = a
BY DEF Goes, Stepped

-------------------------------------------------------------------------------
(* The loads that the theorems are not about *)

Others == {"lst", "dat", "idx", "snd", "act", "bbm"}

(* An entry of a list that was loaded. *)
LEMMA EntryDoneIs ==
  ASSUME Calm, io.op \in {"lst", "dat", "idx"}, NEW x, NEW pos, EntryDone(x, pos)
  PROVE  Stepped(io.op) /\ IsSeq(archive')
<1>1. IsSeq(Place(x))
  BY SeqGrows DEF Calm, Place
<1> QED BY <1>1 DEF EntryDone, Goes, Stepped, Fields, Calm

(* An entry of a list that could not be loaded. *)
LEMMA EntryFailsIs ==
  ASSUME Calm, io.op \in {"lst", "dat", "idx"}, NEW codes, EntryFails(codes)
  PROVE  Stepped(io.op) /\ IsSeq(archive')
<1>1. IsSeq(<<Sound("file")>>) /\ IsSeq(archive)
  BY SeqGrows DEF Calm
<1> QED BY <1>1 DEF EntryFails, Returns, Stepped

(* An entry of a list, whatever its type. *)
LEMMA LoadKindIs ==
  ASSUME Calm, io.op \in {"lst", "dat", "idx"}, NEW pos, LoadKind(pos)
  PROVE  Stepped(io.op) /\ IsSeq(archive')
<1>1. CASE KindAt(pos) = "font"
  <2>1. LoadFontHead(pos)
    BY <1>1 DEF LoadKind
  <2>2. CASE \E codes : EntryFails(codes)
    BY <2>2, EntryFailsIs
  <2>3. CASE Goes(archive, [io EXCEPT !.part = [font |-> FontAt(pos + 1).font, at |-> FirstGlyph],
                                      !.pos = FontAt(pos + 1).pos])
    BY <2>3 DEF Goes, Stepped, Fields, Calm
  <2> QED BY <2>1, <2>2, <2>3 DEF LoadFontHead
<1>2. CASE KindAt(pos) # "font"
  BY <1>2, EntryDoneIs, EntryFailsIs DEF LoadKind, LoadItem
<1> QED BY <1>1, <1>2

(* A step of a load of an LST or DAT archive is one of its own only. *)
LEMMA ListSteps == ASSUME Calm, ListStep PROVE \E op \in Others : Stepped(op) /\ IsSeq(archive')
<1>1. CASE LoadListEntry
  <2>1. io.op \in {"lst", "dat", "idx"}
    BY <1>1 DEF LoadListEntry
  <2> QED BY <1>1, <2>1, EntryDoneIs, EntryFailsIs, LoadKindIs DEF LoadListEntry, Others
<1>2. CASE LoadGlyph
  <2>1. io.op \in {"lst", "dat", "idx"}
    BY <1>2 DEF LoadGlyph, LoadingFont
  <2>2. CASE \E codes : EntryFails(codes)
    BY <2>1, <2>2, EntryFailsIs DEF Others
  <2>3. CASE \E pos, part : Goes(archive, [io EXCEPT !.pos = pos, !.part = part])
    BY <2>1, <2>3 DEF Goes, Stepped, Fields, Calm, Others
  <2>4. (\E codes : EntryFails(codes)) \/ \E pos, part : Goes(archive, [io EXCEPT !.pos = pos, !.part = part])
    BY <1>2 DEF LoadGlyph
  <2> QED BY <2>2, <2>3, <2>4
<1>3. CASE LoadFontEnd
  <2>1. io.op \in {"lst", "dat", "idx"}
    BY <1>3 DEF LoadFontEnd, LoadingFont
  <2> QED BY <1>3, <2>1, EntryDoneIs DEF LoadFontEnd, Others
<1>4. CASE LoadListEnd
  BY <1>4, ReturnsIs DEF LoadListEnd, Others, Calm
<1>5. CASE LoadSound
  <2>1. IsSeq(<<Sound("file")>>)
    BY SeqGrows DEF Calm
  <2> QED BY <1>5, <2>1, ReturnsIs DEF LoadSound, Others
<1>6. CASE LoadDatEntry
  <2>1. io.op \in {"lst", "dat", "idx"}
    BY <1>6 DEF LoadDatEntry, LoadingDat, LoadingList
  <2> QED BY <1>6, <2>1, EntryDoneIs, EntryFailsIs, LoadKindIs DEF LoadDatEntry, Others
<1>7. CASE LoadDatEnd
  BY <1>7, ReturnsIs DEF LoadDatEnd, LoadingDat, LoadingList, Others, Calm
<1> QED BY <1>1, <1>2, <1>3, <1>4, <1>5, <1>6, <1>7 DEF ListStep

(* So is one of ACT and BBM palettes. *)
LEMMA PaletteSteps ==
  ASSUME Calm, LoadActPalette \/ LoadBbmPalette \/ LoadBbmUnknown \/ LoadBbmEnd
  PROVE  \E op \in Others : Stepped(op) /\ IsSeq(archive')
<1>1. CASE LoadActPalette
  <2>1. PICK x : io.op = "act" /\ Returns(<<x>>, "NONE")
    BY <1>1 DEF LoadActPalette
  <2>2. IsSeq(<<x>>)
    BY SeqGrows DEF Calm
  <2> QED BY <2>1, <2>2, ReturnsIs DEF Others
<1>2. CASE LoadBbmPalette
  <2>1. io.op = "bbm"
    BY <1>2 DEF LoadBbmPalette
  <2>2. (\E codes : Fails(codes)) \/ \E x : Goes(Append(archive, x), [io EXCEPT !.pos = @ + 2])
    BY <1>2 DEF LoadBbmPalette
  <2>3. CASE \E codes : Fails(codes)
    BY <2>1, <2>3, FailsIs, IdleIsIdle DEF Calm, Others
  <2>4. ASSUME NEW x, Goes(Append(archive, x), [io EXCEPT !.pos = @ + 2])
        PROVE  \E op \in Others : Stepped(op) /\ IsSeq(archive')
    <3>1. IsSeq(Append(archive, x))
      BY SeqGrows DEF Calm
    <3> QED BY <2>1, <2>4, <3>1 DEF Goes, Stepped, Fields, Calm, Others
  <2> QED BY <2>2, <2>3, <2>4
<1>3. CASE LoadBbmUnknown
  BY <1>3 DEF LoadBbmUnknown, Goes, Stepped, Fields, Calm, Others
<1>4. CASE LoadBbmEnd
  BY <1>4, ReturnsIs DEF LoadBbmEnd, Others, Calm
<1> QED BY <1>1, <1>2, <1>3, <1>4

-------------------------------------------------------------------------------
(* The calls *)

(* A file is as it was found or written, but for its end. *)
FileOK ==
  /\ disk = [fmt |-> disk.fmt, toks |-> disk.toks, idx |-> disk.idx, len |-> disk.len, ilen |-> disk.ilen,
             holds |-> disk.holds, seal |-> disk.seal]
  /\ disk.fmt \in {"bob", "anims", "bmp", "lbm", "ini"} => Len(disk.toks) \in Nat /\ disk.len \in 0..Len(disk.toks)
  /\ disk.fmt \in {"lst", "ger", "txt"} => IsSeq(disk.toks) /\ disk.len \in 0..Len(disk.toks)
  /\ disk.fmt = "dat" => Len(disk.idx) \in Nat /\ disk.ilen \in 0..Len(disk.idx)
  /\ HoldsIt(disk)

(* push, set, release, alloc, alloc_inc and setValue change the archive only. *)
LEMMA EditCalls ==
  ASSUME Calm, ArchiveEdit(ItemsOf[client]) \/ (client = "ini" /\ SetValue)
  PROVE  Called({"edit"}) /\ disk' = disk /\ IsSeq(archive')
<1>1. ASSUME NEW a, NEW code, Calls(a, code), IsSeq(a)
      PROVE  Called({"edit"}) /\ disk' = disk /\ IsSeq(archive')
  BY <1>1 DEF Calls, Called
<1>2. \A x, n : IsSeq(Append(archive, x)) /\ IsSeq([archive EXCEPT ![n] = x])
  BY SeqGrows DEF Calm
<1>3. \A n \in Nat : IsSeq(Nulls(n)) /\ IsSeq(archive \o Nulls(n))
  BY NullsAreSeq, SeqGrows DEF Calm
<1>4. MaxItems \in Nat
  BY FilesAssumption
<1>5. ASSUME NEW x, Push(x) PROVE Called({"edit"}) /\ disk' = disk /\ IsSeq(archive')
  BY <1>1, <1>2, <1>5 DEF Push
<1>6. ASSUME NEW n, NEW x, Set(n, x) PROVE Called({"edit"}) /\ disk' = disk /\ IsSeq(archive')
  BY <1>1, <1>2, <1>6 DEF Set, Calm
<1>7. ASSUME NEW n, Release(n) PROVE Called({"edit"}) /\ disk' = disk /\ IsSeq(archive')
  <2>1. IsSeq(IF n > Len(archive) THEN archive ELSE [archive EXCEPT ![n] = Null])
    BY <1>2 DEF Calm
  <2> QED BY <1>1, <1>7, <2>1 DEF Release
<1>8. ASSUME NEW n \in 0..MaxItems, Alloc(n) PROVE Called({"edit"}) /\ disk' = disk /\ IsSeq(archive')
  BY <1>1, <1>3, <1>4, <1>8 DEF Alloc
<1>9. CASE AllocInc(1)
  BY <1>1, <1>3, <1>9 DEF AllocInc
<1>10. CASE SetValue
  <2>1. PICK n, x : Calls([archive EXCEPT ![n] = x], "none")
    BY <1>10 DEF SetValue
  <2> QED BY <1>1, <1>2, <2>1
<1> QED BY <1>5, <1>6, <1>7, <1>8, <1>9, <1>10 DEF ArchiveEdit

(* What the writers may do to the file. *)
LEMMA WriteCalls ==
  ASSUME Calm, FilesWrite
  PROVE  /\ Called({"write"}) /\ archive' = archive
         /\ \/ disk' = disk
            \/ \E fmt \in {"act", "bbm"} : \E toks, idx, holds, seal : disk' = File(fmt, toks, idx, holds, seal)
            \/ client = "list" /\ \E pal : WriteLST(pal)
            \/ client = "text" /\ \E fmt \in {"ger", "txt"} : WriteTXT(fmt, fmt # "txt")
            \/ WriteBMP
            \/ \E pal : WriteLBM(pal)
            \/ WritePaletteAnim
            \/ client = "ini" /\ WriteINI
<1> DEFINE Wrote == /\ Called({"write"}) /\ archive' = archive
                    /\ \/ disk' = disk
                       \/ \E fmt \in {"act", "bbm"} : \E toks, idx, holds, seal :
                            disk' = File(fmt, toks, idx, holds, seal)
<1>1. ASSUME NEW f, NEW code, Writes(f, code) PROVE Called({"write"}) /\ archive' = archive /\ disk' = f
  BY <1>1 DEF Writes, Called
<1>2. ASSUME NEW code, Writes(disk, code) PROVE Wrote
  BY <1>1, <1>2
<1>3. ASSUME NEW fmt \in {"act", "bbm"}, NEW toks, NEW idx, NEW holds, NEW seal,
             NEW code, Writes(File(fmt, toks, idx, holds, seal), code)
      PROVE  Wrote
  BY <1>1, <1>3
<1> HIDE DEF Wrote
<1>4. ASSUME NEW pal, WriteLST(pal) PROVE Called({"write"}) /\ archive' = archive
  <2>1. \E f, code : Writes(f, code)
    BY <1>4 DEF WriteLST
  <2> QED BY <1>1, <2>1
<1>5. ASSUME NEW fmt, NEW conv, WriteTXT(fmt, conv) PROVE Called({"write"}) /\ archive' = archive
  <2>1. \E f, code : Writes(f, code)
    BY <1>5 DEF WriteTXT
  <2> QED BY <1>1, <2>1
<1>6. ASSUME WriteACT PROVE Wrote
  <2>1. (\E code : Writes(disk, code)) \/ \E toks, seal : Writes(File("act", toks, <<>>, archive, seal), "NONE")
    BY <1>6 DEF WriteACT
  <2> QED BY <1>2, <1>3, <2>1
<1>7. ASSUME WriteBBM PROVE Wrote
  <2>1. \E toks, seal : Writes(File("bbm", toks, <<>>, archive, seal), "NONE")
    BY <1>7 DEF WriteBBM
  <2> QED BY <1>3, <2>1
<1>8. ASSUME NEW pal, WriteLBM(pal) PROVE Called({"write"}) /\ archive' = archive
  <2>1. \E f, code : Writes(f, code)
    <3>1. ASSUME NEW img, NEW p, LbmWritten(img, p) PROVE \E f, code : Writes(f, code)
      BY <3>1 DEF LbmWritten
    <3> QED BY <1>8, <3>1 DEF WriteLBM
  <2> QED BY <1>1, <2>1
<1>9. CASE client = "ini" /\ WriteINI
  <2>1. \E toks, seal, code : Writes(File("ini", toks, <<>>, archive, seal), code)
    BY <1>9 DEF WriteINI
  <2> QED BY <1>1, <1>9, <2>1
<1>10. CASE WriteBMP
  BY <1>1, <1>10 DEF WriteBMP
<1>11. CASE WritePaletteAnim
  BY <1>1, <1>11 DEF WritePaletteAnim
<1> QED BY <1>4, <1>5, <1>6, <1>7, <1>8, <1>9, <1>10, <1>11 DEF FilesWrite, Wrote

(* The calls that begin a load. *)
LEMMA LoadCalls ==
  ASSUME Calm, FileOK, FilesLoad
  PROVE  /\ disk' = disk /\ IsSeq(archive')
         /\ \/ Called({"idle"}) \/ Started(Others)
            \/ Started({"bob"}) /\ LoadBOB
            \/ Started({"bmp"}) /\ LoadBMP
            \/ Started({"lbm"}) /\ LoadLBM
            \/ Started({"anims"}) /\ LoadPaletteAnim
            \/ Started({"ini"}) /\ LoadINI
            \/ Started({"text"}) /\ \E conv \in BOOLEAN : LoadText(conv)
<1> DEFINE Loads(ops) == disk' = disk /\ IsSeq(archive') /\ (Called({"idle"}) \/ Started(ops))
<1>0. io = Idle /\ IsSeq(archive)
  BY DEF FilesLoad, OpenFails, LoadListRefused, LoadList, LoadDatAlone, LoadDatIdx, LoadIndexOpenFails, LoadText,
         LoadACT, LoadBBM, LoadPaletteAnim, LoadLBM, LoadBMP, LoadBobRefused, LoadBOB, LoadINI, Opens, Calm
<1>1. ASSUME NEW codes, Fails(codes), NEW ops PROVE Loads(ops)
  BY <1>0, <1>1, FailsIs DEF Calm
<1>2. ASSUME NEW a, NEW job, Begins(a, job), IsSeq(a), Fields(job), NEW ops, job.op \in ops PROVE Loads(ops)
  BY <1>2, BeginsIs DEF Begins
<1>5. IsSeq(<<>>) /\ \A n \in Nat : IsSeq(Nulls(n))
  BY SeqGrows, NullsAreSeq DEF Calm
<1> HIDE DEF Loads
<1>6. ASSUME OpenFails \/ LoadListRefused \/ LoadIndexOpenFails \/ LoadBobRefused PROVE Loads(Others)
  BY <1>1, <1>6 DEF OpenFails, LoadListRefused, LoadIndexOpenFails, LoadBobRefused
<1>7. ASSUME NEW pal, LoadList(pal) PROVE Loads(Others)
  <2>1. Fields(Job("lst", 3, 0, pal, <<>>)) /\ Job("lst", 3, 0, pal, <<>>).op = "lst"
    BY DEF Fields, Job
  <2> QED BY <1>2, <1>5, <1>7, <2>1 DEF LoadList, Others
<1>8. ASSUME NEW ext, LoadDatAlone(ext) PROVE Loads(Others)
  <2>1. PICK job : job = [Job("snd", 1, 0, FALSE, archive) EXCEPT !.base = <<>>]
    OBVIOUS
  <2>2. Fields(job) /\ job.op = "snd"
    BY <2>1 DEF Fields, Job, NoBob
  <2> QED BY <1>0, <1>1, <1>2, <1>5, <1>8, <2>1, <2>2 DEF LoadDatAlone, Others
<1>9. ASSUME NEW ext \in {"dat", "idx"}, NEW pal, LoadDatIdx(ext, pal) PROVE Loads(Others)
  <2>1. disk.idx[1].v \in Nat
    BY <1>9 DEF LoadDatIdx, IndexIs, FileOK, HoldsIt
  <2>2. Fields(Job(ext, 0, 0, pal, <<>>)) /\ Job(ext, 0, 0, pal, <<>>).op = ext
    BY DEF Fields, Job
  <2> QED BY <1>2, <1>5, <1>9, <2>1, <2>2 DEF LoadDatIdx, Others
<1>10. ASSUME NEW conv, LoadText(conv) PROVE Loads({"text"})
  <2>1. PICK job : job = [Job("text", 0, 0, FALSE, <<>>) EXCEPT !.part = [conv |-> conv, offs |-> <<>>, data |-> <<>>]]
    OBVIOUS
  <2>2. Fields(job) /\ job.op = "text"
    BY <2>1 DEF Fields, Job, NoBob
  <2> QED BY <1>0, <1>1, <1>2, <1>5, <1>10, <2>1, <2>2 DEF LoadText
<1>11. ASSUME LoadACT PROVE Loads(Others)
  <2>1. PICK job : job = Job("act", 1, 0, FALSE, <<>>)
    OBVIOUS
  <2>2. Fields(job) /\ job.op = "act"
    BY <2>1 DEF Fields, Job, NoBob
  <2> QED BY <1>0, <1>1, <1>2, <1>5, <1>11, <2>1, <2>2 DEF LoadACT, Others
<1>12. ASSUME LoadBBM PROVE Loads(Others)
  <2>1. PICK job : job = Job("bbm", 2, 0, FALSE, archive)
    OBVIOUS
  <2>2. Fields(job) /\ job.op = "bbm"
    BY <2>1 DEF Fields, Job, NoBob
  <2> QED BY <1>0, <1>1, <1>2, <1>5, <1>12, <2>1, <2>2 DEF LoadBBM, Others
<1>13. ASSUME LoadINI PROVE Loads({"ini"})
  <2>1. PICK job : job = Job("ini", 1, 0, FALSE, archive)
    OBVIOUS
  <2>2. Fields(job) /\ job.op = "ini"
    BY <2>1 DEF Fields, Job, NoBob
  <2> QED BY <1>0, <1>1, <1>2, <1>5, <1>13, <2>1, <2>2 DEF LoadINI
<1>14. ASSUME LoadLBM PROVE Loads({"lbm"})
  <2>1. PICK job : job = [Job("lbm", 2, 0, FALSE, <<>>) EXCEPT !.part = [hdr |-> 0, pal |-> Null, done |-> FALSE]]
    OBVIOUS
  <2>2. Fields(job) /\ job.op = "lbm"
    BY <2>1 DEF Fields, Job, NoBob
  <2> QED BY <1>0, <1>1, <1>2, <1>5, <1>14, <2>1, <2>2 DEF LoadLBM
<1>15. ASSUME LoadPaletteAnim PROVE Loads({"anims"})
  <2>1. PICK job : job = Job("anims", 2, 0, FALSE, archive)
    OBVIOUS
  <2>2. Fields(job) /\ job.op = "anims"
    BY <2>1 DEF Fields, Job, NoBob
  <2> QED BY <1>0, <1>1, <1>2, <1>5, <1>15, <2>1, <2>2 DEF LoadPaletteAnim
<1>16. ASSUME LoadBMP PROVE Loads({"bmp"})
  <2>1. PICK job : job = Job("bmp", 2, 0, FALSE, archive)
    OBVIOUS
  <2>2. Fields(job) /\ job.op = "bmp"
    BY <2>1 DEF Fields, Job, NoBob
  <2> QED BY <1>0, <1>1, <1>2, <1>5, <1>16, <2>1, <2>2 DEF LoadBMP
<1>17. ASSUME LoadBOB PROVE Loads({"bob"})
  <2>1. PICK job : job = [Job("bob", 2, 0, TRUE, <<>>) EXCEPT !.part = NoBob]
    OBVIOUS
  <2>2. Fields(job) /\ job.op = "bob"
    BY <2>1 DEF Fields, Job, NoBob
  <2> QED BY <1>0, <1>1, <1>2, <1>5, <1>17, <2>1, <2>2 DEF LoadBOB
<1> QED BY <1>6, <1>7, <1>8, <1>9, <1>10, <1>11, <1>12, <1>13, <1>14, <1>15, <1>16, <1>17
        DEF FilesLoad, Loads

(* A file with the same contents holds what it should as well. *)
LEMMA SameHolds ==
  ASSUME HoldsIt(disk), disk'.fmt = disk.fmt, disk'.toks = disk.toks, disk'.idx = disk.idx, disk'.holds = disk.holds
  PROVE  HoldsIt(disk')
<1>1. TextsAre(disk) => TextsAre(disk')
  BY DEF TextsAre
<1> QED BY <1>1 DEF HoldsIt, BobIs, AnimsAre, LastLine, LineFor, BmpIs, RowAt, IniIs

(* A file that lost its end is the same but for that. *)
LEMMA TearCalls ==
  ASSUME Calm, FileOK, TearFile \/ TearIndex
  PROVE  Called({"none"}) /\ archive' = archive /\ FileOK'
<1>1. PICK f, seal : /\ Tears(f, seal)
                     /\ \/ \E n \in 0..(disk.len - 1) : f = [disk EXCEPT !.len = n]
                        \/ \E n \in 0..(disk.ilen - 1) : f = [disk EXCEPT !.ilen = n]
  BY DEF TearFile, TearIndex
<1>2. Called({"none"}) /\ archive' = archive /\ disk' = [f EXCEPT !.seal = seal]
  BY <1>1, IdleIsIdle DEF Tears, Called
<1>3. PICK fmt, toks, idx, len, ilen, holds, old :
        disk = [fmt |-> fmt, toks |-> toks, idx |-> idx, len |-> len, ilen |-> ilen, holds |-> holds, seal |-> old]
  BY DEF FileOK
<1>4. CASE \E n \in 0..(disk.len - 1) : f = [disk EXCEPT !.len = n]
  <2>1. PICK n \in 0..(disk.len - 1) : f = [disk EXCEPT !.len = n]
    BY <1>4
  <2>2. disk' = [fmt |-> fmt, toks |-> toks, idx |-> idx, len |-> n, ilen |-> ilen, holds |-> holds, seal |-> seal]
    BY <1>2, <1>3, <2>1
  <2>3. disk'.fmt = disk.fmt /\ disk'.toks = disk.toks /\ disk'.idx = disk.idx /\ disk'.holds = disk.holds
        /\ disk'.len = n /\ disk'.ilen = disk.ilen /\ disk'.seal = seal
    BY <1>3, <2>2
  <2>4. HoldsIt(disk')
    BY <2>3, SameHolds DEF FileOK
  <2>5. /\ disk'.fmt \in {"bob", "anims", "bmp", "lbm", "ini"} => Len(disk'.toks) \in Nat /\ disk'.len \in 0..Len(disk'.toks)
        /\ disk'.fmt \in {"lst", "ger", "txt"} => IsSeq(disk'.toks) /\ disk'.len \in 0..Len(disk'.toks)
    BY <2>3 DEF FileOK
  <2>6. disk'.fmt = "dat" => Len(disk'.idx) \in Nat /\ disk'.ilen \in 0..Len(disk'.idx)
    BY <2>3 DEF FileOK
  <2> QED BY <1>2, <2>2, <2>3, <2>4, <2>5, <2>6 DEF FileOK
<1>5. CASE \E n \in 0..(disk.ilen - 1) : f = [disk EXCEPT !.ilen = n]
  <2>1. PICK n \in 0..(disk.ilen - 1) : f = [disk EXCEPT !.ilen = n]
    BY <1>5
  <2>2. disk' = [fmt |-> fmt, toks |-> toks, idx |-> idx, len |-> len, ilen |-> n, holds |-> holds, seal |-> seal]
    BY <1>2, <1>3, <2>1
  <2>3. disk'.fmt = disk.fmt /\ disk'.toks = disk.toks /\ disk'.idx = disk.idx /\ disk'.holds = disk.holds
        /\ disk'.len = disk.len /\ disk'.ilen = n /\ disk'.seal = seal
    BY <1>3, <2>2
  <2>4. HoldsIt(disk')
    BY <2>3, SameHolds DEF FileOK
  <2>5. /\ disk'.fmt \in {"bob", "anims", "bmp", "lbm", "ini"} => Len(disk'.toks) \in Nat /\ disk'.len \in 0..Len(disk'.toks)
        /\ disk'.fmt \in {"lst", "ger", "txt"} => IsSeq(disk'.toks) /\ disk'.len \in 0..Len(disk'.toks)
    BY <2>3 DEF FileOK
  <2>6. disk'.fmt = "dat" => Len(disk'.idx) \in Nat /\ disk'.ilen \in 0..Len(disk'.idx)
    BY <2>3 DEF FileOK
  <2> QED BY <1>2, <2>2, <2>3, <2>4, <2>5, <2>6 DEF FileOK
<1> QED BY <1>1, <1>4, <1>5

-------------------------------------------------------------------------------
(* The text of palette animations that is written *)

(* Lines for some of the first m entries, in their order. *)
LinesOf(s, m) ==
  /\ s \in Seq({Line(i) : i \in 1..Len(archive)})
  /\ \A p \in 1..Len(s) : \E i \in 1..m : Has(archive[i], "anim") /\ s[p] = Line(i)
  /\ \A p, q \in 1..Len(s) : p < q => s[p].idx < s[q].idx
  /\ \A i \in 1..m : Has(archive[i], "anim") => \E p \in 1..Len(s) : s[p] = Line(i)

(* One more entry that is an animation adds its line. *)
LEMMA LineAdded ==
  ASSUME IsSeq(archive), NEW m \in 1..Len(archive), NEW s, LinesOf(s, m - 1)
  PROVE  LinesOf(IF Has(archive[m], "anim") THEN Append(s, Line(m)) ELSE s, m)
<1>0. Len(archive) \in Nat /\ m \in Nat /\ m - 1 \in Nat /\ 1..(m - 1) \subseteq 1..m /\ m \in 1..m
  BY DEF IsSeq
<1>1. PICK L : L = {Line(i) : i \in 1..Len(archive)}
  OBVIOUS
<1>2. s \in Seq(L) /\ Line(m) \in L
  BY <1>1 DEF LinesOf
<1>3. \A i \in 1..m : Line(i).idx = i - 1 /\ (i # m => i \in 1..(m - 1))
  BY <1>0 DEF Line
<1>4. CASE ~Has(archive[m], "anim")
  BY <1>0, <1>3, <1>4 DEF LinesOf
<1>5. CASE Has(archive[m], "anim")
  <2>1. PICK r : r = Append(s, Line(m))
    OBVIOUS
  <2>2. r \in Seq(L) /\ Len(r) = Len(s) + 1 /\ r[Len(r)] = Line(m) /\ (\A p \in 1..Len(s) : r[p] = s[p]) /\ Len(s) \in Nat
    BY <1>2, <2>1
  <2>3. ASSUME NEW p \in 1..Len(r) PROVE \E i \in 1..m : Has(archive[i], "anim") /\ r[p] = Line(i)
    <3>1. CASE p = Len(r)
      BY <1>0, <1>5, <2>2, <3>1
    <3>2. CASE p \in 1..Len(s)
      BY <1>0, <2>2, <3>2 DEF LinesOf
    <3> QED BY <2>2, <3>1, <3>2
  <2>4. ASSUME NEW p \in 1..Len(s) PROVE s[p].idx < m - 1
    <3>1. PICK i \in 1..(m - 1) : s[p] = Line(i)
      BY DEF LinesOf
    <3> QED BY <1>0, <1>3, <3>1
  <2>5. ASSUME NEW p \in 1..Len(r), NEW q \in 1..Len(r), p < q PROVE r[p].idx < r[q].idx
    <3>1. p \in 1..Len(s)
      BY <2>2, <2>5
    <3>2. CASE q = Len(r)
      <4>1. r[q].idx = m - 1
        BY <1>0, <1>3, <2>2, <3>2
      <4> QED BY <2>2, <2>4, <3>1, <4>1
    <3>3. CASE q \in 1..Len(s)
      BY <2>2, <2>5, <3>1, <3>3 DEF LinesOf
    <3> QED BY <2>2, <3>2, <3>3
  <2>6. ASSUME NEW i \in 1..m, Has(archive[i], "anim") PROVE \E p \in 1..Len(r) : r[p] = Line(i)
    <3>1. CASE i = m
      BY <2>2, <3>1
    <3>2. CASE i # m
      <4>1. PICK p \in 1..Len(s) : s[p] = Line(i)
        BY <1>3, <2>6, <3>2 DEF LinesOf
      <4> QED BY <2>2, <4>1
    <3> QED BY <3>1, <3>2
  <2> QED BY <1>1, <1>5, <2>1, <2>2, <2>3, <2>5, <2>6 DEF LinesOf
<1> QED BY <1>4, <1>5

(* WritePaletteAnim writes a line for each animation of the archive. *)
LEMMA AnimLinesAre == ASSUME IsSeq(archive) PROVE LinesOf(AnimLines, Len(archive))
<1> DEFINE last == Len(archive)
           L == {Line(i) : i \in 1..last}
           Added(s, m) == IF Has(archive[m], "anim") THEN Append(s, Line(m)) ELSE s
           next == [m \in 1..last |-> [s \in Seq(L) |-> Added(s, m)]]
           Def(f) == f = [m \in 0..last |->
                            IF m = 0 THEN <<>>
                            ELSE IF Has(archive[m], "anim") THEN Append(f[m - 1], Line(m)) ELSE f[m - 1]]
<1>0. last \in Nat
  BY DEF IsSeq
<1> HIDE DEF last
<1>1. next \in [1..last -> [Seq(L) -> Seq(L)]]
  <2>1. ASSUME NEW m \in 1..last, NEW s \in Seq(L) PROVE Added(s, m) \in Seq(L)
    OBVIOUS
  <2> HIDE DEF Added
  <2> QED BY <2>1
<1>2. <<>> \in Seq(L)
  OBVIOUS
<1>3. PICK f \in [0..last -> Seq(L)] : f[0] = <<>> /\ \A m \in 1..last : f[m] = next[m][f[m - 1]]
  <2>1. PICK S : S = Seq(L)
    OBVIOUS
  <2>2. next \in [1..last -> [S -> S]] /\ <<>> \in S
    BY <1>1, <1>2, <2>1, Zenon
  <2> HIDE DEF next
  <2>3. \E f \in [0..last -> S] : Unfolds(f, last, <<>>, next)
    BY <1>0, <2>2, RecursionExists
  <2> QED BY <2>1, <2>3, Zenon DEF Unfolds
<1>4. ASSUME NEW m \in 1..last PROVE m \in 0..last /\ m - 1 \in 0..last /\ f[m] = Added(f[m - 1], m)
  BY <1>0, <1>3
<1>5. Def(f)
  <2>1. ASSUME NEW m \in 0..last
        PROVE  f[m] = IF m = 0 THEN <<>>
                      ELSE IF Has(archive[m], "anim") THEN Append(f[m - 1], Line(m)) ELSE f[m - 1]
    <3>1. CASE m = 0
      BY <1>3, <3>1
    <3>2. CASE m \in 1..last
      <4>1. m # 0
        BY <3>2
      <4> QED BY <1>4, <3>2, <4>1
    <3> QED BY <1>0, <3>1, <3>2
  <2> QED BY <1>3, <2>1
<1>6. PICK lines : Def(lines) /\ AnimLines = lines[last]
  <2>1. AnimLines = (CHOOSE g : Def(g))[last]
    BY Zenon DEF AnimLines, last
  <2>2. Def(CHOOSE g : Def(g))
    BY <1>5, Zenon
  <2> QED BY <2>1, <2>2, Zenon
<1>7. lines[0] = <<>>
  BY <1>0, <1>6
<1>8. ASSUME NEW m \in 1..last PROVE lines[m] = Added(lines[m - 1], m)
  <2>1. m \in 0..last /\ m # 0
    BY <1>0
  <2> QED BY <1>6, <2>1
<1> DEFINE P == {m \in 0..last : LinesOf(lines[m], m)}
<1>9. 0 \in P
  <2>1. LinesOf(<<>>, 0)
    BY DEF LinesOf
  <2> QED BY <1>0, <1>7, <2>1
<1>10. ASSUME NEW m \in 1..last, m - 1 \in P PROVE m \in P
  <2>1. LinesOf(lines[m - 1], m - 1) /\ m \in 0..last
    BY <1>0, <1>10
  <2>2. LinesOf(Added(lines[m - 1], m), m)
    BY <2>1, LineAdded DEF last
  <2> QED BY <1>8, <2>1, <2>2
<1>11. last \in P
  <2> HIDE DEF P
  <2>1. 0..last \subseteq P
    BY <1>0, <1>9, <1>10, SetInduction
  <2> QED BY <1>0, <2>1
<1> QED BY <1>6, <1>11 DEF last

(* A file that was made has all of itself. *)
LEMMA FileIs ==
  ASSUME NEW fmt, NEW toks, NEW idx, NEW holds, NEW seal, NEW f, f = File(fmt, toks, idx, holds, seal)
  PROVE  /\ f.fmt = fmt /\ f.toks = toks /\ f.idx = idx /\ f.holds = holds /\ f.seal = seal
         /\ f.len = Len(toks) /\ f.ilen = Len(idx)
         /\ f = [fmt |-> f.fmt, toks |-> f.toks, idx |-> f.idx, len |-> f.len, ilen |-> f.ilen,
                 holds |-> f.holds, seal |-> f.seal]
BY DEF File

(* What WritePaletteAnim writes holds the animations where they were. *)
LEMMA AnimsWritten == ASSUME Calm, WritePaletteAnim PROVE FileOK'
<1>1. PICK lines : lines = AnimLines /\ LinesOf(lines, Len(archive)) /\ Len(archive) \in Nat
  BY AnimLinesAre DEF Calm, IsSeq
<1>2. PICK L : lines \in Seq(L)
  BY <1>1 DEF LinesOf
<1>3. PICK toks : toks = <<[t |-> "palAnimHeader"]>> \o lines
  OBVIOUS
<1>4. /\ toks \in Seq(L \union {[t |-> "palAnimHeader"]}) /\ Len(toks) = Len(lines) + 1 /\ Len(lines) \in Nat
      /\ \A p \in 2..Len(toks) : p - 1 \in 1..Len(lines) /\ toks[p] = lines[p - 1]
  <2>1. <<[t |-> "palAnimHeader"]>> \in Seq(L \union {[t |-> "palAnimHeader"]})
        /\ lines \in Seq(L \union {[t |-> "palAnimHeader"]})
    BY <1>2
  <2> QED BY <1>3, <2>1
<1>5. PICK f : f = disk' /\ f = File("anims", toks, <<>>, archive, "loose")
  BY <1>1, <1>3 DEF WritePaletteAnim, Writes
<1>6. f.fmt = "anims" /\ f.toks = toks /\ f.holds = archive /\ f.len = Len(toks)
  BY <1>5, FileIs
<1>7. \A i : Line(i).t = "line" /\ Line(i).idx = i - 1 /\ Line(i).v = archive[i]
  BY DEF Line
<1>8. ASSUME NEW p \in 2..Len(toks)
      PROVE  toks[p].idx \in Nat /\ toks[p].idx + 1 \in 1..Len(archive) /\ Has(archive[toks[p].idx + 1], "anim")
  <2>1. PICK i \in 1..Len(archive) : Has(archive[i], "anim") /\ toks[p] = Line(i)
    BY <1>1, <1>4 DEF LinesOf
  <2> QED BY <1>1, <1>7, <2>1
<1>9. ASSUME NEW i \in 1..Len(archive), Has(archive[i], "anim")
      PROVE  \E p \in 2..Len(toks) : LastLine(f, i, Len(toks), p) /\ toks[p].v = archive[i]
  <2>1. PICK p \in 1..Len(lines) : lines[p] = Line(i)
    BY <1>1, <1>9 DEF LinesOf
  <2>2. p + 1 \in 2..Len(toks) /\ toks[p + 1] = Line(i)
    <3>1. p + 1 \in 2..Len(toks) /\ (p + 1) - 1 = p
      BY <1>4
    <3>2. toks[p + 1] = lines[p]
      BY <1>4, <3>1
    <3> QED BY <2>1, <3>1, <3>2
  <2>3. ASSUME NEW q \in (p + 2)..Len(toks) PROVE toks[q].idx + 1 # i
    <3>1. q - 1 \in 1..Len(lines) /\ p < q - 1 /\ toks[q] = lines[q - 1]
      BY <1>4, <2>1
    <3>2. lines[p].idx < lines[q - 1].idx
      BY <1>1, <2>1, <3>1 DEF LinesOf
    <3> QED BY <1>1, <1>7, <1>8, <1>4, <2>1, <3>1, <3>2
  <2>4. LastLine(f, i, Len(toks), p + 1)
    BY <1>6, <1>7, <2>2, <2>3 DEF LastLine, LineFor
  <2> QED BY <1>7, <2>2, <2>4
<1>10. AnimsAre(f)
  <2>1. DOMAIN archive = 1..Len(archive)
    BY DEF Calm, IsSeq
  <2> QED BY <1>6, <1>8, <1>9, <2>1 DEF AnimsAre
<1> QED BY <1>4, <1>5, <1>6, <1>10, FileIs DEF FileOK, HoldsIt

(* Rows from the last to the first. *)
FromLast(rows, px, n) == IsSeq(rows) /\ Len(rows) = n /\ \A y \in 1..n : rows[n + 1 - y].v = px[y]

(* WriteBMP writes the rows from the last to the first. *)
LEMMA RowsAre ==
  ASSUME NEW n \in Nat, NEW px, px = [y \in 1..n |-> px[y]], NEW rows, rows = RowTokens(Reverse(px))
  PROVE  FromLast(rows, px, n)
<1>1. Len(px) = n
  <2>1. px \in Seq({px[y] : y \in 1..n})
    OBVIOUS
  <2> QED BY <2>1
<1>2. PICK r : r = Reverse(px) /\ r = [i \in 1..n |-> px[(n - i) + 1]]
  BY <1>1 DEF Reverse
<1>3. rows = [i \in 1..n |-> [t |-> "row", v |-> px[(n - i) + 1]]]
  BY <1>2 DEF RowTokens
<1>4. \A i \in 1..n : (n - i) + 1 \in 1..n
  OBVIOUS
<1>5. \A y \in 1..n : n + 1 - y \in 1..n /\ (n - (n + 1 - y)) + 1 = y
  OBVIOUS
<1>6. PICK S : \A i \in 1..n : [t |-> "row", v |-> px[(n - i) + 1]] \in S
  <2>1. \A i \in 1..n : [t |-> "row", v |-> px[(n - i) + 1]] \in {[t |-> "row", v |-> px[(n - k) + 1]] : k \in 1..n}
    OBVIOUS
  <2> QED BY <2>1
<1>7. rows \in Seq(S)
  BY <1>3, <1>6
<1>8. Len(rows) = n /\ \A i \in 1..n : rows[i].v = px[(n - i) + 1]
  <2>1. DOMAIN rows = 1..n /\ \A i \in 1..n : rows[i] = [t |-> "row", v |-> px[(n - i) + 1]]
    BY <1>3
  <2>2. Len(rows) = n
    BY <1>7, <2>1, LenProperties
  <2>3. ASSUME NEW i \in 1..n PROVE rows[i].v = px[(n - i) + 1]
    <3>1. rows[i] = [t |-> "row", v |-> px[(n - i) + 1]]
      BY <2>1
    <3> QED BY <3>1
  <2> QED BY <2>2, <2>3
<1>9. ASSUME NEW y \in 1..n PROVE rows[n + 1 - y].v = px[y]
  <2>1. PICK i \in 1..n : i = n + 1 - y /\ (n - i) + 1 = y
    BY <1>5
  <2> QED BY <1>8, <2>1
<1> QED BY <1>7, <1>8, <1>9 DEF IsSeq, FromLast

(* What WriteBMP writes holds the picture. *)
LEMMA BmpWritten == ASSUME Calm, client \in DOMAIN ItemsOf, Known, WriteBMP, disk' # disk PROVE FileOK'
<1>1. PICK img : img = archive[1] /\ Has(img, "image") /\ 1 \in DOMAIN archive /\ IsSeq(archive)
  BY DEF WriteBMP, Writes, Calm, Get, Has
<1>2. IsImage(img)
  <2>1. img \in ItemsOf[client]
    <3>1. img \in ToSet(archive)
      BY <1>1 DEF ToSet
    <3> QED BY <1>1, <3>1 DEF Known, Has
  <2> QED BY <1>1, <2>1, FilesAssumption
<1>3. PICK toks, seal : toks = BmpTokens(img) /\ disk' = File("bmp", toks, <<>>, archive, seal)
  BY <1>1 DEF WriteBMP, Writes, Get
<1>4. PICK f : f = disk' /\ f = File("bmp", toks, <<>>, archive, seal)
  BY <1>3
<1>5. f.fmt = "bmp" /\ f.toks = toks /\ f.holds = archive /\ f.len = Len(toks)
  BY <1>4, FileIs
<1>6. PICK n \in Nat : n = Len(img.px)
  BY <1>2 DEF IsImage
<1>7. img.px = [y \in 1..n |-> img.px[y]] /\ DOMAIN img.px = 1..n
  BY <1>2, <1>6 DEF IsImage
<1>8. CASE img.pal # Null
  <2>1. PICK rows : rows = RowTokens(Reverse(img.px))
    OBVIOUS
  <2>2. PICK S : rows \in Seq(S) /\ Len(rows) = n /\ \A y \in 1..n : rows[n + 1 - y].v = img.px[y]
    <3>1. FromLast(rows, img.px, n)
      BY <1>7, <2>1, RowsAre
    <3> QED BY <3>1 DEF FromLast, IsSeq
  <2>3. PICK h, clrs : h = BmpHead(8, n, 3) /\ clrs = [t |-> "colours", c |-> Marked(img.pal)]
                       /\ toks = <<h, clrs>> \o rows
    BY <1>3, <1>6, <1>8, <2>1 DEF BmpTokens, Height
  <2>4. <<h, clrs>> \in Seq(S \union {h, clrs}) /\ rows \in Seq(S \union {h, clrs})
    BY <2>2
  <2>5. Len(toks) = n + 2 /\ toks[1] = h /\ toks[2] = clrs /\ toks # <<>> /\ \A k \in 1..n : toks[k + 2] = rows[k]
    BY <2>2, <2>3, <2>4
  <2>6. h.t = "BM" /\ h.err = "NONE" /\ h.bpp = 8 /\ h.h = n /\ h.at = 3 /\ h.bottomup
    BY <2>3 DEF BmpHead
  <2>7. ASSUME NEW y \in 1..n PROVE toks[RowAt(h, y)].v = img.px[y]
    <3>1. RowAt(h, y) = (n + 1 - y) + 2 /\ n + 1 - y \in 1..n
      BY <2>6 DEF RowAt
    <3> QED BY <2>2, <2>5, <3>1
  <2>8. ASSUME HasTransparency(img.pal), NEW i \in 1..Colours
        PROVE  (IF i \in DOMAIN clrs.c THEN clrs.c[i] ELSE Black) = IF i = img.pal.trans + 1 THEN Pink ELSE img.pal.c[i]
    <3>1. clrs.c = [img.pal.c EXCEPT ![img.pal.trans + 1] = Pink] /\ DOMAIN img.pal.c = 1..Colours
      BY <1>2, <1>8, <2>3, <2>8 DEF Marked, IsImage, IsColours
    <3> QED BY <3>1
  <2>9. BmpIs(f)
    BY <1>2, <1>1, <1>5, <1>6, <1>8, <2>5, <2>6, <2>7, <2>8 DEF BmpIs
  <2> QED BY <1>4, <1>5, <2>5, <2>9, FileIs DEF FileOK, HoldsIt
<1>9. CASE img.pal = Null
  <2>1. PICK px : /\ px = [y \in 1..n |-> [k \in DOMAIN img.px[y] |-> IF img.px[y][k] = Clear THEN Pink ELSE img.px[y][k]]]
                  /\ px = EachPixel(img.px, LAMBDA v : IF v = Clear THEN Pink ELSE v)
    BY <1>7 DEF EachPixel
  <2>2. PICK rows : rows = RowTokens(Reverse(px))
    OBVIOUS
  <2>3. px = [y \in 1..n |-> px[y]]
    BY <2>1
  <2>4. PICK S : rows \in Seq(S) /\ Len(rows) = n /\ \A y \in 1..n : rows[n + 1 - y].v = px[y]
    <3>1. FromLast(rows, px, n)
      BY <2>2, <2>3, RowsAre
    <3> QED BY <3>1 DEF FromLast, IsSeq
  <2>5. PICK h : h = BmpHead(24, n, 2) /\ toks = <<h>> \o rows
    BY <1>3, <1>6, <1>9, <2>1, <2>2 DEF BmpTokens, Height
  <2>6. <<h>> \in Seq(S \union {h}) /\ rows \in Seq(S \union {h})
    BY <2>4
  <2>7. Len(toks) = n + 1 /\ toks[1] = h /\ toks # <<>> /\ \A k \in 1..n : toks[k + 1] = rows[k]
    BY <2>4, <2>5, <2>6
  <2>8. h.t = "BM" /\ h.err = "NONE" /\ h.bpp = 24 /\ h.h = n /\ h.at = 2 /\ h.bottomup
    BY <2>5 DEF BmpHead
  <2>9. ASSUME NEW y \in 1..n
        PROVE  toks[RowAt(h, y)].v = [k \in DOMAIN img.px[y] |-> IF img.px[y][k] = Clear THEN Pink ELSE img.px[y][k]]
    <3>1. RowAt(h, y) = (n + 1 - y) + 1 /\ n + 1 - y \in 1..n
      BY <2>8 DEF RowAt
    <3>2. toks[RowAt(h, y)].v = px[y]
      BY <2>4, <2>7, <3>1
    <3> QED BY <2>1, <3>2
  <2>10. BmpIs(f)
    BY <1>2, <1>1, <1>5, <1>6, <1>9, <2>7, <2>8, <2>9 DEF BmpIs
  <2> QED BY <1>4, <1>5, <2>7, <2>10, FileIs DEF FileOK, HoldsIt
<1> QED BY <1>8, <1>9

-------------------------------------------------------------------------------
(* Concatenations *)

(* What FlattenSeq makes of sequences, one after the other. *)
Joins(f, n, s) == f[0] = <<>> /\ \A k \in 1..n : f[k] = f[k - 1] \o s[k]

(* The sequence of sequences s, flattened, is the last of the steps that add one of them after the other. *)
LEMMA Flattened ==
  ASSUME NEW T, NEW n \in Nat, NEW s \in [1..n -> Seq(T)]
  PROVE  \E f \in [0..n -> Seq(T)] : Joins(f, n, s) /\ FlattenSeq(s) = f[n]
<1> DEFINE next == [k \in 1..n |-> [r \in Seq(T) |-> r \o s[k]]]
           Def(g) == g = [i \in 1..n |-> IF i = 1 THEN s[i] ELSE g[i - 1] \o s[i]]
<1>1. PICK f \in [0..n -> Seq(T)] : Joins(f, n, s)
  <2>1. PICK S : S = Seq(T)
    OBVIOUS
  <2>2. next \in [1..n -> [S -> S]] /\ <<>> \in S
    <3>1. ASSUME NEW k \in 1..n, NEW r \in Seq(T) PROVE r \o s[k] \in Seq(T)
      OBVIOUS
    <3> QED BY <2>1, <3>1
  <2>3. \A k \in 1..n : \A r \in S : next[k][r] = r \o s[k]
    BY <2>1
  <2> HIDE DEF next
  <2>4. PICK f \in [0..n -> S] : Unfolds(f, n, <<>>, next)
    BY <2>2, RecursionExists
  <2>5. \A k \in 1..n : k - 1 \in 0..n
    OBVIOUS
  <2> QED BY <2>1, <2>3, <2>4, <2>5 DEF Unfolds, Joins
<1>2. s \in Seq(Seq(T)) /\ Len(s) = n
  OBVIOUS
<1>3. CASE n = 0
  <2>1. s = <<>> /\ FlattenSeq(s) = s
    BY <1>2, <1>3 DEF FlattenSeq
  <2> QED BY <1>1, <1>3, <2>1 DEF Joins
<1>4. CASE n # 0
  <2>0. \A k \in 1..n : k \in 0..n /\ k - 1 \in 0..n /\ (k # 1 => k - 1 \in 1..n)
    OBVIOUS
  <2>1. PICK h : h = [i \in 1..n |-> f[i]]
    OBVIOUS
  <2>2. Def(h)
    <3>1. ASSUME NEW i \in 1..n PROVE f[i] = IF i = 1 THEN s[i] ELSE h[i - 1] \o s[i]
      <4>1. f[i] = f[i - 1] \o s[i]
        BY <1>1 DEF Joins
      <4>2. CASE i = 1
        <5>1. f[i - 1] = <<>>
          BY <1>1, <4>2 DEF Joins
        <5> QED BY <4>1, <4>2, <5>1
      <4>3. CASE i # 1
        BY <2>0, <2>1, <4>1, <4>3
      <4> QED BY <4>2, <4>3
    <3>2. h = [i \in 1..n |-> IF i = 1 THEN s[i] ELSE h[i - 1] \o s[i]]
      BY <2>1, <3>1
    <3> QED BY <3>2
  <2>3. PICK g : Def(g) /\ FlattenSeq(s) = g[n]
    <3>1. FlattenSeq(s) = (CHOOSE g : Def(g))[n]
      BY <1>2, <1>4, Zenon DEF FlattenSeq
    <3>2. Def(CHOOSE g : Def(g))
      BY <2>2, Zenon
    <3> QED BY <3>1, <3>2, Zenon
  <2>4. \A i \in 1..n : g[i] = IF i = 1 THEN s[i] ELSE g[i - 1] \o s[i]
    BY <2>3
  <2> DEFINE P == {m \in 0..n : m = 0 \/ g[m] = f[m]}
  <2>5. 0 \in P
    OBVIOUS
  <2>6. ASSUME NEW m \in 1..n, m - 1 \in P PROVE m \in P
    <3>1. f[m] = f[m - 1] \o s[m]
      BY <1>1 DEF Joins
    <3>2. CASE m = 1
      <4>1. f[m - 1] = <<>>
        BY <1>1, <3>2 DEF Joins
      <4>2. g[m] = f[m]
        BY <2>4, <3>1, <3>2, <4>1
      <4> QED BY <4>2
    <3>3. CASE m # 1
      <4>1. m - 1 # 0 /\ g[m - 1] = f[m - 1]
        BY <2>0, <2>6, <3>3
      <4>2. g[m] = f[m]
        BY <2>4, <3>1, <3>3, <4>1
      <4> QED BY <2>0, <4>2
    <3> QED BY <3>2, <3>3
  <2>7. n \in P
    <3> HIDE DEF P
    <3>1. 0..n \subseteq P
      BY <2>5, <2>6, SetInduction
    <3> QED BY <3>1
  <2> QED BY <1>1, <1>4, <2>3, <2>7
<1> QED BY <1>3, <1>4

-------------------------------------------------------------------------------
(* The lines that WriteINI writes *)

IniLine ==
  [t : {"section"}, v : STRING] \union [t : {"entry"}, n : STRING, v : STRING]
    \union {[t |-> "words"], Blank}

(* The first of some indices, as SelectInSeq gives it. *)
LEMMA FirstOf ==
  ASSUME NEW n \in Nat, NEW I, I \subseteq 1..n, NEW h, h = IF I # {} THEN Min(I) ELSE 0
  PROVE  /\ h \in 0..n
         /\ h = 0 => I = {}
         /\ h # 0 => h \in I /\ \A i \in 1..(h - 1) : i \in 1..n /\ i \notin I
<1>1. CASE I = {}
  BY <1>1
<1>2. CASE I # {}
  <2>1. I \subseteq Nat
    OBVIOUS
  <2>2. Min(I) \in I /\ \A k \in I : Min(I) =< k
    BY <1>2, <2>1, MinOfNats
  <2>3. PICK m \in 1..n : m = Min(I)
    BY <2>2
  <2>4. ASSUME NEW i \in 1..(m - 1) PROVE i \in 1..n /\ i \notin I
    BY <2>2, <2>3
  <2> QED BY <1>2, <2>2, <2>3, <2>4
<1> QED BY <1>1, <1>2

(* The first empty entry, if there is one. *)
LEMMA FirstHole ==
  ASSUME NEW a, IsSeq(a), NEW hole, hole = SelectInSeq(a, LAMBDA x : x = Null)
  PROVE  /\ hole = 0 => \A i \in 1..Len(a) : a[i] # Null
         /\ hole # 0 => hole \in 1..Len(a) /\ \A i \in 1..(hole - 1) : i \in 1..Len(a) /\ a[i] # Null
<1>1. PICK I : I = {i \in 1..Len(a) : a[i] = Null}
  OBVIOUS
<1>2. hole = IF I # {} THEN Min(I) ELSE 0
  BY <1>1 DEF SelectInSeq
<1>3. PICK n \in Nat : n = Len(a)
  BY DEF IsSeq
<1>4. I \subseteq 1..n
  BY <1>1, <1>3
<1>5. /\ hole = 0 => I = {}
      /\ hole # 0 => hole \in I /\ \A i \in 1..(hole - 1) : i \in 1..n /\ i \notin I
  BY <1>2, <1>4, FirstOf
<1> QED BY <1>1, <1>3, <1>5, Zenon

(* What is written of a value are lines of an INI file. *)
LEMMA ValueTokensAre == ASSUME NEW e \in IniValue PROVE ValueTokens(e) \in Seq(IniLine)
<1>1. e.n \in STRING /\ e.v \in Seq(STRING) /\ e.v # <<>>
  BY DEF IniValue
<1>2. Head(e.v) \in STRING
  BY <1>1
<1>3. PICK first : first = [t |-> "entry", n |-> e.n, v |-> Head(e.v)]
  OBVIOUS
<1>4. first \in [t : {"entry"}, n : STRING, v : STRING]
  BY <1>1, <1>2, <1>3
<1>5. first \in IniLine
  BY <1>4 DEF IniLine
<1>6. PICK words : words = [t |-> "words"]
  OBVIOUS
<1>7. words \in IniLine
  BY <1>6 DEF IniLine
<1>8. Len(e.v) - 1 \in Nat
  BY <1>1
<1>9. PICK more : more = [i \in 1..(Len(e.v) - 1) |-> words]
  OBVIOUS
<1>10. more \in Seq(IniLine)
  BY <1>7, <1>8, <1>9
<1>11. <<first>> \o more \in Seq(IniLine)
  <2>1. PICK T : T = IniLine
    OBVIOUS
  <2>2. <<first>> \in Seq(T) /\ more \in Seq(T)
    BY <1>5, <1>10, <2>1
  <2>3. <<first>> \o more \in Seq(T)
    BY <2>2
  <2> QED BY <2>1, <2>3
<1> QED BY <1>3, <1>6, <1>9, <1>11 DEF ValueTokens

(* So are those of a section, *)
LEMMA SectionTokensAre == ASSUME NEW x \in IniItem PROVE SectionTokens(x) \in Seq(IniLine)
<1>1. x.name \in STRING /\ x.vals \in Seq(IniValue)
  BY DEF IniItem
<1>2. PICK n \in Nat : n = Len(x.vals) /\ DOMAIN x.vals = 1..n /\ \A i \in 1..n : x.vals[i] \in IniValue
  BY <1>1
<1>3. PICK s : s = [i \in DOMAIN x.vals |-> ValueTokens(x.vals[i])]
  OBVIOUS
<1>4. s \in [1..n -> Seq(IniLine)]
  BY <1>2, <1>3, ValueTokensAre
<1>5. FlattenSeq(s) \in Seq(IniLine)
  <2>1. PICK T : T = IniLine
    OBVIOUS
  <2>2. s \in [1..n -> Seq(T)]
    BY <1>4, <2>1
  <2>3. PICK f \in [0..n -> Seq(T)] : FlattenSeq(s) = f[n]
    BY <2>2, Flattened
  <2>4. f[n] \in Seq(T)
    OBVIOUS
  <2> QED BY <2>1, <2>3, <2>4
<1>6. PICK head : head = [t |-> "section", v |-> x.name]
  OBVIOUS
<1>7. head \in IniLine
  <2>1. head \in [t : {"section"}, v : STRING]
    BY <1>1, <1>6
  <2> QED BY <2>1 DEF IniLine
<1>8. <<head>> \o FlattenSeq(s) \in Seq(IniLine)
  BY <1>5, <1>7
<1> QED BY <1>3, <1>6, <1>8 DEF SectionTokens

(* and those of all the sections of an archive. *)
LEMMA IniTokensAre == ASSUME NEW a \in Seq(IniItem) PROVE IniTokens(a) \in Seq(IniLine)
<1>1. PICK n \in Nat : n = Len(a) /\ DOMAIN a = 1..n /\ \A i \in 1..n : a[i] \in IniItem
  OBVIOUS
<1>2. PICK s : s = [i \in DOMAIN a |-> (IF i = 1 THEN <<>> ELSE <<Blank>>) \o SectionTokens(a[i])]
  OBVIOUS
<1>3. ASSUME NEW i \in 1..n PROVE s[i] \in Seq(IniLine)
  <2>1. SectionTokens(a[i]) \in Seq(IniLine)
    BY <1>1, SectionTokensAre
  <2>2. PICK blank : blank = Blank /\ blank \in IniLine
    BY DEF IniLine
  <2>3. PICK T, tokens : T = IniLine /\ tokens = SectionTokens(a[i]) /\ tokens \in Seq(T)
    BY <2>1
  <2>4. <<>> \in Seq(T) /\ <<blank>> \in Seq(T)
    BY <2>2, <2>3
  <2>5. PICK first \in Seq(T) : first = IF i = 1 THEN <<>> ELSE <<blank>>
    BY <2>4
  <2>6. first \o tokens \in Seq(T)
    BY <2>3
  <2> QED BY <1>1, <1>2, <2>2, <2>3, <2>5, <2>6
<1>4. s \in [1..n -> Seq(IniLine)]
  BY <1>1, <1>2, <1>3
<1>5. FlattenSeq(s) \in Seq(IniLine)
  <2>1. PICK T : T = IniLine
    OBVIOUS
  <2>2. s \in [1..n -> Seq(T)]
    BY <1>4, <2>1
  <2>3. PICK f \in [0..n -> Seq(T)] : FlattenSeq(s) = f[n]
    BY <2>2, Flattened
  <2>4. f[n] \in Seq(T)
    OBVIOUS
  <2> QED BY <2>1, <2>3, <2>4
<1> QED BY <1>2, <1>5 DEF IniTokens

(* A file of lines has named sections and values. *)
LEMMA IniWritten ==
  ASSUME Calm, client \in DOMAIN ItemsOf, Known, client = "ini", WriteINI
  PROVE  FileOK'
<1>1. ItemsOf[client] \subseteq IniItem
  BY FilesAssumption
<1>2. PICK n \in Nat : /\ n = Len(archive) /\ DOMAIN archive = 1..n
                       /\ \A i \in 1..n : archive[i] = Null \/ archive[i] \in IniItem
  BY <1>1 DEF Calm, IsSeq, Known, ToSet
<1>3. PICK hole : hole = SelectInSeq(archive, LAMBDA x : x = Null)
  OBVIOUS
<1>4. /\ hole = 0 => \A i \in 1..n : archive[i] # Null
      /\ hole # 0 => hole \in 1..n /\ \A i \in 1..(hole - 1) : i \in 1..n /\ archive[i] # Null
  BY <1>2, <1>3, FirstHole DEF Calm
<1>5. PICK given : given = IF hole = 0 THEN archive ELSE SubSeq(archive, 1, hole - 1)
  OBVIOUS
<1>6. given \in Seq(IniItem)
  <2>1. CASE hole = 0
    <3>1. archive = [i \in 1..n |-> archive[i]]
      BY <1>2 DEF Calm, IsSeq
    <3>2. archive \in [1..n -> IniItem]
      BY <1>2, <1>4, <2>1, <3>1
    <3> QED BY <1>5, <2>1, <3>2
  <2>2. CASE hole # 0
    <3>1. given = [i \in 1..(hole - 1) |-> archive[i]] /\ hole - 1 \in Nat
      BY <1>2, <1>4, <1>5, <2>2
    <3>2. \A i \in 1..(hole - 1) : archive[i] \in IniItem
      BY <1>2, <1>4, <2>2
    <3>3. given \in [1..(hole - 1) -> IniItem]
      BY <3>1, <3>2
    <3> QED BY <3>1, <3>3
  <2> QED BY <2>1, <2>2
<1>7. PICK toks : toks = IniTokens(given) /\ toks \in Seq(IniLine)
  BY <1>6, IniTokensAre
<1>8. PICK f, seal : f = disk' /\ f = File("ini", toks, <<>>, archive, seal)
  BY <1>3, <1>5, <1>7 DEF WriteINI, Writes
<1>9. f.fmt = "ini" /\ f.toks = toks /\ f.len = Len(toks)
  BY <1>8, FileIs
<1>10. IniIs(f)
  <2> SUFFICES ASSUME NEW p \in 1..Len(toks)
               PROVE  /\ toks[p].t = "section" => toks[p].v \in STRING
                      /\ toks[p].t = "entry" => toks[p].n \in STRING /\ toks[p].v \in STRING
    BY <1>9 DEF IniIs
  <2>1. toks[p] \in IniLine
    BY <1>7
  <2>2. CASE toks[p] \in [t : {"section"}, v : STRING] \/ toks[p] \in [t : {"entry"}, n : STRING, v : STRING]
    BY <2>2
  <2>3. CASE toks[p] \in {[t |-> "words"], Blank}
    BY <2>3 DEF Blank
  <2> QED BY <2>1, <2>2, <2>3 DEF IniLine
<1>11. Len(toks) \in Nat /\ Len(toks) \in 0..Len(toks)
  BY <1>7
<1> QED BY <1>8, <1>9, <1>10, <1>11, FileIs DEF FileOK, HoldsIt

(* A list of n tokens is a sequence. *)
LEMMA TokensSeq == ASSUME NEW s, NEW n, n \in Nat, s = [k \in 1..n |-> s[k]] PROVE IsSeq(s)
<1>1. PICK V : V = {s[k] : k \in 1..n}
  OBVIOUS
<1>2. \A k \in 1..n : s[k] \in V
  BY <1>1
<1>3. s \in [1..n -> V]
  BY <1>2
<1>4. s \in Seq(V)
  BY <1>3
<1> QED BY <1>4 DEF IsSeq

(* The files that are found hold what they should. *)
LEMMA FoundOK == ASSUME FilesInit PROVE FileOK /\ Calm
<1>1. PICK f : f = disk /\ (f = NoDisk \/ f \in FilesOf[client]) /\ client \in DOMAIN ItemsOf
  BY DEF FilesInit
<1>2. CASE f = NoDisk
  <2>1. f = File("none", <<>>, <<>>, <<>>, "loose")
    BY <1>2 DEF NoDisk
  <2>2. FileOK
    BY <1>1, <2>1, FileIs DEF FileOK, HoldsIt
  <2> QED BY <2>2, IdleIsIdle DEF FilesInit, ArchiveInit, Calm, IsSeq
<1>3. CASE f \in FilesOf[client]
  <2>1. f = File(f.fmt, f.toks, f.idx, f.holds, f.seal) /\ Len(f.toks) \in Nat /\ Len(f.idx) \in Nat /\ HoldsIt(f)
    BY <1>1, <1>3, FilesAssumption
  <2>2. IsSeq(f.toks)
    <3>1. PICK n \in Nat : n = Len(f.toks)
      BY <2>1
    <3>2. f.toks = [k \in 1..n |-> f.toks[k]]
      BY <1>1, <1>3, <3>1, FilesAssumption
    <3> QED BY <3>1, <3>2, TokensSeq
  <2>3. FileOK
    BY <1>1, <2>1, <2>2, FileIs DEF FileOK
  <2> QED BY <2>3, IdleIsIdle DEF FilesInit, ArchiveInit, Calm, IsSeq
<1> QED BY <1>1, <1>2, <1>3

-------------------------------------------------------------------------------
(* Bobs *)

(* An entry that is appended is the last, and the others stay. *)
LEMMA BobSeqs ==
  ASSUME NEW s, NEW x, IsSeq(s)
  PROVE  /\ IsSeq(Append(s, x)) /\ Len(Append(s, x)) = Len(s) + 1 /\ Len(s) \in Nat
         /\ Append(s, x)[Len(s) + 1] = x /\ \A k \in 1..Len(s) : Append(s, x)[k] = s[k]
<1>1. PICK S : s \in Seq(S)
  BY DEF IsSeq
<1>2. s \in Seq(S \union {x}) /\ x \in S \union {x}
  BY <1>1
<1> QED BY <1>2 DEF IsSeq

(* Where the number of overlays is, and the number. *)
Over == Bodies + Dirs + 3
OverlaysOf(f) == IF Over =< Len(f.toks) /\ f.toks[Over].t = "count" THEN f.toks[Over].v ELSE 0

(* The bodies that there are have the colours of bodies. *)
BodiesOK(images) == \A k \in 1..Bodies : k =< Len(images) => images[k] # Null /\ images[k].clrs = 0

(* The links name overlays, each has the colours of the direction of the   *)
(* first that names it, and none that no link names is there.              *)
FirstLink(links, h, k) == k \in 1..Len(links) /\ links[k] = h /\ \A j \in 1..(k - 1) : links[j] # h

LinksOK(images, links, m) ==
  /\ \A k \in 1..Len(links) : links[k] \in 0..(m - 1)
  /\ \A h \in 0..(m - 1) :
       \/ images[Bodies + h + 1] = Null /\ \A k \in 1..Len(links) : links[k] # h
       \/ /\ images[Bodies + h + 1] # Null
          /\ \E k \in 1..Len(links) : FirstLink(links, h, k) /\ images[Bodies + h + 1].clrs = ((k - 1) % Dirs) + 1

PartIs(part) ==
  /\ part = [clrs |-> part.clrs, images |-> part.images, heads |-> part.heads, links |-> part.links, due |-> part.due]
  /\ IsSeq(part.clrs) /\ IsSeq(part.images) /\ IsSeq(part.heads) /\ IsSeq(part.links)
  /\ Len(part.clrs) \in 0..(Dirs + 1) /\ \A k \in 1..Len(part.clrs) : part.clrs[k] = k - 1
  /\ \A k \in 1..Len(part.heads), d \in 0..Dirs : BobImage(part.heads[k], d) # Null
  /\ BodiesOK(part.images)

(* How far a load is: in the bodies and colours, the overlays, the links.  *)
(* When it has passed the end of the file, it goes no further.             *)
InBodies(pos, part) ==
  /\ pos = 2 + Len(part.clrs) + Len(part.images)
  /\ Len(part.images) =< Bodies /\ Len(part.heads) = 0 /\ Len(part.links) = 0
  /\ part.clrs = <<>> => Len(part.images) = 0
  /\ Len(part.clrs) > 1 => Len(part.images) = Bodies

InOverlays(f, pos, part) ==
  /\ Len(part.clrs) = Dirs + 1 /\ part.due \in Nat /\ (pos =< f.len => part.due = OverlaysOf(f))
  /\ pos = Over + 1 + Len(part.heads) /\ Len(part.heads) =< part.due /\ Len(part.links) = 0
  /\ Len(part.images) = Bodies + part.due
  /\ \A k \in (Bodies + 1)..(Bodies + part.due) : part.images[k] = Null

InLinks(f, pos, part) ==
  /\ Len(part.clrs) = Dirs + 1 /\ Len(part.heads) = OverlaysOf(f)
  /\ pos = Over + 2 + Len(part.heads) + Len(part.links)
  /\ Len(part.images) = Bodies + Len(part.heads)
  /\ LinksOK(part.images, part.links, Len(part.heads))

BobLoading ==
  /\ disk.fmt = "bob" /\ io.base = <<>> /\ PartIs(io.part)
  /\ \/ io.i = 0 /\ InBodies(io.pos, io.part)
     \/ io.i = 1 /\ InOverlays(disk, io.pos, io.part)
     \/ io.i = 2 /\ InLinks(disk, io.pos, io.part)

BobLoaded ==
  \E images, links : \E m \in Nat :
    /\ archive[1] = Bob(images, [n \in DOMAIN links |-> links[n] + Bodies])
    /\ IsSeq(images) /\ IsSeq(links) /\ Len(images) = Bodies + m
    /\ BodiesOK(images) /\ LinksOK(images, links, m)

BobOK ==
  /\ io.op = "bob" => BobLoading
  /\ ret = [op |-> "bob", code |-> "NONE"] => BobLoaded

-------------------------------------------------------------------------------
(* The facts of a file *)

(* What a bob file holds, by where it is. *)
LEMMA BobFileIs ==
  ASSUME FileOK, disk.fmt = "bob"
  PROVE  /\ OverlaysOf(disk) \in Nat /\ Len(disk.toks) \in Nat /\ disk.len \in 0..Len(disk.toks)
         /\ 2 =< Len(disk.toks) /\ disk.toks[2].t = "colours" => disk.toks[2].v = 0
         /\ \A d \in 1..Dirs : Bodies + d + 2 =< Len(disk.toks) /\ disk.toks[Bodies + d + 2].t = "colours"
                                 => disk.toks[Bodies + d + 2].v = d
         /\ \A p \in (Over + OverlaysOf(disk) + 1)..Len(disk.toks) : disk.toks[p].v \in Nat
         /\ \A p \in 2..Len(disk.toks), d \in 0..Dirs :
              disk.toks[p].t = "image" => BobImage(disk.toks[p].v, d) # Null
BY DEF FileOK, HoldsIt, BobIs, OverlaysOf, Over

(* The part of a bob that has been read, in its fields. *)
LEMMA PartFields ==
  ASSUME NEW clrs, NEW images, NEW heads, NEW links, NEW due, NEW part,
         part = [clrs |-> clrs, images |-> images, heads |-> heads, links |-> links, due |-> due]
  PROVE  /\ part.clrs = clrs /\ part.images = images /\ part.heads = heads /\ part.links = links /\ part.due = due
         /\ part = [clrs |-> part.clrs, images |-> part.images, heads |-> part.heads, links |-> part.links,
                    due |-> part.due]
OBVIOUS

(* A step that goes on. *)
LEMMA BobGoes ==
  ASSUME Calm, io.op = "bob", NEW pos, NEW i, NEW part,
         io' = [op |-> "bob", pos |-> pos, i |-> i, pal |-> io.pal, part |-> part, base |-> io.base],
         archive' = archive, UNCHANGED <<client, disk, ret>>
  PROVE  /\ Stepped("bob") /\ IsSeq(archive') /\ ret' = NoRet /\ io'.op = "bob" /\ io'.base = io.base
         /\ io'.pos = pos /\ io'.i = i /\ io'.part = part
<1>1. io # Idle
  BY IdleIsIdle
<1> QED BY <1>1 DEF Stepped, Calm, Fields

(* A step that goes on to the next stage of a bob, *)
LEMMA BobMoves ==
  ASSUME Calm, io.op = "bob", NEW i, NEW part, Goes(archive, [io EXCEPT !.pos = @ + 1, !.i = i, !.part = part])
  PROVE  /\ Stepped("bob") /\ IsSeq(archive') /\ ret' = NoRet /\ io'.op = "bob" /\ io'.base = io.base
         /\ io'.pos = io.pos + 1 /\ io'.i = i /\ io'.part = part
<1>1. io = [op |-> "bob", pos |-> io.pos, i |-> io.i, pal |-> io.pal, part |-> io.part, base |-> io.base]
  BY DEF Calm, Fields
<1>2. PICK one : one = [io EXCEPT !.pos = io.pos + 1]
  OBVIOUS
<1>3. one = [op |-> "bob", pos |-> io.pos + 1, i |-> io.i, pal |-> io.pal, part |-> io.part, base |-> io.base]
  BY <1>1, <1>2
<1>4. PICK two : two = [one EXCEPT !.i = i]
  OBVIOUS
<1>5. two = [op |-> "bob", pos |-> io.pos + 1, i |-> i, pal |-> io.pal, part |-> io.part, base |-> io.base]
  BY <1>3, <1>4
<1>6. io' = [two EXCEPT !.part = part]
  BY <1>2, <1>4, Zenon DEF Goes
<1>7. io' = [op |-> "bob", pos |-> io.pos + 1, i |-> i, pal |-> io.pal, part |-> part, base |-> io.base]
  BY <1>5, <1>6
<1> QED BY <1>7, BobGoes DEF Goes

(* to the next token, *)
LEMMA BobTakes ==
  ASSUME Calm, io.op = "bob", NEW part, Takes(part)
  PROVE  /\ Stepped("bob") /\ IsSeq(archive') /\ ret' = NoRet /\ io'.op = "bob" /\ io'.base = io.base
         /\ io'.pos = io.pos + 1 /\ io'.i = io.i /\ io'.part = part /\ disk' = disk
<1>1. io = [op |-> "bob", pos |-> io.pos, i |-> io.i, pal |-> io.pal, part |-> io.part, base |-> io.base]
  BY DEF Calm, Fields
<1>2. PICK mid : mid = [io EXCEPT !.part = part]
  OBVIOUS
<1>3. mid = [op |-> "bob", pos |-> io.pos, i |-> io.i, pal |-> io.pal, part |-> part, base |-> io.base]
  BY <1>1, <1>2
<1>4. io' = [mid EXCEPT !.pos = mid.pos + 1]
  BY <1>2, Zenon DEF Takes, Goes
<1>5. io' = [op |-> "bob", pos |-> io.pos + 1, i |-> io.i, pal |-> io.pal, part |-> part, base |-> io.base]
  BY <1>3, <1>4
<1> QED BY <1>5, BobGoes DEF Takes, Goes

(* and one that fails. *)
LEMMA BobFails ==
  ASSUME Calm, io.op = "bob", Fails({"UNEXPECTED_EOF"}) \/ Fails({"WRONG_FORMAT"})
  PROVE  Stepped("bob") /\ IsSeq(archive') /\ BobOK'
<1>1. archive' = archive /\ disk' = disk /\ client' = client /\ io' = Idle
      /\ (ret' = [op |-> "bob", code |-> "UNEXPECTED_EOF"] \/ ret' = [op |-> "bob", code |-> "WRONG_FORMAT"])
  BY DEF Fails, Returns
<1> QED BY <1>1, IdleIsIdle DEF Stepped, BobOK, Calm

(* What is there is of the type that is needed, or the load fails. *)
LEMMA BobNeeds ==
  ASSUME Calm, io.op = "bob", NEW t, NEW part, Needs(t, Takes(part))
  PROVE  \/ Stepped("bob") /\ IsSeq(archive') /\ BobOK'
         \/ io.pos =< disk.len /\ disk.toks[io.pos].t = t /\ Takes(part)
<1>1. CASE Fails({"UNEXPECTED_EOF"}) \/ Fails({"WRONG_FORMAT"})
  BY <1>1, BobFails
<1> QED BY <1>1 DEF Needs, AtEnd, Is

(* Lengths of sequences. *)
LEMMA NoSeq == IsSeq(<<>>) /\ Len(<<>>) = 0 /\ \A s : IsSeq(s) => Len(s) \in Nat /\ (Len(s) = 0 <=> s = <<>>)
BY DEF IsSeq

(* Where a load that reads bodies is. *)
LEMMA BobSizes == Bodies \in Nat \ {0} /\ Dirs \in Nat \ {0} /\ Over = Bodies + Dirs + 3
BY BodiesAre, BobAssumption DEF Over

(* The colours of the bodies are read. *)
LEMMA BobColours ==
  ASSUME Calm, FileOK, BobOK, LoadBobColours
  PROVE  Stepped("bob") /\ IsSeq(archive') /\ BobOK'
<1>1. io.op = "bob" /\ BobLoading /\ io.part.clrs = <<>>
  BY DEF LoadBobColours, LoadingBob, BobOK
<1>2. PICK part : part = io.part /\ PartIs(part) /\ part.clrs = <<>>
  BY <1>1 DEF BobLoading
<1>3. PICK images, heads, links, due :
        part = [clrs |-> <<>>, images |-> images, heads |-> heads, links |-> links, due |-> due]
        /\ IsSeq(images) /\ IsSeq(heads) /\ IsSeq(links)
  BY <1>2 DEF PartIs
<1>4. io.i = 0 /\ InBodies(io.pos, part) /\ io.pos = 2 /\ Len(images) = 0 /\ Len(heads) = 0 /\ Len(links) = 0
  BY <1>1, <1>2, <1>3, NoSeq, BobSizes DEF BobLoading, InBodies, InOverlays, InLinks
<1>5. PICK new : new = [clrs |-> <<Here>>, images |-> images, heads |-> heads, links |-> links, due |-> due]
  OBVIOUS
<1>6. Needs("colours", Takes(new))
  <2>1. new = [part EXCEPT !.clrs = <<Here>>]
    BY <1>3, <1>5
  <2> QED BY <1>2, <2>1 DEF LoadBobColours
<1>7. CASE io.pos =< disk.len /\ disk.toks[io.pos].t = "colours" /\ Takes(new)
  <2>1. Stepped("bob") /\ IsSeq(archive') /\ ret' = NoRet /\ io'.op = "bob" /\ io'.base = io.base
        /\ io'.pos = 3 /\ io'.i = 0 /\ io'.part = new /\ disk' = disk
    BY <1>1, <1>4, <1>7, BobTakes
  <2>2. Here = 0
    BY <1>1, <1>4, <1>7, BobFileIs DEF BobLoading, Here
  <2>3. new.clrs = <<0>> /\ new.images = images /\ new.heads = heads /\ new.links = links
        /\ new = [clrs |-> new.clrs, images |-> new.images, heads |-> new.heads, links |-> new.links, due |-> new.due]
    BY <1>5, <2>2
  <2>7. IsSeq(<<0>>) /\ Len(<<0>>) = 1 /\ <<0>>[1] = 0 /\ <<0>> # <<>>
    BY SeqGrows, <1>3
  <2>4. PartIs(new)
    BY <1>2, <1>3, <2>3, <2>7, BobSizes DEF PartIs
  <2>5. InBodies(3, new)
    BY <1>4, <2>3, <2>7, BobSizes DEF InBodies
  <2>6. BobLoading'
    BY <1>1, <2>1, <2>4, <2>5 DEF BobLoading
  <2> QED BY <2>1, <2>6, IdleIsIdle DEF BobOK
<1> QED BY <1>1, <1>6, <1>7, BobNeeds

(* A load that reads the bodies and colours, and what it has then. *)
LEMMA BobBody ==
  ASSUME Calm, FileOK, BobOK, LoadBobBody
  PROVE  Stepped("bob") /\ IsSeq(archive') /\ BobOK'
<1>1. io.op = "bob" /\ BobLoading /\ io.part.clrs # <<>> /\ Len(io.part.images) < Bodies
  BY DEF LoadBobBody, LoadingBob, BobOK
<1>2. PICK part : part = io.part /\ PartIs(part) /\ part.clrs # <<>> /\ Len(part.images) < Bodies
  BY <1>1 DEF BobLoading
<1>9. PICK clrs, images, heads, links, due :
        part = [clrs |-> clrs, images |-> images, heads |-> heads, links |-> links, due |-> due]
  BY <1>2 DEF PartIs
<1>3. /\ part.clrs = clrs /\ part.images = images /\ part.heads = heads /\ part.links = links
      /\ IsSeq(clrs) /\ IsSeq(images) /\ IsSeq(heads) /\ IsSeq(links)
  BY <1>2, <1>9 DEF PartIs
<1>4. io.i = 0 /\ InBodies(io.pos, part)
  <2>1. OverlaysOf(disk) \in Nat
    BY <1>1, BobFileIs DEF BobLoading
  <2>2. Len(images) \in Nat /\ Len(heads) \in Nat
    BY <1>3, NoSeq
  <2> QED BY <1>1, <1>2, <1>3, <2>1, <2>2, BobSizes DEF BobLoading, InOverlays, InLinks
<1>5. Len(clrs) = 1 /\ clrs[1] = 0 /\ io.pos = 3 + Len(images) /\ Len(images) \in Nat /\ Len(heads) = 0 /\ Len(links) = 0
  <2>1. Len(clrs) \in Nat /\ Len(clrs) # 0 /\ Len(images) \in Nat
    BY <1>2, <1>3, NoSeq
  <2>2. PICK c \in Nat, n \in Nat : c = Len(clrs) /\ n = Len(images) /\ c # 0
    BY <2>1
  <2>3. c = 1
    <3>1. c > 1 => n = Bodies
      BY <1>3, <1>4, <2>2 DEF InBodies
    <3>2. n < Bodies
      BY <1>2, <1>3, <2>2
    <3> QED BY <2>2, <3>1, <3>2, BobSizes
  <2>4. clrs[1] = 0
    BY <1>2, <1>3, <2>2, <2>3 DEF PartIs
  <2> QED BY <1>3, <1>4, <2>2, <2>3, <2>4 DEF InBodies
<1>6. PICK x, more, new : x = BobImage(Here, 0) /\ more = Append(images, x)
        /\ new = [clrs |-> clrs, images |-> more, heads |-> heads, links |-> links, due |-> due]
  OBVIOUS
<1>7. Needs("image", Takes(new))
  <2>4. [part EXCEPT !.images = more] = [clrs |-> clrs, images |-> more, heads |-> heads, links |-> links, due |-> due]
    BY <1>9
  <2>1. new = [part EXCEPT !.images = more]
    BY <1>6, <2>4, Zenon
  <2>2. more = Append(io.part.images, BobImage(Here, io.part.clrs[1]))
    BY <1>2, <1>3, <1>5, <1>6
  <2>3. new = [io.part EXCEPT !.images = Append(@, BobImage(Here, io.part.clrs[1]))]
    BY <1>2, <2>1, <2>2, Zenon
  <2> QED BY <2>3 DEF LoadBobBody
<1>8. CASE io.pos =< disk.len /\ disk.toks[io.pos].t = "image" /\ Takes(new)
  <2>1. Stepped("bob") /\ IsSeq(archive') /\ ret' = NoRet /\ io'.op = "bob" /\ io'.base = io.base
        /\ io'.pos = io.pos + 1 /\ io'.i = 0 /\ io'.part = new /\ disk' = disk
    BY <1>1, <1>4, <1>8, BobTakes
  <2>2. x # Null /\ x.clrs = 0
    <3>1. io.pos \in 2..Len(disk.toks) /\ 0 \in 0..Dirs
      BY <1>1, <1>5, <1>8, BobFileIs, BobSizes DEF BobLoading
    <3>2. x # Null
      BY <1>1, <1>6, <1>8, <3>1, BobFileIs DEF BobLoading, Here
    <3> QED BY <1>6, <3>2 DEF BobImage
  <2>3. new.clrs = clrs /\ new.images = more /\ new.heads = heads /\ new.links = links
        /\ new = [clrs |-> new.clrs, images |-> new.images, heads |-> new.heads, links |-> new.links, due |-> new.due]
    BY <1>6
  <2>4. IsSeq(new.images) /\ Len(new.images) = Len(images) + 1 /\ new.images[Len(images) + 1] = x
        /\ \A k \in 1..Len(images) : new.images[k] = images[k]
    BY <1>3, <1>6, <2>3, BobSeqs
  <2>5. BodiesOK(new.images)
    <3>1. ASSUME NEW k \in 1..Bodies, k =< Len(new.images) PROVE new.images[k] # Null /\ new.images[k].clrs = 0
      <4>1. CASE k = Len(images) + 1
        BY <2>2, <2>4, <4>1
      <4>2. CASE k \in 1..Len(images)
        BY <1>2, <1>3, <2>4, <4>2 DEF PartIs, BodiesOK
      <4> QED BY <1>5, <2>4, <3>1, <4>1, <4>2, BobSizes
    <3> QED BY <3>1 DEF BodiesOK
  <2>6. PartIs(new)
    BY <1>2, <1>3, <2>3, <2>4, <2>5 DEF PartIs
  <2>7. InBodies(io.pos + 1, new)
    <3>1. Len(new.clrs) = 1 /\ Len(new.images) = Len(images) + 1 /\ Len(new.heads) = 0 /\ Len(new.links) = 0
      BY <1>5, <2>3, <2>4
    <3>2. new.clrs # <<>> /\ Len(images) < Bodies
      BY <1>2, <1>3, <2>3
    <3> QED BY <1>5, <3>1, <3>2, BobSizes DEF InBodies
  <2>8. BobLoading'
    BY <1>1, <2>1, <2>6, <2>7 DEF BobLoading
  <2> QED BY <2>1, <2>8, IdleIsIdle DEF BobOK
<1> QED BY <1>1, <1>7, <1>8, BobNeeds

(* The colours of a direction are read. *)
LEMMA BobDirection ==
  ASSUME Calm, FileOK, BobOK, LoadBobDirection
  PROVE  Stepped("bob") /\ IsSeq(archive') /\ BobOK'
<1>1. io.op = "bob" /\ BobLoading /\ Len(io.part.images) = Bodies /\ Len(io.part.clrs) < Dirs + 1
  BY DEF LoadBobDirection, LoadingBob, BobOK
<1>2. PICK part : part = io.part /\ PartIs(part) /\ Len(part.images) = Bodies /\ Len(part.clrs) < Dirs + 1
  BY <1>1 DEF BobLoading
<1>3. PICK clrs, images, heads, links, due :
        part = [clrs |-> clrs, images |-> images, heads |-> heads, links |-> links, due |-> due]
  BY <1>2 DEF PartIs
<1>4. /\ part.clrs = clrs /\ part.images = images /\ part.heads = heads /\ part.links = links
      /\ IsSeq(clrs) /\ IsSeq(images) /\ IsSeq(heads) /\ IsSeq(links)
  BY <1>2, <1>3 DEF PartIs
<1>5. PICK c \in Nat : c = Len(clrs) /\ c < Dirs + 1
  BY <1>2, <1>4, NoSeq
<1>6. io.i = 0 /\ InBodies(io.pos, part)
  BY <1>1, <1>2, <1>4, <1>5, BobSizes DEF BobLoading, InOverlays, InLinks
<1>7. c # 0 /\ io.pos = 2 + c + Bodies /\ Len(images) = Bodies /\ Len(heads) = 0 /\ Len(links) = 0
  <2>1. clrs # <<>>
    BY <1>2, <1>4, <1>6, BobSizes DEF InBodies
  <2> QED BY <1>2, <1>4, <1>5, <1>6, <2>1, NoSeq DEF InBodies
<1>8. PICK more, new : more = Append(clrs, Here)
        /\ new = [clrs |-> more, images |-> images, heads |-> heads, links |-> links, due |-> due]
  OBVIOUS
<1>9. Needs("colours", Takes(new))
  <2>1. [part EXCEPT !.clrs = more] = [clrs |-> more, images |-> images, heads |-> heads, links |-> links, due |-> due]
    BY <1>3
  <2>2. more = Append(io.part.clrs, Here)
    BY <1>2, <1>4, <1>8
  <2>3. new = [io.part EXCEPT !.clrs = Append(@, Here)]
    BY <1>2, <1>8, <2>1, <2>2, Zenon
  <2> QED BY <2>3 DEF LoadBobDirection
<1>10. CASE io.pos =< disk.len /\ disk.toks[io.pos].t = "colours" /\ Takes(new)
  <2>1. Stepped("bob") /\ IsSeq(archive') /\ ret' = NoRet /\ io'.op = "bob" /\ io'.base = io.base
        /\ io'.pos = io.pos + 1 /\ io'.i = 0 /\ io'.part = new /\ disk' = disk
    BY <1>1, <1>6, <1>10, BobTakes
  <2>2. Here = c
    <3>1. c \in 1..Dirs /\ io.pos = Bodies + c + 2
      BY <1>5, <1>7, BobSizes
    <3>2. io.pos =< Len(disk.toks)
      BY <1>1, <1>5, <1>7, <1>10, BobFileIs, BobSizes DEF BobLoading
    <3> QED BY <1>1, <1>10, <3>1, <3>2, BobFileIs DEF BobLoading, Here
  <2>3. new.clrs = more /\ new.images = images /\ new.heads = heads /\ new.links = links
        /\ new = [clrs |-> new.clrs, images |-> new.images, heads |-> new.heads, links |-> new.links, due |-> new.due]
    BY <1>8
  <2>4. IsSeq(more) /\ Len(more) = c + 1 /\ more[c + 1] = c /\ \A k \in 1..c : more[k] = clrs[k]
    BY <1>4, <1>5, <1>8, <2>2, BobSeqs
  <2>5. PartIs(new)
    <3>1. ASSUME NEW k \in 1..(c + 1) PROVE more[k] = k - 1
      <4>1. CASE k = c + 1
        BY <1>5, <2>4, <4>1
      <4>2. CASE k \in 1..c
        BY <1>2, <1>4, <1>5, <2>4, <4>2 DEF PartIs
      <4> QED BY <1>5, <4>1, <4>2
    <3>2. c + 1 \in 0..(Dirs + 1)
      BY <1>5, BobSizes
    <3> QED BY <1>2, <1>4, <2>3, <2>4, <3>1, <3>2 DEF PartIs
  <2>6. InBodies(io.pos + 1, new)
    <3>1. more # <<>>
      BY <1>5, <2>4, NoSeq
    <3>2. io.pos + 1 = 2 + (c + 1) + Bodies
      BY <1>7, BobSizes
    <3> QED BY <1>7, <2>3, <2>4, <3>1, <3>2, BobSizes DEF InBodies
  <2>7. BobLoading'
    BY <1>1, <2>1, <2>5, <2>6 DEF BobLoading
  <2> QED BY <2>1, <2>7, IdleIsIdle DEF BobOK
<1> QED BY <1>1, <1>9, <1>10, BobNeeds

(* Empty entries behind others. *)
LEMMA NullsBehind ==
  ASSUME NEW s, IsSeq(s), NEW n \in Nat
  PROVE  /\ IsSeq(s \o Nulls(n)) /\ Len(s) \in Nat /\ Len(s \o Nulls(n)) = Len(s) + n
         /\ \A k \in 1..Len(s) : (s \o Nulls(n))[k] = s[k]
         /\ \A k \in (Len(s) + 1)..(Len(s) + n) : (s \o Nulls(n))[k] = Null
<1>1. PICK S : s \in Seq(S)
  BY DEF IsSeq
<1>2. s \in Seq(S \union {Null}) /\ Nulls(n) \in Seq(S \union {Null}) /\ Len(Nulls(n)) = n
      /\ \A k \in 1..n : Nulls(n)[k] = Null
  BY <1>1 DEF Nulls
<1> HIDE DEF Nulls
<1> QED BY <1>2 DEF IsSeq

(* The number of overlays is read, and they are made, empty. *)
LEMMA BobCount ==
  ASSUME Calm, FileOK, BobOK, LoadBobCount
  PROVE  Stepped("bob") /\ IsSeq(archive') /\ BobOK'
<1>1. io.op = "bob" /\ BobLoading /\ Len(io.part.clrs) = Dirs + 1 /\ io.i = 0
  BY DEF LoadBobCount, AtOverlays, LoadingBob, BobOK
<1>2. PICK part : part = io.part /\ PartIs(part) /\ Len(part.clrs) = Dirs + 1 /\ InBodies(io.pos, part)
  BY <1>1 DEF BobLoading
<1>3. PICK clrs, images, heads, links, due :
        part = [clrs |-> clrs, images |-> images, heads |-> heads, links |-> links, due |-> due]
  BY <1>2 DEF PartIs
<1>4. /\ part.clrs = clrs /\ part.images = images /\ part.heads = heads /\ part.links = links
      /\ IsSeq(clrs) /\ IsSeq(images) /\ IsSeq(heads) /\ IsSeq(links)
  BY <1>2, <1>3 DEF PartIs
<1>5. Len(images) = Bodies /\ io.pos = Over /\ Len(heads) = 0 /\ Len(links) = 0
  BY <1>2, <1>4, BobSizes DEF InBodies
<1> DEFINE n == IF Is(io.pos, "count") THEN Here ELSE 0
<1>7. n \in Nat /\ (Over + 1 =< disk.len => n = OverlaysOf(disk))
  <2>1. OverlaysOf(disk) \in Nat /\ Len(disk.toks) \in Nat /\ disk.len \in 0..Len(disk.toks)
    BY <1>1, BobFileIs DEF BobLoading
  <2> QED BY <1>5, <2>1, BobSizes DEF OverlaysOf, Is, Here
<1> HIDE DEF n
<1>8. PICK more, mid, new : more = images \o Nulls(n)
        /\ mid = [clrs |-> clrs, images |-> images, heads |-> heads, links |-> links, due |-> n]
        /\ new = [clrs |-> clrs, images |-> more, heads |-> heads, links |-> links, due |-> n]
  OBVIOUS
<1>9. new = [io.part EXCEPT !.due = n, !.images = @ \o Nulls(n)]
  <2>1. [part EXCEPT !.due = n] = [clrs |-> clrs, images |-> images, heads |-> heads, links |-> links, due |-> n]
    BY <1>3
  <2>2. mid = [part EXCEPT !.due = n]
    BY <1>8, <2>1, Zenon
  <2>3. mid = [clrs |-> clrs, images |-> images, heads |-> heads, links |-> links, due |-> n]
    BY <1>8
  <2>4. [mid EXCEPT !.images = more] = [clrs |-> clrs, images |-> more, heads |-> heads, links |-> links, due |-> n]
    BY <2>3
  <2>5. new = [mid EXCEPT !.images = more]
    BY <1>8, <2>4, Zenon
  <2>6. more = io.part.images \o Nulls(n)
    BY <1>2, <1>4, <1>8
  <2> QED BY <1>2, <2>2, <2>5, <2>6, Zenon
<1>10. PICK made : made = [io.part EXCEPT !.due = n, !.images = @ \o Nulls(n)]
                  /\ Goes(archive, [io EXCEPT !.pos = @ + 1, !.i = 1, !.part = made])
  BY Zenon DEF LoadBobCount, n
<1>11. Stepped("bob") /\ IsSeq(archive') /\ ret' = NoRet /\ io'.op = "bob" /\ io'.base = io.base
       /\ io'.pos = Over + 1 /\ io'.i = 1 /\ io'.part = new /\ disk' = disk
  <2>1. made = new
    BY <1>9, <1>10, Zenon
  <2> QED BY <1>1, <1>5, <1>10, <2>1, BobMoves DEF Goes
<1>12. new.clrs = clrs /\ new.images = more /\ new.heads = heads /\ new.links = links /\ new.due = n
       /\ new = [clrs |-> new.clrs, images |-> new.images, heads |-> new.heads, links |-> new.links, due |-> new.due]
  BY <1>8
<1>13. IsSeq(more) /\ Len(more) = Bodies + n /\ (\A k \in 1..Bodies : more[k] = images[k])
       /\ \A k \in (Bodies + 1)..(Bodies + n) : more[k] = Null
  BY <1>4, <1>5, <1>7, <1>8, NullsBehind
<1>14. PartIs(new)
  <2>1. BodiesOK(more)
    BY <1>2, <1>4, <1>5, <1>13, BobSizes DEF PartIs, BodiesOK
  <2> QED BY <1>2, <1>4, <1>12, <1>13, <2>1 DEF PartIs
<1>15. InOverlays(disk, Over + 1, new)
  BY <1>2, <1>4, <1>5, <1>7, <1>12, <1>13, BobSizes DEF InOverlays
<1>16. BobLoading'
  BY <1>1, <1>11, <1>14, <1>15 DEF BobLoading
<1> QED BY <1>11, <1>16, IdleIsIdle DEF BobOK

(* The head of an overlay is read. *)
LEMMA BobOverlay ==
  ASSUME Calm, FileOK, BobOK, LoadBobOverlay
  PROVE  Stepped("bob") /\ IsSeq(archive') /\ BobOK'
<1>1. io.op = "bob" /\ BobLoading /\ io.i = 1 /\ Len(io.part.heads) < io.part.due
  BY DEF LoadBobOverlay, AtOverlays, LoadingBob, BobOK
<1>2. PICK part : part = io.part /\ PartIs(part) /\ InOverlays(disk, io.pos, part) /\ Len(part.heads) < part.due
  BY <1>1 DEF BobLoading
<1>3. PICK clrs, images, heads, links, due :
        part = [clrs |-> clrs, images |-> images, heads |-> heads, links |-> links, due |-> due]
  BY <1>2 DEF PartIs
<1>4. /\ part.clrs = clrs /\ part.images = images /\ part.heads = heads /\ part.links = links /\ part.due = due
      /\ IsSeq(clrs) /\ IsSeq(images) /\ IsSeq(heads) /\ IsSeq(links)
  BY <1>2, <1>3 DEF PartIs
<1>5. PICK h \in Nat : h = Len(heads) /\ h < due /\ due \in Nat /\ io.pos = Over + 1 + h
  BY <1>2, <1>4, NoSeq DEF InOverlays
<1>6. PICK more, new : more = Append(heads, Here)
        /\ new = [clrs |-> clrs, images |-> images, heads |-> more, links |-> links, due |-> due]
  OBVIOUS
<1>7. Needs("image", Takes(new))
  <2>1. [part EXCEPT !.heads = more] = [clrs |-> clrs, images |-> images, heads |-> more, links |-> links, due |-> due]
    BY <1>3
  <2>2. more = Append(io.part.heads, Here)
    BY <1>2, <1>4, <1>6
  <2>3. new = [io.part EXCEPT !.heads = Append(@, Here)]
    BY <1>2, <1>6, <2>1, <2>2, Zenon
  <2> QED BY <2>3 DEF LoadBobOverlay
<1>8. CASE io.pos =< disk.len /\ disk.toks[io.pos].t = "image" /\ Takes(new)
  <2>1. Stepped("bob") /\ IsSeq(archive') /\ ret' = NoRet /\ io'.op = "bob" /\ io'.base = io.base
        /\ io'.pos = io.pos + 1 /\ io'.i = 1 /\ io'.part = new /\ disk' = disk
    BY <1>1, <1>8, BobTakes
  <2>2. \A d \in 0..Dirs : BobImage(Here, d) # Null
    <3>1. io.pos \in 2..Len(disk.toks)
      BY <1>1, <1>5, <1>8, BobFileIs, BobSizes DEF BobLoading
    <3> QED BY <1>1, <1>8, <3>1, BobFileIs DEF BobLoading, Here
  <2>3. new.clrs = clrs /\ new.images = images /\ new.heads = more /\ new.links = links /\ new.due = due
        /\ new = [clrs |-> new.clrs, images |-> new.images, heads |-> new.heads, links |-> new.links, due |-> new.due]
    BY <1>6
  <2>4. IsSeq(more) /\ Len(more) = h + 1 /\ more[h + 1] = Here /\ \A k \in 1..h : more[k] = heads[k]
    BY <1>4, <1>5, <1>6, BobSeqs
  <2>5. PartIs(new)
    <3>1. ASSUME NEW k \in 1..(h + 1), NEW d \in 0..Dirs PROVE BobImage(more[k], d) # Null
      <4>1. CASE k = h + 1
        BY <2>2, <2>4, <4>1
      <4>2. CASE k \in 1..h
        BY <1>2, <1>4, <1>5, <2>4, <4>2 DEF PartIs
      <4> QED BY <1>5, <4>1, <4>2
    <3> QED BY <1>2, <1>4, <2>3, <2>4, <3>1 DEF PartIs
  <2>6. InOverlays(disk, io.pos + 1, new)
    <3>1. io.pos =< disk.len /\ io.pos \in Int
      BY <1>5, <1>8, BobSizes
    <3>2. due = OverlaysOf(disk)
      BY <1>2, <1>4, <3>1 DEF InOverlays
    <3>3. io.pos + 1 = Over + 1 + (h + 1) /\ h + 1 =< due
      BY <1>5, BobSizes
    <3> QED BY <1>2, <1>4, <2>3, <2>4, <3>2, <3>3 DEF InOverlays
  <2>7. BobLoading'
    BY <1>1, <2>1, <2>5, <2>6 DEF BobLoading
  <2> QED BY <2>1, <2>7, IdleIsIdle DEF BobOK
<1> QED BY <1>1, <1>7, <1>8, BobNeeds

(* The number of links is read. *)
LEMMA BobLinks ==
  ASSUME Calm, FileOK, BobOK, LoadBobLinks
  PROVE  Stepped("bob") /\ IsSeq(archive') /\ BobOK'
<1>1. io.op = "bob" /\ BobLoading /\ io.i = 1 /\ Len(io.part.heads) = io.part.due
  BY DEF LoadBobLinks, AtOverlays, LoadingBob, BobOK
<1>2. PICK part : part = io.part /\ PartIs(part) /\ InOverlays(disk, io.pos, part) /\ Len(part.heads) = part.due
  BY <1>1 DEF BobLoading
<1>3. PICK clrs, images, heads, links, due :
        part = [clrs |-> clrs, images |-> images, heads |-> heads, links |-> links, due |-> due]
  BY <1>2 DEF PartIs
<1>4. /\ part.clrs = clrs /\ part.images = images /\ part.heads = heads /\ part.links = links /\ part.due = due
      /\ IsSeq(clrs) /\ IsSeq(images) /\ IsSeq(heads) /\ IsSeq(links)
  BY <1>2, <1>3 DEF PartIs
<1>5. CASE AtEnd(io.pos)
  BY <1>1, <1>5, BobFails DEF LoadBobLinks
<1>6. CASE ~AtEnd(io.pos)
  <2>1. PICK made : made = [io.part EXCEPT !.due = Here] /\ Goes(archive, [io EXCEPT !.pos = @ + 1, !.i = 2, !.part = made])
    BY <1>6, Zenon DEF LoadBobLinks
  <2>2. PICK new : new = [clrs |-> clrs, images |-> images, heads |-> heads, links |-> links, due |-> Here]
    OBVIOUS
  <2>3. made = new
    <3>1. [part EXCEPT !.due = Here] = [clrs |-> clrs, images |-> images, heads |-> heads, links |-> links, due |-> Here]
      BY <1>3
    <3> QED BY <1>2, <2>1, <2>2, <3>1, Zenon
  <2>4. Stepped("bob") /\ IsSeq(archive') /\ ret' = NoRet /\ io'.op = "bob" /\ io'.base = io.base
        /\ io'.pos = io.pos + 1 /\ io'.i = 2 /\ io'.part = new /\ disk' = disk
    BY <1>1, <2>1, <2>3, BobMoves DEF Goes
  <2>5. new.clrs = clrs /\ new.images = images /\ new.heads = heads /\ new.links = links /\ new.due = Here
        /\ new = [clrs |-> new.clrs, images |-> new.images, heads |-> new.heads, links |-> new.links, due |-> new.due]
    BY <2>2
  <2>6. PICK m \in Nat : m = Len(heads) /\ m = OverlaysOf(disk) /\ io.pos = Over + 1 + m /\ Len(links) = 0
                         /\ Len(images) = Bodies + m /\ \A k \in (Bodies + 1)..(Bodies + m) : images[k] = Null
    <3>1. Over + 1 + Len(heads) =< disk.len
      <4>1. io.pos = Over + 1 + Len(heads) /\ Len(heads) \in Nat /\ disk.len \in Int
        BY <1>1, <1>2, <1>4, NoSeq, BobFileIs DEF InOverlays, BobLoading
      <4> QED BY <1>6, <4>1, BobSizes DEF AtEnd
    <3> QED BY <1>2, <1>4, <3>1, NoSeq DEF InOverlays
  <2>7. PartIs(new)
    BY <1>2, <1>4, <2>5 DEF PartIs
  <2>8. LinksOK(images, links, m)
    <3>1. \A h \in 0..(m - 1) : Bodies + h + 1 \in (Bodies + 1)..(Bodies + m)
      BY <2>6, BobSizes
    <3> QED BY <2>6, <3>1 DEF LinksOK
  <2>9. InLinks(disk, io.pos + 1, new)
    BY <1>2, <1>4, <2>5, <2>6, <2>8, BobSizes DEF InLinks, InOverlays
  <2>10. BobLoading'
    BY <1>1, <2>4, <2>7, <2>9 DEF BobLoading
  <2> QED BY <2>4, <2>10, IdleIsIdle DEF BobOK
<1> QED BY <1>5, <1>6

(* One more link. *)
LEMMA LinkAdded ==
  ASSUME NEW images, NEW links, NEW m \in Nat, IsSeq(images), IsSeq(links), Len(images) = Bodies + m,
         BodiesOK(images), LinksOK(images, links, m), NEW h \in 0..(m - 1), NEW x, x # Null,
         NEW n \in Nat, n = Len(links), x.clrs = (n % Dirs) + 1, NEW now,
         now = Decoded(images, Bodies + h + 1, x)
  PROVE  IsSeq(now) /\ Len(now) = Bodies + m /\ BodiesOK(now) /\ LinksOK(now, Append(links, h), m)
<1>1. PICK at \in (Bodies + 1)..(Bodies + m) : at = Bodies + h + 1
  BY BobSizes
<1>2. /\ IsSeq(now) /\ Len(now) = Bodies + m
      /\ images[at] # Null => now = images
      /\ images[at] = Null => now[at] = x /\ \A k \in 1..(Bodies + m) : k # at => now[k] = images[k]
  <2>1. CASE images[at] # Null
    BY <1>1, <2>1 DEF Decoded
  <2>2. CASE images[at] = Null
    <3>1. now = [images EXCEPT ![at] = x]
      BY <1>1, <2>2 DEF Decoded
    <3>3. PICK S : images \in Seq(S)
      BY DEF IsSeq
    <3>4. images \in [1..(Bodies + m) -> S] /\ at \in 1..(Bodies + m)
      BY <1>1, <3>3, BobSizes
    <3>5. now \in [1..(Bodies + m) -> S \union {x}] /\ now[at] = x /\ \A k \in 1..(Bodies + m) : k # at => now[k] = images[k]
      BY <3>1, <3>4
    <3>6. Bodies + m \in Nat /\ DOMAIN now = 1..(Bodies + m)
      BY <3>5, BobSizes
    <3>2. now \in Seq(S \union {x})
      <4>1. PICK b \in Nat : b = Bodies + m
        BY <3>6
      <4> QED BY <3>5, <4>1
    <3>7. Len(now) = Bodies + m
      BY <3>2, <3>6, LenProperties
    <3> QED BY <2>2, <3>2, <3>5, <3>7 DEF IsSeq
  <2> QED BY <2>1, <2>2
<1>8. PICK more : more = Append(links, h)
  OBVIOUS
<1>3. IsSeq(more) /\ Len(more) = n + 1 /\ more[n + 1] = h /\ \A k \in 1..n : more[k] = links[k]
  BY <1>8, BobSeqs
<1>4. BodiesOK(now)
  <2>1. ASSUME NEW k \in 1..Bodies PROVE now[k] = images[k] /\ k =< Len(images)
    BY <1>1, <1>2, BobSizes
  <2> QED BY <1>2, <2>1 DEF BodiesOK
<1>5. ASSUME NEW k \in 1..(n + 1) PROVE more[k] \in 0..(m - 1)
  <2>1. CASE k = n + 1
    BY <1>3, <2>1
  <2>2. CASE k \in 1..n
    BY <1>3, <2>2 DEF LinksOK
  <2> QED BY <2>1, <2>2
<1>6. ASSUME NEW g \in 0..(m - 1)
      PROVE  \/ now[Bodies + g + 1] = Null /\ \A k \in 1..(n + 1) : more[k] # g
             \/ /\ now[Bodies + g + 1] # Null
                /\ \E k \in 1..(n + 1) : FirstLink(more, g, k) /\ now[Bodies + g + 1].clrs = ((k - 1) % Dirs) + 1
  <2>5. PICK to \in (Bodies + 1)..(Bodies + m) : to = Bodies + g + 1
    BY BobSizes
  <2>1. to = Bodies + g + 1 /\ (to = at <=> g = h) /\ to \in 1..(Bodies + m)
    BY <1>1, <2>5, BobSizes
  <2>2. CASE images[to] # Null
    <3>1. now[to] = images[to]
      BY <1>2, <2>1, <2>2
    <3>2. PICK k \in 1..n : FirstLink(links, g, k) /\ images[to].clrs = ((k - 1) % Dirs) + 1
      BY <2>1, <2>2 DEF LinksOK
    <3>3. FirstLink(more, g, k) /\ k \in 1..(n + 1)
      BY <1>3, <3>2 DEF FirstLink
    <3> QED BY <2>1, <2>2, <3>1, <3>2, <3>3
  <2>3. CASE images[to] = Null /\ g # h
    <3>1. now[to] = images[to]
      BY <1>2, <2>1, <2>3
    <3>2. \A k \in 1..n : links[k] # g
      BY <2>1, <2>3 DEF LinksOK
    <3>3. ASSUME NEW k \in 1..(n + 1) PROVE more[k] # g
      <4>1. CASE k = n + 1
        BY <1>3, <2>3, <4>1
      <4>2. CASE k \in 1..n
        BY <1>3, <3>2, <4>2
      <4> QED BY <4>1, <4>2
    <3> QED BY <2>1, <2>3, <3>1, <3>3
  <2>4. CASE images[to] = Null /\ g = h
    <3>1. now[to] = x
      BY <1>2, <2>1, <2>4
    <3>2. \A k \in 1..n : links[k] # h
      BY <1>1, <2>1, <2>4 DEF LinksOK
    <3>3. FirstLink(more, h, n + 1)
      <4>1. \A j \in 1..((n + 1) - 1) : j \in 1..n
        OBVIOUS
      <4> QED BY <1>3, <3>2, <4>1 DEF FirstLink
    <3>4. now[to].clrs = (((n + 1) - 1) % Dirs) + 1 /\ n + 1 \in 1..(n + 1)
      <4>1. (n + 1) - 1 = n
        OBVIOUS
      <4> QED BY <3>1, <4>1
    <3> QED BY <2>1, <2>4, <3>1, <3>3, <3>4
  <2> QED BY <2>2, <2>3, <2>4
<1>7. LinksOK(now, more, m)
  BY <1>3, <1>5, <1>6 DEF LinksOK
<1> QED BY <1>2, <1>4, <1>7, <1>8

(* A link is read, and its overlay decoded if no link before named it. *)
LEMMA BobLink ==
  ASSUME Calm, FileOK, BobOK, LoadBobLink
  PROVE  Stepped("bob") /\ IsSeq(archive') /\ BobOK'
<1>1. io.op = "bob" /\ BobLoading /\ io.i = 2
  BY DEF LoadBobLink, AtOverlays, LoadingBob, BobOK
<1>2. PICK part : part = io.part /\ PartIs(part) /\ InLinks(disk, io.pos, part)
  BY <1>1 DEF BobLoading
<1>3. PICK clrs, images, heads, links, due :
        part = [clrs |-> clrs, images |-> images, heads |-> heads, links |-> links, due |-> due]
  BY <1>2 DEF PartIs
<1>4. /\ part.clrs = clrs /\ part.images = images /\ part.heads = heads /\ part.links = links /\ part.due = due
      /\ IsSeq(clrs) /\ IsSeq(images) /\ IsSeq(heads) /\ IsSeq(links)
  BY <1>2, <1>3 DEF PartIs
<1>5. CASE AtEnd(io.pos)
  BY <1>1, <1>5, BobFails DEF LoadBobLink
<1>6. CASE ~AtEnd(io.pos) /\ Here >= Len(io.part.heads)
  BY <1>1, <1>6, BobFails DEF LoadBobLink
<1>7. CASE ~AtEnd(io.pos) /\ ~(Here >= Len(io.part.heads))
  <2>1. PICK m \in Nat, n \in Nat : m = Len(heads) /\ n = Len(links) /\ m = OverlaysOf(disk)
                                    /\ io.pos = Over + 2 + m + n /\ Len(images) = Bodies + m
    BY <1>2, <1>4, NoSeq DEF InLinks
  <2>2. PICK h \in 0..(m - 1) : h = Here
    <3>1. io.pos \in (Over + m + 1)..Len(disk.toks)
      <4>1. Len(disk.toks) \in Nat /\ disk.len \in 0..Len(disk.toks)
        BY <1>1, BobFileIs DEF BobLoading
      <4> QED BY <1>7, <2>1, <4>1, BobSizes DEF AtEnd
    <3>2. Here \in Nat
      BY <1>1, <2>1, <3>1, BobFileIs DEF BobLoading, Here
    <3> QED BY <1>2, <1>4, <1>7, <2>1, <3>2
  <2>3. PICK clr : clr = clrs[DirectionOf(n, h) + 2] /\ clr = (n % Dirs) + 1 /\ clr \in 0..Dirs
    <3>1. PICK r \in 0..(Dirs - 1) : r = n % Dirs
      BY BobSizes, Divided
    <3>2. r + 2 \in 1..(Dirs + 1) /\ (r + 2) - 1 = r + 1 /\ r + 1 \in 0..Dirs
      BY BobSizes
    <3>3. clrs[r + 2] = r + 1
      BY <1>2, <1>4, <3>2 DEF PartIs, InLinks
    <3> QED BY <3>1, <3>2, <3>3 DEF DirectionOf
  <2>4. PICK x : x = BobImage(heads[h + 1], clr) /\ x # Null /\ x.clrs = (n % Dirs) + 1
    <3>1. h + 1 \in 1..m
      OBVIOUS
    <3>2. BobImage(heads[h + 1], clr) # Null
      BY <1>2, <1>4, <2>1, <2>3, <3>1 DEF PartIs
    <3>3. BobImage(heads[h + 1], clr).clrs = clr
      BY DEF BobImage
    <3> QED BY <2>3, <3>2, <3>3
  <2>5. PICK now : now = Decoded(images, Bodies + h + 1, x)
    OBVIOUS
  <2>6. IsSeq(now) /\ Len(now) = Bodies + m /\ BodiesOK(now) /\ LinksOK(now, Append(links, h), m)
    <3>2. LinksOK(images, links, Len(heads)) /\ BodiesOK(images)
      BY <1>2, <1>4 DEF PartIs, InLinks
    <3>1. BodiesOK(images) /\ LinksOK(images, links, m)
      BY <2>1, <3>2, Zenon
    <3>3. n = Len(links) /\ Len(images) = Bodies + m /\ IsSeq(images) /\ IsSeq(links)
      BY <1>4, <2>1
    <3>4. m \in Nat /\ n \in Nat /\ h \in 0..(m - 1) /\ x # Null /\ x.clrs = (n % Dirs) + 1
      BY <2>4
    <3> QED BY <2>5, <3>1, <3>3, <3>4, LinkAdded
  <2>15. PICK more : more = Append(links, h)
    OBVIOUS
  <2>7. more = Append(links, h) /\ IsSeq(more) /\ Len(more) = n + 1
    BY <1>4, <2>1, <2>15, BobSeqs
  <2>8. PICK new : new = [clrs |-> clrs, images |-> now, heads |-> heads, links |-> more, due |-> due]
    OBVIOUS
  <2>9. Takes(new)
    <3>1. PICK mid : mid = [clrs |-> clrs, images |-> images, heads |-> heads, links |-> more, due |-> due]
      OBVIOUS
    <3>2. [part EXCEPT !.links = more] = [clrs |-> clrs, images |-> images, heads |-> heads, links |-> more, due |-> due]
      BY <1>3
    <3>3. mid = [part EXCEPT !.links = more]
      BY <3>1, <3>2, Zenon
    <3>4. [mid EXCEPT !.images = now] = [clrs |-> clrs, images |-> now, heads |-> heads, links |-> more, due |-> due]
      BY <3>1
    <3>5. new = [[part EXCEPT !.links = more] EXCEPT !.images = now]
      BY <2>8, <3>3, <3>4, Zenon
    <3>6. PICK made : /\ made = [io.part EXCEPT
                                   !.links  = Append(@, Here),
                                   !.images = Decoded(@, Bodies + Here + 1,
                                                BobImage(io.part.heads[Here + 1],
                                                         io.part.clrs[DirectionOf(Len(io.part.links), Here) + 2]))]
                      /\ Takes(made)
      BY <1>7, Zenon DEF LoadBobLink
    <3>7. more = Append(io.part.links, Here)
      BY <1>2, <1>4, <2>2, <2>15
    <3>8. now = Decoded(io.part.images, Bodies + Here + 1,
                        BobImage(io.part.heads[Here + 1], io.part.clrs[DirectionOf(Len(io.part.links), Here) + 2]))
      BY <1>2, <1>4, <2>1, <2>2, <2>3, <2>4, <2>5
    <3>9. made = new
      BY <1>2, <3>5, <3>6, <3>7, <3>8, Zenon
    <3> QED BY <3>6, <3>9
  <2>10. Stepped("bob") /\ IsSeq(archive') /\ ret' = NoRet /\ io'.op = "bob" /\ io'.base = io.base
        /\ io'.pos = io.pos + 1 /\ io'.i = 2 /\ io'.part = new /\ disk' = disk
    BY <1>1, <2>9, BobTakes
  <2>11. new.clrs = clrs /\ new.images = now /\ new.heads = heads /\ new.links = more /\ new.due = due
        /\ new = [clrs |-> new.clrs, images |-> new.images, heads |-> new.heads, links |-> new.links, due |-> new.due]
    BY <2>8
  <2>12. PartIs(new)
    BY <1>2, <1>4, <2>6, <2>7, <2>11 DEF PartIs
  <2>13. InLinks(disk, io.pos + 1, new)
    <3>1. io.pos + 1 = Over + 2 + m + (n + 1)
      <4>1. PICK o \in Nat : o = Over
        BY BobSizes
      <4> QED BY <2>1, <4>1
    <3>2. Len(clrs) = Dirs + 1
      BY <1>2, <1>4 DEF InLinks
    <3> QED BY <2>1, <2>6, <2>7, <2>11, <3>1, <3>2 DEF InLinks
  <2>14. BobLoading'
    BY <1>1, <2>10, <2>12, <2>13 DEF BobLoading
  <2> QED BY <2>10, <2>14, IdleIsIdle DEF BobOK
<1> QED BY <1>5, <1>6, <1>7

(* A bob that was loaded has its links behind the bodies. *)
LEMMA BobEnd ==
  ASSUME Calm, FileOK, BobOK, LoadBobEnd
  PROVE  Stepped("bob") /\ IsSeq(archive') /\ BobOK'
<1>1. io.op = "bob" /\ BobLoading /\ io.i = 2
  BY DEF LoadBobEnd, AtOverlays, LoadingBob, BobOK
<1>2. PICK part : part = io.part /\ PartIs(part) /\ InLinks(disk, io.pos, part)
  BY <1>1 DEF BobLoading
<1>3. PICK bob : bob = Bob(part.images, [n \in DOMAIN part.links |-> part.links[n] + Bodies])
  OBVIOUS
<1>4. Returns(<<bob>>, "NONE")
  BY <1>2, <1>3 DEF LoadBobEnd
<1>5. Stepped("bob") /\ archive' = <<bob>>
  BY <1>1, <1>4, ReturnsIs
<1>6. IsSeq(archive') /\ archive'[1] = bob
  BY <1>5, SeqGrows, NoSeq
<1>7. BobLoaded'
  <2>1. PICK m \in Nat : m = Len(part.heads) /\ Len(part.images) = Bodies + m
    BY <1>2, NoSeq DEF PartIs, InLinks
  <2>2. LinksOK(part.images, part.links, m) /\ IsSeq(part.images) /\ IsSeq(part.links) /\ BodiesOK(part.images)
    BY <1>2, <2>1 DEF PartIs, InLinks
  <2> QED BY <1>3, <1>6, <2>1, <2>2 DEF BobLoaded
<1>8. io'.op # "bob"
  BY <1>4, IdleIsIdle DEF Returns
<1> QED BY <1>5, <1>6, <1>7, <1>8 DEF BobOK

(* Every step of LoadBOB keeps what is known of the bob. *)
LEMMA BobSteps == ASSUME Calm, FileOK, BobOK, BobStep PROVE Stepped("bob") /\ IsSeq(archive') /\ BobOK'
BY BobColours, BobBody, BobDirection, BobCount, BobOverlay, BobLinks, BobLink, BobEnd DEF BobStep

(* Who has read all links of a bob can show every figure. *)
LEMMA BobShows == ASSUME BobOK PROVE FiguresComplete
<1> SUFFICES ASSUME ret = [op |-> "bob", code |-> "NONE"] PROVE FiguresComplete
  BY DEF FiguresComplete
<1>1. PICK images, links : \E m \in Nat :
        /\ archive[1] = Bob(images, [n \in DOMAIN links |-> links[n] + Bodies])
        /\ IsSeq(images) /\ IsSeq(links) /\ Len(images) = Bodies + m
        /\ BodiesOK(images) /\ LinksOK(images, links, m)
  BY DEF BobOK, BobLoaded
<1>2. PICK m \in Nat :
        /\ archive[1] = Bob(images, [n \in DOMAIN links |-> links[n] + Bodies])
        /\ IsSeq(images) /\ IsSeq(links) /\ Len(images) = Bodies + m
        /\ BodiesOK(images) /\ LinksOK(images, links, m)
  BY <1>1
<1> DEFINE bob == archive[1]
           names == Carried(bob)
<1>3. PICK shown : shown = [n \in DOMAIN links |-> links[n] + Bodies]
  OBVIOUS
<1>4. bob = Bob(images, shown) /\ bob.images = images /\ bob.links = shown
  BY <1>2, <1>3 DEF Bob
<1> HIDE DEF bob
<1>5. PICK l \in Nat : l = Len(links) /\ DOMAIN links = 1..l
  BY <1>2 DEF IsSeq
<1>6. Len(shown) = l /\ \A k \in 1..l : shown[k] = links[k] + Bodies /\ links[k] \in 0..(m - 1)
  <2>1. \A k \in 1..l : links[k] \in 0..(m - 1)
    BY <1>2, <1>5 DEF LinksOK
  <2>2. shown \in [1..l -> Int]
    BY <1>3, <1>5, <2>1, BobSizes
  <2> QED BY <1>3, <1>5, <2>1, <2>2
<1>7. PICK jobs \in Nat : jobs = Len(shown) \div Bodies /\ jobs * Bodies \in Nat /\ jobs * Bodies =< l
  <2>1. l \div Bodies \in Nat /\ l % Bodies \in 0..(Bodies - 1) /\ l = (l \div Bodies) * Bodies + (l % Bodies)
    BY Divided, BobSizes
  <2>2. PICK q \in Nat, r \in 0..(Bodies - 1) : q = l \div Bodies /\ l = q * Bodies + r
    BY <2>1
  <2>3. q * Bodies \in Nat
    BY BobSizes
  <2>4. PICK p \in Nat : p = q * Bodies
    BY <2>3
  <2>5. q = Len(shown) \div Bodies
    BY <1>6, <2>2, Zenon
  <2>6. q * Bodies \in Nat /\ q * Bodies =< l
    BY <2>2, <2>4
  <2> QED BY <2>5, <2>6
<1>8. ASSUME NEW fat \in {0, 1}, NEW dir \in 0..(Dirs - 1), NEW step \in 0..(Steps - 1)
      PROVE  BodyOf(bob, fat, dir, step) # Null /\ BodyOf(bob, fat, dir, step).clrs = 0
  <2>1. fat * Dirs + dir \in 0..(2 * Dirs - 1)
    BY TwoDigits, BobSizes
  <2>2. (fat * Dirs + dir) * Steps + step \in 0..(2 * Dirs * Steps - 1)
    BY <2>1, TwoDigits, BobAssumption
  <2>3. PICK k \in 1..Bodies : k = (fat * Dirs + dir) * Steps + step + 1
    BY <2>2, BobSizes DEF Bodies
  <2>4. k =< Len(images)
    BY <1>2, BobSizes
  <2> QED BY <1>2, <1>4, <2>3, <2>4 DEF BodyOf, BodiesOK
<1>10. 0..(jobs - 1) = 0..(Len(bob.links) \div Bodies - 1)
  BY <1>4, <1>7
<1>11. ASSUME NEW dir \in 0..(Dirs - 1), NEW job \in 0..(jobs - 1), NEW fat \in {0, 1}, NEW step \in 0..(Steps - 1)
       PROVE  <<dir, LinkOf(job, fat, dir, step)>> \in names
  <2>1. job \in 0..(Len(bob.links) \div Bodies - 1)
    BY <1>10
  <2> QED BY <2>1 DEF Carried
<1>12. ASSUME NEW n \in names
       PROVE  \E dir \in 0..(Dirs - 1), job \in 0..(jobs - 1), fat \in {0, 1}, step \in 0..(Steps - 1) :
                n = <<dir, LinkOf(job, fat, dir, step)>>
  <2>1. \E dir \in 0..(Dirs - 1), job \in 0..(Len(bob.links) \div Bodies - 1), fat \in {0, 1}, step \in 0..(Steps - 1) :
          n = <<dir, LinkOf(job, fat, dir, step)>>
    BY DEF Carried
  <2> QED BY <1>10, <2>1, Zenon
<1> HIDE DEF names
<1>9. ASSUME NEW n \in names
      PROVE  /\ OverlayOf(bob, n[2]) # Null
             /\ \E o \in names : bob.links[o[2] + 1] = bob.links[n[2] + 1] /\ OverlayOf(bob, n[2]).clrs = o[1] + 1
  <2>1. PICK dir \in 0..(Dirs - 1), job \in 0..(jobs - 1), fat \in {0, 1}, step \in 0..(Steps - 1) :
          n = <<dir, LinkOf(job, fat, dir, step)>>
    BY <1>12
  <2>13. LinkOf(job, fat, dir, step) \in 0..(jobs * Bodies - 1)
    BY LinkOfJob
  <2>2. PICK k \in 0..(jobs * Bodies - 1) : k = n[2]
    BY <2>1, <2>13
  <2>3. k + 1 \in 1..l
    BY <1>7
  <2>4. PICK h \in 0..(m - 1) : h = links[k + 1] /\ shown[k + 1] = h + Bodies
    BY <1>6, <2>3
  <2>5. OverlayOf(bob, n[2]) = images[Bodies + h + 1]
    BY <1>4, <2>2, <2>4, BobSizes DEF OverlayOf
  <2>6. PICK f \in 1..l : FirstLink(links, h, f) /\ images[Bodies + h + 1].clrs = ((f - 1) % Dirs) + 1
                          /\ images[Bodies + h + 1] # Null
    <3>1. ~(\A f \in 1..Len(links) : links[f] # h)
      BY <1>5, <2>3, <2>4
    <3>2. images[Bodies + h + 1] # Null
          /\ \E f \in 1..Len(links) : FirstLink(links, h, f) /\ images[Bodies + h + 1].clrs = ((f - 1) % Dirs) + 1
      BY <1>2, <3>1 DEF LinksOK
    <3> QED BY <1>5, <3>2
  <2>7. f =< k + 1
    BY <2>3, <2>4, <2>6 DEF FirstLink
  <2>8. PICK j \in 0..(jobs * Bodies - 1) : j = f - 1
    BY <1>7, <2>7
  <2>14. PICK d : d = j % Dirs
    OBVIOUS
  <2>9. PICK job1 \in 0..(jobs - 1), fat1 \in {0, 1}, step1 \in 0..(Steps - 1) :
          d \in 0..(Dirs - 1) /\ j = LinkOf(job1, fat1, d, step1)
    BY <2>14, LinkIsOfJob
  <2>15. <<d, j>> \in names
    <3>1. <<d, LinkOf(job1, fat1, d, step1)>> \in names
      BY <1>11, <2>9
    <3> QED BY <2>9, <3>1
  <2>10. PICK o \in names : o = <<d, j>>
    BY <2>15
  <2>11. bob.links[o[2] + 1] = bob.links[n[2] + 1]
    <3>1. links[f] = h /\ o[2] + 1 = f /\ n[2] + 1 = k + 1
      BY <2>2, <2>6, <2>8, <2>10 DEF FirstLink
    <3> QED BY <1>4, <1>6, <2>4, <3>1
  <2>12. OverlayOf(bob, n[2]).clrs = o[1] + 1
    BY <2>5, <2>6, <2>8, <2>10, <2>14
  <2> QED BY <2>5, <2>6, <2>11, <2>12
<1> QED BY <1>8, <1>9, Zenon DEF FiguresComplete, bob, names

-------------------------------------------------------------------------------
(* Pictures of BMP files *)

(* The colours of the file, and black. *)
BmpColours(c) == [i \in 1..Colours |-> IF i \in DOMAIN c THEN c[i] ELSE Black]

BmpLoading ==
  /\ disk.fmt = "bmp" /\ disk.toks # <<>> /\ disk.toks[1].t = "BM" /\ BmpError(disk.toks[1]) = "NONE"
  /\ \/ io.part = Null
     \/ HasColours /\ Is(2, "colours") /\ io.part = LoadedPalette(BmpColours(disk.toks[2].c))

BmpOK == (io.op = "bmp" => BmpLoading) /\ BmpShowsSame

(* Rows of pixels, and where they are in the file; the colours that a      *)
(* palette has there.                                                      *)
RowsOfPixels(px, n) == px = [y \in 1..n |-> px[y]] /\ \A y \in 1..n : px[y] = [k \in DOMAIN px[y] |-> px[y][k]]

RowsThere(h, px, n) ==
  \A y \in 1..n : disk.toks[RowAt(h, y)].v =
                    IF h.bpp = 24 THEN [k \in DOMAIN px[y] |-> IF px[y][k] = Clear THEN Pink ELSE px[y][k]]
                    ELSE px[y]

NoPink(px, n) == \A y \in 1..n : \A k \in DOMAIN px[y] : px[y][k] # Pink

ColoursOf(c, pal) == \A i \in 1..Colours : c[i] = IF i = pal.trans + 1 THEN Pink ELSE pal.c[i]

(* The least of some indices. *)
LEMMA LeastIs ==
  ASSUME NEW S, S \subseteq Nat, NEW m \in S, \A i \in S : m =< i
  PROVE  Least(S) = m
<1>1. Least(S) \in S /\ \A i \in S : Least(S) =< i
  BY DEF Least
<1>2. Least(S) =< m /\ m =< Least(S) /\ Least(S) \in Nat /\ m \in Nat
  BY <1>1
<1> QED BY <1>2

(* Of a palette with TRANSPARENT_COLOR at its transparent index, LoadBMP   *)
(* takes that index for transparent, or the first that is ahead of it.     *)
LEMMA PickedIndex ==
  ASSUME NEW c, NEW pal, ColoursOf(c, pal), NEW t \in Index, t = pal.trans
  PROVE  /\ Ahead(pal) = {} => DefaultTrans(c) = t
         /\ Ahead(pal) # {} => DefaultTrans(c) = Least(Ahead(pal)) /\ Least(Ahead(pal)) \in Ahead(pal)
<1>1. PICK all : all = Holding(c, Pink)
  OBVIOUS
<1>2. all \subseteq Index /\ Index \subseteq Nat /\ t \in Nat /\ 0 \in Nat
  BY <1>1, PaletteAssumption DEF Holding, Index
<1>3. \A i \in Index : i + 1 \in 1..Colours /\ (i + 1 = t + 1 <=> i = t)
  BY <1>2, PaletteAssumption DEF Index
<1>4. \A i \in Index : i \in all <=> i = t \/ pal.c[i + 1] = Pink
  BY <1>1, <1>3 DEF Holding, ColoursOf
<1>5. t \in all
  BY <1>4
<1>6. PICK front : front = Ahead(pal)
  OBVIOUS
<1>7. front \subseteq all \ {0}
  BY <1>4, <1>6 DEF Ahead, Holding
<1>8. \A i \in front : i < t \/ t = 0
  BY <1>6 DEF Ahead
<1>9. \A i \in all \ {0} : i \in front \/ i = t \/ (i > t /\ t # 0)
  <2>1. \A i \in all \ {0} : i = t \/ i \in Holding(pal.c, Pink) \ {0}
    BY <1>2, <1>4 DEF Holding
  <2> QED BY <1>2, <1>6, <2>1 DEF Ahead
<1>10. DefaultTrans(c) = IF all \ {0} # {} THEN Least(all \ {0}) ELSE 0
  BY <1>1, <1>5 DEF DefaultTrans, Lookup
<1>11. CASE front = {}
  <2>1. CASE t = 0
    <3>1. all \ {0} = {}
      BY <1>9, <1>11, <2>1
    <3> QED BY <1>6, <1>10, <1>11, <2>1, <3>1
  <2>2. CASE t # 0
    <3>1. t \in all \ {0} /\ \A i \in all \ {0} : t =< i
      BY <1>2, <1>5, <1>9, <1>11, <2>2
    <3>2. Least(all \ {0}) = t
      BY <1>2, <3>1, LeastIs
    <3> QED BY <1>6, <1>10, <1>11, <3>1, <3>2
  <2> QED BY <2>1, <2>2
<1>12. CASE front # {}
  <2>1. front \subseteq Nat
    BY <1>2, <1>7
  <2>2. PICK m : m = Min(front)
    OBVIOUS
  <2>3. m \in front /\ \A i \in front : m =< i
    BY <1>12, <2>1, <2>2, MinOfNats
  <2>4. Least(front) = m
    BY <2>1, <2>3, LeastIs
  <2>5. m \in all \ {0} /\ m \in Nat /\ (m < t \/ t = 0)
    BY <1>7, <1>8, <2>1, <2>3
  <2>6. ASSUME NEW i \in all \ {0} PROVE m =< i
    <3>1. i \in front \/ i = t \/ (i > t /\ t # 0)
      BY <1>9
    <3>2. i \in Nat /\ i # 0
      BY <1>2
    <3> QED BY <1>2, <2>3, <2>5, <3>1, <3>2
  <2>7. Least(all \ {0}) = m
    BY <1>2, <2>5, <2>6, LeastIs
  <2> QED BY <1>6, <1>10, <1>12, <2>3, <2>4, <2>5, <2>7
<1> QED BY <1>6, <1>11, <1>12

(* With palettes that show each of its indices alike a picture shows the same. *)
LEMMA SameShown ==
  ASSUME NEW px, NEW p, NEW q, p # Null, q # Null,
         \A y \in DOMAIN px : \A n \in DOMAIN px[y] :
           /\ px[y][n] = p.trans <=> px[y][n] = q.trans
           /\ px[y][n] # p.trans => ShownBy(p, px[y][n]) = ShownBy(q, px[y][n])
  PROVE  Shown(px, p) = Shown(px, q)
<1>1. Shown(px, p) = [y \in DOMAIN px |-> [n \in DOMAIN px[y] |-> IF px[y][n] = p.trans THEN Clear ELSE ShownBy(p, px[y][n])]]
  BY DEF Shown, ShownWith, EachPixel
<1>2. Shown(px, q) = [y \in DOMAIN px |-> [n \in DOMAIN px[y] |-> IF px[y][n] = q.trans THEN Clear ELSE ShownBy(q, px[y][n])]]
  BY DEF Shown, ShownWith, EachPixel
<1>3. ASSUME NEW y \in DOMAIN px
      PROVE  [n \in DOMAIN px[y] |-> IF px[y][n] = p.trans THEN Clear ELSE ShownBy(p, px[y][n])]
               = [n \in DOMAIN px[y] |-> IF px[y][n] = q.trans THEN Clear ELSE ShownBy(q, px[y][n])]
  OBVIOUS
<1> QED BY <1>1, <1>2, <1>3

(* The rows of a BMP file are read as they are stored, upside down or not. *)
LEMMA BmpPixels ==
  ASSUME NEW h, NEW n \in Nat, h.h = n, h.at \in Nat, NEW was, NEW px, px = BmpRows(h),
         RowsOfPixels(was, n), RowsThere(h, was, n), h.bpp = 24 => NoPink(was, n)
  PROVE  px = was
<1>6. was = [y \in 1..n |-> was[y]] /\ \A y \in 1..n : was[y] = [k \in DOMAIN was[y] |-> was[y][k]]
  BY DEF RowsOfPixels
<1>7. \A y \in 1..n : disk.toks[RowAt(h, y)].v =
                       IF h.bpp = 24 THEN [k \in DOMAIN was[y] |-> IF was[y][k] = Clear THEN Pink ELSE was[y][k]]
                       ELSE was[y]
  BY DEF RowsThere
<1>1. PICK rows : rows = [k \in 1..n |-> disk.toks[h.at + k - 1].v]
  OBVIOUS
<1>2. PICK up : up = IF h.bottomup THEN Reverse(rows) ELSE rows
  OBVIOUS
<1>3. up = [y \in 1..n |-> disk.toks[RowAt(h, y)].v]
  <2>1. CASE h.bottomup
    <3>1. Len(rows) = n
      <4>1. PICK S : S = {disk.toks[h.at + k - 1].v : k \in 1..n}
        OBVIOUS
      <4>2. rows \in [1..n -> S]
        BY <1>1, <4>1
      <4>3. rows \in Seq(S) /\ DOMAIN rows = 1..n
        BY <4>2
      <4> QED BY <4>3, LenProperties
    <3>2. Reverse(rows) = [y \in 1..n |-> rows[(n - y) + 1]]
      BY <3>1 DEF Reverse
    <3>3. ASSUME NEW y \in 1..n PROVE rows[(n - y) + 1] = disk.toks[RowAt(h, y)].v
      <4>1. (n - y) + 1 \in 1..n /\ h.at + ((n - y) + 1) - 1 = h.at + n - y /\ RowAt(h, y) = h.at + n - y
        BY <2>1 DEF RowAt
      <4>2. PICK k \in 1..n : k = (n - y) + 1 /\ h.at + k - 1 = RowAt(h, y)
        BY <4>1
      <4>3. rows[k] = disk.toks[h.at + k - 1].v
        BY <1>1
      <4> QED BY <4>2, <4>3
    <3> QED BY <1>2, <2>1, <3>2, <3>3
  <2>2. CASE ~h.bottomup
    <3>1. \A y \in 1..n : RowAt(h, y) = h.at + y - 1
      BY <2>2 DEF RowAt
    <3> QED BY <1>1, <1>2, <2>2, <3>1
  <2> QED BY <2>1, <2>2
<1>4. CASE h.bpp = 24
  <2>1. px = [y \in DOMAIN up |-> [k \in DOMAIN up[y] |-> IF up[y][k] = Pink THEN Clear ELSE up[y][k]]]
    BY <1>1, <1>2, <1>4 DEF BmpRows, EachPixel
  <2>2. ASSUME NEW y \in 1..n PROVE px[y] = was[y]
    <3>1. up[y] = [k \in DOMAIN was[y] |-> IF was[y][k] = Clear THEN Pink ELSE was[y][k]]
      BY <1>3, <1>4, <1>7
    <3>2. px[y] = [k \in DOMAIN was[y] |-> IF up[y][k] = Pink THEN Clear ELSE up[y][k]]
      <4>1. y \in DOMAIN up /\ DOMAIN up[y] = DOMAIN was[y]
        BY <1>3, <3>1
      <4> QED BY <2>1, <4>1
    <3>3. \A k \in DOMAIN was[y] : (IF up[y][k] = Pink THEN Clear ELSE up[y][k]) = was[y][k]
      BY <1>4, <3>1 DEF NoPink
    <3> QED BY <1>6, <3>2, <3>3
  <2>3. px = [y \in 1..n |-> px[y]]
    BY <1>3, <2>1
  <2> QED BY <1>6, <2>2, <2>3
<1>5. CASE h.bpp # 24
  <2>1. px = up
    BY <1>1, <1>2, <1>5 DEF BmpRows
  <2> QED BY <1>3, <1>5, <1>6, <1>7, <2>1
<1> QED BY <1>4, <1>5

(* LoadBMP reads the colours. *)
LEMMA BmpPalette ==
  ASSUME Calm, BmpOK, LoadBmpPalette
  PROVE  Stepped("bmp") /\ IsSeq(archive') /\ BmpOK'
<1>1. io.op = "bmp" /\ BmpLoading /\ io # Idle /\ ret = NoRet /\ HasColours
  BY IdleIsIdle DEF LoadBmpPalette, BmpOK, Calm
<1>2. CASE Is(2, "colours")
  <2>1. PICK pal : pal = LoadedPalette(BmpColours(disk.toks[2].c)) /\ Goes(archive, [io EXCEPT !.part = pal])
    BY <1>2 DEF LoadBmpPalette, BmpColours
  <2>2. io = [op |-> "bmp", pos |-> io.pos, i |-> io.i, pal |-> io.pal, part |-> io.part, base |-> io.base]
    BY <1>1 DEF Calm, Fields
  <2>3. io' = [op |-> "bmp", pos |-> io.pos, i |-> io.i, pal |-> io.pal, part |-> pal, base |-> io.base]
    BY <2>1, <2>2 DEF Goes
  <2>4. archive' = archive /\ client' = client /\ disk' = disk /\ ret' = NoRet /\ ret' = ret
    BY <1>1, <2>1 DEF Goes
  <2>5. io'.op = "bmp" /\ io'.part = pal /\ io'.base = io.base /\ Fields(io')
    BY <2>3 DEF Fields
  <2>6. Stepped("bmp") /\ IsSeq(archive')
    BY <1>1, <2>4, <2>5 DEF Stepped, Calm
  <2>7. BmpLoading'
    BY <1>1, <1>2, <2>1, <2>4, <2>5 DEF BmpLoading, HasColours, Is
  <2> QED BY <2>4, <2>6, <2>7 DEF BmpOK, BmpShowsSame, LoadedWhole, NoRet
<1>3. CASE ~Is(2, "colours")
  <2>1. Fails({"UNEXPECTED_EOF"})
    BY <1>3 DEF LoadBmpPalette
  <2>2. io' = Idle /\ ret'.code = "UNEXPECTED_EOF"
    BY <2>1 DEF Fails, Returns
  <2>3. ~LoadedWhole("bmp")'
    BY <2>2 DEF LoadedWhole
  <2> QED BY <1>1, <2>1, <2>2, <2>3, FailsIs, IdleIsIdle DEF BmpOK, BmpShowsSame, Calm
<1> QED BY <1>2, <1>3

(* What the file holds of a picture that is not cut. *)
LEMMA BmpHolds ==
  ASSUME FileOK, BmpLoading, NEW h, h = disk.toks[1], ~(h.at + h.h - 1 > disk.len), NEW was, was = disk.holds[1]
  PROVE  /\ h.h \in Nat /\ h.at \in Nat /\ IsImage(was) /\ Len(was.px) = h.h
         /\ (h.bpp \in {4, 8} <=> was.pal # Null) /\ RowsThere(h, was.px, h.h)
         /\ h.bpp \in {4, 8} /\ HasTransparency(was.pal) /\ Is(2, "colours")
              => ColoursOf(BmpColours(disk.toks[2].c), was.pal)
<1>1. BmpIs(disk) /\ Len(disk.toks) \in Nat /\ disk.len \in 0..Len(disk.toks) /\ disk.toks # <<>> /\ h.t = "BM"
      /\ BmpError(h) = "NONE"
  BY DEF FileOK, HoldsIt, BmpLoading
<1>2. h.h \in Nat /\ h.at \in Nat
  BY <1>1 DEF BmpIs
<1>3. h.at + h.h - 1 =< Len(disk.toks)
  BY <1>1, <1>2
<1>4. IsImage(was) /\ Len(was.px) = h.h /\ (h.bpp \in {4, 8} <=> was.pal # Null)
  BY <1>1, <1>3 DEF BmpIs
<1>5. RowsThere(h, was.px, h.h)
  <2>1. \A y \in 1..h.h :
          disk.toks[RowAt(h, y)].v =
            IF h.bpp = 24 THEN [n \in DOMAIN was.px[y] |-> IF was.px[y][n] = Clear THEN Pink ELSE was.px[y][n]]
            ELSE was.px[y]
    BY <1>1, <1>3, ZenonT(90) DEF BmpIs
  <2> QED BY <2>1 DEF RowsThere
<1>6. ASSUME h.bpp \in {4, 8}, HasTransparency(was.pal), Is(2, "colours")
      PROVE  ColoursOf(BmpColours(disk.toks[2].c), was.pal)
  <2>2. 2 =< Len(disk.toks) /\ disk.toks[2].t = "colours"
    BY <1>1, <1>6 DEF Is
  <2>1. \A i \in 1..Colours :
          (IF i \in DOMAIN disk.toks[2].c THEN disk.toks[2].c[i] ELSE Black)
            = IF i = was.pal.trans + 1 THEN Pink ELSE was.pal.c[i]
    BY <1>1, <1>3, <1>6, <2>2, ZenonT(90) DEF BmpIs
  <2> QED BY <2>1 DEF BmpColours, ColoursOf
<1> QED BY <1>2, <1>4, <1>5, <1>6, Zenon

(* LoadBMP reads the rows, and the picture shows what was written. *)
LEMMA BmpEnd ==
  ASSUME Calm, FileOK, BmpOK, LoadBmpRows
  PROVE  Stepped("bmp") /\ IsSeq(archive') /\ BmpOK'
<1>1. io.op = "bmp" /\ BmpLoading /\ io # Idle
  BY IdleIsIdle DEF LoadBmpRows, BmpOK
<1>2. PICK h : h = disk.toks[1]
  OBVIOUS
<1>3. CASE h.at + h.h - 1 > disk.len
  <2>1. Fails({"UNEXPECTED_EOF"})
    BY <1>2, <1>3 DEF LoadBmpRows
  <2>2. io' = Idle /\ ret'.code = "UNEXPECTED_EOF"
    BY <2>1 DEF Fails, Returns
  <2>3. ~LoadedWhole("bmp")'
    BY <2>2 DEF LoadedWhole
  <2> QED BY <1>1, <2>1, <2>2, <2>3, FailsIs, IdleIsIdle DEF BmpOK, BmpShowsSame, Calm
<1>4. CASE ~(h.at + h.h - 1 > disk.len)
  <2>1. PICK now : now = Image(io.part, BmpRows(h)) /\ Returns(Append(archive, now), "NONE")
    BY <1>2, <1>4 DEF LoadBmpRows
  <2>2. Stepped("bmp") /\ archive' = Append(archive, now) /\ disk' = disk /\ io' = Idle
    BY <1>1, <2>1, ReturnsIs DEF Returns
  <2>3. IsSeq(archive') /\ Last(archive') = now
    <3>1. PICK n \in Nat : n = Len(archive) /\ IsSeq(archive') /\ Len(archive') = n + 1 /\ archive'[n + 1] = now
      BY <2>2, BobSeqs DEF Calm
    <3> QED BY <3>1 DEF Last
  <2>4. PICK was : was = disk.holds[1]
    OBVIOUS
  <2>5. now.pal = io.part /\ now.px = BmpRows(h)
    BY <2>1 DEF Image
  <2>6. PICK n \in Nat : n = h.h
    <3>1. BmpIs(disk) /\ Len(disk.toks) \in Nat /\ disk.len \in 0..Len(disk.toks)
      BY <1>1 DEF FileOK, HoldsIt, BmpLoading
    <3> QED BY <1>1, <1>2, <3>1 DEF BmpIs, BmpLoading
  <2>7. /\ h.at \in Nat /\ IsImage(was) /\ Len(was.px) = n
        /\ (h.bpp \in {4, 8} <=> was.pal # Null) /\ RowsThere(h, was.px, n)
        /\ h.bpp \in {4, 8} /\ HasTransparency(was.pal) /\ Is(2, "colours")
             => ColoursOf(BmpColours(disk.toks[2].c), was.pal)
    BY <1>1, <1>2, <1>4, <2>4, <2>6, BmpHolds
  <2>8. was.px = [y \in 1..n |-> was.px[y]] /\ RowsOfPixels(was.px, n)
    <3>1. was.px = [y \in 1..n |-> [k \in 1..Len(was.px[y]) |-> was.px[y][k]]]
      BY <2>7 DEF IsImage
    <3> QED BY <3>1 DEF RowsOfPixels
  <2>9. CASE was.pal = Null
    <3>1. Uses(was, Pink) \/ now.px = was.px
      <4> SUFFICES ASSUME ~Uses(was, Pink) PROVE now.px = was.px
        OBVIOUS
      <4>1. NoPink(was.px, n)
        BY <2>8 DEF NoPink, Uses, ToSet
      <4> QED BY <2>5, <2>6, <2>7, <2>8, <4>1, BmpPixels
    <3>2. BmpShowsSame'
      BY <2>2, <2>3, <2>4, <2>9, <3>1 DEF BmpShowsSame
    <3> QED BY <2>2, <2>3, <3>2, IdleIsIdle DEF BmpOK
  <2>10. CASE was.pal # Null
    <3>1. h.bpp \in {4, 8}
      BY <2>7, <2>10
    <3>2. now.px = was.px
      BY <2>5, <2>6, <2>7, <2>8, <3>1, BmpPixels
    <3>3. Is(2, "colours") /\ io.part = LoadedPalette(BmpColours(disk.toks[2].c))
      BY <1>1, <1>2, <3>1 DEF LoadBmpRows, HasColours, BmpLoading
    <3>4. ASSUME HasTransparency(was.pal), ~ChangesRoles(was)
          PROVE  Shown(now.px, now.pal) = Shown(was.px, was.pal)
      <4>1. PICK t \in Index : t = was.pal.trans
        <5>1. was.pal.trans \in 0..Colours /\ was.pal.trans < Colours
          BY <2>7, <2>10, <3>4 DEF IsImage, HasTransparency
        <5> QED BY <5>1, PaletteAssumption DEF Index
      <4>2. PICK c : c = BmpColours(disk.toks[2].c)
        OBVIOUS
      <4>3. ColoursOf(c, was.pal)
        BY <2>7, <3>1, <3>3, <3>4, <4>2
      <4>4. \A i \in Index : i + 1 \in 1..Colours
        BY PaletteAssumption DEF Index
      <4>5. \A i \in Index : i # t => c[i + 1] = was.pal.c[i + 1]
        BY <4>1, <4>3, <4>4 DEF Index, ColoursOf
      <4>6. PICK u : u = DefaultTrans(c)
        OBVIOUS
      <4>7. u = t \/ (~Uses(was, t) /\ ~Uses(was, u))
        BY <3>4, <4>1, <4>3, <4>6, PickedIndex DEF ChangesRoles
      <4>8. now.pal = Palette(c, u)
        BY <2>5, <3>3, <4>2, <4>6 DEF LoadedPalette
      <4>9. now.pal.c = c /\ now.pal.trans = u
        BY <4>8 DEF Palette
      <4>10. now.pal # Null
        BY <1>2, <2>5, <3>1 DEF LoadBmpRows, HasColours
      <4>11. \A y \in DOMAIN was.px : \A k \in DOMAIN was.px[y] :
               was.px[y][k] \in Index /\ Uses(was, was.px[y][k])
        <5>1. \A y \in DOMAIN was.px : \A k \in DOMAIN was.px[y] : was.px[y][k] \in Index
          BY <2>7, <2>10 DEF IsImage
        <5> QED BY <5>1 DEF Uses, ToSet
      <4>12. \A i \in Index : i # t => ShownBy(now.pal, i) = ShownBy(was.pal, i)
        BY <4>5, <4>9 DEF ShownBy
      <4>13. ASSUME NEW y \in DOMAIN was.px, NEW k \in DOMAIN was.px[y]
             PROVE  /\ was.px[y][k] = now.pal.trans <=> was.px[y][k] = was.pal.trans
                    /\ was.px[y][k] # now.pal.trans
                         => ShownBy(now.pal, was.px[y][k]) = ShownBy(was.pal, was.px[y][k])
        BY <4>1, <4>7, <4>9, <4>11, <4>12
      <4>14. Shown(was.px, now.pal) = Shown(was.px, was.pal)
        BY <2>10, <4>10, <4>13, SameShown
      <4> QED BY <3>2, <4>14
    <3>5. BmpShowsSame'
      BY <2>2, <2>3, <2>4, <2>10, <3>4 DEF BmpShowsSame
    <3> QED BY <2>2, <2>3, <3>5, IdleIsIdle DEF BmpOK
  <2> QED BY <2>9, <2>10
<1> QED BY <1>3, <1>4

-------------------------------------------------------------------------------
(* Palette animations *)

(* Entry i of an archive a, when the lines up to n were read into b. *)
EntryRead(f, a, b, n, i) ==
  \/ \E p : LastLine(f, i, n, p) /\ a[i] = f.toks[p].v
  \/ /\ \A p \in 2..n : ~LineFor(f, i, p)
     /\ a[i] = IF i \in DOMAIN b THEN b[i] ELSE Null

LinesRead(f, a, b, n) ==
  /\ Len(b) =< Len(a)
  /\ \A p \in 2..n : f.toks[p].t = "line" => f.toks[p].idx + 1 =< Len(a)
  /\ Len(a) = Len(b) \/ \E p \in 2..n : LineFor(f, Len(a), p)
  /\ \A i \in 1..Len(a) : EntryRead(f, a, b, n, i)

AnimsLoading ==
  /\ disk.fmt = "anims" /\ IsSeq(io.base) /\ io.pos \in 2..(Len(disk.toks) + 1)
  /\ LinesRead(disk, archive, io.base, io.pos - 1)

AnimsOK == io.op = "anims" => AnimsLoading

(* What a step of a load of animations does to the archive. *)
AnimsPlaced ==
  ret'.code = "NONE" /\ disk.len = Len(disk.toks) =>
    LET file  == disk.holds
        there == DOMAIN io.base \union AnimsIn(file)
    IN /\ there \subseteq DOMAIN archive' /\ (archive' # <<>> => Len(archive') \in there)
       /\ \A i \in DOMAIN archive' :
            archive'[i] = IF i \in AnimsIn(file) THEN file[i]
                          ELSE IF i \in DOMAIN io.base THEN io.base[i] ELSE Null

(* now is a with an animation at its place. *)
Placed(a, idx, x, now) ==
  /\ IsSeq(now) /\ Len(a) =< Len(now) /\ idx + 1 =< Len(now) /\ Len(now) \in {Len(a), idx + 1} /\ now[idx + 1] = x
  /\ \A i \in 1..Len(now) : i # idx + 1 => now[i] = IF i =< Len(a) THEN a[i] ELSE Null

(* AnimSet puts an animation at its place, and the archive grows to it. *)
LEMMA AnimSetIs ==
  ASSUME IsSeq(archive), NEW idx \in Nat, NEW x, NEW now, now = AnimSet(idx, x), NEW l \in Nat, l = Len(archive)
  PROVE  Placed(archive, idx, x, now) /\ Len(now) \in Nat
<1>1. PICK S : archive \in Seq(S)
  BY DEF IsSeq
<1>2. PICK grown : grown = IF idx < Len(archive) THEN archive ELSE archive \o Nulls(idx + 1 - Len(archive))
  OBVIOUS
<1>3. PICK n \in Nat : /\ grown \in Seq(S \union {Null}) /\ Len(grown) = n /\ l =< n /\ idx + 1 =< n /\ n \in {l, idx + 1}
                       /\ \A i \in 1..n : grown[i] = IF i =< l THEN archive[i] ELSE Null
  <2>1. CASE idx < l
    <3>1. archive \in Seq(S \union {Null})
      BY <1>1
    <3> QED BY <1>2, <2>1, <3>1
  <2>2. CASE ~(idx < l)
    <3>1. PICK k \in Nat : k = idx + 1 - l
      BY <2>2
    <3>2. PICK more : more = Nulls(k)
      OBVIOUS
    <3>3. more \in Seq(S \union {Null}) /\ Len(more) = k /\ \A i \in 1..k : more[i] = Null
      <4>1. more = [i \in 1..k |-> Null]
        BY <3>2 DEF Nulls
      <4>2. more \in Seq(S \union {Null}) /\ DOMAIN more = 1..k
        BY <4>1
      <4> QED BY <4>1, <4>2, LenProperties
    <3>4. archive \in Seq(S \union {Null})
      BY <1>1
    <3>5. grown = archive \o more
      BY <1>2, <2>2, <3>1, <3>2
    <3>6. grown \in Seq(S \union {Null}) /\ Len(grown) = l + k
          /\ \A i \in 1..(l + k) : grown[i] = IF i =< l THEN archive[i] ELSE more[i - l]
      BY <3>3, <3>4, <3>5
    <3>7. \A i \in 1..(l + k) : ~(i =< l) => more[i - l] = Null
      BY <3>3
    <3>8. l + k = idx + 1
      BY <3>1
    <3> QED BY <2>2, <3>6, <3>7, <3>8
  <2> QED BY <2>1, <2>2
<1>4. now = [grown EXCEPT ![idx + 1] = x]
  BY <1>2 DEF AnimSet
<1>5. now \in Seq(S \union {Null} \union {x}) /\ Len(now) = n /\ now[idx + 1] = x
      /\ \A i \in 1..n : i # idx + 1 => now[i] = grown[i]
  <2>1. grown \in [1..n -> S \union {Null}] /\ idx + 1 \in 1..n
    BY <1>3
  <2>2. now \in [1..n -> S \union {Null} \union {x}] /\ now[idx + 1] = x
        /\ \A i \in 1..n : i # idx + 1 => now[i] = grown[i]
    BY <1>4, <2>1
  <2>3. now \in Seq(S \union {Null} \union {x}) /\ DOMAIN now = 1..n
    BY <2>2
  <2> QED BY <2>2, <2>3, LenProperties
<1> QED BY <1>3, <1>5 DEF IsSeq, Placed

(* One more line. *)
LEMMA LineRead ==
  ASSUME NEW f, NEW a, NEW b, NEW n \in Nat \ {0}, IsSeq(a), IsSeq(b), LinesRead(f, a, b, n), NEW idx \in Nat, NEW x, NEW now,
         f.toks[n + 1].t = "line", f.toks[n + 1].idx = idx, f.toks[n + 1].v = x,
         \A p \in 2..n : f.toks[p].t = "line" => f.toks[p].idx \in Nat,
         NEW l \in Nat, l = Len(a), NEW m \in Nat, m = Len(now), Placed(a, idx, x, now)
  PROVE  LinesRead(f, now, b, n + 1)
<1>5. /\ l =< m /\ idx + 1 =< m /\ m \in {l, idx + 1} /\ now[idx + 1] = x
      /\ \A i \in 1..m : i # idx + 1 => now[i] = IF i =< l THEN a[i] ELSE Null
  BY DEF Placed
<1>1. PICK k \in Nat : k = Len(b) /\ DOMAIN b = 1..k
  BY DEF IsSeq
<1>2. k =< l /\ \A p \in 2..n : f.toks[p].t = "line" => f.toks[p].idx + 1 =< l
  BY <1>1 DEF LinesRead
<1>3. ASSUME NEW p \in 2..(n + 1), f.toks[p].t = "line" PROVE f.toks[p].idx + 1 =< m
  <2>1. CASE p = n + 1
    BY <1>5, <2>1
  <2>2. CASE p \in 2..n
    BY <1>2, <1>3, <1>5, <2>2
  <2> QED BY <2>1, <2>2
<1>4. ASSUME NEW i \in 1..m PROVE EntryRead(f, now, b, n + 1, i)
  <2>1. CASE i = idx + 1
    <3>1. LineFor(f, i, n + 1)
      BY <2>1 DEF LineFor
    <3>2. LastLine(f, i, n + 1, n + 1)
      BY <3>1 DEF LastLine
    <3> QED BY <1>5, <2>1, <3>2 DEF EntryRead
  <2>2. CASE i # idx + 1
    <3>1. ~LineFor(f, i, n + 1)
      BY <2>2 DEF LineFor
    <3>2. CASE i =< l
      <4>1. EntryRead(f, a, b, n, i) /\ now[i] = a[i]
        BY <1>5, <2>2, <3>2 DEF LinesRead
      <4>2. CASE \E p : LastLine(f, i, n, p) /\ a[i] = f.toks[p].v
        <5>1. PICK p : LastLine(f, i, n, p) /\ a[i] = f.toks[p].v
          BY <4>2
        <5>2. LastLine(f, i, n + 1, p)
          <6>1. p \in 2..(n + 1) /\ LineFor(f, i, p)
            BY <5>1 DEF LastLine
          <6>2. ASSUME NEW q \in (p + 1)..(n + 1) PROVE ~LineFor(f, i, q)
            <7>1. CASE q = n + 1
              BY <3>1, <7>1
            <7>2. CASE q \in (p + 1)..n
              BY <5>1, <7>2 DEF LastLine
            <7> QED BY <6>1, <7>1, <7>2
          <6> QED BY <6>1, <6>2 DEF LastLine
        <5> QED BY <4>1, <5>1, <5>2 DEF EntryRead
      <4>3. CASE (\A p \in 2..n : ~LineFor(f, i, p)) /\ a[i] = IF i \in DOMAIN b THEN b[i] ELSE Null
        <5>1. ASSUME NEW p \in 2..(n + 1) PROVE ~LineFor(f, i, p)
          <6>1. CASE p = n + 1
            BY <3>1, <6>1
          <6>2. CASE p \in 2..n
            BY <4>3, <6>2
          <6> QED BY <6>1, <6>2
        <5> QED BY <4>1, <4>3, <5>1 DEF EntryRead
      <4> QED BY <4>1, <4>2, <4>3 DEF EntryRead
    <3>3. CASE ~(i =< l)
      <4>1. now[i] = Null /\ i \notin DOMAIN b
        BY <1>1, <1>2, <1>5, <2>2, <3>3
      <4>2. ASSUME NEW p \in 2..(n + 1) PROVE ~LineFor(f, i, p)
        <5>1. CASE p = n + 1
          BY <3>1, <5>1
        <5>2. CASE p \in 2..n
          <6> SUFFICES ASSUME f.toks[p].t = "line", f.toks[p].idx + 1 = i PROVE FALSE
            BY DEF LineFor
          <6> QED BY <1>2, <3>3, <5>2
        <5> QED BY <5>1, <5>2
      <4> QED BY <4>1, <4>2 DEF EntryRead
    <3> QED BY <3>2, <3>3
  <2> QED BY <2>1, <2>2
<1>6. Len(b) =< Len(now)
  BY <1>1, <1>2, <1>5
<1>7. Len(now) = Len(b) \/ \E p \in 2..(n + 1) : LineFor(f, Len(now), p)
  <2>1. CASE m = idx + 1
    <3>1. n + 1 \in 2..(n + 1) /\ LineFor(f, m, n + 1)
      BY <2>1 DEF LineFor
    <3> QED BY <3>1
  <2>2. CASE m = l
    <3>1. l = Len(b) \/ \E p \in 2..n : LineFor(f, l, p)
      BY DEF LinesRead
    <3>2. 2..n \subseteq 2..(n + 1)
      OBVIOUS
    <3> QED BY <2>2, <3>1, <3>2
  <2> QED BY <1>5, <2>1, <2>2
<1> QED BY <1>3, <1>4, <1>6, <1>7 DEF LinesRead

(* A step that goes on to the next line. *)
LEMMA AnimGoes ==
  ASSUME Calm, io.op = "anims", NEW a, IsSeq(a), Goes(a, [io EXCEPT !.pos = @ + 1])
  PROVE  /\ Stepped("anims") /\ archive' = a /\ disk' = disk /\ ret' = NoRet
         /\ io'.op = "anims" /\ io'.base = io.base /\ io'.pos = io.pos + 1
<1>1. io = [op |-> "anims", pos |-> io.pos, i |-> io.i, pal |-> io.pal, part |-> io.part, base |-> io.base]
  BY DEF Calm, Fields
<1>2. io' = [op |-> "anims", pos |-> io.pos + 1, i |-> io.i, pal |-> io.pal, part |-> io.part, base |-> io.base]
  BY <1>1 DEF Goes
<1>3. io # Idle
  BY IdleIsIdle
<1> QED BY <1>2, <1>3 DEF Goes, Stepped, Calm, Fields

(* What is known of a text of animations. *)
LEMMA AnimsFile ==
  ASSUME FileOK, disk.fmt = "anims"
  PROVE  Len(disk.toks) \in Nat /\ disk.len \in 0..Len(disk.toks) /\ AnimsAre(disk)
BY DEF FileOK, HoldsIt

(* A line is read, *)
LEMMA AnimLine ==
  ASSUME Calm, FileOK, AnimsOK, LoadAnimLine
  PROVE  Stepped("anims") /\ IsSeq(archive') /\ AnimsOK' /\ AnimsPlaced
<1>1. io.op = "anims" /\ AnimsLoading /\ Is(io.pos, "line")
  BY DEF LoadAnimLine, AnimsOK
<1>2. PICK n \in Nat \ {0} : n = io.pos - 1 /\ io.pos = n + 1 /\ n + 1 \in 2..Len(disk.toks)
      /\ disk.toks[n + 1].t = "line"
  BY <1>1, AnimsFile DEF AnimsLoading, Is
<1>3. \A p \in 2..Len(disk.toks) : disk.toks[p].t = "line" => disk.toks[p].idx \in Nat
  BY <1>1, AnimsFile DEF AnimsLoading, AnimsAre
<1>4. PICK idx \in Nat : idx = disk.toks[n + 1].idx
  BY <1>2, <1>3
<1>5. PICK x, now : x = disk.toks[n + 1].v /\ now = AnimSet(idx, x)
  OBVIOUS
<1>6. Goes(now, [io EXCEPT !.pos = @ + 1])
  BY <1>2, <1>4, <1>5 DEF LoadAnimLine
<1>7. PICK l \in Nat : l = Len(archive)
  BY DEF Calm, IsSeq
<1>8. Placed(archive, idx, x, now) /\ Len(now) \in Nat
  BY <1>5, <1>7, AnimSetIs DEF Calm
<1>12. IsSeq(now)
  BY <1>8 DEF Placed
<1>9. LinesRead(disk, now, io.base, n + 1)
  <2>1. LinesRead(disk, archive, io.base, n) /\ IsSeq(io.base) /\ IsSeq(archive)
    BY <1>1, <1>2 DEF AnimsLoading, Calm
  <2>2. \A p \in 2..n : disk.toks[p].t = "line" => disk.toks[p].idx \in Nat
    BY <1>1, <1>2, <1>3, AnimsFile DEF AnimsLoading
  <2>3. PICK m \in Nat : m = Len(now)
    BY <1>8
  <2> QED BY <1>2, <1>4, <1>5, <1>7, <1>8, <2>1, <2>2, <2>3, LineRead
<1>10. /\ Stepped("anims") /\ archive' = now /\ disk' = disk /\ ret' = NoRet
       /\ io'.op = "anims" /\ io'.base = io.base /\ io'.pos = io.pos + 1
  BY <1>1, <1>6, <1>12, AnimGoes
<1>11. AnimsLoading'
  <2>1. io'.pos - 1 = n + 1 /\ io'.pos \in 2..(Len(disk.toks) + 1)
    BY <1>1, <1>2, <1>10, AnimsFile DEF AnimsLoading
  <2> QED BY <1>1, <1>9, <1>10, <2>1 DEF AnimsLoading
<1> QED BY <1>12, <1>10, <1>11 DEF AnimsOK, AnimsPlaced, NoRet

(* a comment is not, *)
LEMMA AnimComment ==
  ASSUME Calm, FileOK, AnimsOK, LoadAnimComment
  PROVE  Stepped("anims") /\ IsSeq(archive') /\ AnimsOK' /\ AnimsPlaced
<1>1. io.op = "anims" /\ AnimsLoading /\ Is(io.pos, "comment") /\ IsSeq(archive)
  BY DEF LoadAnimComment, AnimsOK, Calm
<1>2. PICK n \in Nat \ {0} : n = io.pos - 1 /\ io.pos = n + 1 /\ n + 1 \in 2..Len(disk.toks)
      /\ disk.toks[n + 1].t = "comment"
  BY <1>1, AnimsFile DEF AnimsLoading, Is
<1>3. LinesRead(disk, archive, io.base, n)
  BY <1>1, <1>2 DEF AnimsLoading
<1>4. ASSUME NEW p \in 2..(n + 1) PROVE p \in 2..n \/ p = n + 1
  OBVIOUS
<1>5. \A i : ~LineFor(disk, i, n + 1)
  BY <1>2 DEF LineFor
<1>6. ASSUME NEW i \in 1..Len(archive) PROVE EntryRead(disk, archive, io.base, n + 1, i)
  <2>1. CASE \E p : LastLine(disk, i, n, p) /\ archive[i] = disk.toks[p].v
    <3>1. PICK p : LastLine(disk, i, n, p) /\ archive[i] = disk.toks[p].v
      BY <2>1
    <3>2. p \in 2..(n + 1) /\ LineFor(disk, i, p)
      BY <3>1 DEF LastLine
    <3>3. ASSUME NEW q \in (p + 1)..(n + 1) PROVE ~LineFor(disk, i, q)
      <4>1. CASE q = n + 1
        BY <1>5, <4>1
      <4>2. CASE q \in (p + 1)..n
        BY <3>1, <4>2 DEF LastLine
      <4> QED BY <3>2, <4>1, <4>2
    <3>4. LastLine(disk, i, n + 1, p)
      BY <3>2, <3>3 DEF LastLine
    <3> QED BY <3>1, <3>4 DEF EntryRead
  <2>2. CASE (\A p \in 2..n : ~LineFor(disk, i, p)) /\ archive[i] = IF i \in DOMAIN io.base THEN io.base[i] ELSE Null
    <3>1. \A p \in 2..(n + 1) : ~LineFor(disk, i, p)
      BY <1>4, <1>5, <2>2
    <3> QED BY <2>2, <3>1 DEF EntryRead
  <2> QED BY <1>3, <2>1, <2>2 DEF LinesRead, EntryRead
<1>7. LinesRead(disk, archive, io.base, n + 1)
  <2>1. ASSUME NEW p \in 2..(n + 1), disk.toks[p].t = "line" PROVE disk.toks[p].idx + 1 =< Len(archive)
    BY <1>2, <1>3, <1>4, <2>1 DEF LinesRead
  <2>2. Len(archive) = Len(io.base) \/ \E p \in 2..(n + 1) : LineFor(disk, Len(archive), p)
    <3>1. 2..n \subseteq 2..(n + 1)
      OBVIOUS
    <3> QED BY <1>3, <3>1 DEF LinesRead
  <2> QED BY <1>3, <1>6, <2>1, <2>2 DEF LinesRead
<1>8. /\ Stepped("anims") /\ archive' = archive /\ disk' = disk /\ ret' = NoRet
      /\ io'.op = "anims" /\ io'.base = io.base /\ io'.pos = io.pos + 1
  BY <1>1, AnimGoes DEF LoadAnimComment
<1>9. AnimsLoading'
  <2>1. io'.pos - 1 = n + 1 /\ io'.pos \in 2..(Len(disk.toks) + 1)
    BY <1>1, <1>2, <1>8, AnimsFile DEF AnimsLoading
  <2> QED BY <1>1, <1>7, <1>8, <2>1 DEF AnimsLoading
<1> QED BY <1>1, <1>8, <1>9 DEF AnimsOK, AnimsPlaced, NoRet

(* a line with an error ends the load, *)
LEMMA AnimWrong ==
  ASSUME Calm, LoadAnimWrong
  PROVE  Stepped("anims") /\ IsSeq(archive') /\ AnimsOK' /\ AnimsPlaced
<1>1. PICK code \in {"WRONG_FORMAT", "UNEXPECTED_EOF"} : Fails({code}) /\ io.op = "anims"
  BY DEF LoadAnimWrong
<1>2. io' = Idle /\ ret'.code # "NONE"
  BY <1>1 DEF Fails, Returns
<1> QED BY <1>1, <1>2, FailsIs, IdleIsIdle DEF AnimsOK, AnimsPlaced, Calm

(* and at the end all animations are at their places. *)
LEMMA AnimEnd ==
  ASSUME Calm, FileOK, AnimsOK, LoadAnimEnd
  PROVE  Stepped("anims") /\ IsSeq(archive') /\ AnimsOK' /\ AnimsPlaced
<1>1. io.op = "anims" /\ AnimsLoading /\ AtEnd(io.pos) /\ Returns(archive, "NONE") /\ IsSeq(archive)
  BY DEF LoadAnimEnd, AnimsOK, Calm
<1>2. Stepped("anims") /\ archive' = archive /\ io' = Idle
  BY <1>1, ReturnsIs DEF Returns
<1>3. AnimsPlaced
  <2> SUFFICES ASSUME disk.len = Len(disk.toks)
               PROVE  LET file  == disk.holds
                          there == DOMAIN io.base \union AnimsIn(file)
                      IN /\ there \subseteq DOMAIN archive /\ (archive # <<>> => Len(archive) \in there)
                         /\ \A i \in DOMAIN archive :
                              archive[i] = IF i \in AnimsIn(file) THEN file[i]
                                           ELSE IF i \in DOMAIN io.base THEN io.base[i] ELSE Null
    BY <1>2 DEF AnimsPlaced
  <2>1. PICK n \in Nat : n = Len(disk.toks) /\ io.pos - 1 = n /\ AnimsAre(disk)
    BY <1>1, AnimsFile DEF AnimsLoading, AtEnd
  <2>2. LinesRead(disk, archive, io.base, n)
    BY <1>1, <2>1 DEF AnimsLoading
  <2>3. ASSUME NEW i \in 1..Len(archive)
        PROVE  archive[i] = IF i \in DOMAIN disk.holds /\ Has(disk.holds[i], "anim") THEN disk.holds[i]
                            ELSE IF i \in DOMAIN io.base THEN io.base[i] ELSE Null
    <3>1. EntryRead(disk, archive, io.base, n, i) /\ i \in Nat
      BY <2>2 DEF LinesRead
    <3>2. CASE i \in DOMAIN disk.holds /\ Has(disk.holds[i], "anim")
      <4>1. PICK p \in 2..n : LastLine(disk, i, n, p) /\ disk.toks[p].v = disk.holds[i]
        BY <2>1, <3>2 DEF AnimsAre
      <4>2. ~(\A q \in 2..n : ~LineFor(disk, i, q))
        BY <4>1 DEF LastLine
      <4>3. PICK q : LastLine(disk, i, n, q) /\ archive[i] = disk.toks[q].v
        BY <3>1, <4>2 DEF EntryRead
      <4>4. p = q
        <5>1. p \in 2..n /\ q \in 2..n /\ LineFor(disk, i, p) /\ LineFor(disk, i, q)
          BY <4>1, <4>3 DEF LastLine
        <5>2. p \notin (q + 1)..n /\ q \notin (p + 1)..n
          BY <4>1, <4>3, <5>1 DEF LastLine
        <5> QED BY <5>1, <5>2
      <4> QED BY <3>2, <4>1, <4>3, <4>4
    <3>3. CASE ~(i \in DOMAIN disk.holds /\ Has(disk.holds[i], "anim"))
      <4>1. ASSUME NEW p \in 2..n, LineFor(disk, i, p) PROVE FALSE
        <5>1. disk.toks[p].t = "line" /\ disk.toks[p].idx + 1 = i
          BY <4>1 DEF LineFor
        <5>2. disk.toks[p].idx \in Nat /\ disk.toks[p].idx + 1 \in DOMAIN disk.holds
              /\ Has(disk.holds[disk.toks[p].idx + 1], "anim")
          BY <2>1, <5>1 DEF AnimsAre
        <5> QED BY <3>3, <5>1, <5>2
      <4>2. ~(\E p : LastLine(disk, i, n, p) /\ archive[i] = disk.toks[p].v)
        BY <4>1 DEF LastLine
      <4>3. archive[i] = IF i \in DOMAIN io.base THEN io.base[i] ELSE Null
        BY <3>1, <4>2 DEF EntryRead
      <4> QED BY <3>3, <4>3
    <3> QED BY <3>2, <3>3
  <2>4. PICK l \in Nat, m \in Nat : l = Len(archive) /\ DOMAIN archive = 1..l /\ m = Len(io.base) /\ DOMAIN io.base = 1..m
    BY <1>1 DEF AnimsLoading, IsSeq
  <2>5. m =< l /\ (\A p \in 2..n : disk.toks[p].t = "line" => disk.toks[p].idx + 1 =< l)
        /\ (l = m \/ \E p \in 2..n : LineFor(disk, l, p))
    BY <2>2, <2>4 DEF LinesRead
  <2>6. AnimsIn(disk.holds) \subseteq 1..l
    <3> SUFFICES ASSUME NEW i \in DOMAIN disk.holds, Has(disk.holds[i], "anim") PROVE i \in 1..l
      BY DEF AnimsIn
    <3>1. PICK p \in 2..n : LastLine(disk, i, n, p)
      BY <2>1 DEF AnimsAre
    <3>2. disk.toks[p].t = "line" /\ disk.toks[p].idx + 1 = i
      BY <3>1 DEF LastLine, LineFor
    <3>3. disk.toks[p].idx \in Nat /\ disk.toks[p].idx + 1 =< l
      BY <2>1, <2>5, <3>2 DEF AnimsAre
    <3> QED BY <3>2, <3>3
  <2>7. l # 0 => l \in 1..m \union AnimsIn(disk.holds)
    <3>1. CASE l = m
      BY <3>1
    <3>2. CASE \E p \in 2..n : LineFor(disk, l, p)
      <4>1. PICK p \in 2..n : disk.toks[p].t = "line" /\ disk.toks[p].idx + 1 = l
        BY <3>2 DEF LineFor
      <4>2. disk.toks[p].idx \in Nat /\ disk.toks[p].idx + 1 \in DOMAIN disk.holds
            /\ Has(disk.holds[disk.toks[p].idx + 1], "anim")
        BY <2>1, <4>1 DEF AnimsAre
      <4> QED BY <4>1, <4>2 DEF AnimsIn
    <3> QED BY <2>5, <3>1, <3>2
  <2>8. archive # <<>> => l # 0
    BY <1>1, <2>4, NoSeq
  <2> QED BY <2>3, <2>4, <2>5, <2>6, <2>7, <2>8 DEF AnimsIn
<1> QED BY <1>1, <1>2, <1>3, IdleIsIdle DEF AnimsOK

-------------------------------------------------------------------------------
(* The sections and values of a file of lines *)

(* Sections are counted line by line. *)
LEMMA SectionsStep ==
  ASSUME NEW n \in Nat
  PROVE  /\ SectionsTo(0) = 0 /\ SectionsTo(n) \in Nat
         /\ SectionsTo(n + 1) = IF Is(n + 1, "section") THEN SectionsTo(n) + 1 ELSE SectionsTo(n)
<1>1. PICK S : S = {p \in 1..n : Is(p, "section")}
  OBVIOUS
<1>2. IsFiniteSet(S) /\ SectionsTo(n) = Cardinality(S) /\ Cardinality(S) \in Nat
  <2>1. IsFiniteSet(1..n) /\ S \subseteq 1..n
    BY <1>1, FS_Interval
  <2> QED BY <1>1, <2>1, FS_Subset, FS_CardinalityType DEF SectionsTo
<1>3. SectionsTo(0) = 0
  <2>1. {p \in 1..0 : Is(p, "section")} = {}
    OBVIOUS
  <2> QED BY <2>1, FS_EmptySet DEF SectionsTo
<1>4. PICK T : T = {p \in 1..(n + 1) : Is(p, "section")} /\ SectionsTo(n + 1) = Cardinality(T)
  BY DEF SectionsTo
<1>5. n + 1 \notin S
  BY <1>1
<1>6. CASE Is(n + 1, "section")
  <2>1. T = S \union {n + 1}
    BY <1>1, <1>4, <1>6
  <2>2. Cardinality(T) = Cardinality(S) + 1
    BY <1>2, <1>5, <2>1, FS_AddElement
  <2> QED BY <1>2, <1>3, <1>4, <1>6, <2>2
<1>7. CASE ~Is(n + 1, "section")
  <2>1. \A p \in 1..(n + 1) : Is(p, "section") => p \in 1..n
    BY <1>7
  <2>2. T = S
    BY <1>1, <1>4, <2>1
  <2> QED BY <1>2, <1>3, <1>4, <1>7, <2>2
<1> QED BY <1>6, <1>7

(* A section that begins later has a higher number. *)
LEMMA SectionsGrow ==
  ASSUME NEW n \in Nat, NEW p \in 0..n
  PROVE  /\ SectionsTo(p) \in Nat /\ SectionsTo(n) \in Nat /\ SectionsTo(p) =< SectionsTo(n)
         /\ Is(p, "section") /\ p # 0 => SectionsTo(p) \in 1..SectionsTo(n)
         /\ Is(n, "section") /\ p # n => SectionsTo(p) < SectionsTo(n)
<1>1. ASSUME NEW a \in Nat, NEW b \in 0..a PROVE SectionsTo(b) \in Nat /\ SectionsTo(a) \in Nat /\ SectionsTo(b) =< SectionsTo(a)
  <2>1. PICK A, B : A = {q \in 1..a : Is(q, "section")} /\ B = {q \in 1..b : Is(q, "section")}
    OBVIOUS
  <2>2. IsFiniteSet(1..a) /\ A \subseteq 1..a /\ B \subseteq A
    BY <2>1, FS_Interval
  <2>3. IsFiniteSet(A)
    BY <2>2, FS_Subset
  <2>4. Cardinality(A) \in Nat /\ Cardinality(B) \in Nat /\ Cardinality(B) =< Cardinality(A)
    BY <2>2, <2>3, FS_Subset, FS_CardinalityType
  <2> QED BY <2>1, <2>4 DEF SectionsTo
<1>2. SectionsTo(p) \in Nat /\ SectionsTo(n) \in Nat /\ SectionsTo(p) =< SectionsTo(n)
  BY <1>1
<1>3. ASSUME NEW a \in Nat, Is(a, "section"), a # 0 PROVE SectionsTo(a) = SectionsTo(a - 1) + 1 /\ SectionsTo(a - 1) \in Nat
  <2>1. PICK b \in Nat : b = a - 1 /\ a = b + 1
    BY <1>3
  <2> QED BY <1>3, <2>1, SectionsStep
<1>4. ASSUME Is(p, "section"), p # 0 PROVE SectionsTo(p) \in 1..SectionsTo(n)
  BY <1>2, <1>3, <1>4
<1>5. ASSUME Is(n, "section"), p # n PROVE SectionsTo(p) < SectionsTo(n)
  <2>1. n # 0 /\ n - 1 \in Nat /\ p \in 0..(n - 1)
    BY <1>5
  <2>2. SectionsTo(p) =< SectionsTo(n - 1)
    BY <1>1, <2>1
  <2> QED BY <1>2, <1>3, <1>5, <2>1, <2>2
<1> QED BY <1>2, <1>4, <1>5

(* x is section k, as it is in the first n lines. *)
SectionIs(x, k, n) ==
  /\ x \in IniItem
  /\ \A p \in 1..n : Is(p, "section") /\ SectionsTo(p) = k => x.name = disk.toks[p].v
  /\ ToSet(x.vals) = {ValueAt(p) : p \in LastLines(k, n)}
  /\ \A i, j \in DOMAIN x.vals : x.vals[i].n = x.vals[j].n => i = j

(* A line with another value of the section, *)
AddsValue(k, p) == SectionsTo(p) = k /\ Is(p, "entry") /\ disk.toks[p].n # ""

(* without which it keeps its values. *)
LEMMA SectionStays ==
  ASSUME NEW n \in Nat, NEW k, NEW x, SectionIs(x, k, n), ~AddsValue(k, n + 1),
         ~(Is(n + 1, "section") /\ SectionsTo(n + 1) = k)
  PROVE  SectionIs(x, k, n + 1)
<1>1. ASSUME NEW p \in 1..(n + 1), p # n + 1 PROVE p \in 1..n
  BY <1>1
<1>2. ValueLines(k, n + 1) = ValueLines(k, n)
  <2>1. ASSUME NEW p \in ValueLines(k, n + 1) PROVE p \in ValueLines(k, n)
    BY <1>1, <2>1 DEF ValueLines, AddsValue
  <2>2. ASSUME NEW p \in ValueLines(k, n) PROVE p \in ValueLines(k, n + 1)
    <3>1. p \in 1..n
      BY <2>2 DEF ValueLines
    <3>2. SectionsTo(p) = k /\ Is(p, "entry") /\ disk.toks[p].n # ""
      BY <2>2 DEF ValueLines
    <3>3. p \in 1..(n + 1)
      BY <3>1
    <3> QED BY <3>2, <3>3 DEF ValueLines
  <2> QED BY <2>1, <2>2
<1>3. LastLines(k, n + 1) = LastLines(k, n)
  BY <1>2 DEF LastLines
<1>4. \A p \in 1..(n + 1) : Is(p, "section") /\ SectionsTo(p) = k => x.name = disk.toks[p].v
  BY <1>1 DEF SectionIs
<1> QED BY <1>3, <1>4 DEF SectionIs

(* A section begins without values. *)
LEMMA SectionBegins ==
  ASSUME NEW n \in Nat, Is(n + 1, "section"), disk.toks[n + 1].v \in STRING,
         NEW x, x = Ini(disk.toks[n + 1].v, <<>>)
  PROVE  SectionIs(x, SectionsTo(n + 1), n + 1)
<1>1. x = [k |-> "ini", name |-> disk.toks[n + 1].v, vals |-> <<>>]
  BY DEF Ini
<1>2. <<>> \in Seq(IniValue) /\ DOMAIN <<>> = {}
  OBVIOUS
<1>3. x \in IniItem
  <2>1. PICK V : V = Seq(IniValue)
    OBVIOUS
  <2>2. PICK name \in STRING, vals \in V : name = disk.toks[n + 1].v /\ vals = <<>>
    BY <1>2, <2>1
  <2>3. x = [k |-> "ini", name |-> name, vals |-> vals]
    BY <1>1, <2>2
  <2>4. x \in [k : {"ini"}, name : STRING, vals : V]
    BY <2>3
  <2> QED BY <2>1, <2>4 DEF IniItem
<1>4. ASSUME NEW p \in 1..(n + 1), SectionsTo(p) = SectionsTo(n + 1) PROVE p = n + 1
  <2>1. p \in 0..(n + 1) /\ n + 1 \in Nat
    OBVIOUS
  <2>2. p # n + 1 => SectionsTo(p) < SectionsTo(n + 1) /\ SectionsTo(p) \in Nat /\ SectionsTo(n + 1) \in Nat
    BY <2>1, SectionsGrow
  <2> QED BY <1>4, <2>2
<1>5. ~Is(n + 1, "entry")
  BY DEF Is
<1>6. ValueLines(SectionsTo(n + 1), n + 1) = {}
  BY <1>4, <1>5 DEF ValueLines
<1>7. LastLines(SectionsTo(n + 1), n + 1) = {}
  BY <1>6 DEF LastLines
<1>8. x.vals = <<>> /\ x.name = disk.toks[n + 1].v
  BY <1>1
<1>9. ToSet(x.vals) = {}
  BY <1>2, <1>8 DEF ToSet
<1>10. ToSet(x.vals) = {ValueAt(p) : p \in LastLines(SectionsTo(n + 1), n + 1)}
  BY <1>7, <1>9
<1>11. \A p \in 1..(n + 1) : SectionsTo(p) = SectionsTo(n + 1) => x.name = disk.toks[p].v
  BY <1>4, <1>8
<1>12. DOMAIN x.vals = {}
  BY <1>2, <1>8
<1> QED BY <1>3, <1>10, <1>11, <1>12, Zenon DEF SectionIs

(* setValue replaces the value of that name, or adds one. *)
LEMMA ValueSetIs ==
  ASSUME NEW x \in IniItem, NEW e \in IniValue, NEW y, y = ValueSet(x, e),
         \A i, j \in DOMAIN x.vals : x.vals[i].n = x.vals[j].n => i = j
  PROVE  /\ y \in IniItem /\ y.name = x.name
         /\ ToSet(y.vals) = {f \in ToSet(x.vals) : f.n # e.n} \union {e}
         /\ \A i, j \in DOMAIN y.vals : y.vals[i].n = y.vals[j].n => i = j
<1>1. PICK V : V = IniValue
  OBVIOUS
<1>2. PICK name \in STRING, vals \in Seq(V) : x = [k |-> "ini", name |-> name, vals |-> vals]
  BY <1>1 DEF IniItem
<1>3. x.name = name /\ x.vals = vals
  BY <1>2
<1>4. PICK l \in Nat : l = Len(vals) /\ DOMAIN vals = 1..l /\ \A i \in 1..l : vals[i] \in V
  OBVIOUS
<1>5. \A i, j \in 1..l : vals[i].n = vals[j].n => i = j
  BY <1>3, <1>4
<1>6. PICK I : I = {i \in 1..Len(vals) : vals[i].n = e.n}
  OBVIOUS
<1>7. PICK old : old = SelectInSeq(vals, LAMBDA f : f.n = e.n)
  OBVIOUS
<1>8. old = IF I # {} THEN Min(I) ELSE 0
  BY <1>6, <1>7 DEF SelectInSeq
<1>9. I \subseteq 1..l
  BY <1>4, <1>6
<1>10. old \in 0..l /\ (old = 0 => I = {}) /\ (old # 0 => old \in I)
  BY <1>8, <1>9, FirstOf
<1>11. y = IF old = 0 THEN [x EXCEPT !.vals = Append(@, e)] ELSE [x EXCEPT !.vals[old] = e]
  BY <1>3, <1>7 DEF ValueSet
<1>12. PICK now : now = IF old = 0 THEN Append(vals, e) ELSE [vals EXCEPT ![old] = e]
  OBVIOUS
<1>13. y = [k |-> "ini", name |-> name, vals |-> now]
  BY <1>2, <1>11, <1>12
<1>14. y.name = name /\ y.vals = now
  BY <1>13
<1>15. e \in V
  BY <1>1
<1>16. /\ now \in Seq(V)
       /\ {now[i] : i \in DOMAIN now} = {f \in {vals[i] : i \in 1..l} : f.n # e.n} \union {e}
       /\ \A i, j \in DOMAIN now : now[i].n = now[j].n => i = j
  <2>1. CASE old = 0
    <3>1. now = Append(vals, e)
      BY <1>12, <2>1
    <3>2. now \in Seq(V) /\ DOMAIN now = 1..(l + 1) /\ now[l + 1] = e /\ \A i \in 1..l : now[i] = vals[i]
      BY <1>4, <1>15, <3>1
    <3>3. \A i \in 1..l : now[i] = vals[i] /\ vals[i].n # e.n
      BY <1>4, <1>6, <1>10, <2>1, <3>2
    <3>4. ASSUME NEW i \in 1..(l + 1), i # l + 1 PROVE i \in 1..l
      BY <3>4
    <3>5. \A i, j \in 1..(l + 1) : now[i].n = now[j].n => i = j
      BY <1>5, <3>2, <3>3, <3>4
    <3>6. ASSUME NEW i \in 1..l PROVE i \in 1..(l + 1)
      OBVIOUS
    <3>7. l + 1 \in 1..(l + 1)
      OBVIOUS
    <3>8. {now[i] : i \in 1..(l + 1)} = {vals[i] : i \in 1..l} \union {e}
      BY <3>2, <3>4, <3>6, <3>7
    <3>9. {f \in {vals[i] : i \in 1..l} : f.n # e.n} = {vals[i] : i \in 1..l}
      BY <3>3
    <3> QED BY <3>2, <3>5, <3>8, <3>9
  <2>2. CASE old # 0
    <3>1. now = [vals EXCEPT ![old] = e] /\ old \in 1..l /\ vals[old].n = e.n
      BY <1>6, <1>10, <1>12, <2>2
    <3>2. now \in Seq(V) /\ DOMAIN now = 1..l /\ now[old] = e /\ \A i \in 1..l : i # old => now[i] = vals[i]
      <4>1. vals \in [1..l -> V]
        BY <1>4
      <4>2. now \in [1..l -> V] /\ now[old] = e /\ \A i \in 1..l : i # old => now[i] = vals[i]
        BY <1>15, <3>1, <4>1
      <4> QED BY <4>2
    <3>3. \A i \in 1..l : i # old => now[i] = vals[i] /\ vals[i].n # e.n
      BY <1>5, <3>1, <3>2
    <3>4. \A i, j \in 1..l : now[i].n = now[j].n => i = j
      BY <1>5, <3>1, <3>2, <3>3
    <3>5. {now[i] : i \in 1..l} = {f \in {vals[i] : i \in 1..l} : f.n # e.n} \union {e}
      BY <3>1, <3>2, <3>3
    <3> QED BY <3>2, <3>4, <3>5
  <2> QED BY <2>1, <2>2
<1>17. y \in IniItem
  BY <1>1, <1>13, <1>16 DEF IniItem
<1>18. ToSet(x.vals) = {vals[i] : i \in 1..l} /\ ToSet(y.vals) = {now[i] : i \in DOMAIN now}
  BY <1>3, <1>4, <1>14 DEF ToSet
<1>19. ToSet(y.vals) = {f \in ToSet(x.vals) : f.n # e.n} \union {e}
  BY <1>16, <1>18, Zenon
<1>20. \A i, j \in DOMAIN y.vals : y.vals[i].n = y.vals[j].n => i = j
  BY <1>14, <1>16
<1> QED BY <1>3, <1>14, <1>17, <1>19, <1>20

(* Then it is the last of its name that was read. *)
LEMMA SectionGrows ==
  ASSUME NEW n \in Nat, NEW k, NEW x, SectionIs(x, k, n), AddsValue(k, n + 1),
         ValueAt(n + 1) \in IniValue, NEW y, y = ValueSet(x, ValueAt(n + 1))
  PROVE  SectionIs(y, k, n + 1)
<1>1. PICK e \in IniValue : e = ValueAt(n + 1) /\ e.n = disk.toks[n + 1].n
  BY DEF ValueAt
<1>2. /\ y \in IniItem /\ y.name = x.name
      /\ ToSet(y.vals) = {f \in ToSet(x.vals) : f.n # e.n} \union {e}
      /\ \A i, j \in DOMAIN y.vals : y.vals[i].n = y.vals[j].n => i = j
  <2>1. x \in IniItem /\ \A i, j \in DOMAIN x.vals : x.vals[i].n = x.vals[j].n => i = j
    BY DEF SectionIs
  <2>2. y = ValueSet(x, e)
    BY <1>1
  <2> QED BY <2>1, <2>2, ValueSetIs, Zenon
<1>3. PICK L, M : L = ValueLines(k, n) /\ M = ValueLines(k, n + 1)
  OBVIOUS
<1>4. M = L \union {n + 1} /\ \A p \in L : p \in Nat /\ p < n + 1
  <2>1. ASSUME NEW p \in 1..(n + 1), p # n + 1 PROVE p \in 1..n
    BY <2>1
  <2>2. ASSUME NEW p \in M, p # n + 1 PROVE p \in L
    BY <1>3, <2>1, <2>2 DEF ValueLines
  <2>3. ASSUME NEW p \in L PROVE p \in M /\ p \in Nat /\ p < n + 1
    <3>1. p \in 1..n
      BY <1>3 DEF ValueLines
    <3>2. SectionsTo(p) = k /\ Is(p, "entry") /\ disk.toks[p].n # ""
      BY <1>3 DEF ValueLines
    <3>3. p \in 1..(n + 1) /\ p \in Nat /\ p < n + 1
      BY <3>1
    <3> QED BY <1>3, <3>2, <3>3 DEF ValueLines
  <2>4. n + 1 \in M
    <3>1. n + 1 \in 1..(n + 1)
      OBVIOUS
    <3> QED BY <1>3, <3>1 DEF ValueLines, AddsValue
  <2> QED BY <2>2, <2>3, <2>4
<1>5. PICK before, now : before = LastLines(k, n) /\ now = LastLines(k, n + 1)
  OBVIOUS
<1>6. now = {p \in before : disk.toks[p].n # e.n} \union {n + 1}
  <2>1. before = {p \in L : \A q \in L : q > p => disk.toks[q].n # disk.toks[p].n}
    BY <1>3, <1>5 DEF LastLines
  <2>2. now = {p \in M : \A q \in M : q > p => disk.toks[q].n # disk.toks[p].n}
    BY <1>3, <1>5 DEF LastLines
  <2>3. \A p \in L : ~(p > n + 1) /\ n + 1 > p
    BY <1>4
  <2>4. ~(n + 1 > n + 1)
    OBVIOUS
  <2>5. ASSUME NEW p \in now, p # n + 1 PROVE p \in before /\ disk.toks[p].n # e.n
    BY <1>1, <1>4, <2>1, <2>2, <2>3, <2>5, Zenon
  <2>6. ASSUME NEW p \in before, disk.toks[p].n # e.n PROVE p \in now
    BY <1>1, <1>4, <2>1, <2>2, <2>6, Zenon
  <2>7. n + 1 \in now
    BY <1>4, <2>2, <2>3, <2>4, Zenon
  <2> QED BY <2>5, <2>6, <2>7
<1>7. {ValueAt(p) : p \in now} = {f \in {ValueAt(p) : p \in before} : f.n # e.n} \union {e}
  <2>1. \A p : ValueAt(p).n = disk.toks[p].n
    BY DEF ValueAt
  <2> QED BY <1>1, <1>6, <2>1, Zenon
<1>8. ToSet(x.vals) = {ValueAt(p) : p \in before}
  BY <1>5 DEF SectionIs
<1>9. ASSUME NEW p \in 1..(n + 1), Is(p, "section"), SectionsTo(p) = k PROVE y.name = disk.toks[p].v
  <2>1. p # n + 1
    BY <1>9 DEF AddsValue, Is
  <2>2. p \in 1..n
    BY <2>1
  <2> QED BY <1>2, <1>9, <2>2 DEF SectionIs
<1>10. ToSet(y.vals) = {ValueAt(p) : p \in LastLines(k, n + 1)}
  BY <1>2, <1>5, <1>7, <1>8, Zenon
<1> QED BY <1>2, <1>9, <1>10, Zenon DEF SectionIs

-------------------------------------------------------------------------------
(* Loads of INI files *)

(* The archive and the section that is read, after n lines, the end of the *)
(* file seen or not.                                                       *)
SectionsRead(a, base, part, n, seen) ==
  /\ IsSeq(a) /\ IsSeq(base)
  /\ part # Null => SectionsTo(n) # 0 /\ seen = 0 /\ ~Is(n, "blank")
  /\ part = Null /\ seen = 0 => n = 0 \/ Is(n, "blank")
  /\ Len(a) = Len(base) + (IF part = Null THEN SectionsTo(n) ELSE SectionsTo(n) - 1)
                        + (IF seen = 1 /\ Is(n, "blank") THEN 1 ELSE 0)
  /\ \A i \in 1..Len(base) : a[i] = base[i]
  /\ \A k \in 1..SectionsTo(n) :
       SectionIs(IF part # Null /\ k = SectionsTo(n) THEN part ELSE a[Len(base) + k], k, n)

IniLoading ==
  /\ disk.fmt = "ini" /\ disk.len # 0
  /\ \/ /\ io.i = 0 /\ io.pos \in 1..(disk.len + 1)
        /\ SectionsRead(archive, io.base, io.part, io.pos - 1, 0)
     \/ /\ io.i = 1 /\ io.part = Null
        /\ SectionsRead(archive, io.base, Null, disk.len, 1)

IniOK == io.op = "ini" => IniLoading

(* What a step of a load of an INI file gives. *)
IniPlaced ==
  ret'.code = "NONE" =>
    LET base == Len(io.base)
        all  == SectionsTo(disk.len)
    IN /\ SubSeq(archive', 1, base) = io.base
       /\ Len(archive') = base + all + (IF Is(disk.len, "blank") THEN 1 ELSE 0)
       /\ \A p \in 1..disk.len :
            Is(p, "section") => archive'[base + SectionsTo(p)].name = disk.toks[p].v
       /\ \A k \in 1..all :
            LET vals == archive'[base + k].vals
            IN /\ ToSet(vals) = {ValueAt(p) : p \in LastLines(k, disk.len)}
               /\ \A i, j \in DOMAIN vals : vals[i].n = vals[j].n => i = j

(* What is known of a file of lines. *)
LEMMA IniFile ==
  ASSUME FileOK, disk.fmt = "ini"
  PROVE  disk.len \in Nat /\ Len(disk.toks) \in Nat /\ disk.len =< Len(disk.toks) /\ IniIs(disk)
BY DEF FileOK, HoldsIt

(* A line of a section. *)
LEMMA SectionLine ==
  ASSUME NEW n \in Nat, NEW a, NEW base, SectionsRead(a, base, Null, n, 0), Is(n + 1, "section"),
         disk.toks[n + 1].v \in STRING, NEW x, x = Ini(disk.toks[n + 1].v, <<>>)
  PROVE  SectionsRead(a, base, x, n + 1, 0)
<1>1. PICK m \in Nat : m = SectionsTo(n) /\ SectionsTo(n + 1) = m + 1
  BY SectionsStep
<1>2. SectionIs(x, m + 1, n + 1) /\ x # Null
  <2>1. SectionIs(x, m + 1, n + 1)
    BY <1>1, SectionBegins
  <2> QED BY <2>1, IniAssumption DEF SectionIs
<1>3. PICK b \in Nat : b = Len(base)
  BY DEF SectionsRead, IsSeq
<1>4. ASSUME NEW k \in 1..m PROVE SectionIs(a[b + k], k, n + 1)
  <2>1. SectionIs(a[b + k], k, n)
    BY <1>1, <1>3 DEF SectionsRead
  <2>2. SectionsTo(n + 1) # k
    BY <1>1
  <2> QED BY <2>1, <2>2, SectionStays DEF AddsValue
<1>5. ASSUME NEW k \in 1..(m + 1) PROVE SectionIs(IF k = m + 1 THEN x ELSE a[b + k], k, n + 1)
  <2>1. CASE k = m + 1
    BY <1>2, <2>1
  <2>2. CASE k # m + 1
    <3>1. k \in 1..m
      BY <2>2
    <3> QED BY <1>4, <2>2, <3>1
  <2> QED BY <2>1, <2>2
<1>6. IsSeq(a) /\ IsSeq(base) /\ Len(a) = b + m /\ \A i \in 1..b : a[i] = base[i]
  BY <1>1, <1>3 DEF SectionsRead
<1>7. ~Is(n + 1, "blank")
  BY DEF Is
<1>8. m + 1 # 0 /\ m + 1 - 1 = m /\ b + m + 0 = b + m
  BY <1>3
<1> QED BY <1>1, <1>2, <1>3, <1>5, <1>6, <1>7, <1>8 DEF SectionsRead

(* A line of a value. *)
NoName(p) == disk.toks[p].n = ""

(* A line of a value adds to the section that is read, or is dropped where it has no name. *)
LEMMA ValueLine ==
  ASSUME NEW n \in Nat, NEW a, NEW base, NEW x, x # Null, SectionsRead(a, base, x, n, 0), Is(n + 1, "entry"),
         ValueAt(n + 1) \in IniValue,
         NEW y, y = IF NoName(n + 1) THEN x ELSE ValueSet(x, ValueAt(n + 1))
  PROVE  y # Null /\ SectionsRead(a, base, y, n + 1, 0)
<1>1. ~Is(n + 1, "section") /\ ~Is(n + 1, "blank")
  BY DEF Is
<1>2. PICK m \in Nat : m = SectionsTo(n) /\ SectionsTo(n + 1) = m /\ m # 0
  BY <1>1, SectionsStep DEF SectionsRead
<1>3. PICK b \in Nat : b = Len(base)
  BY DEF SectionsRead, IsSeq
<1>4. ASSUME NEW k \in 1..m, k # m PROVE SectionIs(a[b + k], k, n + 1)
  <2>1. SectionIs(a[b + k], k, n)
    BY <1>2, <1>3, <1>4 DEF SectionsRead
  <2>2. SectionsTo(n + 1) # k
    BY <1>2, <1>4
  <2> QED BY <2>1, <2>2, SectionStays DEF AddsValue
<1>5. SectionIs(y, m, n + 1)
  <2>1. m \in 1..m
    BY <1>2
  <2>2. SectionIs(x, m, n)
    BY <1>2, <2>1 DEF SectionsRead
  <2>3. CASE NoName(n + 1)
    BY <1>1, <2>2, <2>3, SectionStays DEF AddsValue, NoName
  <2>4. CASE ~NoName(n + 1)
    <3>1. AddsValue(m, n + 1)
      BY <1>2, <2>4 DEF AddsValue, NoName
    <3>2. y = ValueSet(x, ValueAt(n + 1))
      BY <2>4
    <3> QED BY <2>2, <3>1, <3>2, SectionGrows
  <2> QED BY <2>3, <2>4
<1>6. y # Null
  BY <1>5, IniAssumption DEF SectionIs
<1>7. IsSeq(a) /\ IsSeq(base) /\ Len(a) = b + (m - 1) + 0 /\ \A i \in 1..b : a[i] = base[i]
  BY <1>2, <1>3 DEF SectionsRead
<1>8. ASSUME NEW k \in 1..m PROVE SectionIs(IF k = m THEN y ELSE a[b + k], k, n + 1)
  BY <1>4, <1>5
<1> QED BY <1>1, <1>2, <1>3, <1>6, <1>7, <1>8 DEF SectionsRead

(* No section is read. *)
Complete(a, base, n) ==
  /\ Len(a) = Len(base) + SectionsTo(n)
  /\ \A i \in 1..Len(base) : a[i] = base[i]
  /\ \A k \in 1..SectionsTo(n) : SectionIs(a[Len(base) + k], k, n)

(* The section that is read goes to the archive, *)
LEMMA SectionAdded ==
  ASSUME NEW n \in Nat, NEW a, NEW base, NEW x, x # Null, SectionsRead(a, base, x, n, 0), NEW now, now = Append(a, x)
  PROVE  IsSeq(now) /\ Complete(now, base, n)
<1>1. PICK b \in Nat, m \in Nat : b = Len(base) /\ m = SectionsTo(n) /\ m # 0
  BY SectionsStep DEF SectionsRead, IsSeq
<1>2. PICK l \in Nat : l = b + m - 1
  BY <1>1
<1>3. Len(a) = l
  BY <1>1, <1>2 DEF SectionsRead
<1>4. PICK S : a \in Seq(S)
  BY DEF SectionsRead, IsSeq
<1>5. now \in Seq(S \union {x}) /\ Len(now) = l + 1 /\ now[l + 1] = x /\ \A i \in 1..l : now[i] = a[i]
  BY <1>3, <1>4
<1>6. ASSUME NEW i \in 1..b PROVE now[i] = base[i]
  <2>1. i \in 1..l
    BY <1>1, <1>2
  <2> QED BY <1>1, <1>5, <2>1 DEF SectionsRead
<1>7. ASSUME NEW k \in 1..m PROVE SectionIs(now[b + k], k, n)
  <2>1. CASE k = m
    <3>1. now[b + k] = x
      BY <1>2, <1>5, <2>1
    <3> QED BY <1>1, <2>1, <3>1 DEF SectionsRead
  <2>2. CASE k # m
    <3>1. b + k \in 1..l
      BY <1>1, <1>2, <2>2
    <3>2. now[b + k] = a[b + k]
      BY <1>5, <3>1
    <3> QED BY <1>1, <2>2, <3>2 DEF SectionsRead
  <2> QED BY <2>1, <2>2
<1>8. Len(now) = b + m
  BY <1>2, <1>5
<1> QED BY <1>1, <1>5, <1>6, <1>7, <1>8 DEF IsSeq, Complete

(* by an empty line, *)
LEMMA BlankLine ==
  ASSUME NEW n \in Nat, NEW a, NEW base, NEW x, x # Null, SectionsRead(a, base, x, n, 0), Is(n + 1, "blank")
  PROVE  SectionsRead(Append(a, x), base, Null, n + 1, 0)
<1>1. PICK now : now = Append(a, x)
  OBVIOUS
<1>2. IsSeq(now) /\ IsSeq(base) /\ Complete(now, base, n)
  BY <1>1, SectionAdded DEF SectionsRead
<1>3. ~Is(n + 1, "section") /\ ~Is(n + 1, "entry")
  BY DEF Is
<1>4. PICK b \in Nat, m \in Nat : b = Len(base) /\ m = SectionsTo(n) /\ m = SectionsTo(n + 1)
  BY <1>2, <1>3, SectionsStep DEF IsSeq
<1>5. Len(now) = b + m /\ (\A i \in 1..b : now[i] = base[i]) /\ \A k \in 1..m : SectionIs(now[b + k], k, n)
  BY <1>2, <1>4 DEF Complete
<1>6. \A k \in 1..m : SectionIs(now[b + k], k, n + 1)
  BY <1>3, <1>5, SectionStays DEF AddsValue
<1>7. b + m + 0 = b + m /\ 0 # 1
  OBVIOUS
<1> QED BY <1>1, <1>2, <1>4, <1>5, <1>6, <1>7 DEF SectionsRead

(* or by the end of the file, *)
LEMMA LastSection ==
  ASSUME NEW n \in Nat, NEW a, NEW base, NEW x, x # Null, SectionsRead(a, base, x, n, 0)
  PROVE  SectionsRead(Append(a, x), base, Null, n, 1)
<1>1. PICK now : now = Append(a, x)
  OBVIOUS
<1>2. IsSeq(now) /\ IsSeq(base) /\ Complete(now, base, n)
  BY <1>1, SectionAdded DEF SectionsRead
<1>3. ~Is(n, "blank")
  BY DEF SectionsRead
<1>4. PICK b \in Nat, m \in Nat : b = Len(base) /\ m = SectionsTo(n)
  BY <1>2, SectionsStep DEF IsSeq
<1>5. Len(now) = b + m /\ (\A i \in 1..b : now[i] = base[i]) /\ \A k \in 1..m : SectionIs(now[b + k], k, n)
  BY <1>2, <1>4 DEF Complete
<1>6. b + m + 0 = b + m /\ 0 # 1
  OBVIOUS
<1> QED BY <1>1, <1>2, <1>3, <1>4, <1>5, <1>6 DEF SectionsRead

(* which makes one more of an empty last line. *)
LEMMA NoSection ==
  ASSUME NEW n \in Nat \ {0}, NEW a, NEW base, SectionsRead(a, base, Null, n, 0), NEW x
  PROVE  SectionsRead(Append(a, x), base, Null, n, 1)
<1>1. Is(n, "blank") /\ IsSeq(base) /\ IsSeq(a)
  BY DEF SectionsRead
<1>2. PICK b \in Nat, m \in Nat : b = Len(base) /\ m = SectionsTo(n)
  BY <1>1, SectionsStep DEF IsSeq
<1>3. Len(a) = b + m
  BY <1>2 DEF SectionsRead
<1>4. PICK S : a \in Seq(S)
  BY <1>1 DEF IsSeq
<1>5. PICK now : now = Append(a, x)
  OBVIOUS
<1>6. now \in Seq(S \union {x}) /\ Len(now) = b + m + 1 /\ \A i \in 1..(b + m) : now[i] = a[i]
  BY <1>3, <1>4, <1>5
<1>7. ASSUME NEW i \in 1..b PROVE now[i] = base[i]
  <2>1. i \in 1..(b + m)
    OBVIOUS
  <2> QED BY <1>2, <1>6, <2>1 DEF SectionsRead
<1>8. ASSUME NEW k \in 1..m PROVE SectionIs(now[b + k], k, n)
  <2>1. now[b + k] = a[b + k]
    BY <1>6
  <2> QED BY <1>2, <2>1 DEF SectionsRead
<1>9. IsSeq(now)
  BY <1>6 DEF IsSeq
<1>10. 1 # 0
  OBVIOUS
<1> QED BY <1>1, <1>2, <1>5, <1>6, <1>7, <1>8, <1>9, <1>10 DEF SectionsRead

(* A step that goes on to the next line. *)
LEMMA IniGoes ==
  ASSUME Calm, io.op = "ini", NEW a, NEW part, NEW seen, Continues(a, part, seen)
  PROVE  /\ archive' = a /\ disk' = disk /\ ret' = NoRet
         /\ io'.op = "ini" /\ io'.base = io.base /\ io'.pos = io.pos + 1 /\ io'.part = part /\ io'.i = seen
<1>1. io = [op |-> "ini", pos |-> io.pos, i |-> io.i, pal |-> io.pal, part |-> io.part, base |-> io.base]
  BY DEF Calm, Fields
<1>2. io' = [op |-> "ini", pos |-> io.pos + 1, i |-> seen, pal |-> io.pal, part |-> part, base |-> io.base]
  BY <1>1 DEF Continues, Goes
<1>3. io # Idle
  BY IdleIsIdle
<1> QED BY <1>2, <1>3 DEF Continues, Goes, Calm

(* The same lines were read of the same file. *)
LEMMA SameLines ==
  ASSUME disk' = disk, NEW a, NEW base, NEW part, NEW n, NEW seen, SectionsRead(a, base, part, n, seen)
  PROVE  SectionsRead(a, base, part, n, seen)'
<1>1. \A p, t : Is(p, t)' <=> Is(p, t)
  BY DEF Is
<1>2. \A p : SectionsTo(p)' = SectionsTo(p)
  BY DEF SectionsTo, Is
<1>3. \A x, k : SectionIs(x, k, n)' <=> SectionIs(x, k, n)
  BY DEF LastLines, ValueLines, ValueAt, SectionsTo, Is, SectionIs
<1> QED BY <1>1, <1>2, <1>3 DEF SectionsRead

(* A load that goes on, within the file *)
LEMMA IniReads ==
  ASSUME Calm, FileOK, io.op = "ini", IniLoading, NEW n \in Nat, n = io.pos, n =< disk.len,
         NEW a, NEW part, Continues(a, part, 0), SectionsRead(a, io.base, part, n, 0)
  PROVE  Stepped("ini") /\ IsSeq(archive') /\ IniOK' /\ IniPlaced
<1>1. /\ archive' = a /\ disk' = disk /\ ret' = NoRet
      /\ io'.op = "ini" /\ io'.base = io.base /\ io'.pos = n + 1 /\ io'.part = part /\ io'.i = 0
  BY IniGoes
<1>2. disk.fmt = "ini" /\ disk.len # 0 /\ disk.len \in Nat
  BY IniFile DEF IniLoading
<1>3. io'.pos - 1 = n /\ io'.pos \in 1..(disk.len + 1)
  BY <1>1, <1>2
<1>4. PICK b : b = io.base /\ SectionsRead(a, b, part, n, 0)
  OBVIOUS
<1>5. SectionsRead(a, b, part, n, 0)'
  BY <1>1, <1>4, SameLines
<1>6. IniLoading'
  BY <1>1, <1>2, <1>3, <1>4, <1>5 DEF IniLoading
<1>7. Stepped("ini")
  BY <1>1 DEF Continues, Goes, Stepped, Fields, Calm
<1>8. IsSeq(archive')
  BY <1>1 DEF SectionsRead
<1> QED BY <1>1, <1>6, <1>7, <1>8 DEF IniOK, IniPlaced, NoRet

(* and to its end. *)
LEMMA IniEnds ==
  ASSUME Calm, FileOK, io.op = "ini", IniLoading,
         NEW a, Continues(a, Null, 1), NEW n, n = disk.len, SectionsRead(a, io.base, Null, n, 1)
  PROVE  Stepped("ini") /\ IsSeq(archive') /\ IniOK' /\ IniPlaced
<1>1. /\ archive' = a /\ disk' = disk /\ ret' = NoRet
      /\ io'.op = "ini" /\ io'.base = io.base /\ io'.part = Null /\ io'.i = 1
  BY IniGoes
<1>2. disk.fmt = "ini" /\ disk.len # 0
  BY DEF IniLoading
<1>3. PICK b : b = io.base /\ SectionsRead(a, b, Null, n, 1)
  OBVIOUS
<1>4. SectionsRead(a, b, Null, n, 1)'
  BY <1>1, <1>3, SameLines
<1>5. IniLoading'
  BY <1>1, <1>2, <1>3, <1>4 DEF IniLoading
<1>6. Stepped("ini")
  BY <1>1 DEF Continues, Goes, Stepped, Fields, Calm
<1>7. IsSeq(archive')
  BY <1>1 DEF SectionsRead
<1> QED BY <1>1, <1>5, <1>6, <1>7 DEF IniOK, IniPlaced, NoRet

(* A load that fails gives nothing. *)
LEMMA IniFails ==
  ASSUME Calm, io.op = "ini", NEW codes, Fails(codes), "NONE" \notin codes
  PROVE  Stepped("ini") /\ IsSeq(archive') /\ IniOK' /\ IniPlaced
<1>1. io' = Idle /\ ret'.code # "NONE"
  BY DEF Fails, Returns
<1>2. Stepped("ini") /\ IsSeq(archive')
  BY FailsIs, IdleIsIdle DEF Calm
<1> QED BY <1>1, <1>2, IdleIsIdle DEF IniOK, IniPlaced

(* Where a load stands that has not seen the end of the file. *)
LEMMA IniStands ==
  ASSUME FileOK, IniLoading, io.i = 0
  PROVE  \E n \in Nat : /\ io.pos = n + 1 /\ n =< disk.len /\ disk.len \in Nat /\ disk.len # 0
                        /\ disk.len =< Len(disk.toks) /\ Len(disk.toks) \in Nat /\ IniIs(disk)
                        /\ SectionsRead(archive, io.base, io.part, n, 0)
<1>1. /\ disk.len \in Nat /\ disk.len # 0 /\ disk.len =< Len(disk.toks) /\ Len(disk.toks) \in Nat /\ IniIs(disk)
      /\ io.pos \in 1..(disk.len + 1) /\ SectionsRead(archive, io.base, io.part, io.pos - 1, 0)
  BY IniFile DEF IniLoading
<1>2. io.pos - 1 \in Nat /\ io.pos = io.pos - 1 + 1 /\ io.pos - 1 =< disk.len
  BY <1>1
<1> QED BY <1>1, <1>2

(* A section begins, or the end of the file makes one, *)
LEMMA IniSection ==
  ASSUME Calm, FileOK, IniOK, LoadIniSection
  PROVE  Stepped("ini") /\ IsSeq(archive') /\ IniOK' /\ IniPlaced
<1>1. io.op = "ini" /\ IniLoading /\ io.part = Null /\ io.i = 0
  BY DEF LoadIniSection, IniOK
<1>2. PICK n \in Nat : /\ io.pos = n + 1 /\ n =< disk.len /\ disk.len \in Nat /\ disk.len # 0
                      /\ disk.len =< Len(disk.toks) /\ Len(disk.toks) \in Nat /\ IniIs(disk)
                      /\ SectionsRead(archive, io.base, Null, n, 0)
  BY <1>1, IniStands
<1>3. CASE AtEnd(io.pos)
  <2>1. n = disk.len /\ n # 0
    BY <1>2, <1>3 DEF AtEnd
  <2>2. PICK x : x = Ini("", <<>>)
    OBVIOUS
  <2>3. PICK a, b : a = archive /\ b = io.base /\ SectionsRead(a, b, Null, n, 0)
    BY <1>2
  <2>4. SectionsRead(Append(a, x), b, Null, n, 1)
    BY <2>1, <2>3, NoSection
  <2>5. Continues(Append(a, x), Null, 1)
    BY <1>3, <2>2, <2>3 DEF LoadIniSection
  <2> QED BY <1>1, <2>1, <2>3, <2>4, <2>5, IniEnds
<1>4. CASE ~AtEnd(io.pos) /\ (~Is(io.pos, "section") \/ disk.toks[io.pos].v = "")
  <2>1. Fails({"WRONG_FORMAT"}) \/ Fails({"WRONG_HEADER"})
    BY <1>4 DEF LoadIniSection
  <2> QED BY <1>1, <2>1, IniFails
<1>5. CASE ~AtEnd(io.pos) /\ Is(io.pos, "section") /\ disk.toks[io.pos].v # ""
  <2>0. ~AtEnd(io.pos)
    BY <1>5
  <2>1. n + 1 =< disk.len /\ n + 1 \in 1..Len(disk.toks) /\ n + 1 \in Nat
    BY <1>2, <2>0 DEF AtEnd
  <2>2. disk.toks[n + 1].v \in STRING
    BY <1>2, <1>5, <2>1 DEF IniIs, Is
  <2>3. PICK x : x = Ini(disk.toks[n + 1].v, <<>>)
    OBVIOUS
  <2>4. PICK a, b : a = archive /\ b = io.base /\ SectionsRead(a, b, Null, n, 0)
    BY <1>2
  <2>5. SectionsRead(a, b, x, n + 1, 0)
    BY <1>2, <1>5, <2>2, <2>3, <2>4, SectionLine
  <2>6. Continues(a, x, 0)
    BY <1>2, <1>5, <2>3, <2>4 DEF LoadIniSection
  <2> QED BY <1>1, <1>2, <2>1, <2>4, <2>5, <2>6, IniReads
<1> QED BY <1>3, <1>4, <1>5

(* A line is a value. *)
LEMMA OneLine == ASSUME NEW S, NEW v \in S PROVE <<v>> \in Seq(S) \ {<<>>}
OBVIOUS

(* a value is set, *)
LEMMA IniEntry ==
  ASSUME Calm, FileOK, IniOK, LoadIniValue
  PROVE  Stepped("ini") /\ IsSeq(archive') /\ IniOK' /\ IniPlaced
<1>1. io.op = "ini" /\ IniLoading /\ io.part # Null /\ io.i = 0 /\ Is(io.pos, "entry")
  BY DEF LoadIniValue, InSection, IniOK, IniLoading
<1>2. PICK n \in Nat : /\ io.pos = n + 1 /\ n =< disk.len /\ disk.len \in Nat /\ disk.len # 0
                      /\ disk.len =< Len(disk.toks) /\ Len(disk.toks) \in Nat /\ IniIs(disk)
                      /\ SectionsRead(archive, io.base, io.part, n, 0)
  BY <1>1, IniStands
<1>3. n + 1 =< disk.len /\ n + 1 \in 1..Len(disk.toks) /\ n + 1 \in Nat
  BY <1>1, <1>2 DEF Is
<1>4. disk.toks[n + 1].n \in STRING /\ disk.toks[n + 1].v \in STRING
  BY <1>1, <1>2, <1>3 DEF IniIs, Is
<1>5. ValueAt(n + 1) \in IniValue
  <2>1. PICK name \in STRING, v \in STRING : name = disk.toks[n + 1].n /\ v = disk.toks[n + 1].v
    BY <1>4
  <2>2. <<v>> \in Seq(STRING) \ {<<>>}
    <3>1. v \in STRING
      OBVIOUS
    <3> QED BY <3>1, OneLine
  <2>3. [n |-> name, v |-> <<v>>] \in [n : STRING, v : Seq(STRING) \ {<<>>}]
    BY <2>2
  <2> QED BY <2>1, <2>3 DEF ValueAt, IniValue
<1>6. PICK a, b, x, y : /\ a = archive /\ b = io.base /\ x = io.part
                        /\ y = IF NoName(n + 1) THEN x ELSE ValueSet(x, ValueAt(n + 1))
  OBVIOUS
<1>7. SectionsRead(a, b, y, n + 1, 0)
  <2>1. x # Null /\ SectionsRead(a, b, x, n, 0) /\ Is(n + 1, "entry")
    BY <1>1, <1>2, <1>6
  <2> QED BY <1>5, <1>6, <2>1, ValueLine
<1>8. Continues(a, y, 0)
  BY <1>2, <1>6 DEF LoadIniValue, NoName, ValueAt
<1> QED BY <1>1, <1>2, <1>3, <1>6, <1>7, <1>8, IniReads

(* the section ends, *)
LEMMA IniSectionEnds ==
  ASSUME Calm, FileOK, IniOK, LoadIniSectionEnd
  PROVE  Stepped("ini") /\ IsSeq(archive') /\ IniOK' /\ IniPlaced
<1>1. io.op = "ini" /\ IniLoading /\ io.part # Null /\ io.i = 0 /\ (AtEnd(io.pos) \/ Is(io.pos, "blank"))
  BY DEF LoadIniSectionEnd, InSection, IniOK, IniLoading
<1>2. PICK n \in Nat : /\ io.pos = n + 1 /\ n =< disk.len /\ disk.len \in Nat /\ disk.len # 0
                      /\ disk.len =< Len(disk.toks) /\ Len(disk.toks) \in Nat /\ IniIs(disk)
                      /\ SectionsRead(archive, io.base, io.part, n, 0)
  BY <1>1, IniStands
<1>3. PICK a, b, x : a = archive /\ b = io.base /\ x = io.part
  OBVIOUS
<1>4. x # Null /\ SectionsRead(a, b, x, n, 0)
  BY <1>1, <1>2, <1>3
<1>5. CASE AtEnd(io.pos)
  <2>1. n = disk.len
    BY <1>2, <1>5 DEF AtEnd
  <2>2. SectionsRead(Append(a, x), b, Null, n, 1)
    BY <1>4, LastSection
  <2>3. Continues(Append(a, x), Null, 1)
    BY <1>3, <1>5 DEF LoadIniSectionEnd
  <2> QED BY <1>1, <1>3, <2>1, <2>2, <2>3, IniEnds
<1>6. CASE ~AtEnd(io.pos)
  <2>1. n + 1 =< disk.len /\ n + 1 \in Nat /\ Is(n + 1, "blank")
    BY <1>1, <1>2, <1>6 DEF Is
  <2>2. SectionsRead(Append(a, x), b, Null, n + 1, 0)
    BY <1>4, <2>1, BlankLine
  <2>3. Continues(Append(a, x), Null, 0)
    BY <1>3, <1>6 DEF LoadIniSectionEnd
  <2> QED BY <1>1, <1>2, <1>3, <2>1, <2>2, <2>3, IniReads
<1> QED BY <1>5, <1>6

(* and at the end the archive has the sections of all lines. *)
LEMMA IniEnd ==
  ASSUME Calm, FileOK, IniOK, LoadIniEnd
  PROVE  Stepped("ini") /\ IsSeq(archive') /\ IniOK' /\ IniPlaced
<1>1. io.op = "ini" /\ IniLoading /\ io.part = Null /\ io.i = 1 /\ Returns(archive, "NONE")
  BY DEF LoadIniEnd, IniOK
<1>2. archive' = archive /\ disk' = disk /\ io' = Idle /\ Stepped("ini") /\ IsSeq(archive')
  BY <1>1, ReturnsIs DEF Returns, Calm
<1>3. PICK n \in Nat : n = disk.len /\ SectionsRead(archive, io.base, Null, n, 1)
  BY <1>1, IniFile DEF IniLoading
<1>4. PICK b \in Nat, m \in Nat : b = Len(io.base) /\ m = SectionsTo(n)
  <2>1. PICK S : io.base \in Seq(S)
    BY <1>3 DEF SectionsRead, IsSeq
  <2>2. Len(io.base) \in Nat
    BY <2>1
  <2> QED BY <2>2, SectionsStep
<1>5. /\ Len(archive) = b + m + (IF Is(n, "blank") THEN 1 ELSE 0)
      /\ \A i \in 1..b : archive[i] = io.base[i]
      /\ \A k \in 1..m : SectionIs(archive[b + k], k, n)
  BY <1>3, <1>4 DEF SectionsRead
<1>6. SubSeq(archive, 1, b) = io.base
  <2>1. PICK S : io.base \in Seq(S)
    BY <1>3 DEF SectionsRead, IsSeq
  <2>2. io.base = [i \in 1..b |-> io.base[i]]
    BY <1>4, <2>1
  <2>3. SubSeq(archive, 1, b) = [i \in 1..b |-> archive[i]]
    <3>1. PICK T : archive \in Seq(T)
      BY <1>3 DEF SectionsRead, IsSeq
    <3>2. Len(archive) \in Nat /\ b =< Len(archive)
      BY <1>5
    <3> QED BY <3>1, <3>2
  <2> QED BY <1>5, <2>2, <2>3
<1>7. ASSUME NEW p \in 1..n, Is(p, "section") PROVE archive[b + SectionsTo(p)].name = disk.toks[p].v
  <2>1. p \in 0..n /\ p # 0
    OBVIOUS
  <2>2. SectionsTo(p) \in 1..m
    BY <1>4, <1>7, <2>1, SectionsGrow
  <2>3. SectionIs(archive[b + SectionsTo(p)], SectionsTo(p), n)
    BY <1>5, <2>2
  <2> QED BY <1>7, <2>3 DEF SectionIs
<1>8. ASSUME NEW k \in 1..m
      PROVE  LET vals == archive[b + k].vals
             IN /\ ToSet(vals) = {ValueAt(p) : p \in LastLines(k, n)}
                /\ \A i, j \in DOMAIN vals : vals[i].n = vals[j].n => i = j
  BY <1>5 DEF SectionIs
<1>9. IniPlaced
  BY <1>2, <1>3, <1>4, <1>5, <1>6, <1>7, <1>8, Zenon DEF IniPlaced
<1> QED BY <1>2, <1>9, IdleIsIdle DEF IniOK

(* A line that does not belong to a section ends the load. *)
LEMMA IniWrong ==
  ASSUME Calm, LoadIniWrong
  PROVE  Stepped("ini") /\ IsSeq(archive') /\ IniOK' /\ IniPlaced
BY IniFails DEF LoadIniWrong, InSection

(* So it goes at every step. *)
LEMMA IniSteps ==
  ASSUME Calm, FileOK, IniOK, IniStep
  PROVE  Stepped("ini") /\ IsSeq(archive') /\ IniOK' /\ IniPlaced
BY IniSection, IniEntry, IniWrong, IniSectionEnds, IniEnd, Zenon DEF IniStep

-------------------------------------------------------------------------------
(* Pictures of LBM files *)

(* Where the header is, if there is one, and which palette was read last.  *)
HeaderRead(toks, hdr, n) ==
  IF hdr = 0 THEN \A p \in 1..n : toks[p].t # "BMHD" ELSE OnlyHeader(toks, hdr, n) /\ toks[hdr].ok

PaletteRead(toks, hdr, pal, n) ==
  pal # Null =>
    \E m \in 1..n : /\ LastPalette(toks, m, n)
                    /\ pal = Palette(toks[m].c, IF hdr # 0 /\ hdr < m THEN MaskTrans(toks[hdr]) ELSE 0)

AnimsRead(a, holds) == \A n \in 2..Len(a) : IsAnim(holds[n]) /\ a[n] = LoadedAnim(holds[n])

(* The picture now is img, in which an index and the transparent one are   *)
(* exchanged.                                                              *)
Exchanges(now, img) ==
  LET t == img.pal.trans
      u == now.pal.trans
  IN /\ u \in {0, t} /\ now.pal # Null /\ now.pal = Palette(Exchanged(img.pal.c, u, t), u)
     /\ now.px = [y \in 1..Height(img) |-> [n \in 1..Width(img) |-> Swap(img.px[y][n], u, t)]]

PictureRead(a, holds) ==
  /\ IsImage(holds[1]) /\ Drawable(holds[1])
  /\ HasTransparency(Painted(holds[1]).pal) => Exchanges(a[1], Painted(holds[1]))

(* What a load has read of the first n chunks. *)
ChunksRead(toks, holds, a, part, n) ==
  /\ part = [hdr |-> part.hdr, pal |-> part.pal, done |-> part.done] /\ part.hdr \in 0..n
  /\ Len(a) >= 1 /\ AnimsRead(a, holds)
  /\ IF part.done THEN PictureRead(a, holds)
     ELSE /\ Len(a) = 1 + AnimsTo(toks, n)
          /\ HeaderRead(toks, part.hdr, n) /\ PaletteRead(toks, part.hdr, part.pal, n)

(* A file with pixels at its end, that has lost none of them. *)
HasPixels == disk.len = Len(disk.toks) /\ Last(disk.toks).t = "c"

LbmLoading ==
  /\ disk.fmt = "lbm"
  /\ HasPixels => /\ io.pos \in 2..(disk.len + 1)
                  /\ ChunksRead(disk.toks, disk.holds, archive, io.part, io.pos - 1)

LbmOK == (io.op = "lbm" => LbmLoading) /\ LbmShowsSame

(* Pixels of h rows and w columns, and what becomes of them when u and t   *)
(* are exchanged.                                                          *)
PixelsAre(px, h, w) ==
  px = [y \in 1..h |-> [n \in 1..w |-> px[y][n]]] /\ \A y \in 1..h : \A n \in 1..w : px[y][n] \in Index

(* The palette d has the colours of c, where u and t are exchanged. *)
Turned(d, c, u, t) ==
  IsColours(c) /\ IsColours(d) /\ \A i \in Index : d[i + 1] = c[Swap(i, u, t) + 1]

(* An index of a palette and the place of its colour. *)
LEMMA Indices == Index \subseteq Nat /\ (\A i \in Index : i + 1 \in 1..Colours) /\ (\A i \in 1..Colours : i - 1 \in Index)
BY PaletteAssumption DEF Index

(* Colours that are exchanged. *)
LEMMA ExchangedIs ==
  ASSUME NEW c, IsColours(c), NEW u \in Index, NEW t \in Index
  PROVE  Turned(Exchanged(c, u, t), c, u, t)
<1>1. PICK d : d = Exchanged(c, u, t) /\ d = [c EXCEPT ![u + 1] = c[t + 1], ![t + 1] = c[u + 1]]
  BY DEF Exchanged
<1>2. c = [i \in 1..Colours |-> c[i]] /\ DOMAIN c = 1..Colours
  BY DEF IsColours
<1>3. d = [i \in 1..Colours |-> IF i = t + 1 THEN c[u + 1] ELSE IF i = u + 1 THEN c[t + 1] ELSE c[i]]
  BY <1>1, <1>2, Indices
<1>4. d = [i \in 1..Colours |-> d[i]]
  BY <1>3
<1>5. ASSUME NEW i \in Index PROVE d[i + 1] = c[Swap(i, u, t) + 1]
  <2>1. i \in Nat /\ u \in Nat /\ t \in Nat /\ i + 1 \in 1..Colours
    BY Indices
  <2>2. (i + 1 = t + 1 <=> i = t) /\ (i + 1 = u + 1 <=> i = u)
    BY <2>1
  <2>3. d[i + 1] = IF i + 1 = t + 1 THEN c[u + 1] ELSE IF i + 1 = u + 1 THEN c[t + 1] ELSE c[i + 1]
    BY <1>3, <2>1
  <2> QED BY <2>2, <2>3 DEF Swap
<1>6. IsColours(d)
  BY <1>4 DEF IsColours
<1>7. Turned(d, c, u, t)
  BY <1>5, <1>6 DEF Turned
<1> QED BY <1>1, <1>7

(* Colours that move beside those. *)
LEMMA MovedBeside ==
  ASSUME NEW u \in Index, NEW t \in Index, NEW c, NEW d, Turned(d, c, u, t),
         NEW i \in Index \ {u, t}, NEW j \in Index \ {u, t}
  PROVE  Turned(Moved(d, i, j), Moved(c, i, j), u, t)
<1>1. /\ c = [k \in 1..Colours |-> c[k]] /\ d = [k \in 1..Colours |-> d[k]]
      /\ DOMAIN c = 1..Colours /\ DOMAIN d = 1..Colours
  BY DEF Turned, IsColours
<1>2. PICK e : e = Moved(c, i, j) /\ e = [k \in 1..Colours |-> IF k = j + 1 THEN c[i + 1] ELSE c[k]]
  BY <1>1, Indices DEF Moved
<1>3. PICK f : f = Moved(d, i, j) /\ f = [k \in 1..Colours |-> IF k = j + 1 THEN d[i + 1] ELSE d[k]]
  BY <1>1, Indices DEF Moved
<1>4. e = [k \in 1..Colours |-> e[k]] /\ f = [k \in 1..Colours |-> f[k]]
  BY <1>2, <1>3
<1>5. ASSUME NEW k \in Index PROVE f[k + 1] = e[Swap(k, u, t) + 1]
  <2>1. Swap(k, u, t) \in Index /\ (Swap(k, u, t) = j <=> k = j) /\ Swap(i, u, t) = i
    BY DEF Swap
  <2>2. PICK m \in Index : m = Swap(k, u, t)
    BY <2>1
  <2>3. (k + 1 = j + 1 <=> k = j) /\ (m + 1 = j + 1 <=> m = j) /\ k + 1 \in 1..Colours /\ m + 1 \in 1..Colours
    BY Indices
  <2>4. d[i + 1] = c[i + 1] /\ d[k + 1] = c[m + 1]
    BY <2>1, <2>2 DEF Turned
  <2>5. f[k + 1] = IF k + 1 = j + 1 THEN d[i + 1] ELSE d[k + 1]
    BY <1>3, <2>3
  <2>6. e[m + 1] = IF m + 1 = j + 1 THEN c[i + 1] ELSE c[m + 1]
    BY <1>2, <2>3
  <2> QED BY <2>1, <2>2, <2>3, <2>4, <2>5, <2>6
<1>6. IsColours(e) /\ IsColours(f)
  BY <1>4 DEF IsColours
<1>7. Turned(f, e, u, t)
  BY <1>5, <1>6 DEF Turned
<1> QED BY <1>2, <1>3, <1>7

(* What moves the colours of an animation, one after the other. *)
Moves(f, c, n, from, to) == f[0] = c /\ \A k \in 1..n : f[k] = Moved(f[k - 1], from[k], to[k])

(* The palette after each animation, up to the last. *)
LEMMA MovesExist ==
  ASSUME NEW c, IsColours(c), NEW n \in Nat, NEW from \in [1..n -> Index], NEW to \in [1..n -> Index]
  PROVE  \E f : f = [k \in 0..n |-> f[k]] /\ Moves(f, c, n, from, to)
<1>1. PICK S : S = [1..Colours -> {c[i] : i \in 1..Colours}]
  OBVIOUS
<1> DEFINE next == [k \in 1..n |-> [d \in S |-> Moved(d, from[k], to[k])]]
<1>2. c \in S
  BY <1>1 DEF IsColours
<1>3. next \in [1..n -> [S -> S]]
  <2>1. ASSUME NEW d \in S, NEW i \in Index, NEW j \in Index PROVE Moved(d, i, j) \in S
    <3>1. d[i + 1] \in {c[k] : k \in 1..Colours}
      BY <1>1, Indices
    <3> QED BY <1>1, <3>1 DEF Moved
  <2> QED BY <2>1
<1>4. \A k \in 1..n : \A d \in S : next[k][d] = Moved(d, from[k], to[k])
  OBVIOUS
<1> HIDE DEF next
<1>5. PICK f \in [0..n -> S] : Unfolds(f, n, c, next)
  BY <1>2, <1>3, RecursionExists
<1>6. \A k \in 1..n : k - 1 \in 0..n
  OBVIOUS
<1>7. Moves(f, c, n, from, to)
  BY <1>4, <1>5, <1>6 DEF Unfolds, Moves
<1>8. f = [k \in 0..n |-> f[k]]
  OBVIOUS
<1> QED BY <1>7, <1>8

(* All of them move beside those that are exchanged. *)
LEMMA MovesBeside ==
  ASSUME NEW u \in Index, NEW t \in Index, NEW c, NEW d, Turned(d, c, u, t), NEW n \in Nat,
         NEW from \in [1..n -> Index \ {u, t}], NEW to \in [1..n -> Index \ {u, t}],
         NEW f, Moves(f, c, n, from, to), NEW g, Moves(g, d, n, from, to)
  PROVE  Turned(g[n], f[n], u, t)
<1> DEFINE P == {k \in 0..n : Turned(g[k], f[k], u, t)}
<1>1. 0 \in P
  BY DEF Moves
<1>2. ASSUME NEW k \in 1..n, k - 1 \in P PROVE k \in P
  <2>1. Turned(g[k - 1], f[k - 1], u, t)
    BY <1>2
  <2>2. from[k] \in Index \ {u, t} /\ to[k] \in Index \ {u, t}
    OBVIOUS
  <2>3. Turned(Moved(g[k - 1], from[k], to[k]), Moved(f[k - 1], from[k], to[k]), u, t)
    BY <2>1, <2>2, MovedBeside
  <2>4. Turned(g[k], f[k], u, t)
    BY <2>3 DEF Moves
  <2> QED BY <2>4
<1> HIDE DEF P
<1>3. 0..n \subseteq P
  BY <1>1, <1>2, SetInduction
<1>4. n \in P
  BY <1>3
<1> QED BY <1>4 DEF P

(* The n colours of an animation but one, and the next ones. *)
Ranges(a, n, low, high) ==
  /\ a.first \in Nat /\ a.last \in Nat /\ a.first < a.last /\ n = a.last - a.first
  /\ low = [k \in 1..n |-> a.first + k - 1] /\ high = [k \in 1..n |-> a.first + k]
  /\ low \in [1..n -> Index] /\ high \in [1..n -> Index]

(* How the colours move upwards. *)
LEMMA MovedUpIs ==
  ASSUME NEW c, IsColours(c), NEW a, NEW n, NEW low, NEW high, Ranges(a, n, low, high)
  PROVE  \E f : Moves(f, c, n, low, high) /\ MovedUp(c, a) = f[n]
<1> DEFINE Def(d) == d = [k \in 0..n |-> IF k = 0 THEN c ELSE Moved(d[k - 1], a.first + k - 1, a.first + k)]
<1>1. /\ n \in Nat /\ n = a.last - a.first /\ low \in [1..n -> Index] /\ high \in [1..n -> Index]
      /\ low = [k \in 1..n |-> a.first + k - 1] /\ high = [k \in 1..n |-> a.first + k]
  BY DEF Ranges
<1>2. PICK f : f = [k \in 0..n |-> f[k]] /\ Moves(f, c, n, low, high)
  BY <1>1, MovesExist
<1>3. ASSUME NEW k \in 1..n PROVE low[k] = a.first + k - 1 /\ high[k] = a.first + k
  BY <1>1
<1>4. Def(f)
  <2>1. ASSUME NEW k \in 0..n PROVE f[k] = IF k = 0 THEN c ELSE Moved(f[k - 1], a.first + k - 1, a.first + k)
    <3>1. CASE k = 0
      BY <1>2, <3>1 DEF Moves
    <3>2. CASE k # 0
      <4>1. k \in 1..n
        BY <1>1, <3>2
      <4> QED BY <1>2, <1>3, <3>2, <4>1 DEF Moves
    <3> QED BY <3>1, <3>2
  <2>2. f = [k \in 0..n |-> IF k = 0 THEN c ELSE Moved(f[k - 1], a.first + k - 1, a.first + k)]
    BY <1>2, <2>1
  <2> QED BY <2>2
<1>5. PICK d : Def(d) /\ MovedUp(c, a) = d[n]
  <2>1. MovedUp(c, a) = (CHOOSE d : Def(d))[n]
    BY <1>1, Zenon DEF MovedUp
  <2>2. Def(CHOOSE d : Def(d))
    BY <1>4, Zenon
  <2> QED BY <2>1, <2>2, Zenon
<1>6. Moves(d, c, n, low, high)
  <2>1. d[0] = c
    BY <1>1, <1>5
  <2>2. ASSUME NEW k \in 1..n PROVE d[k] = Moved(d[k - 1], low[k], high[k])
    <3>1. k \in 0..n /\ k # 0
      BY <1>1
    <3> QED BY <1>3, <1>5, <3>1
  <2> QED BY <2>1, <2>2 DEF Moves
<1> QED BY <1>5, <1>6

(* How the colours move downwards. *)
LEMMA MovedDownIs ==
  ASSUME NEW c, IsColours(c), NEW a, NEW n, NEW low, NEW high, Ranges(a, n, low, high)
  PROVE  \E f : Moves(f, c, n, high, low) /\ MovedDown(c, a) = f[n]
<1> DEFINE Def(d) == d = [k \in 0..n |-> IF k = 0 THEN c ELSE Moved(d[k - 1], a.first + k, a.first + k - 1)]
<1>1. /\ n \in Nat /\ n = a.last - a.first /\ low \in [1..n -> Index] /\ high \in [1..n -> Index]
      /\ low = [k \in 1..n |-> a.first + k - 1] /\ high = [k \in 1..n |-> a.first + k]
  BY DEF Ranges
<1>2. PICK f : f = [k \in 0..n |-> f[k]] /\ Moves(f, c, n, high, low)
  BY <1>1, MovesExist
<1>3. ASSUME NEW k \in 1..n PROVE high[k] = a.first + k /\ low[k] = a.first + k - 1
  BY <1>1
<1>4. Def(f)
  <2>1. ASSUME NEW k \in 0..n PROVE f[k] = IF k = 0 THEN c ELSE Moved(f[k - 1], a.first + k, a.first + k - 1)
    <3>1. CASE k = 0
      BY <1>2, <3>1 DEF Moves
    <3>2. CASE k # 0
      <4>1. k \in 1..n
        BY <1>1, <3>2
      <4> QED BY <1>2, <1>3, <3>2, <4>1 DEF Moves
    <3> QED BY <3>1, <3>2
  <2>2. f = [k \in 0..n |-> IF k = 0 THEN c ELSE Moved(f[k - 1], a.first + k, a.first + k - 1)]
    BY <1>2, <2>1
  <2> QED BY <2>2
<1>5. PICK d : Def(d) /\ MovedDown(c, a) = d[n]
  <2>1. MovedDown(c, a) = (CHOOSE d : Def(d))[n]
    BY <1>1, Zenon DEF MovedDown
  <2>2. Def(CHOOSE d : Def(d))
    BY <1>4, Zenon
  <2> QED BY <2>1, <2>2, Zenon
<1>6. Moves(d, c, n, high, low)
  <2>1. d[0] = c
    BY <1>1, <1>5
  <2>2. ASSUME NEW k \in 1..n PROVE d[k] = Moved(d[k - 1], high[k], low[k])
    <3>1. k \in 0..n /\ k # 0
      BY <1>1
    <3> QED BY <1>3, <1>5, <3>1
  <2> QED BY <2>1, <2>2 DEF Moves
<1> QED BY <1>5, <1>6

(* An animation that turns none of those that are exchanged turns the      *)
(* same colours.                                                           *)
LEMMA AppliedBeside ==
  ASSUME NEW u \in Index, NEW t \in Index, NEW p, NEW q, p = Palette(p.c, u), q.trans = t, Turned(p.c, q.c, u, t),
         NEW a, IsAnim(a), u \notin a.first..a.last, t \notin a.first..a.last, q = Palette(q.c, t)
  PROVE  Apply(a, p).trans = u /\ Apply(a, q).trans = t /\ Turned(Apply(a, p).c, Apply(a, q).c, u, t)
<1>1. p.trans = u
  BY DEF Palette
<1>2. CASE ~a.active \/ a.first >= a.last
  <2>1. Apply(a, p) = p /\ Apply(a, q) = q
    BY <1>2, Zenon DEF Apply
  <2> QED BY <1>1, <2>1
<1>3. CASE ~(~a.active \/ a.first >= a.last)
  <2>1. PICK first \in Index, last \in Index : a.first = first /\ a.last = last
    BY DEF IsAnim
  <2>2. first \in Nat /\ last \in Nat /\ first < last /\ first..last \subseteq Index \ {u, t}
    <3>1. first \in Nat /\ last \in Nat /\ first < last
      BY <1>3, <2>1, Indices
    <3>2. first..last \subseteq Index
      BY <2>1, PaletteAssumption DEF Index
    <3> QED BY <2>1, <3>1, <3>2
  <2>3. PICK n \in Nat : n = last - first
    BY <2>2
  <2>4. ASSUME NEW k \in 1..n PROVE first + k \in Index \ {u, t} /\ first + k - 1 \in Index \ {u, t}
    <3>1. first + k \in first..last /\ first + k - 1 \in first..last
      BY <2>2, <2>3
    <3> QED BY <2>2, <3>1
  <2>5. PICK low, high : low = [k \in 1..n |-> first + k - 1] /\ high = [k \in 1..n |-> first + k]
    OBVIOUS
  <2>6. low \in [1..n -> Index \ {u, t}] /\ high \in [1..n -> Index \ {u, t}]
    BY <2>4, <2>5
  <2>7. PICK c, d : c = q.c /\ d = p.c /\ Turned(d, c, u, t) /\ IsColours(c) /\ IsColours(d)
    BY DEF Turned
  <2>8. first \in Index \ {u, t} /\ last \in Index \ {u, t} /\ d[first + 1] = c[first + 1] /\ d[last + 1] = c[last + 1]
    <3>1. first \in first..last /\ last \in first..last
      BY <2>2
    <3>2. first \in Index \ {u, t} /\ last \in Index \ {u, t}
      BY <2>2, <3>1
    <3> QED BY <2>7, <3>2 DEF Turned, Swap
  <2>9. ASSUME NEW r, NEW s, Turned(s, r, u, t), NEW i \in Index \ {u, t}, NEW x
        PROVE  Turned([s EXCEPT ![i + 1] = x], [r EXCEPT ![i + 1] = x], u, t)
    <3>1. /\ r = [k \in 1..Colours |-> r[k]] /\ s = [k \in 1..Colours |-> s[k]]
          /\ DOMAIN r = 1..Colours /\ DOMAIN s = 1..Colours
      BY <2>9 DEF Turned, IsColours
    <3>2. PICK e : e = [r EXCEPT ![i + 1] = x] /\ e = [k \in 1..Colours |-> IF k = i + 1 THEN x ELSE r[k]]
      BY <3>1, Indices
    <3>3. PICK f : f = [s EXCEPT ![i + 1] = x] /\ f = [k \in 1..Colours |-> IF k = i + 1 THEN x ELSE s[k]]
      BY <3>1, Indices
    <3>4. ASSUME NEW k \in Index PROVE f[k + 1] = e[Swap(k, u, t) + 1]
      <4>1. PICK m \in Index : m = Swap(k, u, t) /\ (m = i <=> k = i)
        BY DEF Swap
      <4>2. (k + 1 = i + 1 <=> k = i) /\ (m + 1 = i + 1 <=> m = i) /\ k + 1 \in 1..Colours /\ m + 1 \in 1..Colours
        BY Indices
      <4>3. s[k + 1] = r[m + 1]
        BY <2>9, <4>1 DEF Turned
      <4>4. f[k + 1] = IF k + 1 = i + 1 THEN x ELSE s[k + 1]
        BY <3>3, <4>2
      <4>5. e[m + 1] = IF m + 1 = i + 1 THEN x ELSE r[m + 1]
        BY <3>2, <4>2
      <4> QED BY <4>1, <4>2, <4>3, <4>4, <4>5
    <3>5. IsColours(e) /\ IsColours(f)
      <4>1. e = [k \in 1..Colours |-> e[k]] /\ f = [k \in 1..Colours |-> f[k]]
        BY <3>2, <3>3
      <4> QED BY <4>1 DEF IsColours
    <3>6. Turned(f, e, u, t)
      BY <3>4, <3>5 DEF Turned
    <3> QED BY <3>2, <3>3, <3>6
  <2>10. Ranges(a, n, low, high) /\ IsColours(c) /\ IsColours(d)
    BY <2>1, <2>2, <2>3, <2>5, <2>6, <2>7 DEF Ranges
  <2>11. CASE a.up
    <3>1. PICK f : Moves(f, c, n, low, high) /\ MovedUp(c, a) = f[n]
      BY <2>10, MovedUpIs
    <3>2. PICK g : Moves(g, d, n, low, high) /\ MovedUp(d, a) = g[n]
      BY <2>10, MovedUpIs
    <3>3. Turned(MovedUp(d, a), MovedUp(c, a), u, t)
      <4>1. Turned(g[n], f[n], u, t)
        BY <2>3, <2>6, <2>7, <3>1, <3>2, MovesBeside
      <4> QED BY <3>1, <3>2, <4>1
    <3>4. PICK x : x = c[last + 1] /\ x = d[last + 1]
      BY <2>8
    <3>5. Turned([MovedUp(d, a) EXCEPT ![first + 1] = x], [MovedUp(c, a) EXCEPT ![first + 1] = x], u, t)
      BY <2>8, <2>9, <3>3
    <3>6. Apply(a, p) = [p EXCEPT !.c = [MovedUp(d, a) EXCEPT ![first + 1] = x]]
      BY <1>3, <2>1, <2>7, <2>11, <3>4, Zenon DEF Apply
    <3>7. Apply(a, q) = [q EXCEPT !.c = [MovedUp(c, a) EXCEPT ![first + 1] = x]]
      BY <1>3, <2>1, <2>7, <2>11, <3>4, Zenon DEF Apply
    <3>8. ASSUME NEW y PROVE /\ [p EXCEPT !.c = y].c = y /\ [p EXCEPT !.c = y].trans = u
                            /\ [q EXCEPT !.c = y].c = y /\ [q EXCEPT !.c = y].trans = t
      BY DEF Palette
    <3> QED BY <3>5, <3>6, <3>7, <3>8
  <2>12. CASE ~a.up
    <3>1. PICK f : Moves(f, c, n, high, low) /\ MovedDown(c, a) = f[n]
      BY <2>10, MovedDownIs
    <3>2. PICK g : Moves(g, d, n, high, low) /\ MovedDown(d, a) = g[n]
      BY <2>10, MovedDownIs
    <3>3. Turned(MovedDown(d, a), MovedDown(c, a), u, t)
      <4>1. Turned(g[n], f[n], u, t)
        BY <2>3, <2>6, <2>7, <3>1, <3>2, MovesBeside
      <4> QED BY <3>1, <3>2, <4>1
    <3>4. PICK x : x = c[first + 1] /\ x = d[first + 1]
      BY <2>8
    <3>5. Turned([MovedDown(d, a) EXCEPT ![last + 1] = x], [MovedDown(c, a) EXCEPT ![last + 1] = x], u, t)
      BY <2>8, <2>9, <3>3
    <3>6. Apply(a, p) = [p EXCEPT !.c = [MovedDown(d, a) EXCEPT ![last + 1] = x]]
      BY <1>3, <2>1, <2>7, <2>12, <3>4, Zenon DEF Apply
    <3>7. Apply(a, q) = [q EXCEPT !.c = [MovedDown(c, a) EXCEPT ![last + 1] = x]]
      BY <1>3, <2>1, <2>7, <2>12, <3>4, Zenon DEF Apply
    <3>8. ASSUME NEW y PROVE /\ [p EXCEPT !.c = y].c = y /\ [p EXCEPT !.c = y].trans = u
                            /\ [q EXCEPT !.c = y].c = y /\ [q EXCEPT !.c = y].trans = t
      BY DEF Palette
    <3> QED BY <3>5, <3>6, <3>7, <3>8
  <2> QED BY <2>11, <2>12
<1> QED BY <1>2, <1>3

(* Pixels and a palette in which an index and the transparent one are      *)
(* exchanged show the same.                                                *)
LEMMA ExchangeShows ==
  ASSUME NEW h, NEW w, NEW px, PixelsAre(px, h, w), NEW u \in Index, NEW t \in Index,
         NEW p, NEW q, p.trans = u, q.trans = t, Turned(p.c, q.c, u, t),
         NEW now, now = [y \in 1..h |-> [n \in 1..w |-> Swap(px[y][n], u, t)]]
  PROVE  ShownWith(now, p) = ShownWith(px, q)
<1>1. ASSUME NEW v \in Index
      PROVE  (IF Swap(v, u, t) = u THEN Clear ELSE ShownBy(p, Swap(v, u, t))) = IF v = t THEN Clear ELSE ShownBy(q, v)
  <2>1. PICK m \in Index : m = Swap(v, u, t) /\ Swap(m, u, t) = v /\ (m = u <=> v = t)
    BY DEF Swap
  <2>2. p.c[m + 1] = q.c[v + 1]
    BY <2>1 DEF Turned
  <2> QED BY <2>1, <2>2 DEF ShownBy
<1>2. px = [y \in 1..h |-> [n \in 1..w |-> px[y][n]]] /\ \A y \in 1..h : \A n \in 1..w : px[y][n] \in Index
  BY DEF PixelsAre
<1>3. ShownWith(px, q) = [y \in 1..h |-> [n \in 1..w |-> IF px[y][n] = t THEN Clear ELSE ShownBy(q, px[y][n])]]
  <2>1. DOMAIN px = 1..h /\ \A y \in 1..h : DOMAIN px[y] = 1..w
    BY <1>2
  <2>2. ShownWith(px, q) = [y \in DOMAIN px |-> [n \in DOMAIN px[y] |-> IF px[y][n] = q.trans THEN Clear ELSE ShownBy(q, px[y][n])]]
    BY DEF ShownWith, EachPixel
  <2> QED BY <2>1, <2>2
<1>4. ShownWith(now, p) = [y \in 1..h |-> [n \in 1..w |-> IF now[y][n] = u THEN Clear ELSE ShownBy(p, now[y][n])]]
  <2>1. DOMAIN now = 1..h /\ \A y \in 1..h : DOMAIN now[y] = 1..w
    OBVIOUS
  <2>2. ShownWith(now, p) = [y \in DOMAIN now |-> [n \in DOMAIN now[y] |-> IF now[y][n] = p.trans THEN Clear ELSE ShownBy(p, now[y][n])]]
    BY DEF ShownWith, EachPixel
  <2> QED BY <2>1, <2>2
<1>5. ASSUME NEW y \in 1..h, NEW n \in 1..w
      PROVE  (IF now[y][n] = u THEN Clear ELSE ShownBy(p, now[y][n])) = IF px[y][n] = t THEN Clear ELSE ShownBy(q, px[y][n])
  <2>1. now[y][n] = Swap(px[y][n], u, t) /\ px[y][n] \in Index
    BY <1>2
  <2> QED BY <1>1, <2>1
<1> QED BY <1>3, <1>4, <1>5

(* What lookup finds has the colour, and is transparent only if no other   *)
(* index has it.                                                           *)
LEMMA LookupIs ==
  ASSUME NEW c, NEW trans \in Index, NEW v, Holding(c, v) # {}, NEW default, NEW i, i = Lookup(c, trans, v, default)
  PROVE  i \in Index /\ c[i + 1] = v /\ (c[trans + 1] # v => i # trans)
<1>1. PICK all : all = Holding(c, v) /\ all \subseteq Index /\ (\A j \in all : c[j + 1] = v) /\ all \subseteq Nat
  BY Indices DEF Holding
<1>2. CASE all \ {trans} # {}
  <2>1. PICK S : S = all \ {trans} /\ S # {} /\ S \subseteq Nat
    BY <1>1, <1>2
  <2>2. Min(S) \in S /\ \A j \in S : Min(S) =< j
    BY <2>1, MinOfNats
  <2>3. Least(S) \in S
    BY <2>2 DEF Least
  <2>4. i = Least(S)
    BY <1>1, <1>2, <2>1 DEF Lookup
  <2> QED BY <1>1, <2>1, <2>3, <2>4
<1>3. CASE all = {trans}
  <2>1. i = trans
    BY <1>1, <1>3 DEF Lookup
  <2> QED BY <1>1, <1>3, <2>1
<1> QED BY <1>1, <1>2, <1>3

(* The picture that is drawn, whether or not it had a palette. *)
LEMMA PaintedIs ==
  ASSUME NEW x, IsImage(x), Drawable(x), HasTransparency(Painted(x).pal), NEW img, img = Painted(x)
  PROVE  /\ img.pal.trans \in Index /\ IsColours(img.pal.c)
         /\ PixelsAre(img.px, Height(img), Width(img)) /\ Height(img) = Len(x.px)
         /\ Height(img) \in Nat /\ (Height(img) # 0 => Width(img) \in Nat /\ Width(img) = Width(x))
         /\ x.pal # Null => img = x
         /\ x.pal = Null => img.pal = Given /\ img.px = Drawn(x)
<1>1. PICK h \in Nat : h = Len(x.px)
  BY DEF IsImage
<1>2. /\ x.px = [y \in 1..h |-> [n \in 1..Len(x.px[y]) |-> x.px[y][n]]] /\ DOMAIN x.px = 1..h
      /\ \A y \in 1..h : DOMAIN x.px[y] = 1..Width(x) /\ Len(x.px[y]) = Width(x) /\ Width(x) \in Nat
  BY <1>1 DEF IsImage
<1>3. CASE x.pal # Null
  <2>1. img = x
    BY <1>3 DEF Painted
  <2>2. img.pal.trans \in Index /\ IsColours(img.pal.c)
    <3>1. x.pal.trans \in 0..Colours /\ x.pal.trans < Colours /\ IsColours(x.pal.c)
      BY <1>3, <2>1 DEF IsImage, HasTransparency
    <3> QED BY <2>1, <3>1, PaletteAssumption DEF Index
  <2>3. PixelsAre(x.px, h, Width(x))
    <3>1. \A y \in 1..h : \A n \in 1..Width(x) : x.px[y][n] \in Index
      BY <1>2, <1>3 DEF IsImage
    <3>2. x.px = [y \in 1..h |-> [n \in 1..Width(x) |-> x.px[y][n]]]
      BY <1>2
    <3> QED BY <3>1, <3>2 DEF PixelsAre
  <2>4. h # 0 => Width(x) \in Nat
    <3>1. h # 0 => 1 \in 1..h
      OBVIOUS
    <3> QED BY <1>2, <3>1
  <2> QED BY <1>1, <1>3, <2>1, <2>2, <2>3, <2>4 DEF Height
<1>4. CASE x.pal = Null
  <2>1. img.pal = Given /\ img.px = Drawn(x)
    BY <1>4 DEF Painted, Image
  <2>2. PICK px : /\ px = Drawn(x)
                  /\ px = [y \in 1..h |-> [n \in 1..Width(x) |->
                             IF x.px[y][n] = Clear THEN Given.trans ELSE Lookup(Given.c, Given.trans, x.px[y][n], 0)]]
    <3>1. Drawn(x) = [y \in DOMAIN x.px |-> [n \in DOMAIN x.px[y] |->
                        IF x.px[y][n] = Clear THEN Given.trans ELSE Lookup(Given.c, Given.trans, x.px[y][n], 0)]]
      BY <1>4 DEF Drawn, EachPixel
    <3> QED BY <1>2, <3>1
  <2>3. Len(px) = h
    <3>1. px \in Seq({px[y] : y \in 1..h})
      BY <2>2
    <3> QED BY <2>2, <3>1
  <2>4. ASSUME NEW y \in 1..h PROVE Len(px[1]) = Width(x)
    <3>1. 1 \in 1..h /\ Width(x) \in Nat
      BY <1>2
    <3>2. px[1] = [n \in 1..Width(x) |-> px[1][n]]
      BY <2>2, <3>1
    <3>3. px[1] \in Seq({px[1][n] : n \in 1..Width(x)})
      BY <3>1, <3>2
    <3> QED BY <3>1, <3>2, <3>3
  <2>5. ASSUME NEW y \in 1..h, NEW n \in 1..Width(x) PROVE px[y][n] \in Index
    <3>1. PICK v : v = x.px[y][n]
      OBVIOUS
    <3>2. px[y][n] = IF v = Clear THEN Given.trans ELSE Lookup(Given.c, Given.trans, v, 0)
      BY <2>2, <3>1
    <3>3. Given.trans \in Index
      BY GivenAssumption
    <3>4. v = Clear \/ Holding(Given.c, v) # {}
      <4>1. v \in ToSet(x.px[y])
        BY <1>2, <3>1 DEF ToSet
      <4> QED BY <1>2, <1>4, <4>1 DEF Drawable
    <3>5. PICK i : i = Lookup(Given.c, Given.trans, v, 0)
      OBVIOUS
    <3>6. Holding(Given.c, v) # {} => i \in Index
      BY <3>3, <3>5, LookupIs
    <3> QED BY <3>2, <3>3, <3>4, <3>5, <3>6
  <2>6. px = [y \in 1..h |-> [n \in 1..Width(x) |-> px[y][n]]]
    BY <2>2
  <2>7. PixelsAre(px, h, Width(img))
    <3>1. \A y \in 1..h : Width(img) = Width(x)
      BY <2>1, <2>2, <2>4 DEF Width
    <3>2. px = [y \in 1..h |-> [n \in 1..Width(img) |-> px[y][n]]]
      BY <2>6, <3>1
    <3>3. \A y \in 1..h : \A n \in 1..Width(img) : px[y][n] \in Index
      BY <2>5, <3>1
    <3> QED BY <3>2, <3>3 DEF PixelsAre
  <2>8. h # 0 => Width(img) \in Nat /\ Width(img) = Width(x)
    <3>1. h # 0 => 1 \in 1..h
      OBVIOUS
    <3> QED BY <1>2, <2>1, <2>2, <2>4, <3>1 DEF Width
  <2> QED BY <1>1, <1>4, <2>1, <2>2, <2>3, <2>7, <2>8, GivenAssumption DEF Height
<1> QED BY <1>3, <1>4

(* A picture without a palette shows itself with the one it is drawn with. *)
LEMMA DrawnShows ==
  ASSUME NEW x, IsImage(x), Drawable(x), x.pal = Null, ~Uses(x, Given.c[Given.trans + 1])
  PROVE  ShownWith(Drawn(x), Given) = x.px
<1>1. PICK h \in Nat : h = Len(x.px)
  BY DEF IsImage
<1>2. /\ x.px = [y \in 1..h |-> [n \in 1..Len(x.px[y]) |-> x.px[y][n]]] /\ DOMAIN x.px = 1..h
      /\ \A y \in 1..h : DOMAIN x.px[y] = 1..Width(x) /\ Len(x.px[y]) = Width(x) /\ Width(x) \in Nat
  BY <1>1 DEF IsImage
<1>3. PICK px : /\ px = Drawn(x)
                /\ px = [y \in 1..h |-> [n \in 1..Width(x) |->
                           IF x.px[y][n] = Clear THEN Given.trans ELSE Lookup(Given.c, Given.trans, x.px[y][n], 0)]]
  <2>1. Drawn(x) = [y \in DOMAIN x.px |-> [n \in DOMAIN x.px[y] |->
                      IF x.px[y][n] = Clear THEN Given.trans ELSE Lookup(Given.c, Given.trans, x.px[y][n], 0)]]
    BY DEF Drawn, EachPixel
  <2> QED BY <1>2, <2>1
<1>4. ShownWith(px, Given)
        = [y \in 1..h |-> [n \in 1..Width(x) |-> IF px[y][n] = Given.trans THEN Clear ELSE ShownBy(Given, px[y][n])]]
  <2>1. DOMAIN px = 1..h /\ \A y \in 1..h : DOMAIN px[y] = 1..Width(x)
    BY <1>3
  <2>2. ShownWith(px, Given)
          = [y \in DOMAIN px |-> [n \in DOMAIN px[y] |-> IF px[y][n] = Given.trans THEN Clear ELSE ShownBy(Given, px[y][n])]]
    BY DEF ShownWith, EachPixel
  <2> QED BY <2>1, <2>2
<1>5. ASSUME NEW y \in 1..h, NEW n \in 1..Width(x)
      PROVE  (IF px[y][n] = Given.trans THEN Clear ELSE ShownBy(Given, px[y][n])) = x.px[y][n]
  <2>1. PICK v : v = x.px[y][n]
    OBVIOUS
  <2>2. px[y][n] = IF v = Clear THEN Given.trans ELSE Lookup(Given.c, Given.trans, v, 0)
    BY <1>3, <2>1
  <2>3. Given.trans \in Index
    BY GivenAssumption
  <2>4. v \in ToSet(x.px[y]) /\ y \in DOMAIN x.px
    BY <1>2, <2>1 DEF ToSet
  <2>5. CASE v = Clear
    BY <2>1, <2>2, <2>5
  <2>6. CASE v # Clear
    <3>1. Holding(Given.c, v) # {}
      BY <2>4, <2>6 DEF Drawable
    <3>2. Given.c[Given.trans + 1] # v
      BY <2>4 DEF Uses
    <3>3. PICK i : i = Lookup(Given.c, Given.trans, v, 0)
      OBVIOUS
    <3>4. Given.c[i + 1] = v /\ i # Given.trans
      BY <2>3, <3>1, <3>2, <3>3, LookupIs
    <3> QED BY <2>1, <2>2, <2>6, <3>3, <3>4 DEF ShownBy
  <2> QED BY <2>5, <2>6
<1>6. x.px = [y \in 1..h |-> [n \in 1..Width(x) |-> x.px[y][n]]]
  BY <1>2
<1> QED BY <1>3, <1>4, <1>5, <1>6

(* A picture that was read shows the same as the one that was drawn. *)
LEMMA LbmShows ==
  ASSUME NEW a, NEW holds, PictureRead(a, holds), AnimsRead(a, holds),
         NEW was, was = holds[1], NEW now, now = a[1]
  PROVE  IF was.pal = Null
         THEN Uses(was, Given.c[Given.trans + 1]) \/ Shown(now.px, now.pal) = was.px
         ELSE HasTransparency(was.pal) =>
                /\ Shown(now.px, now.pal) = Shown(was.px, was.pal)
                /\ \A n \in 2..Len(a) :
                     LET x == holds[n]
                     IN LoadedAnim(x) = x /\ {0, was.pal.trans} \intersect x.first..x.last = {} =>
                          ShownWith(now.px, Apply(a[n], now.pal)) = ShownWith(was.px, Apply(x, was.pal))
<1>1. PICK img : img = Painted(was)
  OBVIOUS
<1>2. IsImage(was) /\ Drawable(was) /\ (HasTransparency(img.pal) => Exchanges(now, img))
  BY <1>1 DEF PictureRead
<1>3. ASSUME HasTransparency(img.pal)
      PROVE  /\ img.pal.trans \in Index /\ now.pal.trans \in Index /\ now.pal.trans \in {0, img.pal.trans} /\ now.pal # Null
             /\ now.pal = Palette(now.pal.c, now.pal.trans)
             /\ Turned(now.pal.c, img.pal.c, now.pal.trans, img.pal.trans)
             /\ PixelsAre(img.px, Height(img), Width(img))
             /\ now.px = [y \in 1..Height(img) |-> [n \in 1..Width(img) |-> Swap(img.px[y][n], now.pal.trans, img.pal.trans)]]
  <2>1. img.pal.trans \in Index /\ IsColours(img.pal.c) /\ PixelsAre(img.px, Height(img), Width(img))
    BY <1>1, <1>2, <1>3, PaintedIs
  <2>2. PICK u, t : u = now.pal.trans /\ t = img.pal.trans
    OBVIOUS
  <2>3. /\ u \in {0, t} /\ now.pal # Null /\ now.pal = Palette(Exchanged(img.pal.c, u, t), u)
        /\ now.px = [y \in 1..Height(img) |-> [n \in 1..Width(img) |-> Swap(img.px[y][n], u, t)]]
    BY <1>2, <1>3, <2>2 DEF Exchanges
  <2>4. t \in Index /\ u \in Index
    BY <2>1, <2>2, <2>3, PaletteAssumption DEF Index
  <2>5. now.pal.c = Exchanged(img.pal.c, u, t)
    BY <2>3 DEF Palette
  <2>6. Turned(now.pal.c, img.pal.c, u, t)
    BY <2>1, <2>4, <2>5, ExchangedIs
  <2> QED BY <2>1, <2>2, <2>3, <2>4, <2>5, <2>6
<1>4. ASSUME HasTransparency(img.pal) PROVE ShownWith(now.px, now.pal) = ShownWith(img.px, img.pal)
  BY <1>3, <1>4, ExchangeShows
<1>5. CASE was.pal = Null
  <2>1. img.pal = Given /\ img.px = Drawn(was)
    BY <1>1, <1>5 DEF Painted, Image
  <2>2. HasTransparency(img.pal)
    BY <2>1, GivenAssumption, PaletteAssumption DEF HasTransparency, Index
  <2>3. now.pal # Null /\ ShownWith(now.px, now.pal) = ShownWith(Drawn(was), Given)
    BY <1>3, <1>4, <2>1, <2>2
  <2>4. ~Uses(was, Given.c[Given.trans + 1]) => ShownWith(Drawn(was), Given) = was.px
    BY <1>2, <1>5, DrawnShows
  <2> QED BY <1>5, <2>3, <2>4 DEF Shown
<1>6. CASE was.pal # Null
  <2> SUFFICES ASSUME HasTransparency(was.pal)
               PROVE  /\ Shown(now.px, now.pal) = Shown(was.px, was.pal)
                      /\ \A n \in 2..Len(a) :
                           LET x == holds[n]
                           IN LoadedAnim(x) = x /\ {0, was.pal.trans} \intersect x.first..x.last = {} =>
                                ShownWith(now.px, Apply(a[n], now.pal)) = ShownWith(was.px, Apply(x, was.pal))
    BY <1>6, Zenon
  <2>1. img = was
    BY <1>1, <1>6 DEF Painted
  <2>2. Shown(now.px, now.pal) = Shown(was.px, was.pal)
    BY <1>3, <1>4, <1>6, <2>1 DEF Shown
  <2>3. ASSUME NEW n \in 2..Len(a), NEW x, x = holds[n], LoadedAnim(x) = x,
               {0, was.pal.trans} \intersect x.first..x.last = {}
        PROVE  ShownWith(now.px, Apply(a[n], now.pal)) = ShownWith(was.px, Apply(x, was.pal))
    <3>1. IsAnim(x) /\ a[n] = x
      BY <2>3 DEF AnimsRead
    <3>2. PICK u, t, p, q : u = now.pal.trans /\ t = was.pal.trans /\ p = now.pal /\ q = was.pal
      OBVIOUS
    <3>3. /\ u \in Index /\ t \in Index /\ p = Palette(p.c, u) /\ q.trans = t /\ Turned(p.c, q.c, u, t)
          /\ u \notin x.first..x.last /\ t \notin x.first..x.last
      BY <1>3, <2>1, <2>3, <3>2
    <3>4. q = Palette(q.c, t)
      BY <1>2, <1>6, <3>2 DEF IsImage
    <3>5. Apply(x, p).trans = u /\ Apply(x, q).trans = t /\ Turned(Apply(x, p).c, Apply(x, q).c, u, t)
      BY <3>1, <3>3, <3>4, AppliedBeside
    <3>6. PICK r, s : r = Apply(x, p) /\ s = Apply(x, q)
      OBVIOUS
    <3>7. ShownWith(now.px, r) = ShownWith(was.px, s)
      BY <1>3, <2>1, <3>2, <3>3, <3>5, <3>6, ExchangeShows
    <3> QED BY <3>1, <3>2, <3>6, <3>7
  <2> QED BY <2>2, <2>3
<1> QED BY <1>5, <1>6

(* The first pixels of a picture: those that are read, and an index for    *)
(* the rest.                                                               *)
Filled(px, size, read, l, u) ==
  IsSeq(px) /\ size =< Len(px) /\ \A k \in 1..size : px[k] = IF k =< l THEN read[k] ELSE u

(* What the chunk gives, and what stays transparent behind it. *)
LEMMA PixelsPadded ==
  ASSUME NEW S, NEW read \in Seq(S), NEW l \in Nat, l = Len(read), NEW m \in Nat, NEW u \in S,
         NEW tail, tail = [n \in 1..m |-> u]
  PROVE  Filled(read \o tail, l + m, read, l, u)
<1>1. tail \in Seq(S) /\ Len(tail) = m
  OBVIOUS
<1>2. PICK px : px = read \o tail
  OBVIOUS
<1>3. px \in Seq(S) /\ Len(px) = l + m
  BY <1>1, <1>2
<1>4. ASSUME NEW k \in 1..(l + m) PROVE px[k] = IF k =< l THEN read[k] ELSE u
  <2>1. CASE k =< l
    BY <1>1, <1>2, <2>1
  <2>2. CASE ~(k =< l)
    <3>1. k - l \in 1..m
      BY <2>2
    <3>2. px[k] = tail[k - l]
      BY <1>1, <1>2, <2>2
    <3> QED BY <2>2, <3>1, <3>2
  <2> QED BY <2>1, <2>2
<1> QED BY <1>2, <1>3, <1>4 DEF Filled, IsSeq

(* The chunk gives all the pixels. *)
LEMMA PixelsEnough ==
  ASSUME NEW S, NEW read \in Seq(S), NEW l \in Nat, l = Len(read), NEW size \in Nat, size =< l, NEW u, NEW more \in Seq(Index)
  PROVE  Filled(read \o more, size, read, l, u)
<1>1. PICK T : T = S \union Index
  OBVIOUS
<1>2. read \in Seq(T) /\ more \in Seq(T)
  BY <1>1
<1>3. PICK px : px = read \o more
  OBVIOUS
<1>4. px \in Seq(T) /\ Len(px) = l + Len(more) /\ Len(more) \in Nat
  BY <1>2, <1>3
<1>5. ASSUME NEW k \in 1..size PROVE px[k] = IF k =< l THEN read[k] ELSE u
  BY <1>2, <1>3
<1> QED BY <1>3, <1>4, <1>5 DEF Filled, IsSeq

IsList(s, l) == l = Len(s) /\ s = [k \in 1..l |-> s[k]]

(* What is behind l of the pixels. *)
Pads(tail, l, size, u) ==
  (l < size => tail = [n \in 1..(size - l) |-> u]) /\ (~(l < size) => tail = <<>>)

(* What was read and what is behind it, as the pixels of a picture of that size. *)
LEMMA PixelsRead ==
  ASSUME NEW read, NEW l \in Nat, IsList(read, l), NEW size \in Nat, NEW u \in Index,
         NEW tail, Pads(tail, l, size, u)
  PROVE  Filled(read \o tail, size, read, l, u)
<1>1. PICK S : S = {read[k] : k \in 1..l} \union {u}
  OBVIOUS
<1>2. read \in Seq(S) /\ l = Len(read)
  BY <1>1 DEF IsList
<1>3. u \in S
  BY <1>1
<1>4. CASE l < size
  <2>1. PICK m \in Nat : m = size - l /\ size = l + m
    BY <1>4
  <2>2. tail = [n \in 1..m |-> u]
    BY <1>4, <2>1 DEF Pads
  <2>3. Filled(read \o tail, l + m, read, l, u)
    BY <1>2, <1>3, <2>2, PixelsPadded
  <2> QED BY <2>1, <2>3
<1>5. CASE ~(l < size)
  <2>1. size =< l
    BY <1>5
  <2>2. tail = <<>>
    BY <1>5 DEF Pads
  <2>3. tail \in Seq(Index)
    BY <2>2
  <2> QED BY <1>2, <2>1, <2>3, PixelsEnough
<1> QED BY <1>4, <1>5

(* The rows of the pixels. *)
LEMMA RowIs ==
  ASSUME NEW S, NEW px \in Seq(S), NEW m \in Nat, NEW w \in Nat, m + w =< Len(px)
  PROVE  SubSeq(px, m + 1, m + w) = [x \in 1..w |-> px[m + x]]
<1>1. PICK i \in Nat, j \in Nat : i = m + 1 /\ j = m + w
  OBVIOUS
<1>2. PICK s : s = SubSeq(px, i, j)
  OBVIOUS
<1>3. s \in Seq(S) /\ Len(s) = w
  BY <1>1, <1>2
<1>4. ASSUME NEW x \in 1..w PROVE s[x] = px[m + x]
  <2>1. \A k \in i..j : px[k] \in S
    BY <1>1
  <2>2. \A k \in 1..(j - i + 1) : SubSeq(px, i, j)[k] = px[i + k - 1]
    BY <2>1, SubSeqProperties
  <2>3. x \in 1..(j - i + 1) /\ i + x - 1 = m + x
    BY <1>1
  <2> QED BY <1>2, <2>2, <2>3
<1>5. s = [x \in 1..w |-> s[x]]
  BY <1>3
<1> QED BY <1>1, <1>2, <1>4, <1>5

(* The pixels are those of the rows new. *)
Shows(read, l, u, w, h, new) ==
  \A y \in 1..h : \A x \in 1..w : (IF (y - 1) * w + x =< l THEN read[(y - 1) * w + x] ELSE u) = new[y][x]

Wide(h, w) == h # 0 => w \in Nat

FilledRows(px, w, h, read, l, u) == h # 0 => Filled(px, w * h, read, l, u)

AreRows(rows, h, w, new) == rows = [y \in 1..h |-> [x \in 1..w |-> new[y][x]]]

(* Pixels that are read row by row are the rows that are shown. *)
LEMMA RowsRead ==
  ASSUME NEW h \in Nat, NEW w, Wide(h, w), NEW px, NEW read, NEW l \in Nat, NEW u,
         FilledRows(px, w, h, read, l, u), NEW new, Shows(read, l, u, w, h, new)
  PROVE  AreRows(Rows(px, w, h), h, w, new)
<1>1. ASSUME NEW y \in 1..h PROVE SubSeq(px, (y - 1) * w + 1, y * w) = [x \in 1..w |-> new[y][x]]
  <2>1. h # 0 /\ w \in Nat
    BY DEF Wide
  <2>0. Filled(px, w * h, read, l, u)
    BY <2>1 DEF FilledRows
  <2>2. PICK S : px \in Seq(S)
    BY <2>0 DEF Filled, IsSeq
  <2>3. (y - 1) * w \in Nat /\ y * w = (y - 1) * w + w /\ y * w =< w * h /\ w * h \in Nat
    <3>1. PICK k \in Nat : k = y - 1 /\ y = k + 1
      OBVIOUS
    <3>2. k * w \in Nat /\ y * w = k * w + w /\ h * w = w * h /\ w * h \in Nat
      BY <2>1, <3>1
    <3> QED BY <2>1, <3>1, <3>2, TimesGrows
  <2>4. PICK m \in Nat : m = (y - 1) * w /\ y * w = m + w /\ m + w =< w * h
    BY <2>3
  <2>5. m + w =< Len(px)
    <3>1. w * h =< Len(px)
      BY <2>0 DEF Filled
    <3>2. PICK size \in Nat, l1 \in Nat : size = w * h /\ l1 = Len(px)
      BY <2>2, <2>3
    <3> QED BY <2>1, <2>4, <3>1, <3>2
  <2>6. SubSeq(px, m + 1, m + w) = [x \in 1..w |-> px[m + x]]
    BY <2>1, <2>2, <2>5, RowIs
  <2>7. ASSUME NEW x \in 1..w PROVE px[m + x] = new[y][x]
    <3>1. m + x \in 1..(w * h)
      BY <2>1, <2>3, <2>4
    <3>2. px[m + x] = IF m + x =< l THEN read[m + x] ELSE u
      BY <2>0, <3>1 DEF Filled
    <3>3. (IF m + x =< l THEN read[m + x] ELSE u) = new[y][x]
      BY <2>4 DEF Shows
    <3> QED BY <3>2, <3>3
  <2> QED BY <2>4, <2>6, <2>7
<1> QED BY <1>1 DEF Rows, AreRows

(* Pixels under a header, of a chunk that may be cut. *)
TailOf(tail, there, len, rest, pal) ==
  tail \in IF there < len THEN [rest -> Index] ELSE {[n \in rest |-> TransparentIdx(pal)]}

(* A chunk that was not cut leaves no pixel that is not read or transparent. *)
LEMMA TailIs ==
  ASSUME NEW l \in Nat, NEW size \in Nat, NEW tail, NEW there, NEW len, NEW pal, NEW u, TransparentIdx(pal) = u,
         TailOf(tail, there, len, 1..(size - l), pal), l < size => ~(there < len)
  PROVE  Pads(tail, l, size, u)
<1>1. CASE l < size
  <2>1. tail = [n \in 1..(size - l) |-> u]
    BY <1>1 DEF TailOf
  <2> QED BY <1>1, <2>1 DEF Pads
<1>2. CASE ~(l < size)
  <2>1. 1..(size - l) = {}
    BY <1>2
  <2>2. tail = <<>>
    BY <2>1 DEF TailOf
  <2> QED BY <1>2, <2>2 DEF Pads
<1> QED BY <1>1, <1>2

(* The rows of the picture that LoadLBM makes of the bytes it has read. *)
LEMMA PictureIs ==
  ASSUME NEW n \in Nat, NEW w, Wide(n, w), NEW read, NEW l \in Nat, IsList(read, l), NEW u \in Index,
         NEW tail, NEW there, NEW len, NEW pal, TransparentIdx(pal) = u, TailOf(tail, there, len, 1..(w * n - l), pal),
         l < w * n => ~(there < len), NEW new, Shows(read, l, u, w, n, new)
  PROVE  AreRows(Rows(read \o tail, w, n), n, w, new)
<1>1. PICK px : px = read \o tail
  OBVIOUS
<1>2. ASSUME n # 0 PROVE Filled(px, w * n, read, l, u)
  <2>1. PICK size \in Nat : size = w * n
    BY <1>2 DEF Wide
  <2>2. l < size => ~(there < len)
    BY <1>2, <2>1
  <2>3. TailOf(tail, there, len, 1..(size - l), pal)
    BY <2>1
  <2>4. Pads(tail, l, size, u)
    BY <2>2, <2>3, TailIs
  <2> QED BY <1>1, <2>1, <2>4, PixelsRead
<1>3. FilledRows(px, w, n, read, l, u)
  BY <1>2 DEF FilledRows
<1>4. AreRows(Rows(px, w, n), n, w, new)
  BY <1>3, RowsRead
<1> QED BY <1>1, <1>4

(* A chunk of a picture that was painted as img. *)
IsBody(h, c, u, len, b, was, img) ==
  /\ len \in Nat /\ IsImage(was) /\ Drawable(was) /\ img = Painted(was) /\ HasTransparency(img.pal)
  /\ Stores(h, c, u, len, b, img) /\ (h.packed \/ BodyLen(len) = h.w * h.h)

(* The picture that is read of its chunk. *)
LEMMA BodyRead ==
  ASSUME NEW h, NEW c, NEW u, NEW len, NEW b, NEW was, NEW img, IsBody(h, c, u, len, b, was, img),
         NEW pal, pal = Palette(c, u), pal # Null, NEW read, read = IF h.packed THEN Unpacked(b) ELSE b,
         NEW tail, TailOf(tail, Len(b), BodyLen(len), 1..(h.w * h.h - Len(read)), pal)
  PROVE  Exchanges(Image(pal, Rows(read \o tail, h.w, h.h)), img)
<1>1. PICK t, l, w, n : t = img.pal.trans /\ l = Len(read) /\ w = h.w /\ n = h.h
  OBVIOUS
<1>2. PICK new : new = [y \in 1..n |-> [x \in 1..w |-> Swap(img.px[y][x], u, t)]]
  OBVIOUS
<1>3. Height(img) = n /\ Width(img) = w /\ u \in {0, t} /\ c = Exchanged(img.pal.c, u, t)
  BY <1>1 DEF IsBody, Stores
<1>4. l \in Nat /\ (l < w * n => Len(b) = BodyLen(len))
  BY <1>1 DEF IsBody, Stores
<1>5. IsList(read, l)
  BY <1>1 DEF IsBody, Stores, IsList
<1>6. \A y \in 1..n : \A x \in 1..w :
         (IF (y - 1) * w + x =< l THEN read[(y - 1) * w + x] ELSE u) = Swap(img.px[y][x], u, t)
  BY <1>1 DEF IsBody, Stores
<1>7. Shows(read, l, u, w, n, new)
  BY <1>2, <1>6 DEF Shows
<1>8. t \in Index /\ n \in Nat /\ Wide(n, w)
  BY <1>1, <1>3, PaintedIs DEF IsBody, Wide
<1>9. u \in Index
  BY <1>3, <1>8, PaletteAssumption DEF Index
<1>10. pal.trans = u
  BY DEF Palette
<1>11. TransparentIdx(pal) = u
  BY <1>9, <1>10, PaletteAssumption DEF TransparentIdx, Index
<1>12. l < w * n => ~(Len(b) < BodyLen(len))
  <2>1. PICK m \in Nat : m = BodyLen(len)
    BY DEF BodyLen, IsBody
  <2> QED BY <1>4, <2>1
<1>13. TailOf(tail, Len(b), BodyLen(len), 1..(w * n - l), pal)
  BY <1>1
<1>14. PICK px : px = Rows(read \o tail, w, n)
  OBVIOUS
<1>15. AreRows(px, n, w, new)
  BY <1>4, <1>5, <1>7, <1>8, <1>9, <1>11, <1>12, <1>13, <1>14, PictureIs
<1>16. px = [y \in 1..n |-> [x \in 1..w |-> Swap(img.px[y][x], u, t)]]
  BY <1>2, <1>15 DEF AreRows
<1>17. PICK now : now = Image(pal, px)
  OBVIOUS
<1>18. now.pal = pal /\ now.px = px
  BY <1>17 DEF Image
<1>19. pal # Null /\ pal = Palette(Exchanged(img.pal.c, u, t), u)
  BY <1>3
<1>20. Exchanges(now, img)
  BY <1>1, <1>3, <1>10, <1>16, <1>18, <1>19 DEF Exchanges
<1> QED BY <1>1, <1>14, <1>17, <1>20

-------------------------------------------------------------------------------
(* The chunks of an LBM file *)

(* Palette animations are counted chunk by chunk. *)
LEMMA AnimsStep ==
  ASSUME NEW toks, NEW n \in Nat
  PROVE  /\ AnimsTo(toks, 0) = 0 /\ AnimsTo(toks, n) \in Nat
         /\ AnimsTo(toks, n + 1) = IF toks[n + 1].t = "CRNG" THEN AnimsTo(toks, n) + 1 ELSE AnimsTo(toks, n)
<1>1. PICK S : S = {p \in 1..n : toks[p].t = "CRNG"}
  OBVIOUS
<1>2. IsFiniteSet(S) /\ AnimsTo(toks, n) = Cardinality(S) /\ Cardinality(S) \in Nat
  <2>1. IsFiniteSet(1..n) /\ S \subseteq 1..n
    BY <1>1, FS_Interval
  <2> QED BY <1>1, <2>1, FS_Subset, FS_CardinalityType DEF AnimsTo
<1>3. AnimsTo(toks, 0) = 0
  <2>1. {p \in 1..0 : toks[p].t = "CRNG"} = {}
    OBVIOUS
  <2> QED BY <2>1, FS_EmptySet DEF AnimsTo
<1>4. PICK T : T = {p \in 1..(n + 1) : toks[p].t = "CRNG"} /\ AnimsTo(toks, n + 1) = Cardinality(T)
  BY DEF AnimsTo
<1>5. n + 1 \notin S
  BY <1>1
<1>6. CASE toks[n + 1].t = "CRNG"
  <2>1. T = S \union {n + 1}
    BY <1>1, <1>4, <1>6
  <2>2. Cardinality(T) = Cardinality(S) + 1
    BY <1>2, <1>5, <2>1, FS_AddElement
  <2> QED BY <1>2, <1>3, <1>4, <1>6, <2>2
<1>7. CASE toks[n + 1].t # "CRNG"
  <2>1. \A p \in 1..(n + 1) : toks[p].t = "CRNG" => p \in 1..n
    BY <1>7
  <2>2. T = S
    BY <1>1, <1>4, <2>1
  <2> QED BY <1>2, <1>3, <1>4, <1>7, <2>2
<1> QED BY <1>6, <1>7

(* Another chunk leaves the header *)
LEMMA HeaderStays ==
  ASSUME NEW toks, NEW n \in Nat, NEW hdr \in 0..n, HeaderRead(toks, hdr, n), toks[n + 1].t # "BMHD"
  PROVE  HeaderRead(toks, hdr, n + 1)
<1>1. \A p \in 1..(n + 1) : p = n + 1 \/ p \in 1..n
  OBVIOUS
<1>2. hdr # n + 1 /\ hdr \in 0..(n + 1)
  OBVIOUS
<1>3. CASE hdr = 0
  BY <1>1, <1>3 DEF HeaderRead
<1>4. CASE hdr # 0
  BY <1>1, <1>2, <1>4 DEF HeaderRead, OnlyHeader
<1> QED BY <1>3, <1>4

(* and the palette, also when it is the header. *)
LEMMA PaletteStays ==
  ASSUME NEW toks, NEW n \in Nat, NEW hdr, NEW pal, PaletteRead(toks, hdr, pal, n), toks[n + 1].t # "CMAP",
         NEW new, new = hdr \/ (hdr = 0 /\ new = n + 1)
  PROVE  PaletteRead(toks, new, pal, n + 1)
<1> SUFFICES ASSUME pal # Null
             PROVE  \E m \in 1..(n + 1) :
                      /\ LastPalette(toks, m, n + 1)
                      /\ pal = Palette(toks[m].c, IF new # 0 /\ new < m THEN MaskTrans(toks[new]) ELSE 0)
  BY DEF PaletteRead
<1>1. PICK m \in 1..n : /\ LastPalette(toks, m, n)
                        /\ pal = Palette(toks[m].c, IF hdr # 0 /\ hdr < m THEN MaskTrans(toks[hdr]) ELSE 0)
  BY DEF PaletteRead
<1>2. m \in 1..(n + 1) /\ \A p \in (m + 1)..(n + 1) : p = n + 1 \/ p \in (m + 1)..n
  OBVIOUS
<1>3. LastPalette(toks, m, n + 1)
  BY <1>1, <1>2 DEF LastPalette
<1>4. pal = Palette(toks[m].c, IF new # 0 /\ new < m THEN MaskTrans(toks[new]) ELSE 0)
  <2>1. CASE new = hdr
    BY <1>1, <2>1
  <2>2. CASE hdr = 0 /\ new = n + 1
    <3>1. ~(n + 1 < m)
      OBVIOUS
    <3> QED BY <1>1, <2>2, <3>1
  <2> QED BY <2>1, <2>2
<1> QED BY <1>2, <1>3, <1>4

(* A chunk that is none of a header, a palette and an animation. *)
LEMMA ChunkSkipped ==
  ASSUME NEW toks, NEW holds, NEW a, NEW part, NEW n \in Nat, ChunksRead(toks, holds, a, part, n),
         toks[n + 1].t \notin {"BMHD", "CMAP", "CRNG"}
  PROVE  ChunksRead(toks, holds, a, part, n + 1)
<1>1. part.hdr \in 0..n /\ part.hdr \in 0..(n + 1)
  BY DEF ChunksRead
<1>2. CASE part.done
  BY <1>1, <1>2, Zenon DEF ChunksRead
<1>3. CASE ~part.done
  <2>1. Len(a) = 1 + AnimsTo(toks, n) /\ HeaderRead(toks, part.hdr, n) /\ PaletteRead(toks, part.hdr, part.pal, n)
    BY <1>3, Zenon DEF ChunksRead
  <2>2. Len(a) = 1 + AnimsTo(toks, n + 1)
    BY <2>1, AnimsStep
  <2>3. HeaderRead(toks, part.hdr, n + 1)
    BY <1>1, <2>1, HeaderStays
  <2>4. PaletteRead(toks, part.hdr, part.pal, n + 1)
    <3>1. PICK hdr, pal : hdr = part.hdr /\ pal = part.pal
      OBVIOUS
    <3>2. toks[n + 1].t # "CMAP"
      OBVIOUS
    <3>3. PaletteRead(toks, hdr, pal, n)
      BY <2>1, <3>1
    <3>4. PaletteRead(toks, hdr, pal, n + 1)
      BY <3>2, <3>3, PaletteStays
    <3> QED BY <3>1, <3>4
  <2> QED BY <1>1, <1>3, <2>2, <2>3, <2>4, Zenon DEF ChunksRead
<1> QED BY <1>2, <1>3

(* What is known of parts. *)
LEMMA LbmPart ==
  ASSUME NEW hdr, NEW pal, NEW done, NEW part, part = [hdr |-> hdr, pal |-> pal, done |-> done]
  PROVE  /\ part.hdr = hdr /\ part.pal = pal /\ part.done = done
         /\ part = [hdr |-> part.hdr, pal |-> part.pal, done |-> part.done]
OBVIOUS

(* A header, *)
LEMMA HeaderAdded ==
  ASSUME NEW toks, NEW holds, NEW a, NEW part, NEW n \in Nat, ChunksRead(toks, holds, a, part, n),
         ~part.done, part.hdr = 0, toks[n + 1].t = "BMHD", toks[n + 1].ok,
         NEW new, new = [part EXCEPT !.hdr = n + 1]
  PROVE  ChunksRead(toks, holds, a, new, n + 1)
<1>1. part = [hdr |-> part.hdr, pal |-> part.pal, done |-> part.done]
  BY Zenon DEF ChunksRead
<1>2. new = [hdr |-> n + 1, pal |-> part.pal, done |-> part.done]
  BY <1>1
<1>3. /\ new.hdr = n + 1 /\ new.pal = part.pal /\ new.done = part.done
      /\ new = [hdr |-> new.hdr, pal |-> new.pal, done |-> new.done]
  BY <1>2, LbmPart
<1>4. /\ Len(a) >= 1 /\ AnimsRead(a, holds) /\ Len(a) = 1 + AnimsTo(toks, n)
      /\ HeaderRead(toks, 0, n) /\ PaletteRead(toks, 0, part.pal, n)
  BY Zenon DEF ChunksRead
<1>5. Len(a) = 1 + AnimsTo(toks, n + 1)
  BY <1>4, AnimsStep
<1>6. HeaderRead(toks, n + 1, n + 1)
  <2>1. \A p \in 1..(n + 1) : p = n + 1 \/ (p \in 1..n /\ p # n + 1)
    OBVIOUS
  <2>2. OnlyHeader(toks, n + 1, n + 1)
    BY <1>4, <2>1 DEF HeaderRead, OnlyHeader
  <2> QED BY <2>2 DEF HeaderRead
<1>7. PaletteRead(toks, n + 1, part.pal, n + 1)
  BY <1>4, PaletteStays
<1>8. n + 1 \in 0..(n + 1)
  OBVIOUS
<1> QED BY <1>3, <1>4, <1>5, <1>6, <1>7, <1>8, Zenon DEF ChunksRead

(* a palette *)
LEMMA PaletteAdded ==
  ASSUME NEW toks, NEW holds, NEW a, NEW part, NEW n \in Nat, ChunksRead(toks, holds, a, part, n),
         ~part.done, toks[n + 1].t = "CMAP",
         NEW pal, pal = Palette(toks[n + 1].c, IF part.hdr = 0 THEN 0 ELSE MaskTrans(toks[part.hdr])),
         NEW new, new = [part EXCEPT !.pal = pal]
  PROVE  ChunksRead(toks, holds, a, new, n + 1)
<1>1. part = [hdr |-> part.hdr, pal |-> part.pal, done |-> part.done]
  BY Zenon DEF ChunksRead
<1>3. new = [hdr |-> part.hdr, pal |-> pal, done |-> part.done]
  BY <1>1
<1>4. /\ new.hdr = part.hdr /\ new.pal = pal /\ new.done = part.done
      /\ new = [hdr |-> new.hdr, pal |-> new.pal, done |-> new.done]
  BY <1>3, LbmPart
<1>5. /\ Len(a) >= 1 /\ AnimsRead(a, holds) /\ Len(a) = 1 + AnimsTo(toks, n)
      /\ HeaderRead(toks, part.hdr, n) /\ part.hdr \in 0..n
  BY Zenon DEF ChunksRead
<1>6. Len(a) = 1 + AnimsTo(toks, n + 1)
  BY <1>5, AnimsStep
<1>7. HeaderRead(toks, part.hdr, n + 1)
  BY <1>5, HeaderStays
<1>8. PaletteRead(toks, part.hdr, pal, n + 1)
  <2>1. n + 1 \in 1..(n + 1) /\ (part.hdr = 0 \/ part.hdr < n + 1) /\ \A p \in (n + 1 + 1)..(n + 1) : FALSE
    BY <1>5
  <2>2. LastPalette(toks, n + 1, n + 1)
    BY <2>1 DEF LastPalette
  <2>3. pal = Palette(toks[n + 1].c, IF part.hdr # 0 /\ part.hdr < n + 1 THEN MaskTrans(toks[part.hdr]) ELSE 0)
    BY <2>1
  <2> QED BY <2>1, <2>2, <2>3 DEF PaletteRead
<1>9. part.hdr \in 0..(n + 1)
  BY <1>5
<1> QED BY <1>4, <1>5, <1>6, <1>7, <1>8, <1>9, Zenon DEF ChunksRead

(* and an animation, the next of those the file holds. *)
LEMMA AnimAdded ==
  ASSUME NEW toks, NEW holds, NEW a, IsSeq(a), NEW part, NEW n \in Nat, ChunksRead(toks, holds, a, part, n),
         ~part.done, toks[n + 1].t = "CRNG", NEW x, x = toks[n + 1].a,
         AnimsHeld(toks, holds), n + 1 \in 1..Len(toks)
  PROVE  ChunksRead(toks, holds, Append(a, LoadedAnim(x)), part, n + 1)
<1>1. /\ part = [hdr |-> part.hdr, pal |-> part.pal, done |-> part.done]
      /\ Len(a) >= 1 /\ AnimsRead(a, holds) /\ Len(a) = 1 + AnimsTo(toks, n)
      /\ HeaderRead(toks, part.hdr, n) /\ PaletteRead(toks, part.hdr, part.pal, n) /\ part.hdr \in 0..n
  BY Zenon DEF ChunksRead
<1>2. PICK b : b = Append(a, LoadedAnim(x))
  OBVIOUS
<1>3. PICK l \in Nat : l = Len(a) /\ Len(b) = l + 1 /\ b[l + 1] = LoadedAnim(x) /\ \A k \in 1..l : b[k] = a[k]
  BY <1>2, BobSeqs
<1>4. AnimsTo(toks, n + 1) = AnimsTo(toks, n) + 1 /\ AnimsTo(toks, n) \in Nat
  BY AnimsStep
<1>5. l + 1 = AnimsTo(toks, n + 1) + 1
  BY <1>1, <1>3, <1>4
<1>6. holds[l + 1] = x /\ IsAnim(x)
  BY <1>5 DEF AnimsHeld
<1>7. \A k \in 2..(l + 1) : k = l + 1 \/ (k \in 2..l /\ k \in 1..l)
  OBVIOUS
<1>8. AnimsRead(b, holds)
  BY <1>1, <1>3, <1>6, <1>7 DEF AnimsRead
<1>9. Len(b) = 1 + AnimsTo(toks, n + 1) /\ Len(b) >= 1
  BY <1>3, <1>4, <1>5
<1>10. HeaderRead(toks, part.hdr, n + 1)
  BY <1>1, HeaderStays
<1>11. PaletteRead(toks, part.hdr, part.pal, n + 1)
  <2>1. PICK hdr, pal : hdr = part.hdr /\ pal = part.pal
    OBVIOUS
  <2>2. toks[n + 1].t # "CMAP"
    OBVIOUS
  <2>3. PaletteRead(toks, hdr, pal, n)
    BY <1>1, <2>1
  <2>4. PaletteRead(toks, hdr, pal, n + 1)
    BY <2>2, <2>3, PaletteStays
  <2> QED BY <2>1, <2>4
<1>12. part.hdr \in 0..(n + 1)
  BY <1>1
<1> QED BY <1>1, <1>2, <1>8, <1>9, <1>10, <1>11, <1>12, Zenon DEF ChunksRead

-------------------------------------------------------------------------------
(* The load of an LBM file *)

(* What is known of the file. *)
LbmStored ==
  /\ disk.len \in Nat /\ Len(disk.toks) \in Nat /\ disk.len =< Len(disk.toks)
  /\ LbmIs(disk.toks, disk.holds)

(* What the next step finds. *)
LbmNext(a, part, pos) ==
  HasPixels => pos \in 2..(disk.len + 1) /\ ChunksRead(disk.toks, disk.holds, a, part, pos - 1)

(* A load that goes on, *)
LEMMA LbmGoes ==
  ASSUME Calm, io.op = "lbm", disk.fmt = "lbm", NEW a, NEW part, NEW pos, NextChunk(a, part, pos), IsSeq(a), LbmNext(a, part, pos)
  PROVE  Stepped("lbm") /\ IsSeq(archive') /\ LbmOK'
<1>1. io = [op |-> "lbm", pos |-> io.pos, i |-> io.i, pal |-> io.pal, part |-> io.part, base |-> io.base]
  BY DEF Calm, Fields
<1>2. io' = [op |-> "lbm", pos |-> pos, i |-> io.i, pal |-> io.pal, part |-> part, base |-> io.base]
  BY <1>1 DEF NextChunk, Goes
<1>3. io'.op = "lbm" /\ io'.pos = pos /\ io'.part = part /\ io'.base = io.base /\ Fields(io')
  BY <1>2 DEF Fields
<1>4. archive' = a /\ disk' = disk /\ client' = client /\ ret' = ret /\ ret = NoRet
  BY IdleIsIdle DEF NextChunk, Goes, Calm
<1>5. HasPixels' <=> HasPixels
  BY <1>4 DEF HasPixels
<1>6. LbmLoading'
  BY <1>3, <1>4, <1>5 DEF LbmLoading, LbmNext
<1>7. LbmShowsSame'
  BY <1>4 DEF LbmShowsSame, LoadedWhole, NoRet
<1>8. Stepped("lbm")
  BY <1>3, <1>4 DEF Stepped
<1> QED BY <1>4, <1>6, <1>7, <1>8 DEF LbmOK

(* and one that fails. *)
LEMMA LbmFails ==
  ASSUME Calm, io.op = "lbm", NEW codes, Fails(codes), "NONE" \notin codes
  PROVE  Stepped("lbm") /\ IsSeq(archive') /\ LbmOK'
<1>1. io' = Idle /\ ret'.code # "NONE"
  BY DEF Fails, Returns
<1>2. Stepped("lbm") /\ IsSeq(archive')
  BY FailsIs, IdleIsIdle DEF Calm
<1>3. ~LoadedWhole("lbm")'
  BY <1>1 DEF LoadedWhole
<1> QED BY <1>1, <1>2, <1>3, IdleIsIdle DEF LbmOK, LbmShowsSame

(* Where a load is at a chunk of a file with pixels. *)
LEMMA LbmStands ==
  ASSUME LbmStored, LbmLoading, HasPixels, NEW t, AtChunk(t)
  PROVE  \E n \in Nat : /\ io.pos = n + 1 /\ n + 1 =< disk.len /\ n + 1 \in 1..Len(disk.toks)
                        /\ disk.toks[n + 1].t = t /\ n + 1 + 1 \in 2..(disk.len + 1) /\ (n + 1 + 1) - 1 = n + 1
                        /\ ChunksRead(disk.toks, disk.holds, archive, io.part, n)
                        /\ AnimsHeld(disk.toks, disk.holds) /\ PictureHeld(disk.toks, disk.holds)
<1>1. io.pos \in 2..(disk.len + 1) /\ ChunksRead(disk.toks, disk.holds, archive, io.part, io.pos - 1)
  BY DEF LbmLoading
<1>2. disk.len \in Nat /\ disk.len = Len(disk.toks) /\ Len(disk.toks) \in Nat
  BY DEF LbmStored, HasPixels
<1>3. io.pos =< disk.len /\ disk.toks[io.pos].t = t
  BY DEF AtChunk, Is
<1>4. PICK n \in Nat : n = io.pos - 1 /\ io.pos = n + 1
  BY <1>1, <1>2
<1>5. n + 1 =< disk.len /\ n + 1 \in 1..Len(disk.toks) /\ n + 1 + 1 \in 2..(disk.len + 1) /\ (n + 1 + 1) - 1 = n + 1
  BY <1>2, <1>3, <1>4
<1>6. disk.toks # <<>> /\ disk.toks[Len(disk.toks)].t = "c"
  <2>1. Len(disk.toks) # 0
    BY <1>2, <1>5
  <2> QED BY <2>1, NoSeq DEF HasPixels, Last
<1>7. AnimsHeld(disk.toks, disk.holds) /\ PictureHeld(disk.toks, disk.holds)
  BY <1>6 DEF LbmStored, LbmIs
<1> QED BY <1>1, <1>3, <1>4, <1>5, <1>7

(* The header, *)
LEMMA LbmHeader ==
  ASSUME Calm, LbmStored, LbmOK, LoadLbmHeader
  PROVE  Stepped("lbm") /\ IsSeq(archive') /\ LbmOK'
<1>1. io.op = "lbm" /\ LbmLoading /\ disk.fmt = "lbm" /\ AtChunk("BMHD") /\ IsSeq(archive)
  BY DEF LoadLbmHeader, AtChunk, LbmOK, LbmLoading, Calm
<1>2. CASE Fails({"WRONG_FORMAT"})
  BY <1>1, <1>2, LbmFails
<1>3. CASE ~Fails({"WRONG_FORMAT"})
  <2>1. PICK part : part = [io.part EXCEPT !.hdr = io.pos]
    OBVIOUS
  <2>2. NextChunk(archive, part, io.pos + 1)
    BY <1>3, <2>1 DEF LoadLbmHeader
  <2>3. ~io.part.done /\ io.part.hdr = 0 /\ disk.toks[io.pos].ok
    BY <1>3 DEF LoadLbmHeader
  <2>4. LbmNext(archive, part, io.pos + 1)
    <3> SUFFICES ASSUME HasPixels
                 PROVE  io.pos + 1 \in 2..(disk.len + 1) /\ ChunksRead(disk.toks, disk.holds, archive, part, (io.pos + 1) - 1)
      BY DEF LbmNext
    <3>1. PICK n \in Nat : /\ io.pos = n + 1 /\ disk.toks[n + 1].t = "BMHD"
                           /\ n + 1 + 1 \in 2..(disk.len + 1) /\ (n + 1 + 1) - 1 = n + 1
                           /\ ChunksRead(disk.toks, disk.holds, archive, io.part, n)
      BY <1>1, LbmStands
    <3>2. ChunksRead(disk.toks, disk.holds, archive, part, n + 1)
      BY <2>1, <2>3, <3>1, HeaderAdded
    <3> QED BY <3>1, <3>2
  <2> QED BY <1>1, <2>2, <2>4, LbmGoes
<1> QED BY <1>2, <1>3

(* a palette, *)
LEMMA LbmPalette ==
  ASSUME Calm, LbmStored, LbmOK, LoadLbmPalette
  PROVE  Stepped("lbm") /\ IsSeq(archive') /\ LbmOK'
<1>1. io.op = "lbm" /\ LbmLoading /\ disk.fmt = "lbm" /\ AtChunk("CMAP") /\ IsSeq(archive)
  BY DEF LoadLbmPalette, AtChunk, LbmOK, LbmLoading, Calm
<1>2. CASE Fails({"WRONG_FORMAT"})
  BY <1>1, <1>2, LbmFails
<1>3. CASE ~Fails({"WRONG_FORMAT"})
  <2>1. PICK pal : pal = Palette(disk.toks[io.pos].c, IF io.part.hdr = 0 THEN 0 ELSE MaskTrans(disk.toks[io.part.hdr]))
    OBVIOUS
  <2>2. PICK part : part = [io.part EXCEPT !.pal = pal]
    OBVIOUS
  <2>3. NextChunk(archive, part, io.pos + 1)
    BY <1>3, <2>1, <2>2 DEF LoadLbmPalette, LbmTrans
  <2>4. ~io.part.done
    BY <1>3 DEF LoadLbmPalette
  <2>5. LbmNext(archive, part, io.pos + 1)
    <3> SUFFICES ASSUME HasPixels
                 PROVE  io.pos + 1 \in 2..(disk.len + 1) /\ ChunksRead(disk.toks, disk.holds, archive, part, (io.pos + 1) - 1)
      BY DEF LbmNext
    <3>1. PICK n \in Nat : /\ io.pos = n + 1 /\ disk.toks[n + 1].t = "CMAP"
                           /\ n + 1 + 1 \in 2..(disk.len + 1) /\ (n + 1 + 1) - 1 = n + 1
                           /\ ChunksRead(disk.toks, disk.holds, archive, io.part, n)
      BY <1>1, LbmStands
    <3>2. PICK toks : toks = disk.toks
      OBVIOUS
    <3>3. pal = Palette(toks[n + 1].c, IF io.part.hdr = 0 THEN 0 ELSE MaskTrans(toks[io.part.hdr]))
      BY <2>1, <3>1, <3>2
    <3>4. ChunksRead(toks, disk.holds, archive, part, n + 1)
      BY <2>2, <2>4, <3>1, <3>2, <3>3, PaletteAdded
    <3> QED BY <3>1, <3>2, <3>4
  <2> QED BY <1>1, <2>3, <2>5, LbmGoes
<1> QED BY <1>2, <1>3

(* a palette animation, *)
LEMMA LbmAnim ==
  ASSUME Calm, LbmStored, LbmOK, LoadLbmAnim
  PROVE  Stepped("lbm") /\ IsSeq(archive') /\ LbmOK'
<1>1. io.op = "lbm" /\ LbmLoading /\ disk.fmt = "lbm" /\ AtChunk("CRNG") /\ IsSeq(archive)
  BY DEF LoadLbmAnim, AtChunk, LbmOK, LbmLoading, Calm
<1>2. CASE Fails({"WRONG_FORMAT"})
  BY <1>1, <1>2, LbmFails
<1>3. CASE ~Fails({"WRONG_FORMAT"})
  <2>1. PICK a, x, part : a = Append(archive, LoadedAnim(x)) /\ x = disk.toks[io.pos].a /\ part = io.part
    OBVIOUS
  <2>2. NextChunk(a, part, io.pos + 1) /\ ~part.done
    BY <1>3, <2>1 DEF LoadLbmAnim
  <2>3. IsSeq(a)
    BY <1>1, <2>1, BobSeqs
  <2>4. LbmNext(a, part, io.pos + 1)
    <3> SUFFICES ASSUME HasPixels
                 PROVE  io.pos + 1 \in 2..(disk.len + 1) /\ ChunksRead(disk.toks, disk.holds, a, part, (io.pos + 1) - 1)
      BY DEF LbmNext
    <3>1. PICK n \in Nat : /\ io.pos = n + 1 /\ disk.toks[n + 1].t = "CRNG" /\ n + 1 \in 1..Len(disk.toks)
                           /\ n + 1 + 1 \in 2..(disk.len + 1) /\ (n + 1 + 1) - 1 = n + 1
                           /\ ChunksRead(disk.toks, disk.holds, archive, io.part, n) /\ AnimsHeld(disk.toks, disk.holds)
      BY <1>1, LbmStands
    <3>2. ChunksRead(disk.toks, disk.holds, a, part, n + 1)
      BY <1>1, <2>1, <2>2, <3>1, AnimAdded
    <3> QED BY <3>1, <3>2
  <2> QED BY <1>1, <2>2, <2>3, <2>4, LbmGoes
<1> QED BY <1>2, <1>3

(* what is skipped, *)
LEMMA LbmUnknown ==
  ASSUME Calm, LbmStored, LbmOK, LoadLbmUnknown
  PROVE  Stepped("lbm") /\ IsSeq(archive') /\ LbmOK'
<1>1. io.op = "lbm" /\ LbmLoading /\ disk.fmt = "lbm" /\ AtChunk("other") /\ IsSeq(archive)
  BY DEF LoadLbmUnknown, AtChunk, LbmOK, LbmLoading, Calm
<1>2. PICK part : part = io.part /\ NextChunk(archive, part, io.pos + 1)
  BY DEF LoadLbmUnknown
<1>3. LbmNext(archive, part, io.pos + 1)
  <2> SUFFICES ASSUME HasPixels
               PROVE  io.pos + 1 \in 2..(disk.len + 1) /\ ChunksRead(disk.toks, disk.holds, archive, part, (io.pos + 1) - 1)
    BY DEF LbmNext
  <2>1. PICK n \in Nat : /\ io.pos = n + 1 /\ disk.toks[n + 1].t = "other"
                         /\ n + 1 + 1 \in 2..(disk.len + 1) /\ (n + 1 + 1) - 1 = n + 1
                         /\ ChunksRead(disk.toks, disk.holds, archive, io.part, n)
    BY <1>1, LbmStands
  <2>2. ChunksRead(disk.toks, disk.holds, archive, part, n + 1)
    BY <1>2, <2>1, ChunkSkipped
  <2> QED BY <2>1, <2>2
<1> QED BY <1>1, <1>2, <1>3, LbmGoes

(* and the end, where the picture shows what was written. *)
LEMMA LbmEnd ==
  ASSUME Calm, LbmStored, LbmOK, LoadLbmEnd
  PROVE  Stepped("lbm") /\ IsSeq(archive') /\ LbmOK'
<1>1. io.op = "lbm" /\ LbmLoading /\ IsSeq(archive)
  BY DEF LoadLbmEnd, LbmOK, Calm
<1>2. PICK code : Returns(archive, code) /\ (code = "NONE" => io.part.done)
  BY DEF LoadLbmEnd
<1>3. Stepped("lbm") /\ archive' = archive /\ io' = Idle /\ disk' = disk /\ ret'.code = code
  BY <1>1, <1>2, ReturnsIs DEF Returns
<1>4. LbmShowsSame'
  <2>1. CASE ~(LoadedWhole("lbm")' /\ Last(disk.toks).t = "c")
    BY <1>3, <2>1 DEF LbmShowsSame
  <2>2. CASE LoadedWhole("lbm")' /\ Last(disk.toks).t = "c"
    <3>1. HasPixels /\ code = "NONE"
      BY <1>3, <2>2 DEF LoadedWhole, HasPixels
    <3>2. PICK a, holds : a = archive /\ holds = disk.holds /\ PictureRead(a, holds) /\ AnimsRead(a, holds)
      BY <1>1, <1>2, <3>1, Zenon DEF LbmLoading, ChunksRead
    <3>3. PICK was, now : was = holds[1] /\ now = a[1]
      OBVIOUS
    <3>4. IF was.pal = Null
          THEN Uses(was, Given.c[Given.trans + 1]) \/ Shown(now.px, now.pal) = was.px
          ELSE HasTransparency(was.pal) =>
                 /\ Shown(now.px, now.pal) = Shown(was.px, was.pal)
                 /\ \A n \in 2..Len(a) :
                      LET x == holds[n]
                      IN LoadedAnim(x) = x /\ {0, was.pal.trans} \intersect x.first..x.last = {} =>
                           ShownWith(now.px, Apply(a[n], now.pal)) = ShownWith(was.px, Apply(x, was.pal))
      BY <3>2, <3>3, LbmShows
    <3> QED BY <1>3, <3>2, <3>3, <3>4, Zenon DEF LbmShowsSame
  <2> QED BY <2>1, <2>2
<1> QED BY <1>1, <1>3, <1>4, IdleIsIdle DEF LbmOK

(* The length of the chunk that a file with pixels has. *)
LEMMA OneLength == ASSUME NEW h, NEW len \in Nat PROVE BodyLens(h, len) = {BodyLen(len)}
<1>1. len >= 0
  OBVIOUS
<1> QED BY <1>1 DEF BodyLens

(* What the chunk gives. *)
LEMMA PixelsGiven ==
  ASSUME NEW h, NEW b, NEW len, NEW px, px \in Pixels(h, b, Len(b) < len)
  PROVE  \E read, tail : /\ px = read \o tail /\ read = IF h.packed THEN Unpacked(b) ELSE b
                         /\ TailOf(tail, Len(b), len, 1..(h.w * h.h - Len(read)), io.part.pal)
<1>1. PICK read : read = IF h.packed THEN Unpacked(b) ELSE b
  OBVIOUS
<1>2. PICK rest : rest = 1..(h.w * h.h - Len(read))
  OBVIOUS
<1>3. PICK tail \in IF Len(b) < len THEN [rest -> Index] ELSE {[n \in rest |-> TransparentIdx(io.part.pal)]} :
        px = read \o tail
  BY <1>1, <1>2 DEF Pixels
<1> QED BY <1>1, <1>2, <1>3 DEF TailOf

(* The header and the palette of the picture. *)
LEMMA PictureChunks ==
  ASSUME NEW toks, NEW holds, NEW a, NEW part, NEW n \in Nat, ChunksRead(toks, holds, a, part, n), n + 1 \in 1..Len(toks),
         ~part.done, part.hdr # 0, part.pal # Null, toks[n + 1].t = "BODY", PictureHeld(toks, holds)
  PROVE  /\ IsImage(holds[1]) /\ Drawable(holds[1]) /\ toks[n + 1].len \in Nat
         /\ \E m : LET u == IF part.hdr < m THEN MaskTrans(toks[part.hdr]) ELSE 0
                   IN /\ part.pal = Palette(toks[m].c, u)
                      /\ HasTransparency(Painted(holds[1]).pal) =>
                           Stores(toks[part.hdr], toks[m].c, u, toks[n + 1].len, BodyBytes(toks, n + 1), Painted(holds[1]))
<1>1. HeaderRead(toks, part.hdr, n) /\ PaletteRead(toks, part.hdr, part.pal, n) /\ part.hdr \in 0..n
  BY Zenon DEF ChunksRead
<1>2. PICK h, b : h = part.hdr /\ b = n + 1
  OBVIOUS
<1>3. b - 1 = n /\ b \in 1..Len(toks) /\ \A k \in 1..n : k \in 1..Len(toks)
  BY <1>2
<1>4. h \in 1..n /\ OnlyHeader(toks, h, n)
  BY <1>1, <1>2 DEF HeaderRead
<1>5. PICK m \in 1..n : LastPalette(toks, m, n) /\ part.pal = Palette(toks[m].c, IF h # 0 /\ h < m THEN MaskTrans(toks[h]) ELSE 0)
  BY <1>1, <1>2 DEF PaletteRead
<1>6. part.pal = Palette(toks[m].c, IF h < m THEN MaskTrans(toks[h]) ELSE 0)
  BY <1>2, <1>5
<1>7. toks[b].t = "BODY" /\ OnlyHeader(toks, h, b - 1) /\ LastPalette(toks, m, b - 1)
  BY <1>2, <1>3, <1>4, <1>5
<1>8. /\ IsImage(holds[1]) /\ Drawable(holds[1]) /\ toks[b].len \in Nat
      /\ HasTransparency(Painted(holds[1]).pal) =>
           Stores(toks[h], toks[m].c, IF h < m THEN MaskTrans(toks[h]) ELSE 0,
                  toks[b].len, BodyBytes(toks, b), Painted(holds[1]))
  BY <1>3, <1>4, <1>7, Zenon DEF PictureHeld
<1> QED BY <1>2, <1>6, <1>8

(* Where a chunk ends, or the file. *)
LEMMA ChunkEnds ==
  ASSUME NEW n \in Nat, NEW len \in Nat, NEW size \in Nat, n + 1 =< size,
         NEW last, last = IF n + 1 + len < size THEN n + 1 + len ELSE size
  PROVE  last \in (n + 1)..size
<1>1. CASE n + 1 + len < size
  BY <1>1
<1>2. CASE ~(n + 1 + len < size)
  BY <1>2
<1> QED BY <1>1, <1>2

(* Pixels that are read make the picture. *)
LEMMA BodyTaken ==
  ASSUME LbmStored, LbmLoading, HasPixels, AtChunk("BODY"), IsSeq(archive),
         ~io.part.done, io.part.hdr # 0, io.part.pal # Null,
         NEW h, h = disk.toks[io.part.hdr], NEW len, len \in BodyLens(h, disk.toks[io.pos].len),
         NEW last, last = IF io.pos + len < disk.len THEN io.pos + len ELSE disk.len,
         NEW b, b = [n \in 1..(last - io.pos) |-> disk.toks[io.pos + n].v], h.packed \/ len = h.w * h.h,
         NEW px, px \in Pixels(h, b, Len(b) < len),
         NEW a, a = [archive EXCEPT ![1] = Image(io.part.pal, Rows(px, h.w, h.h))],
         NEW part, part = [io.part EXCEPT !.done = TRUE]
  PROVE  LbmNext(a, part, last + 1)
<1>1. PICK n \in Nat : /\ io.pos = n + 1 /\ n + 1 =< disk.len /\ disk.toks[n + 1].t = "BODY" /\ n + 1 \in 1..Len(disk.toks)
                       /\ ChunksRead(disk.toks, disk.holds, archive, io.part, n) /\ PictureHeld(disk.toks, disk.holds)
  BY LbmStands
<1>2. PICK toks, holds, pal, hdr : toks = disk.toks /\ holds = disk.holds /\ pal = io.part.pal /\ hdr = io.part.hdr
  OBVIOUS
<1>3. IsImage(holds[1]) /\ Drawable(holds[1]) /\ toks[n + 1].len \in Nat
  BY <1>1, <1>2, PictureChunks
<1>4. PICK m, u : /\ pal = Palette(toks[m].c, u)
                  /\ HasTransparency(Painted(holds[1]).pal) =>
                       Stores(h, toks[m].c, u, toks[n + 1].len, BodyBytes(toks, n + 1), Painted(holds[1]))
  <2>1. \E m : LET u == IF hdr < m THEN MaskTrans(toks[hdr]) ELSE 0
               IN /\ pal = Palette(toks[m].c, u)
                  /\ HasTransparency(Painted(holds[1]).pal) =>
                       Stores(toks[hdr], toks[m].c, u, toks[n + 1].len, BodyBytes(toks, n + 1), Painted(holds[1]))
    BY <1>1, <1>2, PictureChunks
  <2> QED BY <1>2, <2>1
<1>5. PICK l \in Nat : l = toks[n + 1].len /\ len = BodyLen(l) /\ len \in Nat
  <2>1. len = BodyLen(toks[n + 1].len)
    BY <1>1, <1>2, <1>3, OneLength
  <2> QED BY <1>3, <2>1 DEF BodyLen
<1>6. disk.len = Len(toks) /\ disk.len \in Nat
  BY <1>2 DEF HasPixels, LbmStored
<1>7. last \in (n + 1)..disk.len
  <2>1. PICK size \in Nat : size = disk.len
    BY <1>6
  <2>2. last = IF n + 1 + len < size THEN n + 1 + len ELSE size
    BY <1>1, <2>1
  <2>3. n + 1 =< size
    BY <1>1, <2>1
  <2> QED BY <1>5, <2>1, <2>2, <2>3, ChunkEnds
<1>8. b = BodyBytes(toks, n + 1)
  BY <1>1, <1>2, <1>5, <1>6 DEF BodyBytes
<1>9. PICK read, tail : /\ px = read \o tail /\ read = IF h.packed THEN Unpacked(b) ELSE b
                        /\ TailOf(tail, Len(b), len, 1..(h.w * h.h - Len(read)), pal)
  BY <1>2, PixelsGiven
<1>10. PICK now : now = Image(pal, Rows(px, h.w, h.h))
  OBVIOUS
<1>20. Len(archive) >= 1 /\ AnimsRead(archive, holds)
  BY <1>1, <1>2, Zenon DEF ChunksRead
<1>21. PICK S : archive \in Seq(S)
  BY DEF IsSeq
<1>22. PICK k \in Nat : k = Len(archive) /\ k >= 1 /\ DOMAIN archive = 1..k
  BY <1>20, <1>21
<1>11. PictureRead(a, holds)
  <2>1. a[1] = now
    BY <1>2, <1>10, <1>22
  <2>2. ASSUME HasTransparency(Painted(holds[1]).pal) PROVE Exchanges(now, Painted(holds[1]))
    <3>1. PICK img, was, c : img = Painted(was) /\ was = holds[1] /\ c = toks[m].c
      OBVIOUS
    <3>2. IsBody(h, c, u, l, b, was, img)
      BY <1>3, <1>4, <1>5, <1>8, <2>2, <3>1 DEF IsBody
    <3>3. TailOf(tail, Len(b), BodyLen(l), 1..(h.w * h.h - Len(read)), pal)
      BY <1>5, <1>9
    <3>4. pal = Palette(c, u) /\ pal # Null
      BY <1>2, <1>4, <3>1
    <3>5. Exchanges(Image(pal, Rows(read \o tail, h.w, h.h)), img)
      BY <1>9, <3>2, <3>3, <3>4, BodyRead
    <3> QED BY <1>9, <1>10, <3>1, <3>5
  <2> QED BY <1>3, <2>1, <2>2 DEF PictureRead
<1>12. AnimsRead(a, holds) /\ Len(a) >= 1
  <2>1. Len(a) = k /\ \A i \in 2..k : a[i] = archive[i]
    BY <1>21, <1>22
  <2> QED BY <1>20, <1>22, <2>1 DEF AnimsRead
<1>13. /\ part.hdr = hdr /\ part.done /\ part = [hdr |-> part.hdr, pal |-> part.pal, done |-> part.done] /\ hdr \in 0..n
  <2>1. io.part = [hdr |-> io.part.hdr, pal |-> io.part.pal, done |-> io.part.done] /\ io.part.hdr \in 0..n
    BY <1>1, Zenon DEF ChunksRead
  <2>2. part = [hdr |-> hdr, pal |-> pal, done |-> TRUE]
    BY <1>2, <2>1
  <2> QED BY <1>2, <2>1, <2>2
<1>14. part.hdr \in 0..last /\ (last + 1) - 1 = last /\ last + 1 \in 2..(disk.len + 1)
  BY <1>6, <1>7, <1>13
<1>15. ChunksRead(toks, holds, a, part, last)
  BY <1>11, <1>12, <1>13, <1>14, Zenon DEF ChunksRead
<1> QED BY <1>2, <1>14, <1>15 DEF LbmNext

(* The pixels, *)
LEMMA LbmPixels ==
  ASSUME Calm, LbmStored, LbmOK, LoadLbmBody
  PROVE  Stepped("lbm") /\ IsSeq(archive') /\ LbmOK'
<1>1. io.op = "lbm" /\ LbmLoading /\ disk.fmt = "lbm" /\ AtChunk("BODY") /\ IsSeq(archive)
  BY DEF LoadLbmBody, AtChunk, LbmOK, LbmLoading, Calm
<1>2. CASE Fails({"WRONG_FORMAT"}) \/ Fails({"PALETTE_MISSING"})
  BY <1>1, <1>2, LbmFails
<1>3. CASE ~(Fails({"WRONG_FORMAT"}) \/ Fails({"PALETTE_MISSING"}))
  <2>1. io.part.hdr # 0 /\ ~io.part.done /\ io.part.pal # Null
    BY <1>3 DEF LoadLbmBody
  <2>2. PICK h : h = disk.toks[io.part.hdr]
    OBVIOUS
  <2>3. PICK len \in BodyLens(h, disk.toks[io.pos].len) :
          LET last == IF io.pos + len < disk.len THEN io.pos + len ELSE disk.len
              b    == [n \in 1..(last - io.pos) |-> disk.toks[io.pos + n].v]
          IN IF ~h.packed /\ len # h.w * h.h THEN Fails({"WRONG_FORMAT"})
             ELSE \E px \in Pixels(h, b, Len(b) < len) :
                    NextChunk([archive EXCEPT ![1] = Image(io.part.pal, Rows(px, h.w, h.h))],
                              [io.part EXCEPT !.done = TRUE], last + 1)
    BY <1>3, <2>1, <2>2 DEF LoadLbmBody
  <2>4. PICK last, b : /\ last = IF io.pos + len < disk.len THEN io.pos + len ELSE disk.len
                       /\ b = [n \in 1..(last - io.pos) |-> disk.toks[io.pos + n].v]
    OBVIOUS
  <2>5. PICK px \in Pixels(h, b, Len(b) < len) :
          NextChunk([archive EXCEPT ![1] = Image(io.part.pal, Rows(px, h.w, h.h))],
                    [io.part EXCEPT !.done = TRUE], last + 1)
    BY <1>3, <2>3, <2>4
  <2>6. h.packed \/ len = h.w * h.h
    BY <1>3, <2>3, <2>4
  <2>7. PICK a, part : /\ a = [archive EXCEPT ![1] = Image(io.part.pal, Rows(px, h.w, h.h))]
                       /\ part = [io.part EXCEPT !.done = TRUE] /\ NextChunk(a, part, last + 1)
    BY <2>5
  <2>8. LbmNext(a, part, last + 1)
    <3>1. CASE HasPixels
      BY <1>1, <2>1, <2>2, <2>4, <2>6, <2>7, <3>1, BodyTaken
    <3>2. CASE ~HasPixels
      BY <3>2 DEF LbmNext
    <3> QED BY <3>1, <3>2
  <2>9. IsSeq(a)
    BY <1>1, <2>7, SeqGrows
  <2> QED BY <1>1, <2>7, <2>8, <2>9, LbmGoes
<1> QED BY <1>2, <1>3

(* Every step of a load. *)
LEMMA LbmStepsKeep ==
  ASSUME Calm, LbmStored, LbmOK,
         LoadLbmHeader \/ LoadLbmAnim \/ LoadLbmPalette \/ LoadLbmUnknown \/ LoadLbmBody \/ LoadLbmEnd
  PROVE  Stepped("lbm") /\ IsSeq(archive') /\ LbmOK'
BY LbmHeader, LbmAnim, LbmPalette, LbmUnknown, LbmPixels, LbmEnd, Zenon

-------------------------------------------------------------------------------
(* The LBM file that is written *)

(* Two sequences, one after the other. *)
Joined(s, a, b, i, j) ==
  Len(s) = i + j /\ (\A k \in 1..i : s[k] = a[k]) /\ (\A k \in 1..j : s[i + k] = b[k])

(* What is where, when one sequence is put behind another. *)
LEMMA TwoParts ==
  ASSUME NEW S, NEW a, a \in Seq(S), NEW b, b \in Seq(S), NEW i, i \in Nat, NEW j, j \in Nat,
         Len(a) = i, Len(b) = j, NEW s, s = a \o b
  PROVE  s \in Seq(S) /\ Joined(s, a, b, i, j)
<1>1. s \in Seq(S) /\ Len(s) = i + j
  OBVIOUS
<1>2. ASSUME NEW k \in 1..i PROVE s[k] = a[k]
  OBVIOUS
<1>3. ASSUME NEW k \in 1..j PROVE s[i + k] = b[k]
  <2>1. PICK m \in 1..(i + j) : m = i + k /\ ~(m =< i) /\ m - i = k
    OBVIOUS
  <2>2. s[m] = b[m - i]
    BY <2>1
  <2> QED BY <2>1, <2>2
<1> QED BY <1>1, <1>2, <1>3 DEF Joined

(* A pixel of a row is within the pixels of all the rows. *)
LEMMA InRow == ASSUME NEW i \in Nat, NEW w \in Nat, NEW m \in Nat, i + w =< m, NEW x \in 1..w PROVE i + x \in 1..m
OBVIOUS

AreWide(s, n, w) == \A y \in 1..n : Len(s[y]) = w

(* Rows of one width, of which k are one after the other. *)
Laid(flat, s, k, w) ==
  Len(flat) = k * w /\ \A y \in 1..k : \A x \in 1..w : flat[(y - 1) * w + x] = s[y][x]

(* One more row behind those that are laid out. *)
LEMMA RowLaid ==
  ASSUME NEW T, NEW s, NEW old \in Seq(T), NEW row \in Seq(T), NEW w \in Nat, Len(row) = w,
         NEW k \in Nat, k > 0, row = s[k], Laid(old, s, k - 1, w), NEW new, new = old \o row
  PROVE  Laid(new, s, k, w)
<1>1. PICK j \in Nat : j = k - 1 /\ k = j + 1
  OBVIOUS
<1>2. PICK m \in Nat : m = j * w /\ k * w = m + w
  BY <1>1
<1>3. Len(old) = m /\ \A y \in 1..j : \A x \in 1..w : old[(y - 1) * w + x] = s[y][x]
  BY <1>1, <1>2 DEF Laid
<1>4. /\ Len(new) = m + w
      /\ \A q \in 1..m : new[q] = old[q]
      /\ \A x \in 1..w : new[m + x] = row[x]
  <2>1. Joined(new, old, row, m, w)
    BY <1>3, TwoParts, Zenon
  <2> QED BY <2>1 DEF Joined
<1>5. ASSUME NEW y \in 1..k, NEW x \in 1..w PROVE new[(y - 1) * w + x] = s[y][x]
  <2>1. CASE y = k
    <3>1. (y - 1) * w + x = m + x
      BY <1>1, <1>2, <2>1
    <3> QED BY <1>4, <2>1, <3>1
  <2>2. CASE y # k
    <3>1. y \in 1..j
      BY <1>1, <2>2
    <3>2. PICK i \in Nat : i = y - 1 /\ y = i + 1
      BY <3>1
    <3>3. i * w \in Nat /\ i * w + w = y * w /\ y * w =< m
      <4>1. y * w =< j * w
        BY <1>1, <3>1, TimesGrows
      <4> QED BY <1>2, <3>2, <4>1
    <3>4. PICK iw \in Nat : iw = i * w /\ iw + w =< m
      BY <3>3
    <3>5. PICK q \in 1..m : q = iw + x
      <4>1. iw + x \in 1..m
        BY <1>2, <3>4, InRow
      <4> QED BY <4>1
    <3>6. q = (y - 1) * w + x
      BY <3>2, <3>4, <3>5
    <3> QED BY <1>3, <1>4, <3>1, <3>6
  <2> QED BY <2>1, <2>2
<1> QED BY <1>2, <1>4, <1>5 DEF Laid

(* Rows of one width, flattened, have pixel x of row y at (y - 1) * w + x. *)
LEMMA FlatRows ==
  ASSUME NEW T, NEW n \in Nat, NEW w \in Nat, NEW s \in [1..n -> Seq(T)], AreWide(s, n, w),
         NEW flat, flat = FlattenSeq(s)
  PROVE  flat \in Seq(T) /\ Laid(flat, s, n, w)
<1>1. PICK f \in [0..n -> Seq(T)] : Joins(f, n, s) /\ flat = f[n]
  BY Flattened
<1> DEFINE P == {k \in 0..n : Laid(f[k], s, k, w)}
<1>2. 0 \in P
  <2>1. f[0] = <<>> /\ 0 * w = 0
    BY <1>1 DEF Joins
  <2> QED BY <2>1 DEF Laid
<1>3. ASSUME NEW k \in 1..n, k - 1 \in P PROVE k \in P
  <2>1. k \in Nat /\ k > 0 /\ k - 1 \in 0..n /\ k \in 0..n
    OBVIOUS
  <2>2. Laid(f[k - 1], s, k - 1, w)
    BY <1>3
  <2>3. PICK old, new, row : /\ old = f[k - 1] /\ new = f[k] /\ row = s[k] /\ new = old \o row
                             /\ old \in Seq(T) /\ row \in Seq(T)
    BY <1>1, <2>1 DEF Joins
  <2>4. Len(row) = w
    BY <2>3 DEF AreWide
  <2>5. Laid(new, s, k, w)
    BY <2>1, <2>2, <2>3, <2>4, RowLaid
  <2> QED BY <2>1, <2>3, <2>5
<1> HIDE DEF P
<1>4. 0..n \subseteq P
  BY <1>2, <1>3, SetInduction
<1>5. n \in P
  BY <1>4
<1>6. Laid(f[n], s, n, w)
  BY <1>5 DEF P
<1> QED BY <1>1, <1>6

(* Four sequences, one after the other. *)
FourJoined(s, a, b, c, d, k, n) ==
  /\ IsSeq(s) /\ Len(s) = k + 4 + n
  /\ \A i \in 1..3 : s[i] = a[i]
  /\ \A i \in 1..k : s[i + 3] = b[i]
  /\ s[k + 4] = c[1]
  /\ \A j \in 1..n : s[k + 4 + j] = d[j]

(* The chunks of an LBM file, put together of a head, the animations, the head of the body and its bytes. *)
LEMMA FourParts ==
  ASSUME NEW a, IsSeq(a), NEW b, IsSeq(b), NEW c, IsSeq(c), NEW d, IsSeq(d),
         NEW k, k \in Nat, NEW n, n \in Nat, Len(a) = 3, Len(b) = k, Len(c) = 1, Len(d) = n, NEW s, s = (a \o b) \o (c \o d)
  PROVE  FourJoined(s, a, b, c, d, k, n)
<1>1. PICK A, B, C, D : a \in Seq(A) /\ b \in Seq(B) /\ c \in Seq(C) /\ d \in Seq(D)
  BY DEF IsSeq
<1>2. PICK S : S = (A \union B) \union (C \union D)
  OBVIOUS
<1>3. a \in Seq(S) /\ b \in Seq(S) /\ c \in Seq(S) /\ d \in Seq(S)
  BY <1>1, <1>2
<1>4. PICK l, r : l = a \o b /\ r = c \o d /\ s = l \o r
  OBVIOUS
<1>5. l \in Seq(S) /\ Joined(l, a, b, 3, k)
  <2>1. 3 \in Nat
    OBVIOUS
  <2> QED BY <1>3, <1>4, <2>1, TwoParts, Zenon
<1>6. r \in Seq(S) /\ Joined(r, c, d, 1, n)
  <2>1. 1 \in Nat
    OBVIOUS
  <2> QED BY <1>3, <1>4, <2>1, TwoParts, Zenon
<1>7. PICK p \in Nat, q \in Nat : p = 3 + k /\ q = 1 + n /\ p = Len(l) /\ q = Len(r)
  BY <1>5, <1>6 DEF Joined
<1>8. s \in Seq(S) /\ Joined(s, l, r, p, q)
  BY <1>4, <1>5, <1>6, <1>7, TwoParts, Zenon
<1>9. ASSUME NEW i \in 1..3 PROVE s[i] = a[i]
  <2>1. i \in 1..p
    BY <1>7
  <2> QED BY <1>5, <1>8, <2>1 DEF Joined
<1>10. ASSUME NEW i \in 1..k PROVE s[i + 3] = b[i]
  <2>1. i + 3 \in 1..p /\ i + 3 = 3 + i
    BY <1>7
  <2> QED BY <1>5, <1>8, <2>1 DEF Joined
<1>11. s[k + 4] = c[1]
  <2>1. 1 \in 1..q /\ 1 \in 1..1 /\ p + 1 = k + 4
    BY <1>7
  <2> QED BY <1>6, <1>8, <2>1 DEF Joined
<1>12. ASSUME NEW j \in 1..n PROVE s[k + 4 + j] = d[j]
  <2>1. 1 + j \in 1..q /\ p + (1 + j) = k + 4 + j
    BY <1>7
  <2>2. s[p + (1 + j)] = r[1 + j]
    BY <1>8, <2>1 DEF Joined
  <2> QED BY <1>6, <2>1, <2>2 DEF Joined
<1>13. p + q = k + 4 + n
  BY <1>7
<1> QED BY <1>8, <1>9, <1>10, <1>11, <1>12, <1>13 DEF Joined, FourJoined, IsSeq

(* The kinds of the chunks that are written: k animations, and n bytes of  *)
(* pixels.                                                                 *)
LbmKinds(toks, k, n) ==
  /\ Len(toks) = k + 4 + n
  /\ toks[1].t = "FORM" /\ toks[2].t = "BMHD" /\ toks[3].t = "CMAP"
  /\ \A p \in 4..(k + 3) : toks[p].t = "CRNG"
  /\ toks[k + 4].t = "BODY"
  /\ \A p \in (k + 5)..(k + 4 + n) : toks[p].t = "c"

LbmKind(toks, k, p, t) ==
  /\ t = "BMHD" <=> p = 2
  /\ t = "CMAP" <=> p = 3
  /\ t = "CRNG" <=> p \in 4..(k + 3)
  /\ t = "BODY" <=> p = k + 4

(* The kind of a chunk says where it is. *)
LEMMA KindOf ==
  ASSUME NEW toks, NEW k \in Nat, NEW n \in Nat, LbmKinds(toks, k, n), NEW p \in 1..(k + 4 + n)
  PROVE  LbmKind(toks, k, p, toks[p].t)
<1>1. CASE p = 1
  <2>1. toks[p].t = "FORM"
    BY <1>1 DEF LbmKinds
  <2>2. p # 2 /\ p # 3 /\ p \notin 4..(k + 3) /\ p # k + 4
    BY <1>1
  <2> QED BY <2>1, <2>2 DEF LbmKind
<1>2. CASE p = 2
  <2>1. toks[p].t = "BMHD"
    BY <1>2 DEF LbmKinds
  <2>2. p # 3 /\ p \notin 4..(k + 3) /\ p # k + 4
    BY <1>2
  <2> QED BY <1>2, <2>1, <2>2 DEF LbmKind
<1>3. CASE p = 3
  <2>1. toks[p].t = "CMAP"
    BY <1>3 DEF LbmKinds
  <2>2. p # 2 /\ p \notin 4..(k + 3) /\ p # k + 4
    BY <1>3
  <2> QED BY <1>3, <2>1, <2>2 DEF LbmKind
<1>4. CASE p \in 4..(k + 3)
  <2>1. toks[p].t = "CRNG"
    BY <1>4 DEF LbmKinds
  <2>2. p # 2 /\ p # 3 /\ p # k + 4
    BY <1>4
  <2> QED BY <1>4, <2>1, <2>2 DEF LbmKind
<1>5. CASE p = k + 4
  <2>1. toks[p].t = "BODY"
    BY <1>5 DEF LbmKinds
  <2>2. p # 2 /\ p # 3 /\ p \notin 4..(k + 3)
    BY <1>5
  <2> QED BY <1>5, <2>1, <2>2 DEF LbmKind
<1>6. CASE p \in (k + 5)..(k + 4 + n)
  <2>1. toks[p].t = "c"
    BY <1>6 DEF LbmKinds
  <2>2. p # 2 /\ p # 3 /\ p \notin 4..(k + 3) /\ p # k + 4
    BY <1>6
  <2> QED BY <2>1, <2>2 DEF LbmKind
<1>7. p = 1 \/ p = 2 \/ p = 3 \/ p \in 4..(k + 3) \/ p = k + 4 \/ p \in (k + 5)..(k + 4 + n)
  OBVIOUS
<1> QED BY <1>1, <1>2, <1>3, <1>4, <1>5, <1>6, <1>7

(* Where the chunks are. *)
LEMMA KindsAre ==
  ASSUME NEW toks, NEW k \in Nat, NEW n \in Nat, LbmKinds(toks, k, n)
  PROVE  /\ \A b \in 1..Len(toks) : toks[b].t = "BODY" => b = k + 4 /\ b - 1 = k + 3
         /\ \A h : OnlyHeader(toks, h, k + 3) => h = 2
         /\ \A m : LastPalette(toks, m, k + 3) => m = 3
         /\ \A p \in 1..Len(toks) : toks[p].t = "CRNG" => p \in 4..(k + 3) /\ AnimsTo(toks, p) = p - 3
<1>1. PICK l \in Nat : l = k + 4 + n /\ l = Len(toks)
  BY DEF LbmKinds
<1>2. \A p \in 1..l : LbmKind(toks, k, p, toks[p].t)
  BY <1>1, KindOf
<1>3. \A b \in 1..l : toks[b].t = "BODY" => b = k + 4 /\ b - 1 = k + 3
  <2>1. (k + 4) - 1 = k + 3
    OBVIOUS
  <2> QED BY <1>2, <2>1 DEF LbmKind
<1>4. ASSUME NEW h, OnlyHeader(toks, h, k + 3) PROVE h = 2
  <2>1. 2 \in 1..(k + 3) /\ 2 \in 1..l
    BY <1>1
  <2> QED BY <1>2, <1>4, <2>1 DEF LbmKind, OnlyHeader
<1>5. ASSUME NEW m, LastPalette(toks, m, k + 3) PROVE m = 3
  <2>1. \A p \in 1..(k + 3) : p \in 1..l
    BY <1>1
  <2> QED BY <1>2, <1>5, <2>1 DEF LbmKind, LastPalette
<1>6. ASSUME NEW p \in 1..l, toks[p].t = "CRNG" PROVE p \in 4..(k + 3) /\ AnimsTo(toks, p) = p - 3
  <2>1. p \in 4..(k + 3)
    BY <1>2, <1>6 DEF LbmKind
  <2>2. PICK S : S = {q \in 1..p : toks[q].t = "CRNG"}
    OBVIOUS
  <2>3. \A q \in 1..p : q \in 1..l /\ (q \in 4..(k + 3) <=> q \in 4..p)
    BY <1>1, <2>1
  <2>4. S = {q \in 1..p : q \in 4..p}
    BY <1>2, <2>2, <2>3 DEF LbmKind
  <2>5. S = 4..p
    BY <2>1, <2>4
  <2>6. Cardinality(4..p) = p - 3
    <3>1. Cardinality(4..p) = IF 4 > p THEN 0 ELSE p - 4 + 1
      BY <2>1, FS_Interval
    <3> QED BY <2>1, <3>1
  <2> QED BY <2>1, <2>2, <2>5, <2>6 DEF AnimsTo
<1> QED BY <1>1, <1>3, <1>4, <1>5, <1>6

(* The pixels that are written, as many as the rows have. *)
LEMMA DrawnRows ==
  ASSUME NEW x, IsImage(x), NEW flat, flat = FlattenSeq(Drawn(x))
  PROVE  \E h \in Nat, w \in Nat :
           h = Height(x) /\ (h # 0 => w = Width(x)) /\ IsSeq(flat) /\ Laid(flat, Drawn(x), h, w)
<1>1. PICK h \in Nat : h = Len(x.px) /\ h = Height(x)
  BY DEF IsImage, Height
<1>2. PICK w \in Nat : h # 0 => w = Width(x)
  <2>1. h # 0 => 1 \in DOMAIN x.px
    <3>1. h # 0 => 1 \in 1..h
      OBVIOUS
    <3> QED BY <1>1, <3>1 DEF IsImage
  <2>2. h # 0 => Width(x) \in Nat
    BY <2>1 DEF IsImage
  <2> QED BY <2>2
<1>3. /\ x.px = [y \in 1..h |-> [n \in 1..Len(x.px[y]) |-> x.px[y][n]]] /\ DOMAIN x.px = 1..h
      /\ \A y \in 1..h : DOMAIN x.px[y] = 1..w /\ Len(x.px[y]) = w
  <2>1. \A y \in 1..h : h # 0
    OBVIOUS
  <2>2. x.px = [y \in 1..h |-> [n \in 1..Len(x.px[y]) |-> x.px[y][n]]] /\ DOMAIN x.px = 1..h
    BY <1>1 DEF IsImage
  <2>3. \A y \in 1..h : DOMAIN x.px[y] = 1..Len(x.px[y]) /\ Len(x.px[y]) = w
    BY <1>1, <1>2, <2>1, <2>2 DEF IsImage
  <2> QED BY <2>2, <2>3
<1>4. PICK px : px = Drawn(x) /\ px = [y \in 1..h |-> [n \in 1..w |-> px[y][n]]]
  <2>1. CASE x.pal # Null
    <3>1. Drawn(x) = x.px
      BY <2>1 DEF Drawn
    <3>2. x.px = [y \in 1..h |-> [n \in 1..w |-> x.px[y][n]]]
      BY <1>3
    <3> QED BY <3>1, <3>2
  <2>2. CASE x.pal = Null
    <3>1. PICK D : D = Drawn(x) /\ D = [y \in DOMAIN x.px |-> [n \in DOMAIN x.px[y] |->
                     IF x.px[y][n] = Clear THEN Given.trans ELSE Lookup(Given.c, Given.trans, x.px[y][n], 0)]]
      BY <2>2 DEF Drawn, EachPixel
    <3>2. D = [y \in 1..h |-> [n \in 1..w |->
                IF x.px[y][n] = Clear THEN Given.trans ELSE Lookup(Given.c, Given.trans, x.px[y][n], 0)]]
      BY <1>3, <3>1
    <3>3. D = [y \in 1..h |-> [n \in 1..w |-> D[y][n]]]
      BY <3>2
    <3> QED BY <3>1, <3>3
  <2> QED BY <2>1, <2>2
<1>5. PICK T : T = {px[r[1]][r[2]] : r \in (1..h) \X (1..w)}
  OBVIOUS
<1>6. ASSUME NEW y \in 1..h PROVE px[y] \in Seq(T) /\ Len(px[y]) = w
  <2>1. px[y] = [n \in 1..w |-> px[y][n]]
    BY <1>4
  <2>2. \A n \in 1..w : px[y][n] \in T
    <3> SUFFICES ASSUME NEW n \in 1..w PROVE px[y][n] \in T
      OBVIOUS
    <3>1. <<y, n>> \in (1..h) \X (1..w) /\ <<y, n>>[1] = y /\ <<y, n>>[2] = n
      OBVIOUS
    <3> QED BY <1>5, <3>1
  <2>3. px[y] \in [1..w -> T]
    BY <2>1, <2>2
  <2> QED BY <2>3
<1>7. px \in [1..h -> Seq(T)]
  BY <1>4, <1>6
<1>8. AreWide(px, h, w)
  BY <1>6 DEF AreWide
<1>9. flat \in Seq(T) /\ Laid(flat, px, h, w)
  BY <1>4, <1>7, <1>8, FlatRows
<1>10. IsSeq(flat)
  BY <1>9 DEF IsSeq
<1> QED BY <1>1, <1>2, <1>4, <1>9, <1>10

(* The chunks of a picture and k animations, and n bytes of pixels. *)
LbmLaid(toks, img, pal, k, flat, n) ==
  /\ IsSeq(toks) /\ LbmKinds(toks, k, n)
  /\ toks[2] = Header(Width(img), Height(img), FALSE)
  /\ toks[3].c = Exchanged(pal.c, 0, TransOf(pal))
  /\ \A p \in 4..(k + 3) : toks[p].a = archive[p - 2]
  /\ toks[k + 4].len = Area(img)
  /\ \A j \in 1..n : toks[k + 4 + j].v = Swap(flat[j], 0, TransOf(pal))

(* Three tokens, as a sequence. *)
LEMMA ThreeLong == ASSUME NEW x, NEW y, NEW z PROVE IsSeq(<<x, y, z>>) /\ Len(<<x, y, z>>) = 3
<1>1. <<x, y, z>> \in Seq({x, y, z}) /\ Len(<<x, y, z>>) = 3
  OBVIOUS
<1> QED BY <1>1 DEF IsSeq

(* One token, as a sequence. *)
LEMMA OneLong == ASSUME NEW x PROVE IsSeq(<<x>>) /\ Len(<<x>>) = 1 /\ <<x>>[1] = x
<1>1. <<x>> \in Seq({x}) /\ Len(<<x>>) = 1 /\ <<x>>[1] = x
  OBVIOUS
<1> QED BY <1>1 DEF IsSeq

(* WriteLBM writes one CRNG chunk for each item behind the picture. *)
LEMMA AnimChunksAre ==
  ASSUME NEW k \in Nat, NEW s, s = AnimChunks(k)
  PROVE  IsSeq(s) /\ Len(s) = k /\ \A i \in 1..k : s[i].t = "CRNG" /\ s[i].a = archive[i + 1]
<1>1. PICK v : v = [i \in 1..k |-> archive[i + 1]]
  OBVIOUS
<1>2. s = [i \in 1..k |-> [t |-> "CRNG", a |-> v[i]]]
  BY <1>1 DEF AnimChunks
<1>3. PICK S : S = {[t |-> "CRNG", a |-> v[i]] : i \in 1..k}
  OBVIOUS
<1>4. s \in [1..k -> S]
  BY <1>2, <1>3
<1>5. s \in Seq(S) /\ Len(s) = k
  BY <1>4
<1>6. ASSUME NEW i \in 1..k PROVE s[i].t = "CRNG" /\ s[i].a = archive[i + 1]
  <2>1. s[i] = [t |-> "CRNG", a |-> v[i]] /\ v[i] = archive[i + 1]
    BY <1>1, <1>2
  <2> QED BY <2>1
<1> QED BY <1>5, <1>6 DEF IsSeq

(* The bytes of the pixels. *)
LEMMA CharsAre ==
  ASSUME NEW flat, IsSeq(flat), NEW n \in Nat, Len(flat) = n, NEW t, NEW s, s = Chars(Swapped(flat, t))
  PROVE  IsSeq(s) /\ Len(s) = n /\ \A j \in 1..n : s[j].t = "c" /\ s[j].v = Swap(flat[j], 0, t)
<1>1. DOMAIN flat = 1..n
  BY DEF IsSeq
<1>2. PICK v : v = Swapped(flat, t) /\ v = [j \in 1..n |-> Swap(flat[j], 0, t)]
  BY <1>1 DEF Swapped, Swap
<1>3. s = [j \in 1..n |-> [t |-> "c", v |-> v[j]]]
  <2>1. DOMAIN v = 1..n
    BY <1>2
  <2> QED BY <1>2, <2>1 DEF Chars, Char
<1>4. PICK S : S = {[t |-> "c", v |-> v[j]] : j \in 1..n}
  OBVIOUS
<1>5. s \in [1..n -> S]
  BY <1>3, <1>4
<1>6. s \in Seq(S) /\ Len(s) = n
  BY <1>5
<1>7. ASSUME NEW j \in 1..n PROVE s[j].t = "c" /\ s[j].v = Swap(flat[j], 0, t)
  <2>1. s[j] = [t |-> "c", v |-> v[j]] /\ v[j] = Swap(flat[j], 0, t)
    BY <1>2, <1>3
  <2> QED BY <2>1
<1> QED BY <1>6, <1>7 DEF IsSeq

(* What the chunks are when all of them are written. *)
LEMMA LbmLaidOut ==
  ASSUME NEW img, NEW pal, NEW k \in Nat, NEW flat, IsSeq(flat), flat = FlattenSeq(Drawn(img)), NEW n \in Nat, Len(flat) = n,
         NEW toks, toks = (LbmHead(img, pal) \o AnimChunks(k)) \o LbmBody(img, pal)
  PROVE  LbmLaid(toks, img, pal, k, flat, n)
<1>1. PICK form, header, clrs : /\ form = [t |-> "FORM"] /\ header = Header(Width(img), Height(img), FALSE)
                                /\ clrs = [t |-> "CMAP", ok |-> TRUE, c |-> Exchanged(pal.c, 0, TransOf(pal))]
  OBVIOUS
<1>2. form.t = "FORM" /\ header.t = "BMHD" /\ clrs.t = "CMAP" /\ clrs.c = Exchanged(pal.c, 0, TransOf(pal))
  BY <1>1 DEF Header
<1>3. PICK a, b, c, d, body : /\ a = <<form, header, clrs>> /\ a = LbmHead(img, pal) /\ b = AnimChunks(k)
                              /\ body = [t |-> "BODY", len |-> Area(img)] /\ c = <<body>>
                              /\ d = Chars(Swapped(flat, TransOf(pal)))
                              /\ toks = (a \o b) \o (c \o d)
  BY <1>1 DEF LbmHead, LbmBody
<1>4. IsSeq(a) /\ Len(a) = 3 /\ a[1] = form /\ a[2] = header /\ a[3] = clrs
  BY <1>3, ThreeLong
<1>5. IsSeq(b) /\ Len(b) = k /\ \A i \in 1..k : b[i].t = "CRNG" /\ b[i].a = archive[i + 1]
  BY <1>3, AnimChunksAre
<1>6. IsSeq(c) /\ Len(c) = 1 /\ c[1] = body
  BY <1>3, OneLong
<1>7. IsSeq(d) /\ Len(d) = n /\ \A j \in 1..n : d[j].t = "c" /\ d[j].v = Swap(flat[j], 0, TransOf(pal))
  BY <1>3, CharsAre
<1>8. /\ IsSeq(toks) /\ Len(toks) = k + 4 + n
      /\ \A i \in 1..3 : toks[i] = a[i]
      /\ \A i \in 1..k : toks[i + 3] = b[i]
      /\ toks[k + 4] = c[1]
      /\ \A j \in 1..n : toks[k + 4 + j] = d[j]
  <2>1. FourJoined(toks, a, b, c, d, k, n)
    BY <1>3, <1>4, <1>5, <1>6, <1>7, FourParts, Zenon
  <2> QED BY <2>1 DEF FourJoined
<1>9. toks[1] = form /\ toks[2] = header /\ toks[3] = clrs
  <2>1. 1 \in 1..3 /\ 2 \in 1..3 /\ 3 \in 1..3
    OBVIOUS
  <2> QED BY <1>4, <1>8, <2>1
<1>10. ASSUME NEW p \in 4..(k + 3) PROVE toks[p].t = "CRNG" /\ toks[p].a = archive[p - 2]
  <2>1. PICK i \in 1..k : p = i + 3 /\ p - 2 = i + 1
    <3>1. p - 3 \in 1..k /\ p = (p - 3) + 3 /\ p - 2 = (p - 3) + 1
      OBVIOUS
    <3> QED BY <3>1
  <2> QED BY <1>5, <1>8, <2>1
<1>11. body.t = "BODY" /\ body.len = Area(img)
  BY <1>3
<1>12. ASSUME NEW p \in (k + 5)..(k + 4 + n) PROVE toks[p].t = "c"
  <2>1. PICK j \in 1..n : p = k + 4 + j
    <3>1. p - (k + 4) \in 1..n /\ p = k + 4 + (p - (k + 4))
      OBVIOUS
    <3> QED BY <3>1
  <2> QED BY <1>7, <1>8, <2>1
<1>13. LbmKinds(toks, k, n)
  BY <1>2, <1>6, <1>8, <1>9, <1>10, <1>11, <1>12 DEF LbmKinds
<1>14. toks[2] = Header(Width(img), Height(img), FALSE) /\ toks[3].c = Exchanged(pal.c, 0, TransOf(pal))
  BY <1>1, <1>2, <1>9
<1>15. toks[k + 4].len = Area(img)
  BY <1>6, <1>8, <1>11
<1>16. \A j \in 1..n : toks[k + 4 + j].v = Swap(flat[j], 0, TransOf(pal))
  BY <1>7, <1>8
<1>17. IsSeq(toks) /\ \A p \in 4..(k + 3) : toks[p].a = archive[p - 2]
  BY <1>8, <1>10
<1> QED BY <1>13, <1>14, <1>15, <1>16, <1>17, Zenon DEF LbmLaid

(* The bytes that are there are the pixels. *)
BytesOf(toks, b, n) == [j \in 1..n |-> toks[b + j].v]

(* Of a file that is not cut, LoadLBM reads all the bytes of the body. *)
LEMMA BytesAre ==
  ASSUME NEW toks, NEW b, b \in Nat, NEW n, n \in Nat, Len(toks) = b + n, BodyLen(toks[b].len) = n
  PROVE  BodyBytes(toks, b) = BytesOf(toks, b, n)
<1>1. PICK end : end = b + BodyLen(toks[b].len) /\ end = b + n
  OBVIOUS
<1>2. (IF end < Len(toks) THEN end ELSE Len(toks)) - b = n
  BY <1>1
<1> QED BY <1>1, <1>2 DEF BodyBytes, BytesOf

(* They are those of the rows, where 0 and the transparent index are       *)
(* exchanged.                                                              *)
StoredBytes(read, n, px, w, h, t) ==
  /\ Len(read) = n /\ n = w * h /\ read = [j \in 1..n |-> read[j]]
  /\ \A y \in 1..h : \A x \in 1..w :
       (y - 1) * w + x =< n /\ read[(y - 1) * w + x] = Swap(px[y][x], 0, t)

SwapsBytes(toks, b, n, flat, t) == \A j \in 1..n : toks[b + j].v = Swap(flat[j], 0, t)

(* They are the pixels of the rows, laid out. *)
LEMMA BytesStored ==
  ASSUME NEW toks, NEW b, b \in Nat, NEW n, n \in Nat, NEW flat, NEW t, SwapsBytes(toks, b, n, flat, t),
         NEW h, h \in Nat, NEW w, w \in Nat, NEW px, Laid(flat, px, h, w), Len(flat) = n,
         NEW read, read = BytesOf(toks, b, n)
  PROVE  StoredBytes(read, n, px, w, h, t)
<1>0. read = [j \in 1..n |-> toks[b + j].v] /\ \A j \in 1..n : toks[b + j].v = Swap(flat[j], 0, t)
  BY DEF BytesOf, SwapsBytes
<1>1. PICK S : S = {toks[b + j].v : j \in 1..n}
  OBVIOUS
<1>2. read \in [1..n -> S]
  BY <1>0, <1>1
<1>3. Len(read) = n /\ read = [j \in 1..n |-> read[j]]
  BY <1>2
<1>4. n = h * w /\ h * w = w * h
  BY DEF Laid
<1>5. ASSUME NEW y \in 1..h, NEW x \in 1..w
      PROVE  (y - 1) * w + x =< n /\ read[(y - 1) * w + x] = Swap(px[y][x], 0, t)
  <2>1. PICK i \in Nat : i = y - 1 /\ y = i + 1 /\ y =< h
    OBVIOUS
  <2>2. i * w \in Nat /\ i * w + w = y * w /\ y * w =< h * w
    <3>1. y * w =< h * w
      BY TimesGrows
    <3> QED BY <2>1, <3>1
  <2>3. PICK iw \in Nat : iw = i * w /\ iw + w =< n
    BY <1>4, <2>2
  <2>4. PICK q \in 1..n : q = iw + x
    <3>1. iw + x \in 1..n
      BY <2>3, InRow
    <3> QED BY <3>1
  <2>5. q = (y - 1) * w + x
    BY <2>1, <2>3, <2>4
  <2>6. read[q] = Swap(flat[q], 0, t) /\ q =< n
    BY <1>0, <2>4
  <2>7. flat[q] = px[y][x]
    BY <2>5 DEF Laid
  <2> QED BY <2>5, <2>6, <2>7
<1> QED BY <1>3, <1>4, <1>5 DEF StoredBytes

(* A chunk of them has the picture. *)
LEMMA StoresBytes ==
  ASSUME NEW p, NEW h, NEW c, NEW len, NEW b, NEW n \in Nat, h.packed = FALSE, Height(p) = h.h, Width(p) = h.w,
         c = Exchanged(p.pal.c, 0, p.pal.trans),
         BodyLen(len) = h.w * h.h => StoredBytes(b, n, p.px, h.w, h.h, p.pal.trans)
  PROVE  Stores(h, c, 0, len, b, p)
<1>1. PICK t : t = p.pal.trans
  OBVIOUS
<1> SUFFICES ASSUME h.packed \/ BodyLen(len) = h.w * h.h
             PROVE  LET r    == IF h.packed THEN Unpacked(b) ELSE b
                        At(j) == IF j =< Len(r) THEN r[j] ELSE 0
                    IN /\ Height(p) = h.h /\ Width(p) = h.w
                       /\ 0 \in {0, t} /\ c = Exchanged(p.pal.c, 0, t)
                       /\ Len(r) \in Nat /\ r = [j \in 1..Len(r) |-> r[j]]
                       /\ Len(r) < h.w * h.h => Len(b) = BodyLen(len)
                       /\ \A y \in 1..h.h : \A x \in 1..h.w : At((y - 1) * h.w + x) = Swap(p.px[y][x], 0, t)
  BY <1>1 DEF Stores
<1>2. (IF h.packed THEN Unpacked(b) ELSE b) = b
  OBVIOUS
<1>3. /\ Len(b) = n /\ n = h.w * h.h /\ b = [j \in 1..n |-> b[j]]
      /\ \A y \in 1..h.h : \A x \in 1..h.w :
           (y - 1) * h.w + x =< n /\ b[(y - 1) * h.w + x] = Swap(p.px[y][x], 0, t)
  BY <1>1 DEF StoredBytes
<1>4. Len(b) \in Nat /\ b = [j \in 1..Len(b) |-> b[j]] /\ ~(Len(b) < h.w * h.h)
  BY <1>3
<1>5. ASSUME NEW y \in 1..h.h, NEW x \in 1..h.w
      PROVE  (IF (y - 1) * h.w + x =< Len(b) THEN b[(y - 1) * h.w + x] ELSE 0) = Swap(p.px[y][x], 0, t)
  BY <1>3
<1> QED BY <1>1, <1>2, <1>4, <1>5

(* The file holds the animations. *)
LEMMA AnimsAreHeld ==
  ASSUME NEW k \in Nat, IsSeq(archive), Len(archive) = k + 1, \A i \in 2..(k + 1) : IsAnim(archive[i]),
         NEW n \in Nat, NEW toks, LbmKinds(toks, k, n), \A p \in 4..(k + 3) : toks[p].a = archive[p - 2]
  PROVE  AnimsHeld(toks, archive)
<1> SUFFICES ASSUME NEW p \in 1..Len(toks), toks[p].t = "CRNG"
             PROVE  LET m == AnimsTo(toks, p) + 1
                    IN m \in DOMAIN archive /\ archive[m] = toks[p].a /\ IsAnim(toks[p].a)
  BY DEF AnimsHeld
<1>1. p \in 4..(k + 3) /\ AnimsTo(toks, p) = p - 3
  BY KindsAre
<1>2. AnimsTo(toks, p) + 1 = p - 2 /\ p - 2 \in 2..(k + 1)
  BY <1>1
<1>3. p - 2 \in DOMAIN archive
  <2>1. DOMAIN archive = 1..(k + 1)
    BY DEF IsSeq
  <2> QED BY <1>2, <2>1
<1> QED BY <1>1, <1>2, <1>3

(* It holds the picture. *)
LEMMA PictureIsHeld ==
  ASSUME NEW img, IsImage(img), Drawable(img), HasTransparency(Painted(img).pal), NEW flat, flat = FlattenSeq(Drawn(img)),
         NEW n \in Nat, n # 0, Len(flat) = n, NEW k \in Nat,
         NEW toks, LbmLaid(toks, img, Painted(img).pal, k, flat, n),
         NEW h, h = Header(Width(img), Height(img), FALSE)
  PROVE  Stores(h, toks[3].c, 0, toks[k + 4].len, BodyBytes(toks, k + 4), Painted(img))
<1>1. PICK height \in Nat, w \in Nat : /\ height = Height(img) /\ (height # 0 => w = Width(img))
                                       /\ Laid(flat, Drawn(img), height, w)
  BY DrawnRows
<1>2. height # 0 /\ w = Width(img)
  <2>1. n = height * w
    BY <1>1 DEF Laid
  <2>2. height # 0
    <3>1. 0 * w = 0
      OBVIOUS
    <3> QED BY <2>1, <3>1
  <2> QED BY <1>1, <2>2
<1>3. PICK p : p = Painted(img)
  OBVIOUS
<1>4. p.px = Drawn(img) /\ Height(p) = height /\ Width(p) = w
  <2>1. IF img.pal # Null THEN p = img ELSE p.px = Drawn(img)
    BY <1>3, PaintedIs
  <2>2. p.px = Drawn(img)
    BY <2>1 DEF Drawn
  <2>3. Height(p) = Len(img.px) /\ Height(p) = height /\ (Height(p) # 0 => Width(p) = Width(img))
    BY <1>1, <1>3, PaintedIs DEF Height
  <2> QED BY <1>2, <2>2, <2>3
<1>5. PICK t : t = p.pal.trans /\ TransOf(p.pal) = t
  BY <1>3 DEF TransOf
<1>6. PICK b \in Nat : b = k + 4
  OBVIOUS
<1>7. /\ Len(toks) = b + n /\ toks[b].len = Area(img) /\ toks[3].c = Exchanged(p.pal.c, 0, t)
      /\ SwapsBytes(toks, b, n, flat, t)
  BY <1>3, <1>5, <1>6 DEF LbmLaid, LbmKinds, SwapsBytes
<1>8. h.w = w /\ h.h = height /\ h.packed = FALSE
  BY <1>1, <1>2 DEF Header
<1>9. PICK size : size = BodyLen(toks[b].len)
  OBVIOUS
<1>10. ASSUME size = w * height PROVE BodyBytes(toks, b) = BytesOf(toks, b, n)
  <2>1. n = height * w
    BY <1>1 DEF Laid
  <2>2. size = n
    BY <1>10, <2>1
  <2> QED BY <1>6, <1>7, <1>9, <2>2, BytesAre, Zenon
<1>11. PICK bytes : bytes = BodyBytes(toks, b)
  OBVIOUS
<1>12. ASSUME size = w * height PROVE StoredBytes(bytes, n, Drawn(img), w, height, t)
  <2>1. bytes = BytesOf(toks, b, n)
    BY <1>10, <1>11, <1>12
  <2> QED BY <1>1, <1>6, <1>7, <2>1, BytesStored, Zenon
<1>13. Stores(h, toks[3].c, 0, toks[b].len, bytes, p)
  <2>1. Height(p) = h.h /\ Width(p) = h.w
    BY <1>4, <1>8
  <2>2. toks[3].c = Exchanged(p.pal.c, 0, p.pal.trans)
    BY <1>5, <1>7
  <2>3. BodyLen(toks[b].len) = h.w * h.h => StoredBytes(bytes, n, p.px, h.w, h.h, p.pal.trans)
    BY <1>4, <1>5, <1>8, <1>9, <1>12
  <2>4. n \in Nat /\ h.packed = FALSE
    BY <1>8
  <2> QED BY <2>1, <2>2, <2>3, <2>4, StoresBytes, Zenon
<1> QED BY <1>3, <1>6, <1>11, <1>13

(* A file that was written whole. *)
LEMMA LbmHolds ==
  ASSUME NEW img, img = archive[1], IsImage(img), Drawable(img), NEW flat, flat = FlattenSeq(Drawn(img)),
         NEW n \in Nat, Len(flat) = n, NEW k \in Nat, IsSeq(archive), Len(archive) = k + 1,
         \A i \in 2..(k + 1) : IsAnim(archive[i]),
         NEW toks, LbmLaid(toks, img, Painted(img).pal, k, flat, n)
  PROVE  LbmIs(toks, archive)
<1> SUFFICES ASSUME toks[Len(toks)].t = "c" PROVE AnimsHeld(toks, archive) /\ PictureHeld(toks, archive)
  BY DEF LbmIs
<1>1. LbmKinds(toks, k, n) /\ Len(toks) = k + 4 + n
  BY DEF LbmLaid, LbmKinds
<1>2. n # 0
  <2>1. n = 0 => Len(toks) = k + 4
    BY <1>1
  <2> QED BY <1>1, <2>1 DEF LbmKinds
<1>3. AnimsHeld(toks, archive)
  <2>1. \A p \in 4..(k + 3) : toks[p].a = archive[p - 2]
    BY DEF LbmLaid
  <2> QED BY <1>1, <2>1, AnimsAreHeld
<1>4. Area(img) \in Nat
  <2>1. PICK height \in Nat, w \in Nat : /\ height = Height(img) /\ (height # 0 => w = Width(img))
                                         /\ Laid(flat, Drawn(img), height, w)
    BY DrawnRows
  <2>2. n = height * w
    BY <2>1 DEF Laid
  <2>3. height # 0
    <3>1. 0 * w = 0
      OBVIOUS
    <3> QED BY <1>2, <2>2, <3>1
  <2>4. w * height \in Nat
    OBVIOUS
  <2> QED BY <2>1, <2>3, <2>4 DEF Area
<1>5. PictureHeld(toks, archive)
  <2> SUFFICES ASSUME NEW h \in 1..Len(toks), NEW m \in 1..Len(toks), NEW b \in 1..Len(toks),
                      toks[b].t = "BODY", OnlyHeader(toks, h, b - 1), LastPalette(toks, m, b - 1)
               PROVE  /\ IsImage(archive[1]) /\ Drawable(archive[1]) /\ toks[b].len \in Nat
                      /\ HasTransparency(Painted(archive[1]).pal) =>
                           Stores(toks[h], toks[m].c, IF h < m THEN MaskTrans(toks[h]) ELSE 0,
                                  toks[b].len, BodyBytes(toks, b), Painted(archive[1]))
    BY DEF PictureHeld
  <2>1. b = k + 4 /\ b - 1 = k + 3
    BY <1>1, KindsAre
  <2>2. h = 2 /\ m = 3
    <3>1. OnlyHeader(toks, h, k + 3) /\ LastPalette(toks, m, k + 3)
      BY <2>1
    <3> QED BY <1>1, <3>1, KindsAre
  <2>3. PICK header : header = toks[h] /\ header = Header(Width(img), Height(img), FALSE)
    BY <2>2 DEF LbmLaid
  <2>4. (IF h < m THEN MaskTrans(header) ELSE 0) = 0
    <3>1. header.mask = 0
      BY <2>3 DEF Header
    <3> QED BY <3>1 DEF MaskTrans
  <2>5. toks[b].len \in Nat
    BY <1>4, <2>1 DEF LbmLaid
  <2>6. HasTransparency(Painted(img).pal) =>
          Stores(header, toks[m].c, 0, toks[b].len, BodyBytes(toks, b), Painted(img))
    BY <1>2, <2>1, <2>2, <2>3, PictureIsHeld
  <2> QED BY <2>3, <2>4, <2>5, <2>6
<1> QED BY <1>3, <1>5

(* The first entry that is no animation, if there is one. *)
LEMMA FirstOther ==
  ASSUME NEW a, IsSeq(a), NEW bad, bad = SelectInSeq(a, LAMBDA x : ~Has(x, "anim"))
  PROVE  /\ bad = 0 => \A i \in 1..Len(a) : Has(a[i], "anim")
         /\ bad # 0 => bad \in 1..Len(a)
<1>1. PICK I : I = {i \in 1..Len(a) : ~Has(a[i], "anim")}
  OBVIOUS
<1>2. bad = IF I # {} THEN Min(I) ELSE 0
  BY <1>1 DEF SelectInSeq
<1>3. PICK n \in Nat : n = Len(a)
  BY DEF IsSeq
<1>4. I \subseteq 1..n
  BY <1>1, <1>3
<1>5. (bad = 0 => I = {}) /\ (bad # 0 => bad \in I)
  BY <1>2, <1>4, FirstOf
<1> QED BY <1>1, <1>3, <1>5, Zenon

(* What there is in front of the pixels. *)
LEMMA LbmHeadIs ==
  ASSUME NEW img, NEW pal, NEW k \in Nat, NEW head, head = LbmHead(img, pal) \o AnimChunks(k)
  PROVE  IsSeq(head) /\ Len(head) \in Nat /\ head # <<>> /\ head[Len(head)].t # "c"
<1>1. PICK form, header, clrs : /\ form = [t |-> "FORM"] /\ header = Header(Width(img), Height(img), FALSE)
                                /\ clrs = [t |-> "CMAP", ok |-> TRUE, c |-> Exchanged(pal.c, 0, TransOf(pal))]
  OBVIOUS
<1>2. clrs.t = "CMAP"
  BY <1>1
<1>3. PICK a, b : a = <<form, header, clrs>> /\ a = LbmHead(img, pal) /\ b = AnimChunks(k) /\ head = a \o b
  BY <1>1 DEF LbmHead
<1>4. IsSeq(a) /\ Len(a) = 3 /\ a[3] = clrs
  BY <1>3, ThreeLong
<1>5. IsSeq(b) /\ Len(b) = k /\ \A i \in 1..k : b[i].t = "CRNG" /\ b[i].a = archive[i + 1]
  BY <1>3, AnimChunksAre
<1>6. PICK A, B : a \in Seq(A) /\ b \in Seq(B)
  BY <1>4, <1>5 DEF IsSeq
<1>7. PICK S : S = A \union B
  OBVIOUS
<1>8. a \in Seq(S) /\ b \in Seq(S) /\ 3 \in Nat
  BY <1>6, <1>7
<1>9. head \in Seq(S) /\ Joined(head, a, b, 3, k)
  BY <1>3, <1>4, <1>5, <1>8, TwoParts, Zenon
<1>10. Len(head) = 3 + k /\ (\A i \in 1..3 : head[i] = a[i]) /\ (\A i \in 1..k : head[3 + i] = b[i])
  BY <1>9 DEF Joined
<1>11. head[3 + k].t # "c"
  <2>1. CASE k = 0
    <3>1. 3 + k = 3 /\ 3 \in 1..3
      BY <2>1
    <3> QED BY <1>2, <1>4, <1>10, <3>1
  <2>2. CASE k # 0
    <3>1. k \in 1..k
      BY <2>2
    <3> QED BY <1>5, <1>10, <3>1
  <2> QED BY <2>1, <2>2
<1>12. head # <<>>
  BY <1>10
<1> QED BY <1>9, <1>10, <1>11, <1>12 DEF IsSeq

(* What WriteLBM writes. *)
LbmFileMade(f) ==
  \E toks, seal : f = File("lbm", toks, <<>>, archive, seal) /\ IsSeq(toks) /\ LbmIs(toks, archive)

(* A file that ends with something other than a byte of the body holds no pixel that was written whole. *)
LEMMA NoPixels ==
  ASSUME NEW toks, IsSeq(toks), toks[Len(toks)].t # "c", NEW seal
  PROVE  LbmFileMade(File("lbm", toks, <<>>, archive, seal))
BY DEF LbmFileMade, LbmIs

(* What is written of a picture with this palette is such a file, *)
LEMMA LbmMade ==
  ASSUME Calm, client \in DOMAIN ItemsOf, Known, NEW img, img = archive[1], Has(img, "image"), 1 \in DOMAIN archive,
         NEW pal, pal = Painted(img).pal, LbmWritten(img, pal)
  PROVE  LbmFileMade(disk')
<1>1. IsSeq(archive) /\ DOMAIN archive = 1..Len(archive)
  BY DEF Calm, IsSeq
<1>2. PICK k \in Nat : Len(archive) = k + 1
  <2>1. Len(archive) \in Nat /\ Len(archive) >= 1
    BY <1>1 DEF IsSeq
  <2>2. Len(archive) - 1 \in Nat /\ Len(archive) = (Len(archive) - 1) + 1
    BY <2>1
  <2> QED BY <2>2
<1>3. \A i \in 1..(k + 1) : archive[i] = Null \/ archive[i] \in ItemsOf[client]
  BY <1>1, <1>2 DEF Known, ToSet
<1>4. IsImage(img)
  <2>1. 1 \in 1..(k + 1)
    OBVIOUS
  <2>2. img \in ItemsOf[client]
    BY <1>3, <2>1 DEF Has
  <2> QED BY <2>2, FilesAssumption
<1>5. PICK bad : bad = SelectInSeq(Tail(archive), LAMBDA x : ~Has(x, "anim"))
  OBVIOUS
<1>6. PICK tail : tail = Tail(archive) /\ IsSeq(tail) /\ Len(tail) = k /\ \A i \in 1..k : tail[i] = archive[i + 1]
  <2>1. PICK S : archive \in Seq(S)
    BY <1>1 DEF IsSeq
  <2>2. Len(archive) > 0 /\ archive # <<>>
    BY <1>2
  <2>3. Tail(archive) \in Seq(S) /\ Len(Tail(archive)) = k /\ \A i \in 1..k : Tail(archive)[i] = archive[i + 1]
    BY <1>2, <2>1, <2>2
  <2> QED BY <2>3 DEF IsSeq
<1>7. /\ bad = 0 => \A i \in 1..k : Has(archive[i + 1], "anim")
      /\ bad # 0 => bad \in 1..k
  BY <1>5, <1>6, FirstOther
<1>8. PICK last : last = IF bad = 0 THEN Len(archive) ELSE bad
  OBVIOUS
<1>9. PICK m \in Nat : m = last - 1
  <2>1. last - 1 \in Nat
    BY <1>2, <1>7, <1>8
  <2> QED BY <2>1
<1>10. PICK head : head = LbmHead(img, pal) \o AnimChunks(last - 1) /\ head = LbmHead(img, pal) \o AnimChunks(m)
  BY <1>9
<1>11. IsSeq(head) /\ Len(head) \in Nat /\ head # <<>> /\ head[Len(head)].t # "c"
  BY <1>10, LbmHeadIs
<1>12. CASE bad # 0
  <2>1. PICK seal : disk' = File("lbm", head, <<>>, archive, seal)
    BY <1>5, <1>8, <1>10, <1>12 DEF LbmWritten, Writes
  <2> QED BY <1>11, <2>1, NoPixels
<1>13. CASE bad = 0 /\ ~Drawable(img)
  <2>1. PICK seal, body : /\ disk' = File("lbm", Append(head, body), <<>>, archive, seal)
                          /\ body = [t |-> "BODY", len |-> -1]
    BY <1>5, <1>8, <1>10, <1>13 DEF LbmWritten, Writes
  <2>2. body.t # "c"
    BY <2>1
  <2>3. IsSeq(Append(head, body))
    BY <1>11, SeqGrows
  <2>4. Append(head, body)[Len(Append(head, body))] = body
    BY <1>11 DEF IsSeq
  <2> QED BY <2>1, <2>2, <2>3, <2>4, NoPixels
<1>14. CASE bad = 0 /\ Drawable(img)
  <2>1. PICK toks, seal : /\ disk' = File("lbm", toks, <<>>, archive, seal)
                          /\ toks = (LbmHead(img, pal) \o AnimChunks(k)) \o LbmBody(img, pal)
    <3>1. m = k
      BY <1>2, <1>8, <1>9, <1>14
    <3>2. PICK seal : disk' = File("lbm", head \o LbmBody(img, pal), <<>>, archive, seal)
      BY <1>5, <1>8, <1>10, <1>14 DEF LbmWritten, Writes
    <3> QED BY <1>10, <3>1, <3>2
  <2>2. PICK flat : flat = FlattenSeq(Drawn(img)) /\ IsSeq(flat)
    BY <1>4, DrawnRows
  <2>3. PICK n \in Nat : Len(flat) = n
    BY <2>2 DEF IsSeq
  <2>4. LbmLaid(toks, img, pal, k, flat, n)
    BY <2>1, <2>2, <2>3, LbmLaidOut
  <2>5. ASSUME NEW i \in 2..(k + 1) PROVE IsAnim(archive[i])
    <3>1. i - 1 \in 1..k /\ (i - 1) + 1 = i /\ i \in 1..(k + 1)
      OBVIOUS
    <3>2. Has(archive[i], "anim")
      BY <1>7, <1>14, <3>1
    <3>3. archive[i] \in ItemsOf[client]
      BY <1>3, <3>1, <3>2 DEF Has
    <3> QED BY <3>2, <3>3, FilesAssumption
  <2>6. LbmIs(toks, archive)
    BY <1>1, <1>2, <1>4, <1>14, <2>2, <2>3, <2>4, <2>5, LbmHolds
  <2>7. IsSeq(toks)
    BY <2>4 DEF LbmLaid
  <2> QED BY <2>1, <2>6, <2>7 DEF LbmFileMade
<1> QED BY <1>12, <1>13, <1>14

(* and so is what WriteLBM leaves, whether the picture has a palette or gets the one that is given. *)
LEMMA LbmFileIs ==
  ASSUME Calm, client \in DOMAIN ItemsOf, Known, NEW given, WriteLBM(given), disk' # disk
  PROVE  LbmFileMade(disk')
<1>1. PICK img : img = archive[1] /\ Has(img, "image") /\ 1 \in DOMAIN archive
  BY DEF WriteLBM, Writes, Get, Has
<1>2. CASE img.pal # Null
  <2>1. LbmWritten(img, img.pal) /\ Painted(img) = img
    BY <1>1, <1>2 DEF WriteLBM, Get, Painted
  <2> QED BY <1>1, <2>1, LbmMade
<1>3. CASE img.pal = Null
  <2>1. LbmWritten(img, Given)
    BY <1>1, <1>3 DEF WriteLBM, Writes, Get
  <2>2. Painted(img).pal = Given
    BY <1>3 DEF Painted, Image
  <2> QED BY <1>1, <2>1, <2>2, LbmMade
<1> QED BY <1>2, <1>3

-------------------------------------------------------------------------------
(* Parts of a concatenation *)

(* What is behind s stays there, whatever is added. *)
Extends(r, s) == Len(s) =< Len(r) /\ \A i \in 1..Len(s) : r[i] = s[i]

(* A later step of a concatenation only adds to an earlier one. *)
LEMMA JoinsExtend ==
  ASSUME NEW T, NEW n, NEW s, NEW f, NEW k,
         n \in Nat, s \in [1..n -> Seq(T)], f \in [0..n -> Seq(T)], Joins(f, n, s), k \in 0..n
  PROVE  Extends(f[n], f[k])
<1> DEFINE P == {m \in 0..n : m >= k => Extends(f[m], f[k])}
<1>1. 0 \in P
  BY DEF Extends
<1>2. ASSUME NEW m \in 1..n, m - 1 \in P PROVE m \in P
  <2>1. CASE m < k
    BY <2>1
  <2>2. CASE m = k
    BY <2>2 DEF Extends
  <2>3. CASE m > k
    <3>1. m - 1 \in 0..n /\ m - 1 >= k
      BY <2>3
    <3>2. Extends(f[m - 1], f[k])
      BY <1>2, <3>1
    <3>3. f[m] = f[m - 1] \o s[m]
      BY DEF Joins
    <3>4. PICK a \in Seq(T), b \in Seq(T), c \in Seq(T) : a = f[m - 1] /\ b = s[m] /\ c = f[k]
      BY <3>1
    <3>5. Extends(a \o b, c)
      BY <3>2, <3>4 DEF Extends
    <3>6. Extends(f[m], f[k])
      BY <3>3, <3>4, <3>5
    <3> QED BY <3>6
  <2> QED BY <2>1, <2>2, <2>3
<1> HIDE DEF P
<1>3. 0..n \subseteq P
  BY <1>1, <1>2, SetInduction
<1>4. n \in P
  BY <1>3
<1> QED BY <1>4 DEF P

(* f joins the parts of s. *)
Parts(f, n, s, T) == n \in Nat /\ s \in [1..n -> Seq(T)] /\ f \in [0..n -> Seq(T)] /\ Joins(f, n, s)

(* Where part k is. *)
PartAt(f, n, s, k) ==
  /\ Len(f[k]) = Len(f[k - 1]) + Len(s[k]) /\ Len(f[k]) =< Len(f[n])
  /\ \A j \in 1..Len(s[k]) : f[n][Len(f[k - 1]) + j] = s[k][j]

(* Each part is there. *)
LEMMA PartsAt ==
  ASSUME NEW T, NEW n, NEW s, NEW f, NEW k, Parts(f, n, s, T), k \in 1..n
  PROVE  PartAt(f, n, s, k)
<1>0. n \in Nat /\ s \in [1..n -> Seq(T)] /\ f \in [0..n -> Seq(T)] /\ Joins(f, n, s)
  BY DEF Parts
<1>1. PICK a \in Seq(T), b \in Seq(T), c \in Seq(T), d \in Seq(T) : a = f[k - 1] /\ b = s[k] /\ c = f[k] /\ d = f[n]
  BY <1>0
<1>2. c = a \o b
  BY <1>0, <1>1 DEF Joins
<1>3. Extends(d, c)
  <2>1. k \in 0..n
    BY <1>0
  <2>2. Extends(f[n], f[k])
    BY <1>0, <2>1, JoinsExtend
  <2> QED BY <1>1, <2>2
<1>4. Len(c) = Len(a) + Len(b) /\ \A j \in 1..Len(b) : c[Len(a) + j] = b[j] /\ Len(a) + j \in 1..Len(c)
  BY <1>2
<1> QED BY <1>1, <1>3, <1>4 DEF Extends, PartAt
-------------------------------------------------------------------------------
(* The characters of a text in a file *)

(* A text without a character. *)
Lacks(s, c) == \A i \in 1..Len(s) : s[i] # c

(* What was read. *)
Closed(out) == [out |-> out, open |-> FALSE]
Opened(out) == [out |-> out, open |-> TRUE]

(* f has what Pairs has read of s after each character. *)
Reads(f, s, a, b, c) ==
  f[0] = Closed(<<>>) /\ \A k \in 1..Len(s) : f[k] = Paired(f[k - 1], s[k], a, b, c)

(* The first k of a sequence, and one more. *)
UpTo(s, k) == SubSeq(s, 1, k)
With(s, x) == Append(s, x)

(* The first of a sequence are taken one after the other. *)
LEMMA OneMore ==
  ASSUME NEW T, NEW s, NEW k, s \in Seq(T), k \in 1..Len(s)
  PROVE  UpTo(s, k) = With(UpTo(s, k - 1), s[k])
BY DEF UpTo, With

(* There are none before the first. *)
LEMMA NoneAll ==
  ASSUME NEW T, NEW s, s \in Seq(T)
  PROVE  UpTo(s, 0) = <<>> /\ UpTo(s, Len(s)) = s
BY DEF UpTo

(* What was put behind a sequence can be taken away. *)
LEMMA FrontOf ==
  ASSUME NEW T, NEW s, NEW x, s \in Seq(T), x \in T
  PROVE  Front(s) \in Seq(T) /\ Front(With(s, x)) = s
<1>1. Front(s) \in Seq(T)
  <2>1. CASE s = <<>>
    BY <2>1 DEF Front
  <2>2. CASE s # <<>>
    BY <2>2 DEF Front
  <2> QED BY <2>1, <2>2
<1>2. Front(With(s, x)) = s
  BY DEF Front, With
<1> QED BY <1>1, <1>2

(* How a character is read that is not the first of a pair, *)
LEMMA ReadsOther ==
  ASSUME NEW out, NEW x, NEW a, NEW b, NEW c, x # a
  PROVE  Paired(Closed(out), x, a, b, c) = Closed(With(out, x))
<1>1. Paired([out |-> out, open |-> FALSE], x, a, b, c) = [out |-> Append(out, x), open |-> x = a]
  BY DEF Paired
<1>2. (x = a) = FALSE
  OBVIOUS
<1>3. Paired([out |-> out, open |-> FALSE], x, a, b, c) = [out |-> Append(out, x), open |-> FALSE]
  BY <1>1, <1>2, Zenon
<1> QED BY <1>3, Zenon DEF Closed, With

(* one that is, *)
LEMMA ReadsFirst ==
  ASSUME NEW out, NEW a, NEW b, NEW c
  PROVE  Paired(Closed(out), a, a, b, c) = Opened(With(out, a))
<1>1. Paired([out |-> out, open |-> FALSE], a, a, b, c) = [out |-> Append(out, a), open |-> a = a]
  BY DEF Paired
<1>2. (a = a) = TRUE
  OBVIOUS
<1>3. Paired([out |-> out, open |-> FALSE], a, a, b, c) = [out |-> Append(out, a), open |-> TRUE]
  BY <1>1, <1>2, Zenon
<1> QED BY <1>3, Zenon DEF Closed, Opened, With

(* and one that closes it. *)
LEMMA ReadsSecond ==
  ASSUME NEW out, NEW a, NEW b, NEW c
  PROVE  Paired(Opened(out), b, a, b, c) = Closed(With(Front(out), c))
BY DEF Paired, Closed, Opened, With

(* Pairs reads its characters one after the other. *)
LEMMA PairsRead ==
  ASSUME NEW T, NEW s, NEW a, NEW b, NEW c, s \in Seq(T), c \in T
  PROVE  \E f : Reads(f, s, a, b, c) /\ Pairs(s, a, b, c) = f[Len(s)].out
<1>1. PICK n \in Nat : n = Len(s)
  OBVIOUS
<1>2. PICK S : S = [out : Seq(T), open : BOOLEAN]
  OBVIOUS
<1>3. PICK first \in S : first = Closed(<<>>)
  <2>1. <<>> \in Seq(T)
    OBVIOUS
  <2> QED BY <1>2, <2>1 DEF Closed
<1> DEFINE next == [k \in 1..n |-> [r \in S |-> Paired(r, s[k], a, b, c)]]
           Def(d) == d = [m \in 0..Len(s) |->
                            IF m = 0 THEN [out |-> <<>>, open |-> FALSE] ELSE Paired(d[m - 1], s[m], a, b, c)]
<1>4. next \in [1..n -> [S -> S]]
  <2>1. ASSUME NEW k \in 1..n, NEW r \in S PROVE Paired(r, s[k], a, b, c) \in S
    <3>1. PICK out \in Seq(T), open \in BOOLEAN, x \in T : r = [out |-> out, open |-> open] /\ x = s[k]
      BY <1>1, <1>2
    <3>2. Append(out, x) \in Seq(T) /\ Append(Front(out), c) \in Seq(T)
      <4>1. Front(out) \in Seq(T)
        BY <3>1, FrontOf
      <4> QED BY <3>1, <4>1
    <3>3. (x = a) \in BOOLEAN
      OBVIOUS
    <3> QED BY <1>2, <3>1, <3>2, <3>3 DEF Paired
  <2> QED BY <2>1
<1>5. \A k \in 1..n : \A r \in S : next[k][r] = Paired(r, s[k], a, b, c)
  OBVIOUS
<1> HIDE DEF next
<1>6. PICK f \in [0..n -> S] : Unfolds(f, n, first, next)
  BY <1>4, RecursionExists
<1>7. \A k \in 1..n : f[k] = Paired(f[k - 1], s[k], a, b, c)
  <2>1. \A k \in 1..n : k - 1 \in 0..n
    OBVIOUS
  <2> QED BY <1>5, <1>6, <2>1 DEF Unfolds
<1>16. Closed(<<>>) = [out |-> <<>>, open |-> FALSE]
  BY DEF Closed
<1>8. Def(f)
  <2>1. ASSUME NEW m \in 0..n
        PROVE  f[m] = IF m = 0 THEN [out |-> <<>>, open |-> FALSE] ELSE Paired(f[m - 1], s[m], a, b, c)
    <3>1. CASE m = 0
      BY <1>3, <1>6, <1>16, <3>1 DEF Unfolds
    <3>2. CASE m # 0
      <4>1. m \in 1..n
        BY <3>2
      <4> QED BY <1>7, <3>2, <4>1
    <3> QED BY <3>1, <3>2
  <2> QED BY <1>1, <2>1
<1>9. PICK d : Def(d) /\ Pairs(s, a, b, c) = d[Len(s)].out
  <2>1. Pairs(s, a, b, c) = (CHOOSE d : Def(d))[Len(s)].out
    BY Zenon DEF Pairs
  <2>2. Def(CHOOSE d : Def(d))
    BY <1>8, Zenon
  <2> QED BY <2>1, <2>2, Zenon
<1>10. \A m \in 0..n : d[m] = IF m = 0 THEN Closed(<<>>) ELSE Paired(d[m - 1], s[m], a, b, c)
  BY <1>1, <1>9, <1>16
<1> DEFINE P == {m \in 0..n : d[m] = f[m]}
<1>11. 0 \in P
  <2>1. 0 \in 0..n
    OBVIOUS
  <2>2. d[0] = Closed(<<>>)
    BY <1>10, <2>1
  <2>3. f[0] = Closed(<<>>)
    BY <1>3, <1>6 DEF Unfolds
  <2> QED BY <2>1, <2>2, <2>3
<1>12. ASSUME NEW m \in 1..n, m - 1 \in P PROVE m \in P
  <2>1. d[m - 1] = f[m - 1] /\ m \in 0..n /\ m # 0
    BY <1>12
  <2>2. d[m] = Paired(d[m - 1], s[m], a, b, c) /\ f[m] = Paired(f[m - 1], s[m], a, b, c)
    BY <1>7, <1>10, <2>1
  <2>3. d[m] = f[m]
    BY <2>1, <2>2
  <2> QED BY <2>1, <2>3
<1>13. n \in P
  <2> HIDE DEF P
  <2>1. 0..n \subseteq P
    BY <1>11, <1>12, SetInduction
  <2> QED BY <2>1
<1>14. Reads(f, s, a, b, c)
  <2>1. f[0] = Closed(<<>>)
    BY <1>3, <1>6 DEF Unfolds
  <2> QED BY <1>1, <1>7, <2>1 DEF Reads
<1>15. Pairs(s, a, b, c) = f[n].out
  BY <1>1, <1>9, <1>13
<1> QED BY <1>1, <1>14, <1>15

(* A text without the first of a pair stays. *)
LEMMA PairsNone ==
  ASSUME NEW T, NEW s, NEW a, NEW b, NEW c, s \in Seq(T), c \in T, Lacks(s, a)
  PROVE  Pairs(s, a, b, c) = s
<1>1. PICK f : Reads(f, s, a, b, c) /\ Pairs(s, a, b, c) = f[Len(s)].out
  BY PairsRead
<1>2. PICK n \in Nat : n = Len(s)
  OBVIOUS
<1>3. UpTo(s, 0) = <<>> /\ UpTo(s, n) = s
  BY <1>2, NoneAll
<1> DEFINE P == {k \in 0..n : f[k] = Closed(UpTo(s, k))}
<1>4. 0 \in P
  BY <1>1, <1>3 DEF Reads
<1>5. ASSUME NEW k \in 1..n, k - 1 \in P PROVE k \in P
  <2>1. f[k - 1] = Closed(UpTo(s, k - 1)) /\ f[k] = Paired(f[k - 1], s[k], a, b, c)
    BY <1>1, <1>2, <1>5 DEF Reads
  <2>2. s[k] # a
    BY <1>2 DEF Lacks
  <2>3. UpTo(s, k) = With(UpTo(s, k - 1), s[k])
    BY <1>2, OneMore
  <2>4. f[k] = Closed(UpTo(s, k))
    BY <2>1, <2>2, <2>3, ReadsOther
  <2> QED BY <2>4
<1> HIDE DEF P
<1>6. 0..n \subseteq P
  BY <1>4, <1>5, SetInduction
<1>7. n \in P
  BY <1>6
<1>8. f[n].out = UpTo(s, n)
  BY <1>7 DEF P, Closed
<1> QED BY <1>1, <1>2, <1>3, <1>8

(* What Each makes of its characters. *)
Pieces(s, c, r) == [i \in DOMAIN s |-> IF s[i] = c THEN r ELSE <<s[i]>>]

(* They are put one after the other. *)
LEMMA EachIs ==
  ASSUME NEW T, NEW s, NEW c, NEW r, s \in Seq(T), r \in Seq(T)
  PROVE  /\ Pieces(s, c, r) \in [1..Len(s) -> Seq(T)] /\ Each(s, c, r) = FlattenSeq(Pieces(s, c, r))
         /\ \A i \in 1..Len(s) : Pieces(s, c, r)[i] = IF s[i] = c THEN r ELSE <<s[i]>>
<1>1. DOMAIN s = 1..Len(s) /\ \A i \in 1..Len(s) : s[i] \in T /\ <<s[i]>> \in Seq(T)
  OBVIOUS
<1>2. Each(s, c, r) = FlattenSeq(Pieces(s, c, r))
  BY DEF Each, Pieces
<1> QED BY <1>1, <1>2 DEF Pieces

(* So there are steps to the whole. *)
LEMMA EachParts ==
  ASSUME NEW T, NEW s, NEW c, NEW r, s \in Seq(T), r \in Seq(T)
  PROVE  \E f : Parts(f, Len(s), Pieces(s, c, r), T) /\ Each(s, c, r) = f[Len(s)]
<1>1. PICK p : p = Pieces(s, c, r)
  OBVIOUS
<1>2. PICK n \in Nat : n = Len(s)
  OBVIOUS
<1>3. Each(s, c, r) = FlattenSeq(p)
  BY <1>1, EachIs
<1>4. p \in [1..n -> Seq(T)]
  BY <1>1, <1>2, EachIs
<1>5. PICK f \in [0..n -> Seq(T)] : Joins(f, n, p) /\ FlattenSeq(p) = f[n]
  BY <1>2, <1>4, Flattened
<1>6. Parts(f, n, p, T)
  BY <1>2, <1>4, <1>5 DEF Parts
<1> QED BY <1>1, <1>2, <1>3, <1>5, <1>6

(* A text without the character stays. *)
LEMMA EachNone ==
  ASSUME NEW T, NEW s, NEW c, NEW r, s \in Seq(T), r \in Seq(T), Lacks(s, c)
  PROVE  Each(s, c, r) = s
<1>1. PICK n \in Nat : n = Len(s)
  OBVIOUS
<1>10. PICK p : p = Pieces(s, c, r)
  OBVIOUS
<1>11. PICK f : Parts(f, Len(s), Pieces(s, c, r), T) /\ Each(s, c, r) = f[Len(s)]
  BY EachParts
<1>2. /\ Parts(f, n, p, T) /\ Each(s, c, r) = f[n]
      /\ \A i \in 1..n : p[i] = IF s[i] = c THEN r ELSE <<s[i]>>
  BY <1>1, <1>10, <1>11, EachIs
<1>3. UpTo(s, 0) = <<>> /\ UpTo(s, n) = s
  BY <1>1, NoneAll
<1> DEFINE P == {k \in 0..n : f[k] = UpTo(s, k)}
<1>4. 0 \in P
  BY <1>2, <1>3 DEF Parts, Joins
<1>5. ASSUME NEW k \in 1..n, k - 1 \in P PROVE k \in P
  <2>1. s[k] # c /\ s[k] \in T
    BY <1>1 DEF Lacks
  <2>2. p[k] = <<s[k]>>
    BY <1>2, <2>1
  <2>3. f[k - 1] = UpTo(s, k - 1)
    BY <1>5
  <2>4. f[k] = f[k - 1] \o p[k] /\ f[k - 1] \in Seq(T)
    <3>1. f \in [0..n -> Seq(T)] /\ k - 1 \in 0..n /\ Joins(f, n, p)
      BY <1>2 DEF Parts
    <3>2. f[k] = f[k - 1] \o p[k]
      BY <3>1, Zenon DEF Joins
    <3> QED BY <3>1, <3>2
  <2>5. ASSUME NEW u \in Seq(T), NEW x \in T PROVE u \o <<x>> = With(u, x)
    BY DEF With
  <2>6. f[k] = With(f[k - 1], s[k])
    BY <2>1, <2>2, <2>4, <2>5, Zenon
  <2>7. UpTo(s, k) = With(UpTo(s, k - 1), s[k])
    BY <1>1, OneMore
  <2>8. f[k] = UpTo(s, k)
    BY <2>3, <2>6, <2>7
  <2> QED BY <2>8
<1> HIDE DEF P
<1>6. 0..n \subseteq P
  BY <1>4, <1>5, SetInduction
<1>7. n \in P
  BY <1>6
<1>8. f[n] = UpTo(s, n)
  BY <1>7 DEF P
<1> QED BY <1>2, <1>3, <1>8

(* The pairs that stand for a character are read as it again. *)
LEMMA PairsOfEach ==
  ASSUME NEW T, NEW s, NEW a, NEW c, s \in Seq(T), a \in T, c \in T, Lacks(s, a)
  PROVE  Pairs(Each(s, c, <<a, a>>), a, a, c) = s
<1>0. PICK r \in Seq(T) : r = <<a, a>> /\ Len(r) = 2 /\ r[1] = a /\ r[2] = a
  <2>1. <<a, a>> \in Seq(T)
    OBVIOUS
  <2> QED BY <2>1
<1>1. PICK n \in Nat : n = Len(s)
  OBVIOUS
<1>10. PICK p : p = Pieces(s, c, r)
  OBVIOUS
<1>11. PICK f : Parts(f, Len(s), Pieces(s, c, r), T) /\ Each(s, c, r) = f[Len(s)]
  BY EachParts
<1>2. /\ Parts(f, n, p, T) /\ Each(s, c, r) = f[n]
      /\ \A i \in 1..n : p[i] = IF s[i] = c THEN r ELSE <<s[i]>>
  BY <1>1, <1>10, <1>11, EachIs
<1>3. UpTo(s, 0) = <<>> /\ UpTo(s, n) = s
  BY <1>1, NoneAll
<1>4. PICK u \in Seq(T) : u = f[n]
  BY <1>2 DEF Parts
<1>5. PICK g : Reads(g, u, a, a, c) /\ Pairs(u, a, a, c) = g[Len(u)].out
  BY PairsRead
<1> DEFINE P == {k \in 0..n : g[Len(f[k])] = Closed(UpTo(s, k))}
<1>6. 0 \in P
  <2>1. f[0] = <<>>
    BY <1>2 DEF Parts, Joins
  <2>2. Len(f[0]) = 0
    BY <2>1
  <2> QED BY <1>3, <1>5, <2>2 DEF Reads
<1>7. ASSUME NEW k \in 1..n, k - 1 \in P PROVE k \in P
  <2>1. s[k] # a /\ s[k] \in T
    BY <1>1 DEF Lacks
  <2>2. PICK l \in Nat, m \in Nat : l = Len(f[k - 1]) /\ m = Len(u)
    <3>1. f[k - 1] \in Seq(T)
      BY <1>2 DEF Parts
    <3> QED BY <3>1
  <2>3. PartAt(f, n, p, k)
    BY <1>2, PartsAt
  <2>4. Len(f[k]) = l + Len(p[k]) /\ Len(f[k]) =< m
    BY <1>4, <2>2, <2>3 DEF PartAt
  <2>5. \A j \in 1..Len(p[k]) : u[l + j] = p[k][j]
    BY <1>4, <2>2, <2>3 DEF PartAt
  <2>6. PICK b \in Seq(T) : b = UpTo(s, k - 1)
    <3>1. SubSeq(s, 1, k - 1) \in Seq(T)
      BY <1>1
    <3> QED BY <3>1, Zenon DEF UpTo
  <2>7. UpTo(s, k) = With(b, s[k])
    BY <1>1, <2>6, OneMore
  <2>8. g[l] = Closed(b)
    BY <1>7, <2>2, <2>6
  <2>9. \A j \in 1..m : g[j] = Paired(g[j - 1], u[j], a, a, c)
    BY <1>5, <2>2 DEF Reads
  <2>10. CASE s[k] = c
    <3>1. p[k] = r
      BY <1>2, <2>10
    <3>2. Len(f[k]) = l + 2 /\ l + 2 =< m
      BY <1>0, <2>4, <3>1
    <3>3. u[l + 1] = a /\ u[l + 2] = a
      BY <1>0, <2>5, <3>1
    <3>4. g[l + 1] = Paired(g[l], a, a, a, c)
      <4>1. l + 1 \in 1..m /\ (l + 1) - 1 = l
        BY <3>2
      <4> QED BY <2>9, <3>3, <4>1
    <3>5. g[l + 2] = Paired(g[l + 1], a, a, a, c)
      <4>1. l + 2 \in 1..m /\ (l + 2) - 1 = l + 1
        BY <3>2
      <4> QED BY <2>9, <3>3, <4>1
    <3>6. g[l + 1] = Opened(With(b, a))
      BY <2>8, <3>4, ReadsFirst
    <3>7. Front(With(b, a)) = b
      BY FrontOf
    <3>8. g[l + 2] = Closed(With(b, c))
      BY <3>5, <3>6, <3>7, ReadsSecond
    <3>9. g[Len(f[k])] = Closed(UpTo(s, k))
      BY <2>7, <2>10, <3>2, <3>8
    <3> QED BY <3>9
  <2>11. CASE s[k] # c
    <3>1. p[k] = <<s[k]>>
      BY <1>2, <2>11
    <3>2. Len(p[k]) = 1 /\ p[k][1] = s[k]
      BY <3>1
    <3>3. Len(f[k]) = l + 1 /\ l + 1 =< m
      BY <2>4, <3>2
    <3>4. u[l + 1] = s[k]
      BY <2>5, <3>2
    <3>5. g[l + 1] = Paired(g[l], s[k], a, a, c)
      <4>1. l + 1 \in 1..m /\ (l + 1) - 1 = l
        BY <3>3
      <4> QED BY <2>9, <3>4, <4>1
    <3>6. g[l + 1] = Closed(With(b, s[k]))
      BY <2>1, <2>8, <3>5, ReadsOther
    <3>7. g[Len(f[k])] = Closed(UpTo(s, k))
      BY <2>7, <3>3, <3>6
    <3> QED BY <3>7
  <2> QED BY <2>10, <2>11
<1> HIDE DEF P
<1>8. 0..n \subseteq P
  BY <1>6, <1>7, SetInduction
<1>9. n \in P
  BY <1>8
<1>12. g[Len(u)].out = UpTo(s, n)
  BY <1>4, <1>9 DEF P, Closed
<1> QED BY <1>0, <1>2, <1>3, <1>4, <1>5, <1>12

-------------------------------------------------------------------------------
(* A clean text is read as it was written *)

FileChars == (0..255) \union {ToOem[c] : c \in 0..255}

(* The characters that the file has, and what they are there. *)
GoodChars == {c \in 0..255 : ToOem[c] # NUL /\ ToAnsi[ToOem[c]] = c}

(* Line feeds and at signs are such characters. *)
LEMMA GoodOnes == LF \in GoodChars /\ AT \in GoodChars /\ CR \in 0..255 /\ LF \in 0..255 /\ AT \in 0..255
<1>1. \A c \in 0..128 : ToOem[c] = c /\ ToAnsi[c] = c
  BY TextAssumption
<1> QED BY <1>1 DEF GoodChars, LF, AT, CR, NUL

(* Each gives a text of the same characters, and those it puts there. *)
LEMMA EachSeq ==
  ASSUME NEW T, NEW s, NEW c, NEW r, s \in Seq(T), r \in Seq(T)
  PROVE  Each(s, c, r) \in Seq(T)
<1>1. PICK f : Parts(f, Len(s), Pieces(s, c, r), T) /\ Each(s, c, r) = f[Len(s)]
  BY EachParts
<1>2. Len(s) \in 0..Len(s)
  OBVIOUS
<1> QED BY <1>1, <1>2 DEF Parts

(* A sequence of some is one of more. *)
LEMMA SeqWithin ==
  ASSUME NEW S, NEW T, NEW s, s \in Seq(S), S \subseteq T
  PROVE  s \in Seq(T)
OBVIOUS

(* What is in the file of a text. *)
LEMMA FileTextSeq ==
  ASSUME NEW s, NEW conv, s \in Seq(0..255)
  PROVE  FileText(s, conv) \in Seq(FileChars)
<1>1. CASE ~conv
  <2>1. FileText(s, conv) = s
    BY <1>1 DEF FileText
  <2>2. 0..255 \subseteq FileChars
    BY DEF FileChars
  <2> QED BY <2>1, <2>2, SeqWithin
<1>2. CASE conv
  <2>1. PICK u : u = Each(s, LF, <<AT, AT>>)
    OBVIOUS
  <2>2. PICK r \in Seq(0..255) : r = <<AT, AT>>
    <3>1. <<AT, AT>> \in Seq(0..255)
      BY DEF AT
    <3> QED BY <3>1
  <2>3. u \in Seq(0..255)
    BY <2>1, <2>2, EachSeq
  <2>4. FileText(s, conv) = [i \in DOMAIN u |-> ToOem[u[i]]]
    BY <1>2, <2>1 DEF FileText, Through
  <2>5. PICK T : T = FileChars
    OBVIOUS
  <2>6. \A c \in 0..255 : ToOem[c] \in T
    BY <2>5 DEF FileChars
  <2>7. [i \in DOMAIN u |-> ToOem[u[i]]] \in Seq(T)
    <3>1. PICK n \in Nat : n = Len(u) /\ DOMAIN u = 1..n
      BY <2>3
    <3>2. \A i \in 1..n : u[i] \in 0..255
      BY <2>3, <3>1
    <3>3. \A i \in 1..n : ToOem[u[i]] \in T
      BY <2>6, <3>2
    <3>4. [i \in 1..n |-> ToOem[u[i]]] \in Seq(T)
      BY <3>3
    <3> QED BY <3>1, <3>4
  <2> QED BY <2>4, <2>5, <2>7
<1> QED BY <1>1, <1>2

(* With at signs for line feeds, *)
LEMMA OemBack ==
  ASSUME NEW s, NEW conv, s \in Seq(0..255), conv, Clean(s, conv)
  PROVE  Converted(FileText(s, conv), conv) = s /\ Lacks(FileText(s, conv), NUL)
<1>1. PICK T : T = GoodChars
  OBVIOUS
<1>2. s \in Seq(T) /\ Lacks(s, AT) /\ Lacks(s, CR)
  <2>1. \A i \in 1..Len(s) : s[i] \in 0..255 /\ s[i] # CR /\ s[i] # AT /\ ToOem[s[i]] # NUL /\ ToAnsi[ToOem[s[i]]] = s[i]
    BY DEF Clean
  <2>2. \A i \in 1..Len(s) : s[i] \in T
    BY <1>1, <2>1 DEF GoodChars
  <2>3. s \in Seq(T)
    BY <2>2
  <2> QED BY <2>1, <2>3 DEF Lacks
<1>3. AT \in T /\ LF \in T
  BY <1>1, GoodOnes
<1>4. PICK r \in Seq(T) : r = <<AT, AT>>
  <2>1. <<AT, AT>> \in Seq(T)
    BY <1>3
  <2> QED BY <2>1
<1>5. PICK u : u = Each(s, LF, <<AT, AT>>)
  OBVIOUS
<1>6. u \in Seq(T)
  BY <1>2, <1>4, <1>5, EachSeq
<1>7. PICK w : w = [i \in 1..Len(u) |-> ToOem[u[i]]]
  OBVIOUS
<1>8. FileText(s, conv) = w
  BY <1>5, <1>6, <1>7 DEF FileText, Through
<1>9. Through(ToAnsi, w) = u
  <2>1. \A i \in 1..Len(u) : ToAnsi[w[i]] = u[i]
    BY <1>1, <1>6, <1>7 DEF GoodChars
  <2>2. DOMAIN w = 1..Len(u)
    BY <1>7
  <2>3. u = [i \in 1..Len(u) |-> u[i]]
    BY <1>6
  <2> QED BY <2>1, <2>2, <2>3 DEF Through
<1>10. Pairs(u, AT, AT, LF) = s
  BY <1>2, <1>3, <1>5, PairsOfEach
<1>11. Each(s, CR, <<LF>>) = s
  <2>1. <<LF>> \in Seq(T)
    BY <1>3
  <2> QED BY <1>2, <2>1, EachNone
<1>12. Converted(w, conv) = s
  BY <1>9, <1>10, <1>11 DEF Converted
<1>13. Lacks(w, NUL)
  <2>1. \A i \in 1..Len(u) : ToOem[u[i]] # NUL
    BY <1>1, <1>6 DEF GoodChars
  <2>2. Len(w) = Len(u)
    BY <1>6, <1>7
  <2> QED BY <1>7, <2>1, <2>2 DEF Lacks
<1> QED BY <1>8, <1>12, <1>13

(* and as it is. *)
LEMMA AnsiBack ==
  ASSUME NEW s, NEW conv, s \in Seq(0..255), ~conv, Clean(s, conv)
  PROVE  Converted(FileText(s, conv), conv) = s /\ Lacks(FileText(s, conv), NUL)
<1>1. Lacks(s, CR) /\ Lacks(s, NUL)
  BY DEF Clean, Lacks
<1>2. PICK T : T = 0..255
  OBVIOUS
<1>3. s \in Seq(T) /\ LF \in T
  BY <1>2, GoodOnes
<1>4. Pairs(s, CR, LF, LF) = s
  BY <1>1, <1>3, PairsNone
<1>5. Each(s, CR, <<LF>>) = s
  <2>1. <<LF>> \in Seq(T)
    BY <1>3
  <2> QED BY <1>1, <1>3, <2>1, EachNone
<1> QED BY <1>1, <1>4, <1>5 DEF Converted, FileText

-------------------------------------------------------------------------------
(* Where WriteTXT puts the texts *)

(* A text that is stored, and what is known when some are. *)
TextPlaces == [s : Seq(FileChars), at : Nat]
LaidOut    == [starts : Seq(Nat), texts : Seq(TextPlaces), cur : Nat]

IsEntry(x) == x = Null \/ IsText(x)

(* The place of a text that is there already. *)
OldPlace(texts, s) == SelectInSeq(texts, LAMBDA e : s # <<>> /\ e.s = s)

(* It is that of the same text. *)
LEMMA OldPlaceIs ==
  ASSUME NEW texts, NEW s, texts \in Seq(TextPlaces)
  PROVE  OldPlace(texts, s) = 0 \/ (OldPlace(texts, s) \in 1..Len(texts) /\ texts[OldPlace(texts, s)].s = s)
<1>1. PICK I : I = {i \in 1..Len(texts) : s # <<>> /\ texts[i].s = s}
  OBVIOUS
<1>2. OldPlace(texts, s) = IF I # {} THEN Min(I) ELSE 0
  BY <1>1 DEF OldPlace, SelectInSeq
<1>3. PICK n \in Nat : n = Len(texts)
  OBVIOUS
<1>4. I \subseteq 1..n
  BY <1>1, <1>3
<1>5. OldPlace(texts, s) # 0 => OldPlace(texts, s) \in I
  BY <1>2, <1>3, <1>4, FirstOf
<1> QED BY <1>1, <1>5

(* A text is put behind the others, but one that is there. *)
PutBehind(acc, s) ==
  [starts |-> Append(acc.starts, acc.cur), texts |-> Append(acc.texts, [s |-> s, at |-> acc.cur]),
   cur |-> acc.cur + Room(s)]
StartsAt(acc, at) == [acc EXCEPT !.starts = Append(@, at)]

(* The three ways of an entry. *)
LEMMA StoredWays ==
  ASSUME NEW acc, NEW x, NEW conv
  PROVE  /\ x = Null => Stored(acc, x, conv) = StartsAt(acc, 0)
         /\ x # Null /\ OldPlace(acc.texts, FileText(x.v, conv)) # 0 =>
              Stored(acc, x, conv) = StartsAt(acc, acc.texts[OldPlace(acc.texts, FileText(x.v, conv))].at)
         /\ x # Null /\ OldPlace(acc.texts, FileText(x.v, conv)) = 0 =>
              Stored(acc, x, conv) = PutBehind(acc, FileText(x.v, conv))
BY Zenon DEF Stored, StartsAt, PutBehind, OldPlace

(* Text j of a layout of n entries ends before the next. *)
EndOf(l, n, j) == IF j = 0 THEN 4 * n ELSE l.texts[j].at + Len(l.texts[j].s) + 1

(* The texts are behind each other. *)
Contiguous(l, n) ==
  /\ \A j \in 1..Len(l.texts) : l.texts[j].at = EndOf(l, n, j - 1) /\ l.texts[j].at >= 4 * n
  /\ l.cur = EndOf(l, n, Len(l.texts)) /\ l.cur >= 4 * n

HasText(l, at, s) == \E j \in 1..Len(l.texts) : l.texts[j].at = at /\ l.texts[j].s = s

(* The first k entries have their texts. *)
EntriesAt(l, a, conv, k) ==
  /\ Len(l.starts) = k
  /\ \A i \in 1..k : IF a[i] = Null THEN l.starts[i] = 0 ELSE HasText(l, l.starts[i], FileText(a[i].v, conv))

(* Adding to a layout. *)
LEMMA PutIs ==
  ASSUME NEW l, NEW n, NEW s, l \in LaidOut, n \in Nat, s \in Seq(FileChars), Contiguous(l, n)
  PROVE  /\ PutBehind(l, s) \in LaidOut /\ Contiguous(PutBehind(l, s), n)
         /\ PutBehind(l, s).starts = Append(l.starts, l.cur)
         /\ HasText(PutBehind(l, s), l.cur, s)
         /\ \A at, t : HasText(l, at, t) => HasText(PutBehind(l, s), at, t)
<1>1. PICK T : T = TextPlaces
  OBVIOUS
<1>2. PICK starts \in Seq(Nat), texts \in Seq(T), cur \in Nat :
        l.starts = starts /\ l.texts = texts /\ l.cur = cur /\ l = [starts |-> starts, texts |-> texts, cur |-> cur]
  BY <1>1 DEF LaidOut
<1>3. PICK x : x = [s |-> s, at |-> cur]
  OBVIOUS
<1>4. Len(s) \in Nat /\ x.s = s /\ x.at = cur /\ x \in T
  BY <1>1, <1>3 DEF TextPlaces
<1>5. PICK r : r = PutBehind(l, s)
  OBVIOUS
<1>6. r.starts = Append(starts, cur) /\ r.texts = Append(texts, x) /\ r.cur = cur + (Len(s) + 1)
      /\ r = [starts |-> Append(starts, cur), texts |-> Append(texts, x), cur |-> cur + (Len(s) + 1)]
  BY <1>2, <1>3, <1>5, Zenon DEF PutBehind, Room
<1>7. r \in LaidOut
  <2>1. Append(starts, cur) \in Seq(Nat)
    BY <1>2
  <2>2. Append(texts, x) \in Seq(T)
    BY <1>2, <1>4
  <2>3. cur + (Len(s) + 1) \in Nat
    BY <1>2, <1>4
  <2> QED BY <1>1, <1>6, <2>1, <2>2, <2>3 DEF LaidOut
<1>8. PICK m \in Nat : m = Len(texts)
  BY <1>2
<1>9. PICK more : more = Append(texts, x)
  OBVIOUS
<1>10. Len(more) = m + 1 /\ more[m + 1] = x /\ \A j \in 1..m : more[j] = texts[j]
  BY <1>2, <1>4, <1>8, <1>9
<1>11. r.texts = more
  BY <1>6, <1>9
<1>12. Contiguous(r, n)
  <2>1. /\ \A j \in 1..m : texts[j].at = EndOf(l, n, j - 1) /\ texts[j].at >= 4 * n
        /\ cur = EndOf(l, n, m) /\ cur >= 4 * n
    BY <1>2, <1>8 DEF Contiguous
  <2>2. ASSUME NEW j \in 0..m PROVE EndOf(r, n, j) = EndOf(l, n, j)
    BY <1>2, <1>10, <1>11 DEF EndOf
  <2>3. EndOf(r, n, m + 1) = cur + Len(s) + 1
    BY <1>4, <1>10, <1>11 DEF EndOf
  <2>4. r.cur = EndOf(r, n, m + 1) /\ r.cur >= 4 * n
    BY <1>4, <1>6, <2>1, <2>3
  <2>5. ASSUME NEW j \in 1..(m + 1) PROVE more[j].at = EndOf(r, n, j - 1) /\ more[j].at >= 4 * n
    <3>1. CASE j = m + 1
      <4>1. EndOf(r, n, m) = cur /\ (m + 1) - 1 = m
        BY <2>1, <2>2
      <4> QED BY <1>4, <1>10, <2>1, <3>1, <4>1
    <3>2. CASE j # m + 1
      <4>1. j \in 1..m /\ j - 1 \in 0..m
        BY <3>2
      <4>2. EndOf(r, n, j - 1) = EndOf(l, n, j - 1)
        BY <2>2, <4>1
      <4> QED BY <1>10, <2>1, <4>1, <4>2
    <3> QED BY <3>1, <3>2
  <2> QED BY <1>10, <1>11, <2>4, <2>5 DEF Contiguous
<1>13. HasText(r, cur, s)
  <2>1. m + 1 \in 1..Len(more) /\ more[m + 1].at = cur /\ more[m + 1].s = s
    BY <1>4, <1>10
  <2> QED BY <1>11, <2>1 DEF HasText
<1>14. ASSUME NEW at, NEW t, HasText(l, at, t) PROVE HasText(r, at, t)
  <2>1. PICK j \in 1..m : texts[j].at = at /\ texts[j].s = t
    BY <1>2, <1>8, <1>14 DEF HasText
  <2>2. j \in 1..Len(more) /\ more[j].at = at /\ more[j].s = t
    BY <1>10, <2>1
  <2> QED BY <1>11, <2>2 DEF HasText
<1> QED BY <1>2, <1>5, <1>6, <1>7, <1>12, <1>13, <1>14

(* Adding no text. *)
LEMMA StartsIs ==
  ASSUME NEW l, NEW n, NEW at, l \in LaidOut, n \in Nat, at \in Nat, Contiguous(l, n)
  PROVE  /\ StartsAt(l, at) \in LaidOut /\ Contiguous(StartsAt(l, at), n)
         /\ StartsAt(l, at).starts = Append(l.starts, at)
         /\ \A b, t : HasText(l, b, t) => HasText(StartsAt(l, at), b, t)
<1>1. PICK T : T = TextPlaces
  OBVIOUS
<1>2. PICK starts \in Seq(Nat), texts \in Seq(T), cur \in Nat :
        l.starts = starts /\ l.texts = texts /\ l.cur = cur /\ l = [starts |-> starts, texts |-> texts, cur |-> cur]
  BY <1>1 DEF LaidOut
<1>3. PICK r : r = StartsAt(l, at)
  OBVIOUS
<1>4. r = [starts |-> Append(starts, at), texts |-> texts, cur |-> cur]
  BY <1>2, <1>3 DEF StartsAt
<1>5. r.starts = Append(starts, at) /\ r.texts = texts /\ r.cur = cur
  BY <1>4
<1>6. r \in LaidOut
  <2>1. Append(starts, at) \in Seq(Nat)
    BY <1>2
  <2> QED BY <1>1, <1>2, <1>4, <2>1 DEF LaidOut
<1>7. \A j : EndOf(r, n, j) = EndOf(l, n, j)
  BY <1>2, <1>5, Zenon DEF EndOf
<1>8. Contiguous(r, n)
  BY <1>2, <1>5, <1>7 DEF Contiguous
<1>9. ASSUME NEW b, NEW t, HasText(l, b, t) PROVE HasText(r, b, t)
  BY <1>2, <1>5, <1>9 DEF HasText
<1> QED BY <1>2, <1>3, <1>5, <1>6, <1>8, <1>9

(* An entry is stored where its text is. *)
StoredAt(l, x, conv, r, at) ==
  /\ r.starts = Append(l.starts, at)
  /\ IF x = Null THEN at = 0 ELSE HasText(r, at, FileText(x.v, conv))
  /\ \A b, t : HasText(l, b, t) => HasText(r, b, t)

(* Storing an entry. *)
LEMMA EntryStored ==
  ASSUME NEW l, NEW n, NEW x, NEW conv, l \in LaidOut, n \in Nat, IsEntry(x), Contiguous(l, n)
  PROVE  /\ Stored(l, x, conv) \in LaidOut /\ Contiguous(Stored(l, x, conv), n)
         /\ \E at \in Nat : StoredAt(l, x, conv, Stored(l, x, conv), at)
<1>1. PICK r : r = Stored(l, x, conv)
  OBVIOUS
<1>2. l.cur \in Nat /\ l.texts \in Seq(TextPlaces)
  BY DEF LaidOut
<1>3. CASE x = Null
  <2>1. r = StartsAt(l, 0)
    BY <1>1, <1>3, StoredWays
  <2>2. 0 \in Nat
    OBVIOUS
  <2>3. r \in LaidOut /\ Contiguous(r, n) /\ r.starts = Append(l.starts, 0) /\ \A b, t : HasText(l, b, t) => HasText(r, b, t)
    BY <2>1, <2>2, StartsIs
  <2>4. StoredAt(l, x, conv, r, 0)
    BY <1>3, <2>3 DEF StoredAt
  <2> QED BY <1>1, <2>3, <2>4
<1>4. CASE x # Null
  <2>1. x.v \in Seq(0..255)
    BY <1>4 DEF IsEntry, IsText
  <2>2. PICK s \in Seq(FileChars) : s = FileText(x.v, conv)
    BY <2>1, FileTextSeq
  <2>3. PICK old : old = OldPlace(l.texts, s)
    OBVIOUS
  <2>4. CASE old = 0
    <3>1. r = PutBehind(l, s)
      BY <1>1, <1>4, <2>2, <2>3, <2>4, StoredWays
    <3>2. /\ r \in LaidOut /\ Contiguous(r, n) /\ r.starts = Append(l.starts, l.cur) /\ HasText(r, l.cur, s)
          /\ \A b, t : HasText(l, b, t) => HasText(r, b, t)
      BY <3>1, PutIs
    <3>3. StoredAt(l, x, conv, r, l.cur)
      BY <1>4, <2>2, <3>2 DEF StoredAt
    <3> QED BY <1>1, <1>2, <3>2, <3>3
  <2>5. CASE old # 0
    <3>1. old \in 1..Len(l.texts) /\ l.texts[old].s = s
      BY <1>2, <2>3, <2>5, OldPlaceIs
    <3>2. PICK at : at = l.texts[old].at
      OBVIOUS
    <3>3. at \in Nat
      <4>1. l.texts[old] \in TextPlaces
        BY <1>2, <3>1
      <4> QED BY <3>2, <4>1 DEF TextPlaces
    <3>4. r = StartsAt(l, at)
      BY <1>1, <1>4, <2>2, <2>3, <2>5, <3>2, StoredWays
    <3>5. r \in LaidOut /\ Contiguous(r, n) /\ r.starts = Append(l.starts, at) /\ \A b, t : HasText(l, b, t) => HasText(r, b, t)
      BY <3>3, <3>4, StartsIs
    <3>6. HasText(l, at, s)
      BY <3>1, <3>2 DEF HasText
    <3>7. StoredAt(l, x, conv, r, at)
      BY <1>4, <2>2, <3>5, <3>6 DEF StoredAt
    <3> QED BY <1>1, <3>3, <3>5, <3>7
  <2> QED BY <2>4, <2>5
<1> QED BY <1>3, <1>4

(* One entry more has its text. *)
LEMMA EntriesGrow ==
  ASSUME NEW l, NEW r, NEW a, NEW conv, NEW k, NEW at, l \in LaidOut, r \in LaidOut, k \in Nat \ {0}, at \in Nat,
         EntriesAt(l, a, conv, k - 1), StoredAt(l, a[k], conv, r, at)
  PROVE  EntriesAt(r, a, conv, k)
<1>1. PICK starts \in Seq(Nat) : l.starts = starts
  BY DEF LaidOut
<1>2. r.starts = Append(starts, at) /\ Len(starts) = k - 1
  BY <1>1 DEF StoredAt, EntriesAt
<1>3. PICK more : more = Append(starts, at)
  OBVIOUS
<1>4. Len(more) = k /\ more[k] = at /\ \A i \in 1..(k - 1) : more[i] = starts[i]
  BY <1>1, <1>2, <1>3
<1>5. ASSUME NEW i \in 1..k
      PROVE  IF a[i] = Null THEN more[i] = 0 ELSE HasText(r, more[i], FileText(a[i].v, conv))
  <2>1. CASE i = k
    BY <1>4, <2>1 DEF StoredAt
  <2>2. CASE i # k
    <3>1. i \in 1..(k - 1)
      BY <2>2
    <3>2. IF a[i] = Null THEN starts[i] = 0 ELSE HasText(l, starts[i], FileText(a[i].v, conv))
      BY <1>1, <3>1 DEF EntriesAt
    <3>3. \A b, t : HasText(l, b, t) => HasText(r, b, t)
      BY DEF StoredAt
    <3>4. more[i] = starts[i]
      BY <1>4, <3>1
    <3> QED BY <3>2, <3>3, <3>4
  <2> QED BY <2>1, <2>2
<1> QED BY <1>2, <1>3, <1>4, <1>5 DEF EntriesAt

(* What Layout begins with. *)
FirstLaid(n) == [starts |-> <<>>, texts |-> <<>>, cur |-> 4 * n]

(* It has no text. *)
LEMMA FirstLaidIs ==
  ASSUME NEW n, NEW a, NEW conv, n \in Nat
  PROVE  FirstLaid(n) \in LaidOut /\ Contiguous(FirstLaid(n), n) /\ EntriesAt(FirstLaid(n), a, conv, 0)
<1>1. PICK l : l = FirstLaid(n)
  OBVIOUS
<1>2. l.starts = <<>> /\ l.texts = <<>> /\ l.cur = 4 * n
  BY <1>1 DEF FirstLaid
<1>3. <<>> \in Seq(Nat) /\ <<>> \in Seq(TextPlaces) /\ 4 * n \in Nat
  OBVIOUS
<1>4. l \in LaidOut
  BY <1>1, <1>3 DEF LaidOut, FirstLaid
<1>5. Len(l.texts) = 0 /\ Len(l.starts) = 0
  BY <1>2
<1>6. Contiguous(l, n)
  BY <1>2, <1>5 DEF Contiguous, EndOf
<1>7. EntriesAt(l, a, conv, 0)
  BY <1>5 DEF EntriesAt
<1> QED BY <1>1, <1>4, <1>6, <1>7

(* What the layout of an archive is. *)
LEMMA LayoutIs ==
  ASSUME NEW a, NEW conv, IsSeq(a), \A i \in 1..Len(a) : IsEntry(a[i])
  PROVE  /\ Layout(a, conv) \in LaidOut /\ Contiguous(Layout(a, conv), Len(a))
         /\ EntriesAt(Layout(a, conv), a, conv, Len(a))
<1>1. PICK n \in Nat : n = Len(a)
  BY DEF IsSeq
<1>2. PICK S : S = {l \in LaidOut : Contiguous(l, n)}
  OBVIOUS
<1>3. PICK first : first = FirstLaid(n)
  OBVIOUS
<1>4. first \in S
  BY <1>2, <1>3, FirstLaidIs
<1> DEFINE next == [k \in 1..n |-> [l \in S |-> Stored(l, a[k], conv)]]
           Def(d) == d = [m \in 0..Len(a) |->
                            IF m = 0 THEN [starts |-> <<>>, texts |-> <<>>, cur |-> 4 * Len(a)]
                            ELSE Stored(d[m - 1], a[m], conv)]
<1>5. \A k \in 1..n : IsEntry(a[k])
  BY <1>1
<1>6. ASSUME NEW k \in 1..n, NEW l \in S
      PROVE  Stored(l, a[k], conv) \in S /\ \E at \in Nat : StoredAt(l, a[k], conv, Stored(l, a[k], conv), at)
  BY <1>2, <1>5, EntryStored
<1>7. next \in [1..n -> [S -> S]]
  BY <1>6
<1>8. \A k \in 1..n : \A l \in S : next[k][l] = Stored(l, a[k], conv)
  OBVIOUS
<1> HIDE DEF next
<1>9. PICK f \in [0..n -> S] : Unfolds(f, n, first, next)
  BY <1>4, <1>7, RecursionExists
<1>10. f[0] = first /\ \A k \in 1..n : f[k - 1] \in S /\ f[k] = Stored(f[k - 1], a[k], conv)
  <2>1. \A k \in 1..n : k - 1 \in 0..n
    OBVIOUS
  <2> QED BY <1>8, <1>9, <2>1 DEF Unfolds
<1>11. first = [starts |-> <<>>, texts |-> <<>>, cur |-> 4 * Len(a)]
  BY <1>1, <1>3, Zenon DEF FirstLaid
<1>12. Def(f)
  <2>1. ASSUME NEW m \in 0..n PROVE f[m] = IF m = 0 THEN first ELSE Stored(f[m - 1], a[m], conv)
    <3>1. CASE m = 0
      BY <1>10, <3>1
    <3>2. CASE m # 0
      <4>1. m \in 1..n
        BY <3>2
      <4> QED BY <1>10, <3>2, <4>1
    <3> QED BY <3>1, <3>2
  <2>2. f = [m \in 0..n |-> IF m = 0 THEN first ELSE Stored(f[m - 1], a[m], conv)]
    BY <2>1
  <2> QED BY <1>1, <1>11, <2>2, Zenon
<1>13. PICK d : Def(d) /\ Layout(a, conv) = d[Len(a)]
  <2>1. Layout(a, conv) = (CHOOSE d : Def(d))[Len(a)]
    BY Zenon DEF Layout
  <2>2. Def(CHOOSE d : Def(d))
    BY <1>12, Zenon
  <2> QED BY <2>1, <2>2, Zenon
<1>14. \A m \in 0..n : d[m] = IF m = 0 THEN first ELSE Stored(d[m - 1], a[m], conv)
  <2>1. d = [m \in 0..n |-> IF m = 0 THEN first ELSE Stored(d[m - 1], a[m], conv)]
    BY <1>1, <1>11, <1>13, Zenon
  <2> QED BY <2>1
<1> HIDE DEF Def
<1> DEFINE P == {m \in 0..n : d[m] \in S /\ EntriesAt(d[m], a, conv, m)}
<1>15. 0 \in P
  <2>1. d[0] = first /\ EntriesAt(first, a, conv, 0)
    BY <1>3, <1>14, FirstLaidIs
  <2> QED BY <1>4, <2>1
<1>16. ASSUME NEW m \in 1..n, m - 1 \in P PROVE m \in P
  <2>1. PICK l \in S : l = d[m - 1] /\ EntriesAt(l, a, conv, m - 1)
    BY <1>16
  <2>2. PICK r : r = Stored(l, a[m], conv)
    OBVIOUS
  <2>3. d[m] = r
    BY <1>14, <2>1, <2>2
  <2>4. r \in S
    BY <1>6, <2>2
  <2>5. PICK at \in Nat : StoredAt(l, a[m], conv, r, at)
    BY <1>6, <2>2
  <2>6. EntriesAt(r, a, conv, m)
    <3>1. l \in LaidOut /\ r \in LaidOut /\ m \in Nat \ {0}
      BY <1>2, <2>4
    <3> QED BY <2>1, <2>5, <3>1, EntriesGrow
  <2> QED BY <2>3, <2>4, <2>6
<1> HIDE DEF P
<1>17. 0..n \subseteq P
  BY <1>15, <1>16, SetInduction
<1>18. n \in P
  BY <1>17
<1>19. d[n] \in LaidOut /\ Contiguous(d[n], n) /\ EntriesAt(d[n], a, conv, n)
  BY <1>2, <1>18 DEF P
<1> QED BY <1>1, <1>13, <1>19

-------------------------------------------------------------------------------
(* The data of a table *)

(* The bytes of a text, with its terminator. *)
FileTokens  == {Char(c) : c \in FileChars}
Stretch(s) == Chars(Append(s, NUL))

CharsIn(tok, b, s) == (\A i \in 1..Len(s) : tok[b + i].v = s[i]) /\ tok[b + Len(s) + 1].v = NUL

(* They are as many, and one. *)
LEMMA StretchIs ==
  ASSUME NEW s, s \in Seq(FileChars)
  PROVE  Stretch(s) \in Seq(FileTokens) /\ Len(Stretch(s)) = Len(s) + 1 /\ CharsIn(Stretch(s), 0, s)
<1>1. PICK T : T = FileChars
  OBVIOUS
<1>2. NUL \in T
  BY <1>1 DEF FileChars, NUL
<1>3. PICK n \in Nat : n = Len(s)
  OBVIOUS
<1>4. PICK r \in Seq(T) : r = Append(s, NUL)
  <2>1. PICK x \in T : x = NUL
    BY <1>2
  <2>2. PICK t \in Seq(T) : t = s
    BY <1>1
  <2>3. Append(t, x) \in Seq(T)
    OBVIOUS
  <2> QED BY <2>1, <2>2, <2>3
<1>5. Len(r) = n + 1 /\ DOMAIN r = 1..(n + 1) /\ r[n + 1] = NUL /\ \A i \in 1..n : r[i] = s[i]
  BY <1>1, <1>3, <1>4
<1>6. PICK c : c = [i \in 1..(n + 1) |-> Char(r[i])]
  OBVIOUS
<1>7. Stretch(s) = c
  BY <1>4, <1>5, <1>6 DEF Stretch, Chars
<1>8. PICK U : U = FileTokens
  OBVIOUS
<1>9. \A i \in 1..(n + 1) : Char(r[i]) \in U
  BY <1>1, <1>4, <1>5, <1>8 DEF FileTokens
<1>10. c \in Seq(U) /\ Len(c) = n + 1
  BY <1>6, <1>9
<1>11. \A i \in 1..(n + 1) : c[i].v = r[i]
  BY <1>6 DEF Char
<1>12. CharsIn(c, 0, s)
  <2>1. \A i \in 1..n : 0 + i = i /\ i \in 1..(n + 1)
    OBVIOUS
  <2>2. 0 + n + 1 = n + 1 /\ n + 1 \in 1..(n + 1)
    OBVIOUS
  <2> QED BY <1>3, <1>5, <1>11, <2>1, <2>2 DEF CharsIn
<1> QED BY <1>3, <1>7, <1>8, <1>10, <1>12

(* The stretches of a layout. *)
Stretches(l) == [j \in DOMAIN l.texts |-> Stretch(l.texts[j].s)]

(* They are one after the other, each where its text is. *)
StandsAt(flat, l, n) ==
  /\ IsSeq(flat) /\ Len(flat) = l.cur - 4 * n
  /\ \A at, s : HasText(l, at, s) =>
       /\ s \in Seq(FileChars) /\ at \in Nat /\ at >= 4 * n
       /\ CharsIn(flat, at - 4 * n, s) /\ at - 4 * n + Len(s) + 1 =< Len(flat)

(* Whatever texts there are. *)
LEMMA StretchesAt ==
  ASSUME NEW l, NEW n, l \in LaidOut, n \in Nat, Contiguous(l, n)
  PROVE  StandsAt(FlattenSeq(Stretches(l)), l, n)
<1>1. PICK T, U : T = TextPlaces /\ U = FileTokens
  OBVIOUS
<1>2. PICK texts \in Seq(T), cur \in Nat : l.texts = texts /\ l.cur = cur
  BY <1>1 DEF LaidOut
<1>3. PICK m \in Nat : m = Len(texts) /\ DOMAIN texts = 1..m
  BY <1>2
<1>4. \A j \in 1..m : texts[j].s \in Seq(FileChars) /\ texts[j].at \in Nat /\ Len(texts[j].s) \in Nat
  <2>1. \A j \in 1..m : texts[j] \in TextPlaces
    BY <1>1, <1>2, <1>3
  <2>2. \A x \in TextPlaces : x.s \in Seq(FileChars) /\ x.at \in Nat
    BY DEF TextPlaces
  <2>3. \A s \in Seq(FileChars) : Len(s) \in Nat
    OBVIOUS
  <2> QED BY <2>1, <2>2, <2>3
<1>5. PICK p : p = Stretches(l)
  OBVIOUS
<1>6. p \in [1..m -> Seq(U)] /\ \A j \in 1..m : p[j] = Stretch(texts[j].s)
  <2>1. \A j \in 1..m : Stretch(texts[j].s) \in Seq(U)
    BY <1>1, <1>4, StretchIs
  <2>2. p = [j \in 1..m |-> Stretch(texts[j].s)]
    BY <1>2, <1>3, <1>5 DEF Stretches
  <2> QED BY <2>1, <2>2
<1>7. PICK f \in [0..m -> Seq(U)] : Joins(f, m, p) /\ FlattenSeq(p) = f[m]
  BY <1>6, Flattened
<1>8. Parts(f, m, p, U)
  BY <1>6, <1>7 DEF Parts
<1>9. ASSUME NEW k \in 1..m
      PROVE  /\ CharsIn(f[m], Len(f[k - 1]), texts[k].s) /\ Len(f[k]) = Len(f[k - 1]) + Len(texts[k].s) + 1
             /\ Len(f[k]) =< Len(f[m])
  <2>1. PartAt(f, m, p, k)
    BY <1>8, PartsAt
  <2>2. f[k - 1] \in Seq(U)
    BY <1>7
  <2>3. Len(f[k - 1]) \in Nat
    BY <2>2
  <2>4. PICK s \in Seq(FileChars) : s = texts[k].s /\ p[k] = Stretch(s)
    BY <1>4, <1>6
  <2>5. PICK c : c = Stretch(s)
    OBVIOUS
  <2>6. PICK q \in Nat : q = Len(s)
    OBVIOUS
  <2>7. PICK b \in Nat : b = Len(f[k - 1])
    BY <2>3
  <2>8. Len(c) = q + 1 /\ CharsIn(c, 0, s)
    BY <2>5, <2>6, StretchIs
  <2>9. Len(f[k]) = b + (q + 1) /\ Len(f[k]) =< Len(f[m]) /\ \A j \in 1..(q + 1) : f[m][b + j] = c[j]
    BY <2>1, <2>4, <2>5, <2>7, <2>8 DEF PartAt
  <2>10. ASSUME NEW i \in 1..q PROVE f[m][b + i].v = s[i]
    <3>1. i \in 1..(q + 1) /\ 0 + i = i
      OBVIOUS
    <3>2. c[i].v = s[i]
      BY <2>6, <2>8, <3>1 DEF CharsIn
    <3> QED BY <2>9, <3>1, <3>2
  <2>11. f[m][b + q + 1].v = NUL
    <3>1. q + 1 \in 1..(q + 1) /\ 0 + q + 1 = q + 1 /\ b + q + 1 = b + (q + 1)
      OBVIOUS
    <3>2. c[q + 1].v = NUL
      BY <2>6, <2>8, <3>1 DEF CharsIn
    <3> QED BY <2>9, <3>1, <3>2
  <2>12. CharsIn(f[m], b, s)
    BY <2>6, <2>10, <2>11 DEF CharsIn
  <2>13. b + (q + 1) = b + q + 1
    OBVIOUS
  <2> QED BY <2>4, <2>6, <2>7, <2>9, <2>12, <2>13
<1>10. PICK z : z = 4 * n /\ z \in Nat
  OBVIOUS
<1>11. /\ \A j \in 1..m : texts[j].at = EndOf(l, n, j - 1) /\ texts[j].at >= z
       /\ cur = EndOf(l, n, m)
  BY <1>2, <1>3, <1>10 DEF Contiguous
<1>12. /\ EndOf(l, n, 0) = z
       /\ \A j \in 1..m : EndOf(l, n, j) = texts[j].at + Len(texts[j].s) + 1
  BY <1>2, <1>10 DEF EndOf
<1> DEFINE P == {j \in 0..m : z + Len(f[j]) = EndOf(l, n, j)}
<1>13. 0 \in P
  <2>1. f[0] = <<>>
    BY <1>7 DEF Joins
  <2>2. Len(f[0]) = 0
    BY <2>1
  <2>3. z + Len(f[0]) = EndOf(l, n, 0)
    BY <1>10, <1>12, <2>2
  <2> QED BY <2>3
<1>14. ASSUME NEW j \in 1..m, j - 1 \in P PROVE j \in P
  <2>1. PICK b \in Nat, c \in Nat : b = Len(f[j - 1]) /\ c = Len(texts[j].s)
    <3>1. f[j - 1] \in Seq(U) /\ Len(texts[j].s) \in Nat
      BY <1>4, <1>7
    <3> QED BY <3>1
  <2>2. z + b = EndOf(l, n, j - 1)
    BY <1>14, <2>1
  <2>3. texts[j].at = z + b
    BY <1>11, <2>2
  <2>4. EndOf(l, n, j) = z + b + c + 1
    BY <1>12, <2>1, <2>3
  <2>5. Len(f[j]) = b + c + 1
    BY <1>9, <2>1
  <2>6. z + Len(f[j]) = EndOf(l, n, j)
    BY <1>10, <2>4, <2>5
  <2> QED BY <2>6
<1> HIDE DEF P
<1>15. 0..m \subseteq P
  BY <1>13, <1>14, SetInduction
<1>16. \A j \in 0..m : z + Len(f[j]) = EndOf(l, n, j)
  BY <1>15 DEF P
<1>17. PICK flat \in Seq(U) : flat = f[m] /\ flat = FlattenSeq(p)
  BY <1>7
<1>18. Len(flat) = cur - z
  <2>0. m \in 0..m
    OBVIOUS
  <2>1. z + Len(flat) = cur
    BY <1>11, <1>16, <1>17, <2>0
  <2>2. Len(flat) \in Nat
    BY <1>17
  <2> QED BY <1>10, <2>1, <2>2
<1>19. ASSUME NEW at, NEW s, HasText(l, at, s)
       PROVE  /\ s \in Seq(FileChars) /\ at \in Nat /\ at >= z
              /\ CharsIn(flat, at - z, s) /\ at - z + Len(s) + 1 =< Len(flat)
  <2>1. PICK j \in 1..m : texts[j].at = at /\ texts[j].s = s
    BY <1>2, <1>3, <1>19 DEF HasText
  <2>2. PICK b \in Nat, c \in Nat : b = Len(f[j - 1]) /\ c = Len(s)
    <3>1. f[j - 1] \in Seq(U) /\ Len(s) \in Nat
      BY <1>4, <1>7, <2>1
    <3> QED BY <3>1
  <2>3. z + b = at
    <3>1. j - 1 \in 0..m
      OBVIOUS
    <3>2. z + b = EndOf(l, n, j - 1)
      BY <1>16, <2>2, <3>1
    <3> QED BY <1>11, <2>1, <3>2
  <2>4. CharsIn(flat, b, s) /\ Len(f[j]) = b + c + 1 /\ Len(f[j]) =< Len(flat)
    BY <1>9, <1>17, <2>1, <2>2
  <2>5. at - z = b
    BY <1>10, <2>3
  <2> QED BY <1>4, <1>11, <2>1, <2>2, <2>4, <2>5
<1>20. IsSeq(flat)
  BY <1>17 DEF IsSeq
<1> QED BY <1>2, <1>5, <1>10, <1>17, <1>18, <1>19, <1>20 DEF StandsAt

-------------------------------------------------------------------------------
(* The text at an offset *)

(* A text is what there is up to its terminator. *)
LEMMA UntilAt ==
  ASSUME NEW D, NEW d, NEW b, NEW s, d \in Seq(D), b \in Nat, s \in Seq(FileChars), Lacks(s, NUL),
         b + Len(s) + 1 =< Len(d), \A i \in 1..Len(s) : d[b + i] = s[i], d[b + Len(s) + 1] = NUL
  PROVE  Until(SubSeq(d, b + 1, Len(d)), NUL) = s
<1>1. PICK n \in Nat, q \in Nat : n = Len(d) /\ q = Len(s)
  OBVIOUS
<1>2. PICK t \in Seq(D) : t = SubSeq(d, b + 1, Len(d))
  <2>1. PICK e \in Seq(D) : e = d
    OBVIOUS
  <2>2. b + 1 \in 1..(Len(e) + 1)
    BY <1>1, <2>1
  <2>3. SubSeq(e, b + 1, Len(e)) \in Seq(D)
    BY <2>2
  <2> QED BY <2>1, <2>3
<1>3. b + q + 1 =< n /\ d[b + q + 1] = NUL /\ (\A i \in 1..q : d[b + i] = s[i]) /\ \A i \in 1..q : s[i] # NUL
  BY <1>1 DEF Lacks
<1>4. Len(t) = n - b /\ n - b \in Nat /\ q + 1 \in 1..(n - b)
  BY <1>1, <1>2, <1>3
<1>5. \A i \in 1..(n - b) : t[i] = d[b + i]
  BY <1>1, <1>2
<1>6. t[q + 1] = NUL /\ (\A i \in 1..q : t[i] = s[i] /\ t[i] # NUL)
  <2>1. b + (q + 1) = b + q + 1 /\ \A i \in 1..q : i \in 1..(n - b)
    BY <1>3
  <2> QED BY <1>3, <1>4, <1>5, <2>1
<1>7. PICK I : I = {i \in 1..Len(t) : t[i] = NUL}
  OBVIOUS
<1>8. PICK h : h = IF I # {} THEN Min(I) ELSE 0
  OBVIOUS
<1>9. SelectInSeq(t, LAMBDA x : x = NUL) = h
  BY <1>7, <1>8 DEF SelectInSeq
<1>10. PICK m \in Nat : m = n - b /\ Len(t) = m /\ q + 1 \in 1..m
  BY <1>4
<1>11. I \subseteq 1..m /\ q + 1 \in I
  BY <1>6, <1>7, <1>10
<1>12. h = q + 1
  <2>1. h \in 0..m /\ (h = 0 => I = {}) /\ (h # 0 => h \in I /\ \A i \in 1..(h - 1) : i \in 1..m /\ i \notin I)
    BY <1>8, <1>11, FirstOf
  <2>2. h \in 1..m /\ h \in I
    BY <1>11, <2>1
  <2>3. ~(h < q + 1)
    <3> SUFFICES ASSUME h < q + 1 PROVE FALSE
      OBVIOUS
    <3>1. h \in 1..q /\ t[h] = NUL
      BY <1>7, <2>2
    <3> QED BY <1>6, <3>1
  <2>4. ~(q + 1 < h)
    <3> SUFFICES ASSUME q + 1 < h PROVE FALSE
      OBVIOUS
    <3>1. q + 1 \in 1..(h - 1)
      BY <2>2
    <3> QED BY <1>11, <2>1, <2>2, <3>1
  <2> QED BY <2>2, <2>3, <2>4
<1>13. Contains(t, NUL)
  BY <1>6, <1>10 DEF Contains
<1>14. Until(t, NUL) = SubSeq(t, 1, q)
  <2>1. Until(t, NUL) = SubSeq(t, 1, SelectInSeq(t, LAMBDA x : x = NUL) - 1)
    BY <1>13, Zenon DEF Until
  <2>2. Until(t, NUL) = SubSeq(t, 1, h - 1)
    BY <1>9, <2>1, Zenon
  <2>3. h - 1 = q
    BY <1>12
  <2> QED BY <2>2, <2>3, Zenon
<1>15. PICK u \in Seq(D) : u = SubSeq(t, 1, q)
  <2>1. SubSeq(t, 1, q) \in Seq(D)
    BY <1>10
  <2> QED BY <2>1
<1>16. Len(u) = q /\ \A i \in 1..q : u[i] = t[i]
  BY <1>10, <1>15
<1>17. u = s
  BY <1>1, <1>6, <1>15, <1>16
<1> QED BY <1>2, <1>14, <1>15, <1>17

-------------------------------------------------------------------------------
(* The tokens of a table *)

CountOf(n)  == [t |-> "count", v |-> n]
SizeIs(z)   == [t |-> "size", v |-> z]
Unknown     == [t |-> "unknown"]
OffsetIs(z) == [t |-> "offset", v |-> z]
Heads(n, l) == <<CountOf(n), Unknown, SizeIs(l.cur)>>
Offsets(l)  == [i \in DOMAIN l.starts |-> OffsetIs(l.starts[i])]
TextData(l) == FlattenSeq(Stretches(l))

(* Where they are, before the data. *)
TableAt(toks, l, n, flat) ==
  /\ IsSeq(toks) /\ Len(toks) = 5 + n + Len(flat)
  /\ toks[1] = Mark[1] /\ toks[2] = Mark[2] /\ toks[3] = CountOf(n) /\ toks[4] = Unknown /\ toks[5] = SizeIs(l.cur)
  /\ \A i \in 1..n : toks[5 + i] = OffsetIs(l.starts[i])
  /\ \A i \in 1..Len(flat) : toks[5 + n + i] = flat[i]

(* What is put together. *)
LEMMA TokensPut ==
  ASSUME NEW a, NEW conv
  PROVE  TextTokens(a, conv) =
           ((Mark \o Heads(Len(a), Layout(a, conv))) \o Offsets(Layout(a, conv))) \o TextData(Layout(a, conv))
BY Zenon DEF TextTokens, Heads, Offsets, TextData, Stretches, Stretch, CountOf, SizeIs, Unknown, OffsetIs

(* The mark has two tokens. *)
LEMMA MarkIs == DOMAIN Mark = 1..2 /\ Len(Mark) = 2 /\ Mark = <<Mark[1], Mark[2]>> /\ Mark \in Seq({Mark[1], Mark[2]})
<1>1. Mark = [i \in 1..2 |-> Char(<<231, 253>>[i])]
  BY DEF Mark, Chars
<1>2. PICK x, y : x = Char(<<231, 253>>[1]) /\ y = Char(<<231, 253>>[2])
  OBVIOUS
<1>3. Mark = <<x, y>>
  BY <1>1, <1>2
<1> QED BY <1>3

(* Each is where it was put. *)
LEMMA TokensAt ==
  ASSUME NEW l, NEW n, NEW flat, l \in LaidOut, n \in Nat, IsSeq(flat), Len(l.starts) = n
  PROVE  TableAt(((Mark \o Heads(n, l)) \o Offsets(l)) \o flat, l, n, flat)
<1>1. PICK F : flat \in Seq(F)
  BY DEF IsSeq
<1>2. PICK q \in Nat : q = Len(flat)
  BY <1>1
<1>3. PICK starts \in Seq(Nat), cur \in Nat : l.starts = starts /\ l.cur = cur
  BY DEF LaidOut
<1>4. DOMAIN starts = 1..n
  BY <1>3
<1>5. PICK o : o = [i \in 1..n |-> OffsetIs(starts[i])]
  OBVIOUS
<1>6. Offsets(l) = o
  BY <1>3, <1>4, <1>5 DEF Offsets
<1>7. PICK c, u, z : c = CountOf(n) /\ u = Unknown /\ z = SizeIs(cur)
  OBVIOUS
<1>8. PICK h : h = <<c, u, z>>
  OBVIOUS
<1>9. Heads(n, l) = h
  BY <1>3, <1>7, <1>8 DEF Heads
<1>10. PICK m1, m2 : m1 = Mark[1] /\ m2 = Mark[2]
  OBVIOUS
<1>11. PICK S : S = F \union {m1, m2, c, u, z} \union {o[i] : i \in 1..n}
  OBVIOUS
<1>12. Mark \in Seq(S) /\ Len(Mark) = 2
  <2>1. {m1, m2} \subseteq S
    BY <1>11
  <2> QED BY <1>10, <2>1, MarkIs, SeqWithin
<1>13. h \in Seq(S) /\ Len(h) = 3 /\ h[1] = c /\ h[2] = u /\ h[3] = z
  <2>1. c \in S /\ u \in S /\ z \in S
    BY <1>11
  <2> QED BY <1>8, <2>1
<1>14. o \in Seq(S) /\ Len(o) = n /\ \A i \in 1..n : o[i] = OffsetIs(starts[i])
  <2>1. \A i \in 1..n : o[i] \in S
    BY <1>11
  <2> QED BY <1>5, <2>1
<1>15. flat \in Seq(S)
  BY <1>1, <1>11, SeqWithin
<1>16. PICK s1 : s1 = Mark \o h
  OBVIOUS
<1>17. PICK s2 : s2 = s1 \o o
  OBVIOUS
<1>18. PICK s3 : s3 = s2 \o flat
  OBVIOUS
<1>19. s1 \in Seq(S) /\ Joined(s1, Mark, h, 2, 3)
  <2>1. 2 \in Nat /\ 3 \in Nat
    OBVIOUS
  <2> QED BY <1>12, <1>13, <1>16, <2>1, TwoParts, Zenon
<1>20. Len(s1) = 5
  BY <1>19 DEF Joined
<1>21. s2 \in Seq(S) /\ Joined(s2, s1, o, 5, n)
  BY <1>14, <1>17, <1>19, <1>20, TwoParts, Zenon
<1>22. Len(s2) = 5 + n /\ 5 + n \in Nat
  BY <1>21 DEF Joined
<1>23. s3 \in Seq(S) /\ Joined(s3, s2, flat, 5 + n, q)
  BY <1>2, <1>15, <1>18, <1>21, <1>22, TwoParts, Zenon
<1>24. \A k \in 1..5 : s3[k] = s1[k]
  <2>1. \A k \in 1..5 : k \in 1..(5 + n)
    OBVIOUS
  <2> QED BY <1>21, <1>23, <2>1 DEF Joined
<1>25. s3[1] = m1 /\ s3[2] = m2 /\ s3[3] = c /\ s3[4] = u /\ s3[5] = z
  <2>1. s1[1] = m1 /\ s1[2] = m2
    BY <1>10, <1>19 DEF Joined
  <2>2. s1[2 + 1] = c /\ s1[2 + 2] = u /\ s1[2 + 3] = z
    BY <1>13, <1>19 DEF Joined
  <2> QED BY <1>24, <2>1, <2>2
<1>26. \A i \in 1..n : s3[5 + i] = OffsetIs(starts[i])
  <2>1. \A i \in 1..n : 5 + i \in 1..(5 + n)
    OBVIOUS
  <2> QED BY <1>14, <1>21, <1>23, <2>1 DEF Joined
<1>27. Len(s3) = 5 + n + q /\ \A i \in 1..q : s3[5 + n + i] = flat[i]
  BY <1>23 DEF Joined
<1>28. IsSeq(s3)
  BY <1>23 DEF IsSeq
<1>29. TableAt(s3, l, n, flat)
  BY <1>2, <1>3, <1>7, <1>10, <1>25, <1>26, <1>27, <1>28 DEF TableAt
<1> QED BY <1>6, <1>9, <1>16, <1>17, <1>18, <1>29

-------------------------------------------------------------------------------
(* The texts of a table that was written *)

(* A text of characters that the file has contains no terminator. *)
LEMMA CleanLacks ==
  ASSUME NEW x, NEW conv, IsText(x), conv \in BOOLEAN, Clean(x.v, conv)
  PROVE  Lacks(FileText(x.v, conv), NUL) /\ Converted(FileText(x.v, conv), conv) = x.v
<1>1. x.v \in Seq(0..255)
  BY DEF IsText
<1>2. CASE conv
  BY <1>1, <1>2, OemBack
<1>3. CASE ~conv
  BY <1>1, <1>3, AnsiBack
<1> QED BY <1>2, <1>3

(* What LoadTable takes for the data is what the stretches have. *)
LEMMA DataIs ==
  ASSUME NEW toks, NEW l, NEW n, NEW flat, TableAt(toks, l, n, flat), l \in LaidOut, n \in Nat \ {0},
         Contiguous(l, n), StandsAt(flat, l, n)
  PROVE  \E D : DataOf(toks) \in Seq(D) /\ Len(DataOf(toks)) = Len(flat) /\ Len(flat) \in Nat
                /\ \A k \in 1..Len(flat) : DataOf(toks)[k] = flat[k].v
<1>1. PICK F : flat \in Seq(F)
  BY DEF StandsAt, IsSeq
<1>2. PICK q \in Nat : q = Len(flat)
  BY <1>1
<1>3. PICK cur \in Nat : l.cur = cur
  BY DEF LaidOut
<1>4. cur >= 4 * n /\ q = cur - 4 * n
  BY <1>2, <1>3 DEF Contiguous, StandsAt
<1>5. toks[5].v = cur /\ toks[3].v = n
  BY <1>3 DEF TableAt, CountOf, SizeIs
<1>6. DataSize(toks) = cur
  <2>1. cur # 0
    BY <1>4
  <2> QED BY <1>5, <2>1, Zenon DEF DataSize
<1>7. \A k \in 1..q : toks[5 + n + k] = flat[k]
  BY <1>2 DEF TableAt
<1>8. PICK d : d = [k \in 1..q |-> toks[5 + n + k].v]
  OBVIOUS
<1>9. DataOf(toks) = d
  BY <1>4, <1>5, <1>6, <1>8 DEF DataOf
<1>10. PICK D : D = {toks[5 + n + k].v : k \in 1..q}
  OBVIOUS
<1>11. d \in Seq(D) /\ Len(d) = q
  <2>1. \A k \in 1..q : toks[5 + n + k].v \in D
    BY <1>10
  <2> QED BY <1>8, <2>1
<1>12. \A k \in 1..q : d[k] = flat[k].v
  BY <1>7, <1>8
<1> QED BY <1>2, <1>9, <1>11, <1>12

(* Each offset of a table leads to the text of its entry. *)
LEMMA TableTexts ==
  ASSUME NEW toks, NEW l, NEW n, NEW flat, NEW a, NEW conv, NEW i,
         TableAt(toks, l, n, flat), l \in LaidOut, n \in Nat, Contiguous(l, n), StandsAt(flat, l, n),
         EntriesAt(l, a, conv, n), i \in 1..n, IsEntry(a[i]), conv \in BOOLEAN
  PROVE  EntryIs(a[i], OffsetOf(toks, i), TextOfTable(toks, i), conv)
<1>1. PICK x : x = a[i]
  OBVIOUS
<1>2. PICK at : at = l.starts[i]
  OBVIOUS
<1>3. OffsetOf(toks, i) = at
  <2>1. i + 5 = 5 + i
    OBVIOUS
  <2>2. toks[5 + i] = OffsetIs(at)
    BY <1>2 DEF TableAt
  <2> QED BY <2>1, <2>2 DEF OffsetOf, OffsetIs
<1>4. CASE x = Null
  <2>1. at = 0
    BY <1>1, <1>2, <1>4 DEF EntriesAt
  <2> QED BY <1>1, <1>3, <1>4, <2>1 DEF EntryIs
<1>5. CASE x # Null
  <2>1. PICK s : s = FileText(x.v, conv)
    OBVIOUS
  <2>2. HasText(l, at, s)
    BY <1>1, <1>2, <1>5, <2>1 DEF EntriesAt
  <2>3. s \in Seq(FileChars) /\ at \in Nat /\ at >= 4 * n /\ CharsIn(flat, at - 4 * n, s) /\ at - 4 * n + Len(s) + 1 =< Len(flat)
    BY <2>2 DEF StandsAt
  <2>4. IsText(x)
    BY <1>1, <1>5 DEF IsEntry
  <2>6. at # 0
    BY <2>3
  <2>7. ASSUME Clean(x.v, conv) PROVE TextOfTable(toks, i) = s
    <3>1. PICK d : d = DataOf(toks)
      OBVIOUS
    <3>2. PICK D : d \in Seq(D) /\ Len(d) = Len(flat) /\ Len(flat) \in Nat /\ \A k \in 1..Len(flat) : d[k] = flat[k].v
      <4>1. n \in Nat \ {0}
        OBVIOUS
      <4> QED BY <3>1, <4>1, DataIs
    <3>3. PICK b \in Nat : b = at - 4 * n
      BY <2>3
    <3>4. PICK q \in Nat, m \in Nat : q = Len(s) /\ m = Len(flat)
      BY <2>3, <3>2
    <3>5. CharsIn(flat, b, s) /\ b + q + 1 =< m
      BY <2>3, <3>3, <3>4
    <3>6. \A k \in 1..q : d[b + k] = s[k]
      <4>1. \A k \in 1..q : b + k \in 1..m
        BY <3>5
      <4>2. \A k \in 1..q : flat[b + k].v = s[k]
        BY <3>4, <3>5 DEF CharsIn
      <4> QED BY <3>2, <3>4, <4>1, <4>2
    <3>7. d[b + q + 1] = NUL
      <4>1. b + q + 1 \in 1..m
        BY <3>5
      <4>2. flat[b + q + 1].v = NUL
        BY <3>4, <3>5 DEF CharsIn
      <4> QED BY <3>2, <3>4, <4>1, <4>2
    <3>8. Lacks(s, NUL)
      BY <2>1, <2>4, <2>7, CleanLacks
    <3>9. Until(SubSeq(d, b + 1, Len(d)), NUL) = s
      <4>1. b + Len(s) + 1 =< Len(d) /\ (\A k \in 1..Len(s) : d[b + k] = s[k]) /\ d[b + Len(s) + 1] = NUL
        BY <3>2, <3>4, <3>5, <3>6, <3>7
      <4> QED BY <2>3, <3>2, <3>8, <4>1, UntilAt
    <3>10. TextOfTable(toks, i) = Until(SubSeq(d, OffsetOf(toks, i) - 4 * toks[3].v + 1, Len(d)), NUL)
      BY <3>1, Zenon DEF TextOfTable
    <3>11. toks[3].v = n
      BY DEF TableAt, CountOf
    <3>12. OffsetOf(toks, i) - 4 * toks[3].v + 1 = b + 1
      BY <1>3, <3>3, <3>11
    <3> QED BY <3>9, <3>10, <3>12, Zenon
  <2> QED BY <1>1, <1>3, <1>5, <2>1, <2>4, <2>6, <2>7 DEF EntryIs
<1> QED BY <1>4, <1>5

(* The tokens of the texts of an archive. *)
LEMMA TextTokensAre ==
  ASSUME NEW a, NEW conv, IsSeq(a), \A i \in 1..Len(a) : IsEntry(a[i])
  PROVE  /\ Layout(a, conv) \in LaidOut /\ Contiguous(Layout(a, conv), Len(a))
         /\ EntriesAt(Layout(a, conv), a, conv, Len(a)) /\ Len(a) \in Nat
         /\ StandsAt(TextData(Layout(a, conv)), Layout(a, conv), Len(a))
         /\ TableAt(TextTokens(a, conv), Layout(a, conv), Len(a), TextData(Layout(a, conv)))
<1>2. PICK toks, l, flat, n : toks = TextTokens(a, conv) /\ l = Layout(a, conv) /\ flat = TextData(l) /\ n = Len(a)
  OBVIOUS
<1>3. n \in Nat
  BY <1>2 DEF IsSeq
<1>4. l \in LaidOut /\ Contiguous(l, n) /\ EntriesAt(l, a, conv, n)
  BY <1>2, LayoutIs
<1>5. StandsAt(flat, l, n)
  BY <1>2, <1>3, <1>4, StretchesAt DEF TextData
<1>6. TableAt(toks, l, n, flat)
  <2>1. IsSeq(flat) /\ Len(l.starts) = n
    BY <1>4, <1>5 DEF StandsAt, EntriesAt
  <2>2. TableAt(((Mark \o Heads(n, l)) \o Offsets(l)) \o flat, l, n, flat)
    BY <1>3, <1>4, <2>1, TokensAt
  <2> QED BY <1>2, <2>2, TokensPut, Zenon
<1> QED BY <1>2, <1>3, <1>4, <1>5, <1>6

(* They are a sequence. *)
LEMMA TextTokensSeq ==
  ASSUME NEW a, NEW conv, IsSeq(a), \A i \in 1..Len(a) : IsEntry(a[i])
  PROVE  IsSeq(TextTokens(a, conv))
BY TextTokensAre DEF TableAt

(* A file that was written as a table holds what the table says. *)
LEMMA TextsAreWritten ==
  ASSUME NEW a, NEW fmt, NEW conv, NEW seal, IsSeq(a), \A i \in 1..Len(a) : IsEntry(a[i]), conv \in BOOLEAN,
         conv <=> fmt # "txt"
  PROVE  TextsAre(File(fmt, TextTokens(a, conv), <<>>, a, seal))
<1>1. PICK f : f = File(fmt, TextTokens(a, conv), <<>>, a, seal)
  OBVIOUS
<1>2. PICK toks, l, flat, n : toks = TextTokens(a, conv) /\ l = Layout(a, conv) /\ flat = TextData(l) /\ n = Len(a)
  OBVIOUS
<1>3. n \in Nat /\ l \in LaidOut /\ Contiguous(l, n) /\ EntriesAt(l, a, conv, n) /\ StandsAt(flat, l, n)
      /\ TableAt(toks, l, n, flat)
  BY <1>2, TextTokensAre
<1>4. n \in Nat /\ l \in LaidOut /\ Contiguous(l, n) /\ EntriesAt(l, a, conv, n)
  BY <1>3
<1>5. StandsAt(flat, l, n)
  BY <1>3
<1>6. TableAt(toks, l, n, flat)
  BY <1>3
<1>7. toks[3].v = n
  BY <1>6 DEF TableAt, CountOf
<1>8. f.toks = toks /\ f.holds = a /\ f.fmt = fmt
  BY <1>1, <1>2 DEF File
<1>9. \A i \in 1..n : EntryIs(a[i], OffsetOf(toks, i), TextOfTable(toks, i), conv)
  <2>1. \A i \in 1..n : IsEntry(a[i])
    BY <1>2
  <2> QED BY <1>3, <1>4, <1>5, <1>6, <2>1, TableTexts
<1>10. ASSUME n # 0 PROVE DataSize(toks) \in Nat
  <2>1. PICK cur \in Nat : l.cur = cur
    BY <1>4 DEF LaidOut
  <2>2. cur >= 4 * n /\ toks[5].v = cur
    BY <1>4, <1>6, <2>1 DEF Contiguous, TableAt, SizeIs
  <2>3. cur # 0
    BY <1>3, <1>10, <2>2
  <2> QED BY <2>1, <2>2, <2>3, Zenon DEF DataSize
<1>11. TextsAre(f)
  BY <1>2, <1>3, <1>7, <1>8, <1>9, <1>10, Zenon DEF TextsAre
<1> QED BY <1>1, <1>11

-------------------------------------------------------------------------------
(* The load of a file of texts *)

(* What was read of a table: the offsets and the data, and i entries. *)
EntryOf(toks, k, conv) ==
  IF OffsetOf(toks, k) = 0 THEN Null ELSE Text(Converted(TextOfTable(toks, k), conv))

Accepted(toks, k) == OffsetOf(toks, k) = 0 \/ ~(OffsetOf(toks, k) < 4 * toks[3].v)

OffsetsRead(toks, offs) == Len(offs) = toks[3].v /\ \A k \in 1..toks[3].v : offs[k] = OffsetOf(toks, k)

EntriesRead(toks, i, a, conv) ==
  i \in 0..toks[3].v /\ Len(a) = i /\ \A k \in 1..i : Accepted(toks, k) /\ a[k] = EntryOf(toks, k, conv)

TableRead(toks, part, i, a) ==
  /\ Tabled(toks) /\ toks[3].v \in Nat
  /\ OffsetsRead(toks, part.offs) /\ (toks[3].v # 0 => part.data = DataOf(toks))
  /\ EntriesRead(toks, i, a, part.conv)

WholeTable == disk.len = Len(disk.toks) /\ HasMark

PartOfText(conv, offs, data) == [conv |-> conv, offs |-> offs, data |-> data]

TextLoading ==
  /\ disk.fmt \in {"ger", "txt", "lst"} /\ io.part = PartOfText(io.part.conv, io.part.offs, io.part.data)
  /\ io.part.conv \in BOOLEAN /\ (io.part.conv <=> disk.fmt # "txt")
  /\ IF io.pos = 0 THEN archive = <<>> /\ io.i = 0
     ELSE WholeTable => TableRead(disk.toks, io.part, io.i, archive)

TextOK == (io.op = "text" => TextLoading) /\ TextsStayApart

(* A load that fails has nothing to show. *)
LEMMA TextFails ==
  ASSUME Calm, io.op = "text", NEW codes, Fails(codes), "NONE" \notin codes
  PROVE  Stepped("text") /\ IsSeq(archive') /\ TextOK'
<1>1. io # Idle
  BY IdleIsIdle
<1>2. Stepped("text") /\ archive' = archive
  BY <1>1, FailsIs
<1>3. io' = Idle /\ ret'.code # "NONE"
  BY DEF Fails, Returns
<1>4. TextsStayApart'
  BY <1>3 DEF TextsStayApart
<1> QED BY <1>2, <1>3, <1>4, IdleIsIdle DEF TextOK, Calm

(* A load that goes on has nothing to show yet. *)
LEMMA TextGoes ==
  ASSUME Calm, io.op = "text", NEW a, NEW job, Goes(a, job), Fields(job), job.op = "text", job.base = io.base,
         IsSeq(a), TextLoading'
  PROVE  Stepped("text") /\ IsSeq(archive') /\ TextOK'
<1>1. archive' = a /\ io' = job /\ client' = client /\ disk' = disk /\ ret' = ret
  BY DEF Goes
<1>2. Stepped("text")
  BY <1>1 DEF Stepped
<1>3. ret = NoRet
  BY IdleIsIdle DEF Calm
<1>4. TextsStayApart'
  BY <1>1, <1>3 DEF TextsStayApart, NoRet
<1> QED BY <1>1, <1>2, <1>4 DEF TextOK

(* A file without the mark has no table. *)
LEMMA TextPlain == ASSUME Calm, TextOK, LoadPlain PROVE Stepped("text") /\ IsSeq(archive') /\ TextOK'
<1>1. io.op = "text" /\ io.pos = 0 /\ ~HasMark /\ TextLoading
  BY DEF LoadPlain, AtTable, LoadingText, TextOK
<1>2. PICK x : Goes(<<x>>, [io EXCEPT !.pos = 1])
  BY DEF LoadPlain
<1>3. PICK job : job = [io EXCEPT !.pos = 1]
  OBVIOUS
<1>4. Fields(job) /\ job.op = "text" /\ job.base = io.base /\ job.part = io.part /\ job.pos = 1
  BY <1>1, <1>3 DEF Calm, Fields
<1>5. IsSeq(<<x>>)
  BY SeqGrows DEF Calm
<1>6. disk' = disk /\ io' = job
  BY <1>2, <1>3 DEF Goes
<1>7. TextLoading'
  <2>1. ~WholeTable'
    BY <1>1, <1>6 DEF WholeTable, HasMark
  <2> QED BY <1>1, <1>4, <1>6, <2>1 DEF TextLoading
<1> QED BY <1>1, <1>2, <1>3, <1>4, <1>5, <1>7, TextGoes

(* The size of a whole file is that of its tokens. *)
LEMMA WholeSize == ASSUME IsSeq(disk.toks), disk.len = Len(disk.toks) PROVE FileSize = SizeOf(disk.toks)
<1>1. PICK T : disk.toks \in Seq(T)
  BY DEF IsSeq
<1>2. PICK s \in Seq(T) : s = disk.toks
  BY <1>1
<1>3. SubSeq(s, 1, Len(s)) = s
  BY <1>2
<1>4. SubSeq(disk.toks, 1, disk.len) = disk.toks
  BY <1>2, <1>3
<1> QED BY <1>4 DEF FileSize

(* The numbers that LoadTable reads, whether it accepts them, and what it  *)
(* takes then.                                                             *)
Numbered(count, size) ==
  count = disk.toks[3].v /\ size = IF disk.toks[5].v = 0 THEN FileSize - 10 ELSE disk.toks[5].v

Heading == Is(3, "count") /\ Is(4, "unknown") /\ Is(5, "size")

Sized(count, size) == ~(size < 4 * count) /\ ~(FileSize - 10 < size)

Taken(offs, data, count, size) ==
  offs = Bytes(6, (6 + count) - 1) /\ data = Bytes(6 + count, (6 + count) + size - 4 * count - 1)

(* A table that LoadTable accepts is one, and its offsets and data are     *)
(* where they were put.                                                    *)
LEMMA TableOpens ==
  ASSUME NEW offs, NEW data, NEW count, NEW size, NEW conv, FileOK, WholeTable, disk.fmt \in {"ger", "txt", "lst"},
         Heading, Numbered(count, size), Sized(count, size), Taken(offs, data, count, size)
  PROVE  TableRead(disk.toks, PartOfText(conv, offs, data), 0, <<>>)
<1>0. /\ count = disk.toks[3].v /\ size = (IF disk.toks[5].v = 0 THEN FileSize - 10 ELSE disk.toks[5].v)
      /\ Is(3, "count") /\ Is(4, "unknown") /\ Is(5, "size")
      /\ ~(size < 4 * count) /\ ~(FileSize - 10 < size)
      /\ offs = Bytes(6, (6 + count) - 1) /\ data = Bytes(6 + count, (6 + count) + size - 4 * count - 1)
  BY Zenon DEF Numbered, Heading, Sized, Taken
<1>1. PICK toks : toks = disk.toks
  OBVIOUS
<1>2. IsSeq(toks) /\ disk.len = Len(toks)
  BY <1>1 DEF FileOK, WholeTable
<1>3. FileSize = SizeOf(toks)
  BY <1>1, <1>2, WholeSize
<1>4. size = DataSize(toks)
  BY <1>0, <1>1, <1>3, Zenon DEF DataSize
<1>5. Tabled(toks)
  <2>1. Len(toks) >= 5 /\ toks[3].t = "count" /\ toks[4].t = "unknown" /\ toks[5].t = "size"
    BY <1>0, <1>1, <1>2 DEF Is
  <2>2. SubSeq(toks, 1, 2) = Mark
    BY <1>1 DEF WholeTable, HasMark
  <2>3. ~(DataSize(toks) < 4 * toks[3].v) /\ ~(SizeOf(toks) - 10 < DataSize(toks))
    BY <1>0, <1>1, <1>3, <1>4, Zenon
  <2> QED BY <2>1, <2>2, <2>3 DEF Tabled
<1>6. count \in Nat /\ (count # 0 => size \in Nat)
  <2>1. TextsAre(disk)
    BY DEF FileOK, HoldsIt
  <2> QED BY <1>0, <1>1, <1>4, <1>5, <2>1 DEF TextsAre
<1>7. PICK n \in Nat : n = count
  BY <1>6
<1>8. OffsetsRead(toks, offs)
  <2>1. 6 + n - 1 - 6 + 1 = n
    OBVIOUS
  <2>2. offs = [i \in 1..n |-> toks[6 + i - 1].v]
    BY <1>0, <1>1, <1>7, <2>1 DEF Bytes
  <2>3. Len(offs) = n /\ \A k \in 1..n : offs[k] = toks[6 + k - 1].v
    <3>1. PICK o : o = [i \in 1..n |-> toks[6 + i - 1].v]
      OBVIOUS
    <3>2. PICK S : S = {toks[6 + i - 1].v : i \in 1..n}
      OBVIOUS
    <3>3. \A i \in 1..n : toks[6 + i - 1].v \in S
      BY <3>2
    <3>4. o \in Seq(S) /\ Len(o) = n
      BY <3>1, <3>3
    <3> QED BY <2>2, <3>1, <3>4
  <2>4. \A k \in 1..n : 6 + k - 1 = k + 5
    OBVIOUS
  <2> QED BY <1>0, <1>1, <1>7, <2>3, <2>4 DEF OffsetsRead, OffsetOf
<1>9. ASSUME count # 0 PROVE data = DataOf(toks)
  <2>1. PICK z \in Nat : z = size
    BY <1>6, <1>9
  <2>2. PICK lo \in Nat, hi \in Int : lo = 6 + n /\ hi = 6 + n + z - 4 * n - 1 /\ hi - lo + 1 = z - 4 * n
    OBVIOUS
  <2>3. data = [i \in 1..(z - 4 * n) |-> toks[6 + n + i - 1].v]
    <3>1. data = Bytes(lo, hi)
      BY <1>0, <1>7, <2>1, <2>2
    <3>2. Bytes(lo, hi) = [i \in 1..(hi - lo + 1) |-> toks[lo + i - 1].v]
      BY <1>1 DEF Bytes
    <3> QED BY <2>2, <3>1, <3>2
  <2>4. DataOf(toks) = [i \in 1..(z - 4 * n) |-> toks[5 + n + i].v]
    BY <1>0, <1>1, <1>4, <1>7, <2>1 DEF DataOf
  <2>5. \A i \in 1..(z - 4 * n) : 6 + n + i - 1 = 5 + n + i
    OBVIOUS
  <2> QED BY <2>3, <2>4, <2>5
<1>10. EntriesRead(toks, 0, <<>>, conv)
  <2>1. Len(<<>>) = 0 /\ \A k \in 1..0 : FALSE
    OBVIOUS
  <2> QED BY <1>0, <1>1, <1>6, <2>1 DEF EntriesRead
<1>11. PICK part : part = PartOfText(conv, offs, data)
  OBVIOUS
<1>12. part.conv = conv /\ part.offs = offs /\ part.data = data
  BY <1>11 DEF PartOfText
<1> QED BY <1>0, <1>1, <1>5, <1>6, <1>8, <1>9, <1>10, <1>11, <1>12 DEF TableRead

(* What LoadTable does with the numbers it has read. *)
TableGoes(count, size) ==
  LET data == 6 + count
  IN IF size < 4 * count THEN Fails({"WRONG_FORMAT"})
     ELSE IF FileSize - 10 < size THEN Fails({"UNEXPECTED_EOF"})
     ELSE Goes(archive,
               [io EXCEPT !.pos = 1,
                          !.part = [@ EXCEPT !.offs = Bytes(6, data - 1),
                                             !.data = Bytes(data, data + size - 4 * count - 1)]])

(* The offsets and the data are read, *)
LEMMA TextTable == ASSUME Calm, FileOK, TextOK, LoadTable PROVE Stepped("text") /\ IsSeq(archive') /\ TextOK'
<1>1. io.op = "text" /\ io.pos = 0 /\ HasMark /\ TextLoading
  BY DEF LoadTable, AtTable, LoadingText, TextOK
<1>2. ASSUME NEW codes \in {{"WRONG_HEADER"}, {"WRONG_FORMAT"}, {"UNEXPECTED_EOF"}}, Fails(codes)
      PROVE  Stepped("text") /\ IsSeq(archive') /\ TextOK'
  <2>1. "NONE" \notin codes
    OBVIOUS
  <2> QED BY <1>1, <1>2, <2>1, TextFails
<1>3. CASE ~(Is(3, "count") /\ Is(4, "unknown") /\ Is(5, "size"))
  BY <1>2, <1>3 DEF LoadTable
<1>4. CASE Is(3, "count") /\ Is(4, "unknown") /\ Is(5, "size")
  <2>1. PICK count, size : /\ count = disk.toks[3].v
                           /\ size = IF disk.toks[5].v = 0 THEN FileSize - 10 ELSE disk.toks[5].v
    OBVIOUS
  <2>2. PICK offs, data : offs = Bytes(6, (6 + count) - 1) /\ data = Bytes(6 + count, (6 + count) + size - 4 * count - 1)
    OBVIOUS
  <2>3. PICK part : part = [io.part EXCEPT !.offs = offs, !.data = data]
    OBVIOUS
  <2>4. \/ Fails({"WRONG_FORMAT"}) \/ Fails({"UNEXPECTED_EOF"})
        \/ ~(size < 4 * count) /\ ~(FileSize - 10 < size) /\ Goes(archive, [io EXCEPT !.pos = 1, !.part = part])
    <3>1. TableGoes(Number(3), TableSize)
      BY <1>4, Zenon DEF LoadTable, TableGoes
    <3>3. Number(3) = count /\ TableSize = size
      BY <2>1 DEF Number, TableSize
    <3>4. TableGoes(count, size)
      BY <3>1, <3>3
    <3>5. \/ Fails({"WRONG_FORMAT"}) \/ Fails({"UNEXPECTED_EOF"})
          \/ /\ ~(size < 4 * count) /\ ~(FileSize - 10 < size)
             /\ Goes(archive, [io EXCEPT !.pos = 1,
                                        !.part = [@ EXCEPT !.offs = Bytes(6, (6 + count) - 1),
                                                           !.data = Bytes(6 + count, (6 + count) + size - 4 * count - 1)]])
      BY <3>4, Zenon DEF TableGoes
    <3>2. [io EXCEPT !.pos = 1, !.part = part] =
            [io EXCEPT !.pos = 1, !.part = [@ EXCEPT !.offs = offs, !.data = data]]
      BY <1>1, <2>3 DEF Calm, Fields
    <3>6. [io EXCEPT !.pos = 1,
                     !.part = [@ EXCEPT !.offs = Bytes(6, (6 + count) - 1),
                                        !.data = Bytes(6 + count, (6 + count) + size - 4 * count - 1)]] =
            [io EXCEPT !.pos = 1, !.part = part]
      BY <2>2, <3>2, Zenon
    <3> QED BY <3>5, <3>6, Zenon
  <2>5. CASE ~(size < 4 * count) /\ ~(FileSize - 10 < size) /\ Goes(archive, [io EXCEPT !.pos = 1, !.part = part])
    <3>1. PICK conv : conv = io.part.conv
      OBVIOUS
    <3>2. part = PartOfText(conv, offs, data)
      BY <1>1, <2>3, <3>1 DEF TextLoading, PartOfText
    <3>3. part.conv = conv /\ part.offs = offs /\ part.data = data
      BY <3>2 DEF PartOfText
    <3>4. PICK job : job = [io EXCEPT !.pos = 1, !.part = part]
      OBVIOUS
    <3>5. Fields(job) /\ job.op = "text" /\ job.base = io.base /\ job.part = part /\ job.pos = 1 /\ job.i = io.i
      BY <1>1, <3>4 DEF Calm, Fields
    <3>6. disk' = disk /\ io' = job /\ archive' = archive
      BY <2>5, <3>4 DEF Goes
    <3>7. archive = <<>> /\ io.i = 0 /\ disk.fmt \in {"ger", "txt", "lst"} /\ conv \in BOOLEAN /\ (conv <=> disk.fmt # "txt")
      BY <1>1, <3>1 DEF TextLoading
    <3>8. ASSUME WholeTable PROVE TableRead(disk.toks, part, 0, <<>>)
      <4>1. Heading /\ Numbered(count, size) /\ Sized(count, size) /\ Taken(offs, data, count, size)
        BY <1>4, <2>1, <2>2, <2>5 DEF Heading, Numbered, Sized, Taken
      <4> QED BY <3>2, <3>7, <3>8, <4>1, TableOpens
    <3>9. WholeTable' => WholeTable
      BY <3>6 DEF WholeTable, HasMark
    <3>10. TextLoading'
      BY <3>2, <3>3, <3>5, <3>6, <3>7, <3>8, <3>9 DEF TextLoading
    <3> QED BY <1>1, <2>5, <3>4, <3>5, <3>10, TextGoes DEF Calm
  <2> QED BY <1>2, <2>4, <2>5
<1> QED BY <1>3, <1>4

(* One more entry was read. *)
LEMMA EntriesMore ==
  ASSUME NEW toks, NEW i, NEW a, NEW conv, NEW x, IsSeq(a), toks[3].v \in Nat, EntriesRead(toks, i, a, conv), i < toks[3].v,
         Accepted(toks, i + 1), x = EntryOf(toks, i + 1, conv)
  PROVE  EntriesRead(toks, i + 1, Append(a, x), conv)
<1>1. PICK n \in Nat : n = toks[3].v
  OBVIOUS
<1>2. PICK m \in 0..n : m = i /\ Len(a) = m /\ \A k \in 1..m : Accepted(toks, k) /\ a[k] = EntryOf(toks, k, conv)
  BY <1>1 DEF EntriesRead
<1>3. PICK b : b = Append(a, x)
  OBVIOUS
<1>4. Len(b) = m + 1 /\ b[m + 1] = x /\ \A k \in 1..m : b[k] = a[k]
  BY <1>2, <1>3, BobSeqs
<1>5. m + 1 \in 0..n
  BY <1>1, <1>2
<1>6. ASSUME NEW k \in 1..(m + 1) PROVE Accepted(toks, k) /\ b[k] = EntryOf(toks, k, conv)
  <2>1. CASE k = m + 1
    BY <1>2, <1>4, <2>1
  <2>2. CASE k \in 1..m
    BY <1>2, <1>4, <2>2
  <2> QED BY <2>1, <2>2
<1> QED BY <1>1, <1>2, <1>3, <1>4, <1>5, <1>6 DEF EntriesRead

(* then the entries, *)
LEMMA TextEntry == ASSUME Calm, TextOK, LoadTextEntry PROVE Stepped("text") /\ IsSeq(archive') /\ TextOK'
<1>1. io.op = "text" /\ io.pos > 0 /\ io.i < Len(io.part.offs) /\ TextLoading
  BY DEF LoadTextEntry, LoadingText, TextOK
<1>2. io.pos # 0
  BY <1>1
<1>3. PICK conv, offs, data : io.part = PartOfText(conv, offs, data) /\ conv = io.part.conv /\ offs = io.part.offs /\ data = io.part.data
  BY <1>1 DEF TextLoading
<1>4. PICK at, first : at = offs[io.i + 1] /\ first = 4 * Len(offs)
  OBVIOUS
<1>5. PICK x : x = IF at = 0 THEN Null ELSE Text(Converted(TextAt(at - first), conv))
  OBVIOUS
<1>6. IF at # 0 /\ at < first THEN Fails({"WRONG_FORMAT"}) ELSE Goes(Append(archive, x), [io EXCEPT !.i = @ + 1])
  BY <1>3, <1>4, <1>5, Zenon DEF LoadTextEntry
<1>7. CASE at # 0 /\ at < first
  <2>1. Fails({"WRONG_FORMAT"})
    BY <1>6, <1>7
  <2>2. "NONE" \notin {"WRONG_FORMAT"}
    OBVIOUS
  <2> QED BY <1>1, <2>1, <2>2, TextFails
<1>8. CASE ~(at # 0 /\ at < first)
  <2>1. Goes(Append(archive, x), [io EXCEPT !.i = @ + 1])
    BY <1>6, <1>8
  <2>2. PICK job : job = [io EXCEPT !.i = @ + 1]
    OBVIOUS
  <2>3. Fields(job) /\ job.op = "text" /\ job.base = io.base /\ job.part = io.part /\ job.pos = io.pos /\ job.i = io.i + 1
    BY <1>1, <2>2 DEF Calm, Fields
  <2>4. disk' = disk /\ io' = job /\ archive' = Append(archive, x)
    BY <2>1, <2>2 DEF Goes
  <2>5. IsSeq(archive) /\ IsSeq(Append(archive, x))
    BY SeqGrows DEF Calm
  <2>6. ASSUME WholeTable PROVE TableRead(disk.toks, io.part, io.i + 1, Append(archive, x))
    <3>1. PICK toks : toks = disk.toks
      OBVIOUS
    <3>2. TableRead(toks, io.part, io.i, archive)
      BY <1>1, <1>2, <2>6, <3>1 DEF TextLoading
    <3>3. OffsetsRead(toks, offs) /\ (toks[3].v # 0 => data = DataOf(toks)) /\ EntriesRead(toks, io.i, archive, conv) /\ toks[3].v \in Nat
      BY <1>3, <3>2 DEF TableRead
    <3>4. PICK n \in Nat : n = toks[3].v
      BY <3>3
    <3>5. Len(offs) = n /\ \A k \in 1..n : offs[k] = OffsetOf(toks, k)
      BY <3>3, <3>4 DEF OffsetsRead
    <3>6. PICK i \in Nat : i = io.i /\ i < n
      BY <1>1, <1>3, <3>3, <3>4, <3>5 DEF EntriesRead
    <3>7. at = OffsetOf(toks, i + 1) /\ first = 4 * n
      <4>1. i + 1 \in 1..n
        BY <3>6
      <4> QED BY <1>4, <3>5, <3>6, <4>1
    <3>8. data = DataOf(toks)
      BY <3>3, <3>4, <3>6
    <3>9. Accepted(toks, i + 1)
      BY <1>8, <3>4, <3>7 DEF Accepted
    <3>10. x = EntryOf(toks, i + 1, conv)
      <4>1. TextAt(at - first) = TextOfTable(toks, i + 1)
        BY <1>3, <3>4, <3>7, <3>8, Zenon DEF TextAt, TextOfTable
      <4> QED BY <1>5, <3>7, <4>1, Zenon DEF EntryOf
    <3>11. EntriesRead(toks, i + 1, Append(archive, x), conv)
      BY <2>5, <3>3, <3>4, <3>6, <3>9, <3>10, EntriesMore
    <3> QED BY <1>3, <3>1, <3>2, <3>6, <3>11 DEF TableRead
  <2>7. WholeTable' => WholeTable
    BY <2>4 DEF WholeTable, HasMark
  <2>8. TextLoading'
    BY <1>1, <1>2, <2>3, <2>4, <2>6, <2>7 DEF TextLoading
  <2> QED BY <1>1, <2>1, <2>2, <2>3, <2>5, <2>8, TextGoes
<1> QED BY <1>7, <1>8

(* A whole table that was read has given what the file holds. *)
LEMMA TableShows ==
  ASSUME NEW f, NEW part, NEW a, TextsAre(f), TableRead(f.toks, part, f.toks[3].v, a),
         part.conv \in BOOLEAN, part.conv <=> f.fmt # "txt", IsSeq(a)
  PROVE  /\ Len(a) = Len(f.holds)
         /\ \A i \in DOMAIN a :
              IF f.holds[i] = Null THEN a[i] = Null
              ELSE a[i].k = "text" /\ (Clean(f.holds[i].v, f.fmt # "txt") => a[i] = f.holds[i])
<1>1. PICK toks, conv : toks = f.toks /\ conv = part.conv
  OBVIOUS
<1>2. PICK n \in Nat : n = toks[3].v
  BY <1>1 DEF TableRead
<1>3. Tabled(toks) /\ EntriesRead(toks, n, a, conv)
  BY <1>1, <1>2 DEF TableRead
<1>4. Len(a) = n /\ \A k \in 1..n : Accepted(toks, k) /\ a[k] = EntryOf(toks, k, conv)
  BY <1>2, <1>3 DEF EntriesRead
<1>5. \A k \in 1..n : OffsetOf(toks, k) = 0 \/ ~(OffsetOf(toks, k) < 4 * n)
  BY <1>2, <1>4 DEF Accepted
<1>6. Len(f.holds) = n /\ \A k \in 1..n : EntryIs(f.holds[k], OffsetOf(toks, k), TextOfTable(toks, k), f.fmt # "txt")
  BY <1>1, <1>2, <1>3, <1>5, Zenon DEF TextsAre
<1>7. DOMAIN a = 1..n
  BY <1>4 DEF IsSeq
<1>8. PICK c \in BOOLEAN : c = (f.fmt # "txt") /\ c = conv
  BY <1>1
<1>9. ASSUME NEW k \in 1..n
      PROVE  IF f.holds[k] = Null THEN a[k] = Null
             ELSE a[k].k = "text" /\ (Clean(f.holds[k].v, c) => a[k] = f.holds[k])
  <2>1. PICK x, y, at, found : x = f.holds[k] /\ y = a[k] /\ at = OffsetOf(toks, k) /\ found = TextOfTable(toks, k)
    OBVIOUS
  <2>2. EntryIs(x, at, found, c) /\ y = (IF at = 0 THEN Null ELSE Text(Converted(found, c)))
    BY <1>4, <1>6, <1>8, <2>1, Zenon DEF EntryOf
  <2>3. CASE x = Null
    BY <2>1, <2>2, <2>3 DEF EntryIs
  <2>4. CASE x # Null
    <3>1. at # 0 /\ IsText(x) /\ (Clean(x.v, c) => found = FileText(x.v, c))
      BY <2>2, <2>4 DEF EntryIs
    <3>2. y = Text(Converted(found, c))
      BY <2>2, <3>1
    <3>3. y.k = "text"
      BY <3>2 DEF Text
    <3>4. ASSUME Clean(x.v, c) PROVE y = x
      <4>1. Converted(FileText(x.v, c), c) = x.v
        BY <3>1, <3>4, CleanLacks
      <4>2. x = Text(x.v)
        BY <3>1 DEF IsText
      <4> QED BY <3>1, <3>2, <3>4, <4>1, <4>2
    <3> QED BY <2>1, <2>4, <3>3, <3>4
  <2> QED BY <2>3, <2>4
<1> QED BY <1>4, <1>6, <1>7, <1>8, <1>9

(* and then all of them are there. *)
LEMMA TextEnd == ASSUME Calm, FileOK, TextOK, LoadTextEnd PROVE Stepped("text") /\ IsSeq(archive') /\ TextOK'
<1>1. io.op = "text" /\ io.pos > 0 /\ io.i = Len(io.part.offs) /\ TextLoading /\ Returns(archive, "NONE")
  BY DEF LoadTextEnd, LoadingText, TextOK
<1>2. io.pos # 0
  BY <1>1
<1>3. Stepped("text") /\ archive' = archive
  BY <1>1, ReturnsIs
<1>4. io' = Idle /\ disk' = disk
  BY <1>1 DEF Returns
<1>5. ASSUME WholeTable
      PROVE  /\ Len(archive) = Len(disk.holds)
             /\ \A i \in DOMAIN archive :
                  IF disk.holds[i] = Null THEN archive[i] = Null
                  ELSE archive[i].k = "text" /\ (Clean(disk.holds[i].v, disk.fmt # "txt") => archive[i] = disk.holds[i])
  <2>1. TableRead(disk.toks, io.part, io.i, archive) /\ disk.fmt \in {"ger", "txt", "lst"}
        /\ io.part.conv \in BOOLEAN /\ (io.part.conv <=> disk.fmt # "txt")
    BY <1>1, <1>2, <1>5 DEF TextLoading
  <2>2. io.i = disk.toks[3].v
    BY <1>1, <2>1 DEF TableRead, OffsetsRead
  <2>3. TextsAre(disk)
    BY <2>1 DEF FileOK, HoldsIt
  <2>4. IsSeq(archive)
    BY DEF Calm
  <2> QED BY <2>1, <2>2, <2>3, <2>4, TableShows
<1>6. TextsStayApart'
  BY <1>3, <1>4, <1>5 DEF TextsStayApart, WholeTable, HasMark
<1> QED BY <1>3, <1>4, <1>6, IdleIsIdle DEF TextOK, Calm

(* So is one of texts. *)
LEMMA TextSteps == ASSUME Calm, FileOK, TextOK, TextStep PROVE Stepped("text") /\ IsSeq(archive') /\ TextOK'
BY TextPlain, TextTable, TextEntry, TextEnd DEF TextStep

(* LoadTXT begins with nothing read. *)
LEMMA TextBegins == ASSUME NEW conv, LoadText(conv), Started({"text"}), conv \in BOOLEAN PROVE TextOK'
<1>1. io'.op = "text" /\ ret' = NoRet /\ disk' = disk /\ IsTextFile /\ (conv <=> disk.fmt # "txt")
  BY DEF LoadText, Started
<1>2. PICK job : job = [Job("text", 0, 0, FALSE, <<>>) EXCEPT !.part = [conv |-> conv, offs |-> <<>>, data |-> <<>>]]
  OBVIOUS
<1>3. io' = job /\ archive' = <<>>
  BY <1>2 DEF LoadText, Begins
<1>4. job.pos = 0 /\ job.i = 0 /\ job.part = PartOfText(conv, <<>>, <<>>)
  BY <1>2 DEF Job, PartOfText
<1>5. PICK part : part = PartOfText(conv, <<>>, <<>>)
  OBVIOUS
<1>6. part = PartOfText(part.conv, part.offs, part.data) /\ part.conv = conv
  BY <1>5 DEF PartOfText
<1>7. disk.fmt \in {"ger", "txt", "lst"}
  BY <1>1 DEF IsTextFile
<1>8. TextLoading'
  BY <1>1, <1>3, <1>4, <1>5, <1>6, <1>7 DEF TextLoading
<1> QED BY <1>1, <1>8 DEF TextOK, TextsStayApart, NoRet

-------------------------------------------------------------------------------
(* The files of texts and of lists that are written *)

(* What a sequence has. *)
Values(s) == {s[k] : k \in 1..Len(s)}

(* It is a sequence of that. *)
LEMMA SeqOfValues == ASSUME NEW s, IsSeq(s) PROVE s \in Seq(Values(s))
<1>1. PICK S : s \in Seq(S)
  BY DEF IsSeq
<1>2. PICK r \in Seq(S) : r = s
  BY <1>1
<1>3. PICK V : V = Values(s)
  OBVIOUS
<1>4. \A k \in 1..Len(r) : r[k] \in V
  BY <1>2, <1>3 DEF Values
<1>5. r \in Seq(V)
  BY <1>4
<1> QED BY <1>2, <1>3, <1>5

(* What sequences are put together to is a sequence. *)
LEMMA FlatSeq ==
  ASSUME NEW m, NEW s, m \in Int, s = [i \in 1..m |-> s[i]], \A i \in 1..m : IsSeq(s[i])
  PROVE  IsSeq(FlattenSeq(s))
<1>1. PICK n \in Nat : 1..n = 1..m
  <2>1. CASE m \in Nat
    BY <2>1
  <2>2. CASE m \notin Nat
    <3>1. 1..0 = 1..m /\ 0 \in Nat
      BY <2>2
    <3> QED BY <3>1
  <2> QED BY <2>1, <2>2
<1>2. s = [i \in 1..n |-> s[i]] /\ \A i \in 1..n : IsSeq(s[i])
  BY <1>1
<1>3. PICK T : T = UNION {Values(s[i]) : i \in 1..n}
  OBVIOUS
<1>4. ASSUME NEW i \in 1..n PROVE s[i] \in Seq(T)
  <2>1. PICK r : r = s[i]
    OBVIOUS
  <2>2. r \in Seq(Values(r))
    BY <1>2, <2>1, SeqOfValues
  <2>3. Values(r) \subseteq T
    BY <1>3, <2>1
  <2>4. r \in Seq(T)
    BY <2>2, <2>3, SeqWithin
  <2> QED BY <2>1, <2>4
<1>5. s \in [1..n -> Seq(T)]
  BY <1>2, <1>4
<1>6. FlattenSeq(s) \in Seq(T)
  <2>1. PICK f \in [0..n -> Seq(T)] : FlattenSeq(s) = f[n]
    BY <1>5, Flattened
  <2> QED BY <2>1
<1> QED BY <1>6 DEF IsSeq

(* The tokens of a font and of an entry are sequences. *)
LEMMA FontTokensSeq ==
  ASSUME NEW x, x.uni \in BOOLEAN, Len(x.glyphs) \in Nat
  PROVE  IsSeq(FontTokens(x))
<1>1. IsSeq(<<>>) /\ \A y : IsSeq(<<y>>)
  <2>1. IsSeq(<<>>)
    BY NoSeq
  <2> QED BY <2>1, SeqGrows
<1>2. \A y, z : IsSeq(<<y, z>>)
  <2> TAKE y, z
  <2>1. <<y, z>> \in Seq({y, z})
    OBVIOUS
  <2> QED BY <2>1 DEF IsSeq
<1>3. PICK m \in Int : m = NumChars(x) - FirstGlyph
  <2>1. FirstGlyph \in Int /\ Slots \in Int
    BY FontAssumption
  <2>2. CASE x.uni
    BY <2>1, <2>2 DEF NumChars
  <2>3. CASE ~x.uni
    BY <2>1, <2>3 DEF NumChars
  <2> QED BY <2>2, <2>3
<1>4. PICK s : s = [n \in 1..m |-> GlyphTokens(x, n + FirstGlyph)]
  OBVIOUS
<1>5. \A n \in 1..m : IsSeq(s[n])
  <2>1. \A n : IsSeq(GlyphTokens(x, n))
    BY <1>1, <1>2 DEF GlyphTokens
  <2> QED BY <1>4, <2>1
<1>6. IsSeq(FlattenSeq(s))
  BY <1>4, <1>5, FlatSeq
<1>7. PICK a, b, c : a = <<[t |-> "spacing", uni |-> x.uni]>> /\ b = (IF x.uni THEN <<[t |-> "count", v |-> NumChars(x)]>> ELSE <<>>)
                     /\ c = FlattenSeq(s)
  OBVIOUS
<1>8. IsSeq(a) /\ IsSeq(b) /\ IsSeq(c)
  BY <1>1, <1>6, <1>7
<1>9. IsSeq((a \o b) \o c)
  BY <1>8, SeqGrows
<1>10. FontTokens(x) = (a \o b) \o c
  BY <1>3, <1>4, <1>7 DEF FontTokens
<1> QED BY <1>9, <1>10

(* Those of an item too. *)
LEMMA EntryTokensSeq ==
  ASSUME NEW x, NEW pal, x # Null => (x.k = "font" => x.uni \in BOOLEAN /\ Len(x.glyphs) \in Nat)
  PROVE  IsSeq(EntryTokens(x, pal))
<1>1. IsSeq(<<>>) /\ \A y : IsSeq(<<y>>)
  <2>1. IsSeq(<<>>)
    BY NoSeq
  <2> QED BY <2>1, SeqGrows
<1>2. \A y, z : IsSeq(<<y, z>>)
  <2> TAKE y, z
  <2>1. <<y, z>> \in Seq({y, z})
    OBVIOUS
  <2> QED BY <2>1 DEF IsSeq
<1>3. CASE x = Null
  BY <1>1, <1>3 DEF EntryTokens
<1>4. CASE x # Null
  <2>1. IsSeq(BodyTokens(x))
    <3>1. CASE x.k = "font"
      <4>1. BodyTokens(x) = FontTokens(x)
        BY <3>1 DEF BodyTokens, Simple
      <4> QED BY <1>4, <3>1, <4>1, FontTokensSeq
    <3>2. CASE x.k = "sound"
      <4>1. BodyTokens(x) = <<[t |-> "length"], [t |-> "sound", v |-> x.v]>>
        BY <3>2 DEF BodyTokens, Simple
      <4> QED BY <1>2, <4>1
    <3>3. CASE x.k \notin {"font", "sound"} /\ x.k \in Simple
      <4>1. BodyTokens(x) = <<[t |-> x.k, v |-> x.v]>>
        BY <3>3 DEF BodyTokens, Simple
      <4> QED BY <1>1, <4>1
    <3>4. CASE x.k \notin {"font", "sound"} /\ x.k \notin Simple
      <4>1. BodyTokens(x) = <<>>
        BY <3>4 DEF BodyTokens, Simple
      <4> QED BY <1>1, <4>1
    <3> QED BY <3>1, <3>2, <3>3, <3>4
  <2>2. PICK a, b : a = <<[t |-> "used", v |-> 1], Type(x.k)>> /\ b = (IF WriteError(x, pal) = "NONE" THEN BodyTokens(x) ELSE <<>>)
    OBVIOUS
  <2>3. IsSeq(a) /\ IsSeq(b)
    BY <1>1, <1>2, <2>1, <2>2
  <2>4. IsSeq(a \o b)
    BY <2>3, SeqGrows
  <2>5. EntryTokens(x, pal) = a \o b
    BY <1>4, <2>2 DEF EntryTokens
  <2> QED BY <2>4, <2>5
<1> QED BY <1>3, <1>4

(* The tokens of a list are a sequence, and no table of texts. *)
LEMMA ListTokensAre ==
  ASSUME NEW a, NEW m, NEW pal, m \in Int, \A i \in 1..m : IsSeq(EntryTokens(a[i], pal))
  PROVE  IsSeq(ListTokens(a, m, pal)) /\ ~Tabled(ListTokens(a, m, pal))
<1>1. PICK s : s = [i \in 1..m |-> EntryTokens(a[i], pal)]
  OBVIOUS
<1>2. \A i \in 1..m : IsSeq(s[i])
  BY <1>1
<1>3. PICK flat : flat = FlattenSeq(s) /\ IsSeq(flat)
  BY <1>1, <1>2, FlatSeq
<1>4. PICK h, c : h = [t |-> "lst"] /\ c = [t |-> "count", v |-> Len(a)]
  OBVIOUS
<1>5. PICK toks : toks = <<h, c>> \o flat
  OBVIOUS
<1>6. ListTokens(a, m, pal) = toks
  BY <1>1, <1>3, <1>4, <1>5 DEF ListTokens
<1>7. PICK F : flat \in Seq(F)
  BY <1>3 DEF IsSeq
<1>8. PICK T : T = F \union {h, c}
  OBVIOUS
<1>9. <<h, c>> \in Seq(T) /\ flat \in Seq(T)
  <2>1. h \in T /\ c \in T
    BY <1>8
  <2>2. flat \in Seq(T)
    BY <1>7, <1>8, SeqWithin
  <2> QED BY <2>1, <2>2
<1>10. toks \in Seq(T) /\ toks[1] = h
  BY <1>5, <1>9
<1>11. ~Tabled(toks)
  <2> SUFFICES ASSUME Len(toks) >= 5, SubSeq(toks, 1, 2) = Mark PROVE FALSE
    BY DEF Tabled
  <2>1. PICK r \in Seq(T) : r = toks
    BY <1>10
  <2>2. SubSeq(r, 1, 2)[1] = r[1]
    BY <2>1
  <2>3. Mark[1] = h
    BY <1>10, <2>1, <2>2
  <2>4. Mark = [i \in 1..2 |-> Char(<<231, 253>>[i])]
    BY DEF Mark, Chars
  <2>5. Mark[1].t = "c"
    BY <2>4 DEF Char
  <2> QED BY <1>4, <2>3, <2>5
<1> QED BY <1>6, <1>10, <1>11 DEF IsSeq

(* The tokens of a plain text too. *)
LEMMA PlainTokensAre ==
  ASSUME NEW s, NEW conv, s \in Seq(0..255)
  PROVE  IsSeq(Chars(FileText(s, conv))) /\ ~Tabled(Chars(FileText(s, conv)))
<1>1. PICK T : T = FileChars
  OBVIOUS
<1>2. PICK r \in Seq(T) : r = FileText(s, conv)
  BY <1>1, FileTextSeq
<1>3. PICK n \in Nat : n = Len(r) /\ DOMAIN r = 1..n
  OBVIOUS
<1>4. PICK c : c = [i \in 1..n |-> Char(r[i])]
  OBVIOUS
<1>5. Chars(FileText(s, conv)) = c
  BY <1>2, <1>3, <1>4 DEF Chars
<1>6. PICK U : U = {Char(r[i]) : i \in 1..n}
  OBVIOUS
<1>7. \A i \in 1..n : Char(r[i]) \in U
  BY <1>6
<1>8. c \in Seq(U) /\ Len(c) = n
  BY <1>4, <1>7
<1>9. ~Tabled(c)
  <2> SUFFICES ASSUME n >= 5, c[3].t = "count" PROVE FALSE
    BY <1>8 DEF Tabled
  <2>1. 3 \in 1..n
    OBVIOUS
  <2>2. c[3].t = "c"
    BY <1>4, <2>1 DEF Char
  <2> QED BY <2>2
<1> QED BY <1>5, <1>8, <1>9 DEF IsSeq

(* A file of these formats that was made, with what it needs. *)
LEMMA MadeOK ==
  ASSUME NEW fmt, NEW toks, NEW seal, fmt \in {"lst", "ger", "txt"}, IsSeq(toks),
         disk' = File(fmt, toks, <<>>, archive, seal), TextsAre(File(fmt, toks, <<>>, archive, seal))
  PROVE  FileOK'
<1>1. PICK f : f = disk' /\ f = File(fmt, toks, <<>>, archive, seal)
  OBVIOUS
<1>2. f.fmt = fmt /\ f.toks = toks /\ f.len = Len(toks) /\ TextsAre(f)
  BY <1>1, FileIs
<1>3. Len(toks) \in 0..Len(toks)
  BY NoSeq
<1> QED BY <1>1, <1>2, <1>3, FileIs DEF FileOK, HoldsIt

(* What WriteLST writes is no table of texts. *)
LEMMA ListWritten ==
  ASSUME NEW pal, Calm, client \in DOMAIN ItemsOf, Known, client = "list", WriteLST(pal)
  PROVE  FileOK'
<1>1. PICK n \in Nat : n = Len(archive) /\ DOMAIN archive = 1..n
  BY DEF Calm, IsSeq
<1>2. \A i \in 1..n : archive[i] # Null =>
        (archive[i].k = "font" => archive[i].uni \in BOOLEAN /\ Len(archive[i].glyphs) \in Nat)
  BY <1>1, FilesAssumption DEF Known, ToSet, IsListItem
<1>3. PICK bad : bad = SelectInSeq(archive, LAMBDA x : x # Null /\ WriteError(x, pal) # "NONE")
  OBVIOUS
<1>4. bad \in 0..n
  <2>1. PICK I : I = {i \in 1..Len(archive) : archive[i] # Null /\ WriteError(archive[i], pal) # "NONE"}
    OBVIOUS
  <2>2. bad = IF I # {} THEN Min(I) ELSE 0
    BY <1>3, <2>1 DEF SelectInSeq
  <2>3. I \subseteq 1..n
    BY <1>1, <2>1
  <2> QED BY <2>2, <2>3, FirstOf
<1>5. PICK last : last = IF bad = 0 THEN Len(archive) ELSE bad
  OBVIOUS
<1>6. last \in 0..n
  BY <1>1, <1>4, <1>5
<1>7. PICK toks : toks = ListTokens(archive, last, pal)
  OBVIOUS
<1>8. PICK seal : disk' = File("lst", toks, <<>>, archive, seal)
  BY <1>3, <1>5, <1>7 DEF WriteLST, Writes
<1>9. IsSeq(toks) /\ ~Tabled(toks)
  <2>1. \A i \in 1..last : IsSeq(EntryTokens(archive[i], pal))
    BY <1>2, <1>6, EntryTokensSeq
  <2> QED BY <1>6, <1>7, <2>1, ListTokensAre
<1>10. TextsAre(File("lst", toks, <<>>, archive, seal))
  <2>1. PICK f : f = File("lst", toks, <<>>, archive, seal)
    OBVIOUS
  <2>2. f.toks = toks
    BY <2>1, FileIs
  <2>3. TextsAre(f)
    BY <1>9, <2>2 DEF TextsAre
  <2> QED BY <2>1, <2>3
<1>11. "lst" \in {"lst", "ger", "txt"}
  OBVIOUS
<1> QED BY <1>8, <1>9, <1>10, <1>11, MadeOK

(* What WriteTXT writes has each text where the table says. *)
LEMMA TextWritten ==
  ASSUME NEW fmt, fmt \in {"ger", "txt"}, Calm, client \in DOMAIN ItemsOf, Known, client = "text",
         WriteTXT(fmt, fmt # "txt"), disk' # disk
  PROVE  FileOK'
<1>1. PICK n \in Nat : n = Len(archive) /\ DOMAIN archive = 1..n
  BY DEF Calm, IsSeq
<1>2. \A i \in 1..n : IsEntry(archive[i])
  BY <1>1, FilesAssumption DEF Known, ToSet, IsEntry
<1>3. PICK c \in BOOLEAN : c = (fmt # "txt")
  OBVIOUS
<1>4. PICK toks : toks = IF Plain(archive) THEN Chars(FileText(archive[1].v, c)) ELSE TextTokens(archive, c)
  OBVIOUS
<1>5. PICK seal : disk' = File(fmt, toks, <<>>, archive, seal)
  BY <1>3, <1>4 DEF WriteTXT, Writes
<1>6. CASE Plain(archive)
  <2>1. archive[1].v \in Seq(0..255)
    <3>1. n = 1 /\ archive[1] # Null
      BY <1>1, <1>6 DEF Plain
    <3>2. IsText(archive[1])
      BY <1>2, <3>1 DEF IsEntry
    <3> QED BY <3>2 DEF IsText
  <2>2. IsSeq(toks) /\ ~Tabled(toks)
    BY <1>4, <1>6, <2>1, PlainTokensAre
  <2>3. PICK f : f = File(fmt, toks, <<>>, archive, seal)
    OBVIOUS
  <2>4. f.toks = toks
    BY <2>3, FileIs
  <2>5. TextsAre(f)
    BY <2>2, <2>4 DEF TextsAre
  <2>6. fmt \in {"lst", "ger", "txt"}
    OBVIOUS
  <2> QED BY <1>5, <2>2, <2>3, <2>5, <2>6, MadeOK
<1>7. CASE ~Plain(archive)
  <2>1. toks = TextTokens(archive, c)
    BY <1>4, <1>7
  <2>2. IsSeq(archive) /\ \A i \in 1..Len(archive) : IsEntry(archive[i])
    BY <1>1, <1>2 DEF Calm
  <2>3. TextsAre(File(fmt, toks, <<>>, archive, seal))
    BY <1>3, <2>1, <2>2, TextsAreWritten
  <2>4. IsSeq(toks)
    BY <2>1, <2>2, TextTokensSeq
  <2>5. fmt \in {"lst", "ger", "txt"}
    OBVIOUS
  <2> QED BY <1>5, <2>3, <2>4, <2>5, MadeOK
<1> QED BY <1>6, <1>7

-------------------------------------------------------------------------------
(* What is written holds what was written. *)
LEMMA WrittenOK == ASSUME Calm, FileOK, client \in DOMAIN ItemsOf, Known, FilesWrite PROVE FileOK'
<1>1. CASE disk' = disk
  BY <1>1, SameHolds DEF FileOK
<1>2. CASE \E fmt \in {"act", "bbm"} : \E toks, idx, holds, seal : disk' = File(fmt, toks, idx, holds, seal)
  <2>1. PICK fmt \in {"act", "bbm"} : \E toks, idx, holds, seal : disk' = File(fmt, toks, idx, holds, seal)
    BY <1>2
  <2>2. PICK toks, idx, holds, seal : disk' = File(fmt, toks, idx, holds, seal)
    BY <2>1
  <2>3. PICK f : f = disk' /\ f = File(fmt, toks, idx, holds, seal)
    BY <2>2
  <2> QED BY <2>3, FileIs DEF FileOK, HoldsIt
<1>3. CASE WriteBMP /\ disk' # disk
  BY <1>3, BmpWritten
<1>6. CASE (\E pal : WriteLBM(pal)) /\ disk' # disk
  <2>1. LbmFileMade(disk')
    BY <1>6, LbmFileIs
  <2>2. PICK toks, seal : disk' = File("lbm", toks, <<>>, archive, seal) /\ IsSeq(toks) /\ LbmIs(toks, archive)
    BY <2>1 DEF LbmFileMade
  <2>3. PICK f : f = disk' /\ f = File("lbm", toks, <<>>, archive, seal)
    BY <2>2
  <2>4. Len(toks) \in Nat /\ Len(toks) \in 0..Len(toks)
    BY <2>2, NoSeq
  <2>5. f.fmt = "lbm" /\ f.toks = toks /\ f.holds = archive /\ f.len = Len(toks)
    BY <2>3, FileIs
  <2> QED BY <2>2, <2>3, <2>4, <2>5, FileIs DEF FileOK, HoldsIt
<1>4. CASE WritePaletteAnim
  BY <1>4, AnimsWritten
<1>5. CASE client = "ini" /\ WriteINI
  BY <1>5, IniWritten
<1>7. CASE (client = "list" /\ \E pal : WriteLST(pal)) /\ disk' # disk
  BY <1>7, ListWritten
<1>8. CASE (client = "text" /\ \E fmt \in {"ger", "txt"} : WriteTXT(fmt, fmt # "txt")) /\ disk' # disk
  BY <1>8, TextWritten
<1> QED BY <1>1, <1>2, <1>3, <1>4, <1>5, <1>6, <1>7, <1>8, WriteCalls

-------------------------------------------------------------------------------
(* The invariant, and every step of clients and loads *)

FInv ==
  /\ Calm /\ client \in DOMAIN ItemsOf /\ FileOK
  /\ BobOK /\ BmpOK /\ LbmOK /\ AnimsOK /\ IniOK /\ TextOK

(* A call or a step of another kind. *)
NotOf(op) == io'.op # op /\ ret'.op # op

(* What is not a load of this kind keeps what is known of it. *)
LEMMA OthersKeep ==
  /\ NotOf("bob") => BobOK'
  /\ NotOf("bmp") => BmpOK'
  /\ NotOf("lbm") => LbmOK'
  /\ NotOf("anims") => AnimsOK'
  /\ NotOf("ini") => IniOK'
  /\ NotOf("text") => TextOK'
<1>1. NotOf("bob") => BobOK'
  BY DEF NotOf, BobOK
<1>2. NotOf("bmp") => BmpOK'
  BY DEF NotOf, BmpOK, BmpShowsSame, LoadedWhole
<1>3. NotOf("anims") => AnimsOK'
  BY DEF NotOf, AnimsOK
<1>4. NotOf("ini") => IniOK'
  BY DEF NotOf, IniOK
<1>5. NotOf("lbm") => LbmOK'
  BY DEF NotOf, LbmOK, LbmShowsSame, LoadedWhole
<1>6. NotOf("text") => TextOK'
  BY DEF NotOf, TextOK, TextsStayApart
<1> QED BY <1>1, <1>2, <1>3, <1>4, <1>5, <1>6

(* A call that does not load, or a step of a load, in which kinds of loads *)
(* it is not.                                                              *)
LEMMA CalledIs ==
  ASSUME Calm, NEW ops, Called(ops), ops \intersect {"bob", "bmp", "lbm", "anims", "ini", "text"} = {}, IsSeq(archive')
  PROVE  Calm' /\ client' = client /\ NotOf("bob") /\ NotOf("bmp") /\ NotOf("lbm") /\ NotOf("anims") /\ NotOf("ini") /\ NotOf("text") /\ io.op \notin {"anims", "ini"}
<1>1. io = Idle /\ io' = Idle /\ ret'.op \in ops /\ client' = client
  BY DEF Called
<1> QED BY <1>1, IdleIsIdle DEF Calm, NotOf

(* The beginning of a load. *)
LEMMA StartedIs ==
  ASSUME Calm, NEW ops, Started(ops), "idle" \notin ops, IsSeq(archive')
  PROVE  /\ Calm' /\ client' = client /\ disk' = disk /\ io.op \notin {"anims", "ini"}
         /\ \A op \in {"bob", "bmp", "lbm", "anims", "ini", "text"} : op \notin ops => NotOf(op)
<1>1. io = Idle /\ Fields(io') /\ io'.op \in ops /\ ret' = NoRet /\ disk' = disk /\ client' = client
  BY DEF Started
<1>2. io'.op # "idle"
  BY <1>1
<1> QED BY <1>1, <1>2, IdleIsIdle DEF Calm, NotOf

(* A step of a load. *)
LEMMA SteppedIs ==
  ASSUME Calm, NEW op, Stepped(op), op # "idle", IsSeq(archive')
  PROVE  /\ Calm' /\ client' = client /\ disk' = disk /\ io.op = op
         /\ \A o \in {"bob", "bmp", "lbm", "anims", "ini", "text"} : o # op => NotOf(o)
<1>1. io.op = op /\ io # Idle /\ disk' = disk /\ client' = client /\ ret = NoRet
  BY IdleIsIdle DEF Stepped, Calm
<1>2. CASE Fields(io') /\ io'.op = op /\ ret' = ret
  BY <1>1, <1>2, IdleIsIdle DEF Calm, NotOf
<1>3. CASE io' = Idle /\ ret'.op = op
  BY <1>1, <1>3, IdleIsIdle DEF Calm, NotOf
<1> QED BY <1>1, <1>2, <1>3 DEF Stepped

(* A file that no step changes holds what it held. *)
LEMMA FileStays == ASSUME FileOK, disk' = disk PROVE FileOK'
BY SameHolds DEF FileOK

(* How the loads of five formats begin. *)
LEMMA BobBegins == ASSUME LoadBOB, Started({"bob"}) PROVE BobOK'
<1>1. io = Idle /\ io'.op = "bob" /\ ret' = NoRet /\ disk' = disk /\ disk.fmt = "bob"
  BY DEF LoadBOB, Started
<1>2. ~Fails({"WRONG_HEADER"})
  BY <1>1, IdleIsIdle DEF Fails, Returns
<1>3. io' = [Job("bob", 2, 0, TRUE, <<>>) EXCEPT !.part = NoBob]
  BY <1>2 DEF LoadBOB, Begins
<1>4. io'.base = <<>> /\ io'.i = 0 /\ io'.pos = 2 /\ io'.part = NoBob
  BY <1>3 DEF Job
<1>5. PICK part : part = NoBob
  OBVIOUS
<1>6. /\ part = [clrs |-> <<>>, images |-> <<>>, heads |-> <<>>, links |-> <<>>, due |-> 0]
      /\ part.clrs = <<>> /\ part.images = <<>> /\ part.heads = <<>> /\ part.links = <<>> /\ part.due = 0
  BY <1>5 DEF NoBob
<1>7. PartIs(part) /\ InBodies(2, part)
  <2>1. IsSeq(<<>>) /\ Len(<<>>) = 0
    BY NoSeq
  <2>2. \A k \in 1..0 : FALSE
    OBVIOUS
  <2>3. BodiesOK(<<>>)
    BY <2>1, BobSizes DEF BodiesOK
  <2>4. PartIs(part)
    BY <1>6, <2>1, <2>2, <2>3, BobSizes DEF PartIs
  <2>5. InBodies(2, part)
    BY <1>6, <2>1, BobSizes DEF InBodies
  <2> QED BY <2>4, <2>5
<1>8. BobLoading'
  BY <1>1, <1>4, <1>5, <1>7 DEF BobLoading
<1> QED BY <1>1, <1>8 DEF BobOK, NoRet

(* LoadBMP begins with nothing read, *)
LEMMA BmpBegins == ASSUME FileOK, LoadBMP, Started({"bmp"}) PROVE BmpOK'
<1>1. io = Idle /\ io'.op = "bmp" /\ ret' = NoRet /\ disk' = disk /\ disk.fmt = "bmp" /\ disk.len > 0
  BY DEF LoadBMP, Opens, Started
<1>2. \A codes : ~Fails(codes)
  BY <1>1, IdleIsIdle DEF Fails, Returns
<1>3. Is(1, "BM") /\ BmpError(disk.toks[1]) = "NONE" /\ io' = Job("bmp", 2, 0, FALSE, archive)
  BY <1>2 DEF LoadBMP, Begins
<1>4. io'.part = Null
  BY <1>3 DEF Job
<1>5. disk.toks # <<>>
  BY <1>1, NoSeq DEF FileOK
<1>6. BmpLoading'
  BY <1>1, <1>3, <1>4, <1>5 DEF BmpLoading, Is
<1> QED BY <1>1, <1>6 DEF BmpOK, BmpShowsSame, LoadedWhole, NoRet

(* What is known of an LBM file. *)
LEMMA LbmFile == ASSUME FileOK, disk.fmt = "lbm" PROVE LbmStored
BY DEF FileOK, HoldsIt, LbmStored

(* LoadLBM begins behind the first chunk, *)
LEMMA LbmBegins == ASSUME FileOK, LoadLBM, Started({"lbm"}) PROVE LbmOK'
<1>1. io = Idle /\ io'.op = "lbm" /\ ret' = NoRet /\ disk' = disk /\ disk.fmt = "lbm" /\ disk.len > 0
  BY DEF LoadLBM, Opens, Started
<1>2. \A codes : ~Fails(codes)
  BY <1>1, IdleIsIdle DEF Fails, Returns
<1>3. /\ Is(1, "FORM") /\ archive' = Nulls(1)
      /\ io' = [Job("lbm", 2, 0, FALSE, <<>>) EXCEPT !.part = [hdr |-> 0, pal |-> Null, done |-> FALSE]]
  BY <1>2 DEF LoadLBM, Begins
<1>4. PICK part : part = [hdr |-> 0, pal |-> Null, done |-> FALSE] /\ io'.part = part /\ io'.pos = 2
  BY <1>3 DEF Job
<1>5. /\ part = [hdr |-> part.hdr, pal |-> part.pal, done |-> part.done]
      /\ part.hdr = 0 /\ part.pal = Null /\ part.done = FALSE
  BY <1>4
<1>6. disk.len \in Nat /\ disk.len # 0 /\ 2 \in 2..(disk.len + 1)
  BY <1>1 DEF FileOK
<1>7. disk.toks[1].t = "FORM"
  BY <1>3 DEF Is
<1>8. AnimsTo(disk.toks, 1) = 0 /\ \A p \in 1..1 : disk.toks[p].t # "BMHD"
  <2>1. {p \in 1..1 : disk.toks[p].t = "CRNG"} = {}
    BY <1>7
  <2> QED BY <1>7, <2>1, FS_EmptySet DEF AnimsTo
<1>9. Len(archive') = 1
  BY <1>3, NullsAreSeq
<1>10. ChunksRead(disk.toks, disk.holds, archive', part, 1)
  <2>1. AnimsRead(archive', disk.holds)
    BY <1>9 DEF AnimsRead
  <2>2. HeaderRead(disk.toks, part.hdr, 1) /\ PaletteRead(disk.toks, part.hdr, part.pal, 1)
    BY <1>5, <1>8 DEF HeaderRead, PaletteRead
  <2> QED BY <1>5, <1>8, <1>9, <2>1, <2>2 DEF ChunksRead
<1>11. io'.pos - 1 = 1
  BY <1>4
<1>12. LbmLoading'
  BY <1>1, <1>4, <1>6, <1>10, <1>11 DEF LbmLoading
<1> QED BY <1>1, <1>12 DEF LbmOK, LbmShowsSame, LoadedWhole, NoRet

(* and LoadPaletteAnim with the archive that is there. *)
LEMMA AnimsBegin == ASSUME Calm, FileOK, LoadPaletteAnim, Started({"anims"}) PROVE AnimsOK'
<1>1. io = Idle /\ io'.op = "anims" /\ ret' = NoRet /\ disk' = disk /\ disk.fmt = "anims" /\ IsSeq(archive)
  BY DEF LoadPaletteAnim, Started, Calm
<1>2. \A codes : ~Fails(codes)
  BY <1>1, IdleIsIdle DEF Fails, Returns
<1>3. Is(1, "palAnimHeader") /\ io' = Job("anims", 2, 0, FALSE, archive) /\ archive' = archive
  BY <1>2 DEF LoadPaletteAnim, Begins
<1>4. io'.base = archive /\ io'.pos = 2
  BY <1>3 DEF Job
<1>5. 2 \in 2..(Len(disk.toks) + 1)
  BY <1>1, <1>3, AnimsFile DEF Is
<1>6. PICK l \in Nat : l = Len(archive) /\ DOMAIN archive = 1..l
  BY <1>1 DEF IsSeq
<1>7. LinesRead(disk, archive, archive, 1)
  <2>1. \A p \in 2..1 : FALSE
    OBVIOUS
  <2>2. \A i \in 1..Len(archive) : EntryRead(disk, archive, archive, 1, i)
    BY <1>6, <2>1 DEF EntryRead
  <2> QED BY <1>6, <2>1, <2>2 DEF LinesRead
<1>8. io'.pos - 1 = 1
  BY <1>4
<1>9. LinesRead(disk', archive', io'.base, io'.pos - 1)
  BY <1>1, <1>3, <1>4, <1>7, <1>8
<1>10. AnimsLoading'
  BY <1>1, <1>4, <1>5, <1>9 DEF AnimsLoading
<1> QED BY <1>10 DEF AnimsOK

(* LoadINI begins before the first line. *)
LEMMA IniBegins == ASSUME Calm, FileOK, LoadINI, Started({"ini"}) PROVE IniOK'
<1>1. /\ io'.op = "ini" /\ disk' = disk /\ disk.fmt = "ini" /\ disk.len > 0 /\ IsSeq(archive)
      /\ io' = Job("ini", 1, 0, FALSE, archive) /\ archive' = archive
  BY DEF LoadINI, Opens, Begins, Started, Calm
<1>2. io'.base = archive /\ io'.pos = 1 /\ io'.i = 0 /\ io'.part = Null
  BY <1>1 DEF Job
<1>3. disk.len \in Nat /\ disk.len # 0 /\ 1 \in 1..(disk.len + 1)
  BY <1>1, IniFile
<1>4. PICK a : a = archive
  OBVIOUS
<1>5. SectionsRead(a, a, Null, 0, 0)
  <2>1. SectionsTo(0) = 0
    BY SectionsStep
  <2>2. PICK l \in Nat : l = Len(a)
    BY <1>1, <1>4 DEF IsSeq
  <2>3. l + 0 + 0 = l /\ 0 # 1 /\ \A k \in 1..0 : FALSE
    OBVIOUS
  <2> QED BY <1>1, <1>4, <2>1, <2>2, <2>3 DEF SectionsRead
<1>6. SectionsRead(a, a, Null, 0, 0)'
  BY <1>1, <1>5, SameLines
<1>7. io'.pos - 1 = 0
  BY <1>2
<1>8. IniLoading'
  BY <1>1, <1>2, <1>3, <1>4, <1>6, <1>7 DEF IniLoading
<1> QED BY <1>8 DEF IniOK

(* A load of another format that goes on. *)
LEMMA OtherSteps ==
  ASSUME FInv, \E op \in Others : Stepped(op) /\ IsSeq(archive')
  PROVE  FInv' /\ io.op \notin {"anims", "ini"}
<1>1. PICK op \in Others : Stepped(op) /\ IsSeq(archive')
  OBVIOUS
<1>2. op # "idle" /\ op \notin {"bob", "bmp", "lbm", "anims", "ini", "text"}
  BY DEF Others
<1>3. Calm /\ FileOK /\ client \in DOMAIN ItemsOf
  BY DEF FInv
<1>4. /\ Calm' /\ client' = client /\ disk' = disk /\ io.op = op
      /\ NotOf("bob") /\ NotOf("bmp") /\ NotOf("lbm") /\ NotOf("anims") /\ NotOf("ini") /\ NotOf("text")
  BY <1>1, <1>2, <1>3, SteppedIs
<1> QED BY <1>2, <1>3, <1>4, OthersKeep, FileStays DEF FInv

(* Every step of a load keeps the invariant. *)
LEMMA LoadStepsKeep ==
  ASSUME FInv, LoadStep
  PROVE  FInv' /\ (io.op = "anims" => AnimsPlaced) /\ (io.op = "ini" => IniPlaced)
<1>1. Calm /\ FileOK /\ client \in DOMAIN ItemsOf /\ BobOK /\ BmpOK /\ LbmOK /\ AnimsOK /\ IniOK /\ TextOK
  BY DEF FInv
<1>2. CASE ListStep
  BY <1>1, <1>2, ListSteps, OtherSteps
<1>3. CASE TextStep
  <2>1. Stepped("text") /\ IsSeq(archive') /\ TextOK'
    BY <1>1, <1>3, TextSteps
  <2>2. Calm' /\ client' = client /\ disk' = disk /\ io.op = "text" /\ NotOf("bob") /\ NotOf("bmp") /\ NotOf("lbm") /\ NotOf("anims") /\ NotOf("ini")
    BY <1>1, <2>1, SteppedIs
  <2> QED BY <1>1, <2>1, <2>2, OthersKeep, FileStays DEF FInv
<1>4. CASE IniStep
  <2>1. Stepped("ini") /\ IsSeq(archive') /\ IniOK' /\ IniPlaced
    BY <1>1, <1>4, IniSteps
  <2>2. Calm' /\ client' = client /\ disk' = disk /\ io.op = "ini" /\ NotOf("bob") /\ NotOf("bmp") /\ NotOf("lbm") /\ NotOf("anims") /\ NotOf("text")
    BY <1>1, <2>1, SteppedIs
  <2> QED BY <1>1, <2>1, <2>2, OthersKeep, FileStays DEF FInv
<1>5. CASE LoadActPalette \/ LoadBbmPalette \/ LoadBbmUnknown \/ LoadBbmEnd
  BY <1>1, <1>5, PaletteSteps, OtherSteps
<1>6. CASE LoadLbmHeader \/ LoadLbmAnim \/ LoadLbmPalette \/ LoadLbmUnknown \/ LoadLbmBody \/ LoadLbmEnd
  <2>1. io.op = "lbm"
    BY <1>6 DEF LoadLbmHeader, LoadLbmAnim, LoadLbmPalette, LoadLbmUnknown, LoadLbmBody, LoadLbmEnd, AtChunk
  <2>2. LbmStored
    BY <1>1, <2>1, LbmFile DEF LbmOK, LbmLoading
  <2>3. Stepped("lbm") /\ IsSeq(archive') /\ LbmOK'
    BY <1>1, <1>6, <2>2, LbmStepsKeep
  <2>4. Calm' /\ client' = client /\ disk' = disk /\ NotOf("bob") /\ NotOf("bmp") /\ NotOf("anims") /\ NotOf("ini") /\ NotOf("text")
    BY <1>1, <2>3, SteppedIs
  <2> QED BY <1>1, <2>1, <2>3, <2>4, OthersKeep, FileStays DEF FInv
<1>7. CASE BobStep
  <2>1. Stepped("bob") /\ IsSeq(archive') /\ BobOK'
    BY <1>1, <1>7, BobSteps
  <2>2. Calm' /\ client' = client /\ disk' = disk /\ io.op = "bob" /\ NotOf("bmp") /\ NotOf("lbm") /\ NotOf("anims") /\ NotOf("ini") /\ NotOf("text")
    BY <1>1, <2>1, SteppedIs
  <2> QED BY <1>1, <2>1, <2>2, OthersKeep, FileStays DEF FInv
<1>8. CASE LoadBmpPalette \/ LoadBmpRows
  <2>1. Stepped("bmp") /\ IsSeq(archive') /\ BmpOK'
    BY <1>1, <1>8, BmpPalette, BmpEnd
  <2>2. Calm' /\ client' = client /\ disk' = disk /\ io.op = "bmp" /\ NotOf("bob") /\ NotOf("lbm") /\ NotOf("anims") /\ NotOf("ini") /\ NotOf("text")
    BY <1>1, <2>1, SteppedIs
  <2> QED BY <1>1, <2>1, <2>2, OthersKeep, FileStays DEF FInv
<1>9. CASE LoadAnimLine \/ LoadAnimComment \/ LoadAnimWrong \/ LoadAnimEnd
  <2>1. Stepped("anims") /\ IsSeq(archive') /\ AnimsOK' /\ AnimsPlaced
    BY <1>1, <1>9, AnimLine, AnimComment, AnimWrong, AnimEnd
  <2>2. Calm' /\ client' = client /\ disk' = disk /\ io.op = "anims" /\ NotOf("bob") /\ NotOf("bmp") /\ NotOf("lbm") /\ NotOf("ini") /\ NotOf("text")
    BY <1>1, <2>1, SteppedIs
  <2> QED BY <1>1, <2>1, <2>2, OthersKeep, FileStays DEF FInv
<1> QED BY <1>2, <1>3, <1>4, <1>5, <1>6, <1>7, <1>8, <1>9, Zenon DEF LoadStep, PaletteStep, PictureStep

(* So does every call of Load, *)
LEMMA LoadsKeep == ASSUME FInv, FilesLoad PROVE FInv' /\ io.op \notin {"anims", "ini"}
<1>1. Calm /\ FileOK /\ client \in DOMAIN ItemsOf
  BY DEF FInv
<1>2. disk' = disk /\ IsSeq(archive') /\ FileOK'
  BY <1>1, LoadCalls, FileStays
<1>3. CASE Called({"idle"})
  BY <1>1, <1>2, <1>3, CalledIs, OthersKeep DEF FInv
<1>4. CASE Started(Others)
  <2>1. "idle" \notin Others /\ "bob" \notin Others /\ "bmp" \notin Others /\ "lbm" \notin Others /\ "anims" \notin Others
       /\ "ini" \notin Others /\ "text" \notin Others
    BY DEF Others
  <2>2. Calm' /\ client' = client /\ NotOf("bob") /\ NotOf("bmp") /\ NotOf("lbm") /\ NotOf("anims") /\ NotOf("ini") /\ NotOf("text") /\ io.op \notin {"anims", "ini"}
    BY <1>1, <1>2, <1>4, <2>1, StartedIs
  <2> QED BY <1>1, <1>2, <2>2, OthersKeep DEF FInv
<1>5. CASE Started({"bob"}) /\ LoadBOB
  <2>1. Calm' /\ client' = client /\ NotOf("bmp") /\ NotOf("lbm") /\ NotOf("anims") /\ NotOf("ini") /\ NotOf("text") /\ io.op \notin {"anims", "ini"}
    BY <1>1, <1>2, <1>5, StartedIs
  <2> QED BY <1>1, <1>2, <1>5, <2>1, BobBegins, OthersKeep DEF FInv
<1>6. CASE Started({"bmp"}) /\ LoadBMP
  <2>1. Calm' /\ client' = client /\ NotOf("bob") /\ NotOf("lbm") /\ NotOf("anims") /\ NotOf("ini") /\ NotOf("text") /\ io.op \notin {"anims", "ini"}
    BY <1>1, <1>2, <1>6, StartedIs
  <2> QED BY <1>1, <1>2, <1>6, <2>1, BmpBegins, OthersKeep DEF FInv
<1>9. CASE Started({"lbm"}) /\ LoadLBM
  <2>1. Calm' /\ client' = client /\ NotOf("bob") /\ NotOf("bmp") /\ NotOf("anims") /\ NotOf("ini") /\ NotOf("text") /\ io.op \notin {"anims", "ini"}
    BY <1>1, <1>2, <1>9, StartedIs
  <2> QED BY <1>1, <1>2, <1>9, <2>1, LbmBegins, OthersKeep DEF FInv
<1>7. CASE Started({"anims"}) /\ LoadPaletteAnim
  <2>1. Calm' /\ client' = client /\ NotOf("bob") /\ NotOf("bmp") /\ NotOf("lbm") /\ NotOf("ini") /\ NotOf("text") /\ io.op \notin {"anims", "ini"}
    BY <1>1, <1>2, <1>7, StartedIs
  <2> QED BY <1>1, <1>2, <1>7, <2>1, AnimsBegin, OthersKeep DEF FInv
<1>8. CASE Started({"ini"}) /\ LoadINI
  <2>1. Calm' /\ client' = client /\ NotOf("bob") /\ NotOf("bmp") /\ NotOf("lbm") /\ NotOf("anims") /\ NotOf("text") /\ io.op \notin {"anims", "ini"}
    BY <1>1, <1>2, <1>8, StartedIs
  <2> QED BY <1>1, <1>2, <1>8, <2>1, IniBegins, OthersKeep DEF FInv
<1>10. CASE Started({"text"}) /\ \E conv \in BOOLEAN : LoadText(conv)
  <2>1. TextOK'
    BY <1>10, TextBegins
  <2>2. Calm' /\ client' = client /\ NotOf("bob") /\ NotOf("bmp") /\ NotOf("lbm") /\ NotOf("anims") /\ NotOf("ini") /\ io.op \notin {"anims", "ini"}
    BY <1>1, <1>2, <1>10, StartedIs
  <2> QED BY <1>1, <1>2, <2>1, <2>2, OthersKeep DEF FInv
<1> QED BY <1>1, <1>3, <1>4, <1>5, <1>6, <1>7, <1>8, <1>9, <1>10, LoadCalls

(* a step of no one, *)
LEMMA Stutters == ASSUME FInv, UNCHANGED avars PROVE FInv'
<1>1. client' = client /\ archive' = archive /\ disk' = disk /\ io' = io /\ ret' = ret
  BY DEF avars
<1>2. Calm' /\ client' \in DOMAIN ItemsOf /\ FileOK'
  BY <1>1, FileStays DEF FInv, Calm
<1>3. BobOK'
  BY <1>1 DEF FInv, BobOK, BobLoading, BobLoaded, InBodies, InOverlays, InLinks, PartIs
<1>4. BmpOK'
  <2>1. BmpLoading => BmpLoading'
    BY <1>1 DEF BmpLoading, HasColours, Is
  <2>2. BmpShowsSame => BmpShowsSame'
    BY <1>1 DEF BmpShowsSame, LoadedWhole
  <2> QED BY <1>1, <2>1, <2>2 DEF FInv, BmpOK
<1>5. AnimsOK'
  BY <1>1 DEF FInv, AnimsOK, AnimsLoading, LinesRead, EntryRead, LastLine, LineFor
<1>6. IniOK'
  <2>1. ASSUME io.op = "ini" PROVE IniLoading'
    <3>1. IniLoading
      BY <2>1 DEF FInv, IniOK
    <3>2. PICK a, b, part, p, n : a = archive /\ b = io.base /\ part = io.part /\ p = io.pos - 1 /\ n = disk.len
      OBVIOUS
    <3>3. CASE io.i = 0 /\ io.pos \in 1..(disk.len + 1) /\ SectionsRead(a, b, part, p, 0)
      <4>1. SectionsRead(a, b, part, p, 0)'
        BY <1>1, <3>3, SameLines
      <4> QED BY <1>1, <3>1, <3>2, <3>3, <4>1 DEF IniLoading
    <3>4. CASE io.i = 1 /\ io.part = Null /\ SectionsRead(a, b, Null, n, 1)
      <4>1. SectionsRead(a, b, Null, n, 1)'
        BY <1>1, <3>4, SameLines
      <4> QED BY <1>1, <3>1, <3>2, <3>4, <4>1 DEF IniLoading
    <3> QED BY <3>1, <3>2, <3>3, <3>4 DEF IniLoading
  <2> QED BY <1>1, <2>1 DEF IniOK
<1>7. LbmOK'
  <2>1. LbmLoading => LbmLoading'
    BY <1>1 DEF LbmLoading, HasPixels
  <2>2. LbmShowsSame => LbmShowsSame'
    BY <1>1 DEF LbmShowsSame, LoadedWhole
  <2> QED BY <1>1, <2>1, <2>2 DEF FInv, LbmOK
<1>8. TextOK'
  <2>1. TextLoading => TextLoading'
    BY <1>1 DEF TextLoading, WholeTable, HasMark
  <2>2. TextsStayApart => TextsStayApart'
    BY <1>1 DEF TextsStayApart, HasMark
  <2> QED BY <1>1, <2>1, <2>2 DEF FInv, TextOK
<1> QED BY <1>2, <1>3, <1>4, <1>5, <1>6, <1>7, <1>8 DEF FInv

(* and every step of clients and loads. *)
LEMMA NextKeeps ==
  ASSUME FInv, [FilesNext]_avars
  PROVE  FInv' /\ (io.op = "anims" => AnimsPlaced) /\ (io.op = "ini" => IniPlaced)
<1>1. Calm /\ FileOK /\ client \in DOMAIN ItemsOf
  BY DEF FInv
<1>2. CASE ArchiveEdit(ItemsOf[client]) \/ (client = "ini" /\ SetValue)
  <2>1. Called({"edit"}) /\ disk' = disk /\ IsSeq(archive')
    BY <1>1, <1>2, EditCalls
  <2>2. Calm' /\ client' = client /\ NotOf("bob") /\ NotOf("bmp") /\ NotOf("lbm") /\ NotOf("anims") /\ NotOf("ini") /\ NotOf("text") /\ io.op \notin {"anims", "ini"}
    BY <1>1, <2>1, CalledIs
  <2> QED BY <1>1, <2>1, <2>2, OthersKeep, FileStays DEF FInv
<1>3. CASE Known /\ FilesWrite
  <2>1. Called({"write"}) /\ archive' = archive /\ FileOK'
    BY <1>1, <1>3, WriteCalls, WrittenOK
  <2>2. IsSeq(archive')
    BY <1>1, <2>1 DEF Calm
  <2>3. Calm' /\ client' = client /\ NotOf("bob") /\ NotOf("bmp") /\ NotOf("lbm") /\ NotOf("anims") /\ NotOf("ini") /\ NotOf("text") /\ io.op \notin {"anims", "ini"}
    BY <1>1, <2>1, <2>2, CalledIs
  <2> QED BY <1>1, <2>1, <2>3, OthersKeep DEF FInv
<1>4. CASE FilesLoad
  BY <1>4, LoadsKeep
<1>5. CASE LoadStep
  BY <1>5, LoadStepsKeep
<1>6. CASE TearFile \/ TearIndex
  <2>1. Called({"none"}) /\ archive' = archive /\ FileOK'
    BY <1>1, <1>6, TearCalls
  <2>2. IsSeq(archive')
    BY <1>1, <2>1 DEF Calm
  <2>3. Calm' /\ client' = client /\ NotOf("bob") /\ NotOf("bmp") /\ NotOf("lbm") /\ NotOf("anims") /\ NotOf("ini") /\ NotOf("text") /\ io.op \notin {"anims", "ini"}
    BY <1>1, <2>1, <2>2, CalledIs
  <2> QED BY <1>1, <2>1, <2>3, OthersKeep DEF FInv
<1>7. CASE UNCHANGED avars
  <2>1. (io.op = "anims" => AnimsPlaced) /\ (io.op = "ini" => IniPlaced)
    <3> SUFFICES ASSUME io.op \in {"anims", "ini"} PROVE ret'.code # "NONE"
      BY DEF AnimsPlaced, IniPlaced
    <3>1. ret' = NoRet
      BY <1>1, <1>7, IdleIsIdle DEF Calm, avars
    <3> QED BY <3>1 DEF NoRet
  <2> QED BY <1>7, <2>1, Stutters
<1> QED BY <1>2, <1>3, <1>4, <1>5, <1>6, <1>7, Zenon DEF FilesNext

(* It holds at first. *)
LEMMA InitKeeps == ASSUME FilesInit PROVE FInv
<1>1. FileOK /\ Calm /\ client \in DOMAIN ItemsOf /\ io = Idle /\ ret = NoRet
  BY FoundOK DEF FilesInit, ArchiveInit
<1> QED BY <1>1, IdleIsIdle DEF FInv, BobOK, BmpOK, BmpShowsSame, LoadedWhole, LbmOK, LbmShowsSame,
                             AnimsOK, IniOK, TextOK, TextsStayApart, NoRet

(* Whatever clients write, load, edit and lose, files hold what their      *)
(* formats say, and each load has read what it should have.                *)
THEOREM FilesInvariant == FilesSpec => []FInv
<1>1. FilesInit => FInv
  BY InitKeeps
<1>2. FInv /\ [FilesNext]_avars => FInv'
  BY NextKeeps
<1> QED BY <1>1, <1>2, PTL DEF FilesSpec

(* A bob that was loaded (ArchivItem_Bob::load) has a body for every build, *)
(* direction and step, and every job an overlay, decoded with the colours  *)
(* of a direction in which it is shown.                                    *)
THEOREM BobsComplete == FilesSpec => []FiguresComplete
<1>1. FInv => FiguresComplete
  BY BobShows DEF FInv
<1> QED BY <1>1, FilesInvariant, PTL

(* A picture shows the same after WriteBMP and LoadBMP, or as it did for   *)
(* who made the file, wherever its palette has TRANSPARENT_COLOR, unless   *)
(* an entry with it is ahead of the transparent one and the picture has    *)
(* pixels of one of the two.                                               *)
THEOREM BmpsShowSame == FilesSpec => []BmpShowsSame
<1>1. FInv => BmpShowsSame
  BY DEF FInv, BmpOK
<1> QED BY <1>1, FilesInvariant, PTL

(* A picture shows the same after WriteLBM and LoadLBM, or as it did for   *)
(* who made the file: with the transparent index and index 0 exchanged in  *)
(* palette and pixels alike, and also when an animation that was with it   *)
(* has turned others of its colours.                                       *)
THEOREM LbmsShowSame == FilesSpec => []LbmShowsSame
<1>1. FInv => LbmShowsSame
  BY DEF FInv, LbmOK
<1> QED BY <1>1, FilesInvariant, PTL

(* What WriteTXT put into a table, or who made the file, LoadTXT and       *)
(* ArchivItem_Text::load find there again: the same entries empty, and     *)
(* each text of characters that the file knows the same, also when texts   *)
(* share their place and a line feed is a pair of at signs in the file.    *)
THEOREM TextsApart == FilesSpec => []TextsStayApart
<1>1. FInv => TextsStayApart
  BY DEF FInv, TextOK
<1> QED BY <1>1, FilesInvariant, PTL

(* LoadPaletteAnim puts each of the animations that WritePaletteAnim found *)
(* in an archive at the same place of another, leaves what else is there,  *)
(* and adds no more empty entries than that takes.                         *)
THEOREM AnimationsAtPlace == FilesSpec => AnimsAtPlace
<1>1. FInv /\ [FilesNext]_avars =>
        [io.op = "anims" /\ ret'.code = "NONE" /\ disk.len = Len(disk.toks) =>
           LET file  == disk.holds
               there == DOMAIN io.base \union AnimsIn(file)
           IN /\ there \subseteq DOMAIN archive' /\ (archive' # <<>> => Len(archive') \in there)
              /\ \A i \in DOMAIN archive' :
                   archive'[i] = IF i \in AnimsIn(file) THEN file[i]
                                 ELSE IF i \in DOMAIN io.base THEN io.base[i] ELSE Null]_avars
  BY NextKeeps DEF AnimsPlaced
<1> QED BY <1>1, FilesInvariant, PTL DEF FilesSpec, AnimsAtPlace

(* LoadINI adds the sections of the file to the archive, each with the last *)
(* of the values of one name that the file has for it (setValue).          *)
THEOREM ValuesStand == FilesSpec => LastValueStands
<1>1. FInv /\ [FilesNext]_avars =>
        [io.op = "ini" /\ ret'.code = "NONE" =>
           LET base == Len(io.base)
               all  == SectionsTo(disk.len)
           IN /\ SubSeq(archive', 1, base) = io.base
              /\ Len(archive') = base + all + (IF Is(disk.len, "blank") THEN 1 ELSE 0)
              /\ \A p \in 1..disk.len :
                   Is(p, "section") => archive'[base + SectionsTo(p)].name = disk.toks[p].v
              /\ \A k \in 1..all :
                   LET vals == archive'[base + k].vals
                   IN /\ ToSet(vals) = {ValueAt(p) : p \in LastLines(k, disk.len)}
                      /\ \A i, j \in DOMAIN vals : vals[i].n = vals[j].n => i = j]_avars
  BY NextKeeps DEF IniPlaced
<1> QED BY <1>1, FilesInvariant, PTL DEF FilesSpec, LastValueStands
================================================================================
