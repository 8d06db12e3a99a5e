----------------------------- MODULE StoreProofs -----------------------------
(***************************************************************************)
(* ArchiveStore, step by step: what the loaders and writers of a client do *)
(* is what ArchiveStore allows, whatever items, files and cuts there are.  *)
(* The client starts with no file: whatever it then finds on the disk a    *)
(* writer has put there, whole, in part, or shortened later.               *)
(***************************************************************************)
EXTENDS FilesProofs

(* The step is one of ArchiveStore. *)
Maps == [Store!Next]_(Store!svars)

(* A load gives nothing but what the file holds. *)
IsFaithful == disk.seal \in {"whole", "torn"}

(* What a load has given so far is a part of what it must give. *)
Partly(a, base) == a = archive \/ Store!PartOf(a, base, disk.holds)

(* Calls of clients are edits. *)
LEMMA EditMaps ==
  ASSUME NEW a, NEW code, Calls(a, code), code \in {"none", "threw"}, code = "threw" => a = archive
  PROVE  Maps
<1>1. Store!Edit
  BY DEF Calls, Store!Edit
<1> QED BY <1>1 DEF Maps, Store!Next

(* A writer stores the archive, or fails before it opens the file. *)
LEMMA WriteMaps ==
  ASSUME NEW f, NEW code, Writes(f, code),
         \/ f = disk /\ code # "NONE"
         \/ f.holds = archive /\ f.seal \in Store!Seals /\ (code # "NONE" => f.seal # "whole")
  PROVE  Maps
<1>1. Store!Store
  BY DEF Writes, Store!Store
<1> QED BY <1>1 DEF Maps, Store!Next

(* A file that loses its end is torn. *)
LEMMA TearMaps ==
  ASSUME NEW f, NEW seal, Tears(f, seal), f.holds = disk.holds, f = [f EXCEPT !.seal = f.seal], seal \in Store!Seals \ {"whole"}
  PROVE  Maps
<1>1. disk'.holds = disk.holds /\ disk'.seal = seal
  BY DEF Tears
<1>2. Store!Tear
  BY <1>1 DEF Tears, Store!Tear, NoRet
<1> QED BY <1>2 DEF Maps, Store!Next

(* A load begins. *)
LEMMA BeginMaps ==
  ASSUME NEW a, NEW job, Begins(a, job), job # Idle, job.base \in {<<>>, archive}, IsFaithful => Partly(a, job.base)
  PROVE  Maps
<1>1. Store!Begin
  BY DEF Begins, Store!Begin, NoRet, Partly, IsFaithful, Store!Faithful
<1> QED BY <1>1 DEF Maps, Store!Next

(* A load goes on. *)
LEMMA GoesMaps ==
  ASSUME io # Idle, NEW a, NEW job, Goes(a, job), job # Idle, job.base = io.base, job.pal = io.pal,
         IsFaithful => Partly(a, io.base)
  PROVE  Maps
<1>1. Store!Part
  BY DEF Goes, Store!Part, Partly, IsFaithful, Store!Faithful
<1> QED BY <1>1 DEF Maps, Store!Next

(* A load gives the archive that a whole file holds. *)
LEMMA ReturnMaps ==
  ASSUME io # Idle, NEW a, Returns(a, "NONE"), disk.seal \in {"whole", "loose"},
         disk.seal = "whole" => a = io.base \o disk.holds
  PROVE  Maps
<1>1. io' = Idle /\ Idle.base = <<>> /\ Idle.pal = FALSE
  BY DEF Returns, Idle, Job
<1>2. Store!Succeed
  BY <1>1 DEF Returns, Store!Succeed
<1> QED BY <1>2 DEF Maps, Store!Next

(* A load fails, that of a whole file only because it needs a palette. *)
LEMMA FailMaps ==
  ASSUME NEW codes, Fails(codes), "NONE" \notin codes,
         disk.seal = "whole" => ~io.pal /\ codes = {"PALETTE_MISSING"}
  PROVE  Maps
<1>1. io' = Idle /\ Idle.base = <<>> /\ Idle.pal = FALSE
  BY DEF Fails, Returns, Idle, Job
<1>2. Store!Fail
  BY <1>1 DEF Fails, Returns, Store!Fail
<1> QED BY <1>2 DEF Maps, Store!Next

-------------------------------------------------------------------------------
(* ACT: a file with less colours is refused *)

(* A file of as many colours as it takes, or of less. *)
ActSealed(toks, len, holds, seal) ==
  /\ len \in 0..Colours
  /\ seal = "whole" =>
       len = Colours /\ \E c : IsColours(c) /\ holds = <<LoadedPalette(c)>> /\ \A i \in 1..Colours : toks[i].v = c[i]
  /\ seal \in {"torn", "bad"} => len < Colours

(* There is one step to a load, and a file that is short is refused before. *)
ActLoads ==
  /\ disk.seal \in {"whole", "loose"} /\ io.base = <<>>
  /\ ActSealed(disk.toks, disk.len, disk.holds, disk.seal)

(* What WriteACT writes. *)
LEMMA ActWritten ==
  ASSUME NEW x, Has(x, "palette"), IsPalette(x), NEW holds, NEW seal,
         seal = "whole" => Len(holds) = 1 /\ holds = <<x>> /\ Keeps(x), seal \in {"whole", "loose"}
  PROVE  ActSealed(Rgb(x.c), Len(Rgb(x.c)), holds, seal)
<1>1. PICK c : c = x.c /\ IsColours(c) /\ x = Palette(c, x.trans)
  BY DEF IsPalette
<1>2. PICK n \in Nat \ {0} : n = Colours
  BY PaletteAssumption
<1>3. DOMAIN c = 1..n
  BY <1>1, <1>2 DEF IsColours
<1>4. PICK toks : toks = Rgb(c)
  OBVIOUS
<1>5. toks = [i \in 1..n |-> [t |-> "rgb", v |-> c[i]]]
  BY <1>3, <1>4 DEF Rgb
<1>6. Len(toks) = n /\ \A i \in 1..n : toks[i].v = c[i]
  BY <1>5
<1>7. seal = "whole" => holds = <<LoadedPalette(c)>>
  BY <1>1 DEF Keeps, LoadedPalette
<1> QED BY <1>1, <1>2, <1>4, <1>6, <1>7 DEF ActSealed

(* What LoadACT loads. *)
LEMMA ActLoaded ==
  ASSUME NEW toks, NEW len, NEW holds, ActSealed(toks, len, holds, "whole")
  PROVE  holds = <<LoadedPalette([i \in 1..Colours |-> toks[i].v])>>
<1>1. PICK c : IsColours(c) /\ holds = <<LoadedPalette(c)>> /\ \A i \in 1..Colours : toks[i].v = c[i]
  BY DEF ActSealed
<1>2. c = [i \in 1..Colours |-> toks[i].v]
  BY <1>1 DEF IsColours
<1> QED BY <1>1, <1>2

-------------------------------------------------------------------------------
(* BBM: a file that ends before the colours of a palette is refused *)

(* Palette k of the file. *)
ChunkAt(toks, k, x) ==
  /\ toks[2 * k].t = "CMAP" /\ toks[2 * k].ok
  /\ toks[2 * k + 1].t = "colours" /\ LoadedPalette(toks[2 * k + 1].c) = x

(* A palette takes two tokens; a file is known to have lost something if it *)
(* ends within a palette.                                                   *)
BbmSealed(toks, len, holds, seal) ==
  /\ Len(toks) \in Nat /\ len \in 0..Len(toks)
  /\ seal \in {"whole", "torn"} =>
       /\ IsSeq(holds) /\ Len(holds) \in Nat \ {0} /\ Len(toks) = 2 * Len(holds) + 1 /\ toks[1].t = "FORM"
       /\ \A k \in 1..Len(holds) : ChunkAt(toks, k, holds[k])
  /\ seal = "whole" => len = Len(toks)
  /\ seal \in {"torn", "bad"} => len = 0 \/ toks[len].t = "CMAP"

(* k of the palettes that the file holds were added. *)
Added(a, base, holds, k) == a = base \o SubSeq(holds, 1, k)

(* A load has added the palettes in front of where it reads. *)
BbmLoads ==
  /\ BbmSealed(disk.toks, disk.len, disk.holds, disk.seal) /\ IsSeq(io.base) /\ io.pos \in Nat \ {0}
  /\ disk.seal \in {"torn", "bad"} => io.pos =< disk.len
  /\ disk.seal \in {"whole", "torn"} =>
       \E k \in 0..Len(disk.holds) : io.pos = 2 * k + 2 /\ Added(archive, io.base, disk.holds, k)

(* The entries of b, and those of s behind them. *)
Both(b, s) == b \o s

(* A beginning of what is held is a part of it. *)
LEMMA AddedIsPart ==
  ASSUME NEW a, NEW base, NEW holds, NEW k, IsSeq(base), IsSeq(holds), k \in 0..Len(holds), Added(a, base, holds, k)
  PROVE  Store!PartOf(a, base, holds) /\ IsSeq(a) /\ (k = Len(holds) => a = Both(base, holds) /\ (k # 0 => a # <<>>))
<1>1. PICK m \in Nat, n \in Nat : m = Len(base) /\ n = Len(holds) /\ DOMAIN base = 1..m /\ DOMAIN holds = 1..n
  BY DEF IsSeq
<1>2. PICK S : base \in Seq(S)
  BY DEF IsSeq
<1>3. PICK T : holds \in Seq(T)
  BY DEF IsSeq
<1>4. base \in Seq(S \union T) /\ holds \in Seq(S \union T)
  BY <1>2, <1>3
<1>5. PICK s : s = SubSeq(holds, 1, k)
  OBVIOUS
<1>6. s \in Seq(S \union T) /\ Len(s) = k /\ \A i \in 1..k : s[i] = holds[i]
  BY <1>1, <1>4, <1>5
<1>7. PICK all : all = base \o holds
  OBVIOUS
<1>8. /\ a \in Seq(S \union T) /\ Len(a) = m + k /\ all \in Seq(S \union T) /\ Len(all) = m + n
      /\ \A i \in 1..(m + k) : a[i] = all[i]
  BY <1>1, <1>4, <1>5, <1>6, <1>7 DEF Added
<1>9. Store!PartOf(a, base, holds)
  BY <1>1, <1>7, <1>8 DEF Store!PartOf
<1>10. k = n => s = holds
  BY <1>1, <1>4, <1>5, <1>6
<1>11. k # 0 => a # <<>>
  BY <1>1, <1>8, NoSeq
<1> QED BY <1>1, <1>5, <1>7, <1>8, <1>9, <1>10, <1>11 DEF Added, IsSeq, Both

(* r is s with x behind it. *)
Longer(r, s, x, n) == Len(r) = n + 1 /\ r[n + 1] = x /\ \A i \in 1..n : r[i] = s[i]

(* Append puts an entry behind the others. *)
LEMMA OneLonger ==
  ASSUME NEW E, NEW s, NEW x, NEW n, NEW r, s \in Seq(E), x \in E, n \in Nat, Len(s) = n, r = Append(s, x)
  PROVE  r \in Seq(E) /\ Longer(r, s, x, n)
BY DEF Longer

(* Sequences are the same if their entries are. *)
LEMMA SameSeq ==
  ASSUME NEW E, NEW s, NEW r, NEW n, s \in Seq(E), r \in Seq(E), n \in Nat, Len(s) = n, Len(r) = n,
         \A i \in 1..n : s[i] = r[i]
  PROVE  s = r
OBVIOUS

(* What is put behind the second of two sequences is behind both. *)
LEMMA BehindBoth ==
  ASSUME NEW E, NEW b, NEW s, NEW x, b \in Seq(E), s \in Seq(E), x \in E
  PROVE  With(Both(b, s), x) = Both(b, With(s, x))
<1>1. PICK m \in Nat, j \in Nat : m = Len(b) /\ j = Len(s)
  OBVIOUS
<1>2. PICK c, l, t, r : c = b \o s /\ l = Append(c, x) /\ t = Append(s, x) /\ r = b \o t
  OBVIOUS
<1>3. m + j \in Nat /\ j + 1 \in Nat /\ m + (j + 1) = (m + j) + 1 /\ (m + j) + 1 \in Nat
  BY <1>1
<1>4. c \in Seq(E) /\ Joined(c, b, s, m, j)
  BY <1>1, <1>2, TwoParts
<1>5. Len(c) = m + j
  BY <1>4 DEF Joined
<1>6. l \in Seq(E) /\ Longer(l, c, x, m + j)
  BY <1>2, <1>3, <1>4, <1>5, OneLonger
<1>7. t \in Seq(E) /\ Longer(t, s, x, j)
  BY <1>1, <1>2, OneLonger
<1>8. Len(t) = j + 1
  BY <1>7 DEF Longer
<1>9. r \in Seq(E) /\ Joined(r, b, t, m, j + 1)
  BY <1>1, <1>2, <1>3, <1>7, <1>8, TwoParts
<1>10. Len(l) = (m + j) + 1 /\ Len(r) = (m + j) + 1
  BY <1>3, <1>6, <1>9 DEF Longer, Joined
<1>11. ASSUME NEW i \in 1..((m + j) + 1) PROVE l[i] = r[i]
  <2>1. CASE i \in 1..m
    <3>1. i \in 1..(m + j)
      BY <1>1, <2>1
    <3> QED BY <1>4, <1>6, <1>9, <2>1, <3>1 DEF Longer, Joined
  <2>2. CASE i \in (m + 1)..(m + j)
    <3>1. i - m \in 1..j /\ i - m \in 1..(j + 1) /\ i = m + (i - m) /\ i \in 1..(m + j)
      BY <1>1, <2>2
    <3>2. l[i] = s[i - m]
      BY <1>4, <1>6, <3>1 DEF Longer, Joined
    <3>3. r[i] = s[i - m]
      BY <1>7, <1>9, <3>1 DEF Longer, Joined
    <3> QED BY <3>2, <3>3
  <2>3. CASE i = (m + j) + 1
    <3>1. i = m + (j + 1) /\ j + 1 \in 1..(j + 1)
      BY <1>1, <2>3
    <3> QED BY <1>6, <1>7, <1>9, <2>3, <3>1 DEF Longer, Joined
  <2> QED BY <1>1, <2>1, <2>2, <2>3
<1>12. l = r
  BY <1>3, <1>6, <1>9, <1>10, <1>11, SameSeq
<1> QED BY <1>2, <1>12 DEF With, Both

(* One more was added. *)
LEMMA AddedMore ==
  ASSUME NEW a, NEW base, NEW holds, IsSeq(base), IsSeq(holds), NEW k \in Nat, k + 1 \in 1..Len(holds),
         Added(a, base, holds, k), NEW x, x = holds[k + 1]
  PROVE  Added(Append(a, x), base, holds, k + 1)
<1>1. PICK n \in Nat : n = Len(holds) /\ DOMAIN holds = 1..n
  BY DEF IsSeq
<1>2. PICK S : base \in Seq(S)
  BY DEF IsSeq
<1>3. PICK T : holds \in Seq(T)
  BY DEF IsSeq
<1>4. base \in Seq(S \union T) /\ holds \in Seq(S \union T)
  BY <1>2, <1>3
<1>5. PICK s : s = SubSeq(holds, 1, k)
  OBVIOUS
<1>6. PICK E : E = S \union T
  OBVIOUS
<1>9. s \in Seq(E) /\ x \in E /\ base \in Seq(E)
  BY <1>1, <1>4, <1>5, <1>6
<1>7. SubSeq(holds, 1, k + 1) = Append(s, x)
  BY <1>1, <1>4, <1>5
<1>8. With(Both(base, s), x) = Both(base, With(s, x))
  BY <1>9, BehindBoth
<1> QED BY <1>5, <1>7, <1>8 DEF Added, With, Both

(* One step of the load of palettes. *)
LEMMA BbmFaithful ==
  ASSUME BbmLoads, IsFaithful
  PROVE  /\ IsSeq(disk.holds) /\ Len(disk.holds) \in Nat \ {0} /\ Len(disk.toks) = 2 * Len(disk.holds) + 1
         /\ disk.len \in 0..Len(disk.toks) /\ (disk.seal = "whole" => disk.len = Len(disk.toks))
         /\ \A k \in 1..Len(disk.holds) : ChunkAt(disk.toks, k, disk.holds[k])
         /\ \E k \in 0..Len(disk.holds) : io.pos = 2 * k + 2 /\ Added(archive, io.base, disk.holds, k)
BY DEF BbmLoads, IsFaithful, BbmSealed

(* The next palette. *)
LEMMA BbmPaletteMaps ==
  ASSUME Calm, io.op = "bbm", BbmLoads, disk.seal \in Store!Seals, LoadBbmPalette
  PROVE  Maps /\ (io'.op = "bbm" => BbmLoads') /\ io'.op \in {"idle", "bbm"} /\ disk' = disk
<1>1. Is(io.pos, "CMAP") /\ io # Idle /\ io.pos \in Nat /\ disk.len \in Nat /\ io.pos =< disk.len /\ disk.toks[io.pos].t = "CMAP"
  BY IdleIsIdle DEF LoadBbmPalette, Is, BbmLoads, BbmSealed
<1>2. CASE disk.toks[io.pos].ok /\ Is(io.pos + 1, "colours")
  <2>1. PICK x : x = LoadedPalette(disk.toks[io.pos + 1].c) /\ Goes(Append(archive, x), [io EXCEPT !.pos = @ + 2])
    BY <1>2 DEF LoadBbmPalette
  <2>2. PICK job : job = [io EXCEPT !.pos = @ + 2]
    OBVIOUS
  <2>3. job.op = "bbm" /\ job.pos = io.pos + 2 /\ job.base = io.base /\ job.pal = io.pal /\ Fields(job)
    BY <2>2 DEF Calm, Fields
  <2>4. io' = job /\ archive' = Append(archive, x) /\ disk' = disk
    BY <2>1, <2>2 DEF Goes
  <2>5. disk.seal \in {"torn", "bad"} => io.pos + 2 =< disk.len
    <3> SUFFICES ASSUME disk.seal \in {"torn", "bad"} PROVE io.pos + 2 =< disk.len
      OBVIOUS
    <3>1. disk.toks[disk.len].t = "CMAP"
      BY <1>1 DEF BbmLoads, BbmSealed
    <3>2. io.pos + 1 =< disk.len /\ disk.toks[io.pos + 1].t = "colours"
      BY <1>2 DEF Is
    <3> QED BY <1>1, <3>1, <3>2
  <2>6. ASSUME IsFaithful
        PROVE  \E k \in 0..Len(disk.holds) : io.pos + 2 = 2 * k + 2 /\ Added(Append(archive, x), io.base, disk.holds, k)
    <3>1. PICK n \in Nat : n = Len(disk.holds) /\ Len(disk.toks) = 2 * n + 1 /\ disk.len \in 0..(2 * n + 1) /\ IsSeq(disk.holds)
      BY <2>6, BbmFaithful
    <3>2. PICK k \in 0..n : io.pos = 2 * k + 2 /\ Added(archive, io.base, disk.holds, k)
      BY <2>6, <3>1, BbmFaithful
    <3>3. k + 1 \in 1..n /\ k \in Nat /\ io.pos = 2 * (k + 1) /\ io.pos + 2 = 2 * (k + 1) + 2
      BY <1>1, <3>1, <3>2
    <3>4. x = disk.holds[k + 1]
      BY <2>1, <2>6, <3>1, <3>3, BbmFaithful DEF ChunkAt
    <3>5. Added(Append(archive, x), io.base, disk.holds, k + 1)
      BY <3>1, <3>2, <3>3, <3>4, AddedMore DEF BbmLoads
    <3> QED BY <3>1, <3>3, <3>5
  <2>7. IsFaithful => Partly(Append(archive, x), io.base)
    BY <2>6, AddedIsPart, BbmFaithful DEF Partly, BbmLoads
  <2>8. Maps
    BY <1>1, <2>1, <2>2, <2>3, <2>7, IdleIsIdle, GoesMaps
  <2>9. BbmLoads'
    BY <1>1, <2>3, <2>4, <2>5, <2>6 DEF BbmLoads, IsFaithful
  <2> QED BY <2>3, <2>4, <2>8, <2>9
<1>3. CASE ~(disk.toks[io.pos].ok /\ Is(io.pos + 1, "colours"))
  <2>1. PICK code \in {"WRONG_FORMAT", "UNEXPECTED_EOF"} : Fails({code})
    BY <1>1, <1>3 DEF LoadBbmPalette
  <2>2. disk.seal # "whole"
    <3> SUFFICES ASSUME disk.seal = "whole" PROVE FALSE
      OBVIOUS
    <3>0. IsFaithful
      BY DEF IsFaithful
    <3>1. PICK n \in Nat : n = Len(disk.holds) /\ disk.len = 2 * n + 1
      BY <3>0, BbmFaithful
    <3>2. PICK k \in 0..n : io.pos = 2 * k + 2
      BY <3>0, <3>1, BbmFaithful
    <3>3. k + 1 \in 1..n /\ io.pos = 2 * (k + 1)
      BY <1>1, <3>1, <3>2
    <3>4. ChunkAt(disk.toks, k + 1, disk.holds[k + 1]) /\ io.pos + 1 =< disk.len
      BY <3>0, <3>1, <3>3, BbmFaithful
    <3> QED BY <1>3, <3>3, <3>4 DEF ChunkAt, Is
  <2>3. Maps
    BY <2>1, <2>2, FailMaps
  <2>4. io' = Idle /\ disk' = disk
    BY <2>1 DEF Fails, Returns
  <2> QED BY <2>3, <2>4, IdleIsIdle
<1> QED BY <1>2, <1>3

(* What is no palette. *)
LEMMA BbmUnknownMaps ==
  ASSUME Calm, io.op = "bbm", BbmLoads, disk.seal \in Store!Seals, LoadBbmUnknown
  PROVE  Maps /\ (io'.op = "bbm" => BbmLoads') /\ io'.op \in {"idle", "bbm"} /\ disk' = disk
<1>1. io # Idle /\ io.pos \in Nat /\ disk.len \in Nat /\ io.pos =< disk.len /\ disk.toks[io.pos].t = "other"
  BY IdleIsIdle DEF LoadBbmUnknown, Is, BbmLoads, BbmSealed
<1>2. PICK job : job = [io EXCEPT !.pos = @ + 1]
  OBVIOUS
<1>3. job.op = "bbm" /\ job.pos = io.pos + 1 /\ job.base = io.base /\ job.pal = io.pal
  BY <1>2 DEF Calm, Fields
<1>4. Goes(archive, job) /\ io' = job /\ archive' = archive /\ disk' = disk
  BY <1>2 DEF Goes, LoadBbmUnknown
<1>5. disk.seal \in {"torn", "bad"} => io.pos + 1 =< disk.len
  <2> SUFFICES ASSUME disk.seal \in {"torn", "bad"}, disk.len # 0 PROVE io.pos + 1 =< disk.len
    BY <1>1 DEF BbmLoads
  <2>1. disk.toks[disk.len].t = "CMAP" /\ io.pos =< disk.len
    BY DEF BbmLoads, BbmSealed
  <2>2. io.pos # disk.len
    BY <1>1, <2>1
  <2> QED BY <1>1, <2>1, <2>2
<1>6. ~IsFaithful
  <2> SUFFICES ASSUME IsFaithful PROVE FALSE
    OBVIOUS
  <2>1. PICK n \in Nat : n = Len(disk.holds) /\ disk.len \in 0..(2 * n + 1)
    BY BbmFaithful
  <2>2. PICK k \in 0..n : io.pos = 2 * k + 2
    BY <2>1, BbmFaithful
  <2>3. k + 1 \in 1..n /\ io.pos = 2 * (k + 1)
    BY <1>1, <2>1, <2>2
  <2>4. ChunkAt(disk.toks, k + 1, disk.holds[k + 1])
    BY <2>1, <2>3, BbmFaithful
  <2> QED BY <1>1, <2>3, <2>4 DEF ChunkAt
<1>7. Maps
  BY <1>1, <1>3, <1>4, <1>6, IdleIsIdle, GoesMaps
<1>8. BbmLoads'
  BY <1>1, <1>3, <1>4, <1>5, <1>6 DEF BbmLoads, IsFaithful
<1> QED BY <1>3, <1>4, <1>7, <1>8

(* The end of the file. *)
LEMMA BbmEndMaps ==
  ASSUME Calm, io.op = "bbm", BbmLoads, disk.seal \in Store!Seals, LoadBbmEnd
  PROVE  Maps /\ io'.op = "idle" /\ disk' = disk
<1>1. io # Idle /\ io.pos \in Nat /\ disk.len \in Nat /\ io.pos > disk.len
  BY IdleIsIdle DEF LoadBbmEnd, AtEnd, BbmLoads, BbmSealed
<1>2. disk.seal \in {"whole", "loose"}
  BY <1>1 DEF BbmLoads, Store!Seals
<1>3. disk.seal = "whole" => archive = io.base \o disk.holds /\ archive # <<>>
  <2> SUFFICES ASSUME disk.seal = "whole" PROVE archive = io.base \o disk.holds /\ archive # <<>>
    OBVIOUS
  <2>0. IsFaithful
    BY DEF IsFaithful
  <2>1. PICK n \in Nat \ {0} : n = Len(disk.holds) /\ disk.len = 2 * n + 1 /\ IsSeq(disk.holds)
    BY <2>0, BbmFaithful
  <2>2. PICK k \in 0..n : io.pos = 2 * k + 2 /\ Added(archive, io.base, disk.holds, k)
    BY <2>0, <2>1, BbmFaithful
  <2>3. k = n
    BY <1>1, <2>1, <2>2
  <2>4. IsSeq(io.base)
    BY DEF BbmLoads
  <2>5. n \in 0..Len(disk.holds) /\ n = Len(disk.holds) /\ Added(archive, io.base, disk.holds, n)
    BY <2>1, <2>2, <2>3
  <2>6. archive = Both(io.base, disk.holds) /\ archive # <<>>
    BY <2>1, <2>4, <2>5, AddedIsPart
  <2> QED BY <2>6 DEF Both
<1>4. PICK code \in {"NONE", "UNEXPECTED_EOF"} : Returns(archive, code) /\ (code # "NONE" => archive = <<>>)
  BY DEF LoadBbmEnd
<1>5. Maps
  <2>1. CASE code = "NONE"
    <3>1. Returns(archive, "NONE")
      BY <1>4, <2>1
    <3>2. disk.seal = "whole" => archive = io.base \o disk.holds
      BY <1>3
    <3> QED BY <1>1, <1>2, <3>1, <3>2, ReturnMaps
  <2>2. CASE code # "NONE"
    <3>1. Fails({code}) /\ "NONE" \notin {code}
      BY <1>4, <2>2 DEF Fails
    <3>2. disk.seal # "whole"
      BY <1>3, <1>4, <2>2
    <3> QED BY <3>1, <3>2, FailMaps
  <2> QED BY <2>1, <2>2
<1>6. io' = Idle /\ disk' = disk
  BY <1>4 DEF Returns
<1> QED BY <1>5, <1>6, IdleIsIdle

(* A palette that a load gives back. *)
LEMMA KeptPalette == ASSUME NEW x, Keeps(x), IsPalette(x) PROVE LoadedPalette(x.c) = x
BY DEF Keeps, IsPalette, LoadedPalette, Palette

(* A palette in a file, or nothing for what is none. *)
ChunkOf(x) == IF Has(x, "palette") THEN PaletteChunk(x) ELSE <<>>

(* What is behind the header. *)
LEMMA ChunksAre ==
  ASSUME NEW a, IsSeq(a)
  PROVE  \E T : /\ PaletteChunks(a) \in Seq(T)
                /\ (\A i \in DOMAIN a : Has(a[i], "palette")) =>
                     /\ Len(PaletteChunks(a)) = Len(a) * 2
                     /\ \A i \in 1..Len(a) : \A j \in 1..2 : PaletteChunks(a)[(i - 1) * 2 + j] = PaletteChunk(a[i])[j]
<1>1. PICK n \in Nat : n = Len(a) /\ DOMAIN a = 1..n
  BY DEF IsSeq
<1>2. PICK s : s = [i \in 1..n |-> ChunkOf(a[i])]
  OBVIOUS
<1>3. PICK flat : flat = FlattenSeq(s) /\ flat = PaletteChunks(a)
  BY <1>1, <1>2 DEF PaletteChunks, ChunkOf
<1>4. PICK T : T = {[t |-> "CMAP", ok |-> TRUE]} \union {[t |-> "colours", c |-> a[i].c] : i \in 1..n}
  OBVIOUS
<1>5. ASSUME NEW i \in 1..n
      PROVE  s[i] \in Seq(T) /\ (Has(a[i], "palette") => Len(s[i]) = 2 /\ s[i] = PaletteChunk(a[i]))
  <2>1. PICK x, y : x = [t |-> "CMAP", ok |-> TRUE] /\ y = [t |-> "colours", c |-> a[i].c]
    OBVIOUS
  <2>2. x \in T /\ y \in T
    BY <1>4, <2>1
  <2>3. PaletteChunk(a[i]) = <<x, y>>
    BY <2>1 DEF PaletteChunk
  <2>4. <<x, y>> \in Seq(T) /\ Len(<<x, y>>) = 2 /\ <<>> \in Seq(T)
    BY <2>2
  <2> QED BY <1>2, <2>3, <2>4 DEF ChunkOf
<1>6. s \in [1..n -> Seq(T)]
  BY <1>2, <1>5
<1>7. flat \in Seq(T)
  <2>1. PICK f \in [0..n -> Seq(T)] : FlattenSeq(s) = f[n]
    BY <1>6, Flattened
  <2>2. n \in 0..n
    BY <1>1
  <2>3. f[n] \in Seq(T)
    BY <2>1, <2>2
  <2> QED BY <1>3, <2>1, <2>3
<1>8. ASSUME \A i \in DOMAIN a : Has(a[i], "palette")
      PROVE  Len(flat) = n * 2 /\ \A i \in 1..n : \A j \in 1..2 : flat[(i - 1) * 2 + j] = PaletteChunk(a[i])[j]
  <2>1. AreWide(s, n, 2)
    BY <1>1, <1>5, <1>8 DEF AreWide
  <2>2. Laid(flat, s, n, 2)
    BY <1>3, <1>6, <2>1, FlatRows
  <2>3. \A i \in 1..n : s[i] = PaletteChunk(a[i])
    BY <1>1, <1>5, <1>8
  <2> QED BY <2>2, <2>3 DEF Laid
<1> QED BY <1>1, <1>3, <1>7, <1>8

(* What WriteBBM writes. *)
LEMMA BbmWritten ==
  ASSUME NEW a, IsSeq(a), NEW seal, seal \in {"whole", "loose"},
         seal = "whole" => a # <<>> /\ \A i \in DOMAIN a : Keeps(a[i]) /\ IsPalette(a[i])
  PROVE  BbmSealed(<<[t |-> "FORM"]>> \o PaletteChunks(a), Len(<<[t |-> "FORM"]>> \o PaletteChunks(a)), a, seal)
<1>1. PICK n \in Nat : n = Len(a) /\ DOMAIN a = 1..n
  BY DEF IsSeq
<1>2. PICK flat : flat = PaletteChunks(a)
  OBVIOUS
<1>3. PICK T : /\ flat \in Seq(T)
               /\ (\A i \in 1..n : Has(a[i], "palette")) =>
                    /\ Len(flat) = n * 2
                    /\ \A i \in 1..n : \A j \in 1..2 : flat[(i - 1) * 2 + j] = PaletteChunk(a[i])[j]
  BY <1>1, <1>2, ChunksAre
<1>4. PICK toks : toks = <<[t |-> "FORM"]>> \o flat
  OBVIOUS
<1>5. PICK m \in Nat : m = Len(flat)
  BY <1>3
<1>6. Len(toks) = m + 1 /\ toks[1].t = "FORM" /\ \A k \in 1..m : toks[k + 1] = flat[k]
  <2>1. PICK U : U = T \union {[t |-> "FORM"]}
    OBVIOUS
  <2>2. <<[t |-> "FORM"]>> \in Seq(U) /\ flat \in Seq(U)
    BY <1>3, <2>1
  <2> QED BY <1>4, <1>5, <2>2
<1>7. ASSUME seal = "whole"
      PROVE  n # 0 /\ m = n * 2 /\ \A k \in 1..n : ChunkAt(toks, k, a[k])
  <2>1. n # 0
    BY <1>1, <1>7, NoSeq
  <2>2. m = n * 2 /\ \A i \in 1..n : \A j \in 1..2 : flat[(i - 1) * 2 + j] = PaletteChunk(a[i])[j]
    BY <1>1, <1>3, <1>5, <1>7 DEF Keeps
  <2>3. ASSUME NEW k \in 1..n PROVE ChunkAt(toks, k, a[k])
    <3>0. PICK x : x = a[k] /\ Keeps(x) /\ IsPalette(x)
      BY <1>1, <1>7
    <3>1. /\ (k - 1) * 2 + 1 = 2 * k - 1 /\ (k - 1) * 2 + 2 = 2 * k
          /\ 2 * k - 1 \in 1..m /\ 2 * k \in 1..m /\ (2 * k - 1) + 1 = 2 * k /\ 1 \in 1..2 /\ 2 \in 1..2
      BY <2>2
    <3>2. flat[2 * k - 1] = PaletteChunk(x)[1] /\ flat[2 * k] = PaletteChunk(x)[2]
      BY <2>2, <3>0, <3>1
    <3>3. toks[2 * k] = PaletteChunk(x)[1] /\ toks[2 * k + 1] = PaletteChunk(x)[2]
      BY <1>6, <3>1, <3>2
    <3>4. PICK p, q : p = [t |-> "CMAP", ok |-> TRUE] /\ q = [t |-> "colours", c |-> x.c]
      OBVIOUS
    <3>5. PaletteChunk(x)[1] = p /\ PaletteChunk(x)[2] = q
      BY <3>4 DEF PaletteChunk
    <3>6. p.t = "CMAP" /\ p.ok /\ q.t = "colours" /\ q.c = x.c
      BY <3>4
    <3>7. LoadedPalette(x.c) = x
      BY <3>0, KeptPalette
    <3> QED BY <3>0, <3>3, <3>5, <3>6, <3>7 DEF ChunkAt
  <2> QED BY <2>1, <2>2, <2>3
<1>8. seal = "whole" => Len(toks) = 2 * n + 1
  <2>1. n * 2 = 2 * n
    BY <1>1
  <2> QED BY <1>6, <1>7, <2>1
<1> QED BY <1>1, <1>2, <1>4, <1>5, <1>6, <1>7, <1>8 DEF BbmSealed

(* A torn file of either has less than a load needs. *)
LEMMA ActTorn ==
  ASSUME NEW toks, NEW len, NEW holds, NEW seal, ActSealed(toks, len, holds, seal), NEW n \in 0..(len - 1)
  PROVE  ActSealed(toks, n, holds, Broken(seal)) /\ Broken(seal) \in {"torn", "bad"}
<1>1. len \in 0..Colours /\ Colours \in Nat
  BY PaletteAssumption DEF ActSealed
<1>2. n \in 0..Colours /\ n < Colours
  BY <1>1
<1>3. Broken(seal) \in {"torn", "bad"}
  BY DEF Broken
<1> QED BY <1>2, <1>3 DEF ActSealed

(* What is left of a BBM file that lost its end. *)
LEMMA BbmTorn ==
  ASSUME NEW toks, NEW len, NEW holds, NEW seal, BbmSealed(toks, len, holds, seal), NEW n \in 0..(len - 1),
         NEW new, new = IF n = 0 \/ toks[n].t = "CMAP" THEN Broken(seal) ELSE "loose"
  PROVE  BbmSealed(toks, n, holds, new) /\ new \in {"torn", "bad", "loose"}
<1>1. PICK m \in Nat : m = Len(toks) /\ len \in 0..m
  BY DEF BbmSealed
<1>2. n \in 0..m
  BY <1>1
<1>3. new \in {"torn", "bad", "loose"} /\ (new = "torn" => seal \in {"whole", "torn"})
      /\ (new \in {"torn", "bad"} => n = 0 \/ toks[n].t = "CMAP")
  BY DEF Broken
<1> QED BY <1>1, <1>2, <1>3 DEF BbmSealed

-------------------------------------------------------------------------------
(* Clients of palettes *)

(* The file is one that such a client writes, as its seal says. *)
PaletteSealed ==
  /\ disk.fmt \in {"none", "act", "bbm", "anims"} /\ disk.ilen = 0 /\ disk.seal \in Store!Seals
  /\ disk.fmt = "none" => disk.len = 0 /\ disk.seal = "loose"
  /\ disk.fmt = "act" => ActSealed(disk.toks, disk.len, disk.holds, disk.seal)
  /\ disk.fmt = "bbm" => BbmSealed(disk.toks, disk.len, disk.holds, disk.seal)
  /\ disk.fmt = "anims" => disk.seal = "loose" \/ (disk.seal = "bad" /\ disk.len = 0)

(* A load knows how far it is. *)
PaletteLoads ==
  /\ io.op \in {"idle", "act", "bbm", "anims"} /\ (io.op # "idle" => io.op = disk.fmt)
  /\ io.op = "act" => ActLoads
  /\ io.op = "bbm" => BbmLoads
  /\ io.op = "anims" => disk.seal = "loose"

(* Both, for a client of palettes. *)
PaletteStored == client = "palette" /\ PaletteSealed /\ PaletteLoads

(* A file that could not be opened was not whole. *)
LEMMA PaletteEmpty == ASSUME PaletteSealed, disk.len = 0 PROVE disk.seal # "whole"
<1>1. CASE disk.fmt = "act"
  <2>1. disk.seal = "whole" => disk.len = Colours
    BY <1>1 DEF PaletteSealed, ActSealed
  <2> QED BY <2>1, PaletteAssumption
<1>2. CASE disk.fmt = "bbm"
  <2> SUFFICES ASSUME disk.seal = "whole" PROVE FALSE
    OBVIOUS
  <2>1. PICK n \in Nat : n = Len(disk.holds) /\ disk.len = 2 * n + 1
    BY <1>2 DEF PaletteSealed, BbmSealed
  <2> QED BY <2>1
<1> QED BY <1>1, <1>2 DEF PaletteSealed

(* A call that loads nothing, and leaves the file. *)
LEMMA PaletteFileStays ==
  ASSUME PaletteStored, client' = client, disk' = disk, io'.op = "idle"
  PROVE  PaletteStored'
<1>1. PaletteSealed'
  BY DEF PaletteStored, PaletteSealed
<1>2. PaletteLoads'
  BY DEF PaletteLoads
<1>3. client' = "palette"
  BY DEF PaletteStored
<1> QED BY <1>1, <1>2, <1>3 DEF PaletteStored

(* A client changes the archive, *)
LEMMA EditsMap ==
  ASSUME ArchiveEdit(ItemsOf[client]) \/ SetValue
  PROVE  Maps /\ io = Idle /\ io' = io /\ disk' = disk /\ client' = client
<1> DEFINE Edited == Maps /\ io = Idle /\ io' = io /\ disk' = disk /\ client' = client
<1>1. ASSUME NEW a, NEW code, Calls(a, code), code \in {"none", "threw"}, code = "threw" => a = archive
      PROVE  Edited
  <2>1. Maps
    BY <1>1, EditMaps
  <2> QED BY <1>1, <2>1 DEF Calls
<1> HIDE DEF Edited
<1>2. ASSUME NEW x, Push(x) PROVE Edited
  <2>1. Calls(Append(archive, x), "none")
    BY <1>2 DEF Push
  <2> QED BY <1>1, <2>1
<1>3. ASSUME NEW n, NEW x, Set(n, x) PROVE Edited
  BY <1>1, <1>3 DEF Set
<1>4. ASSUME NEW n, Release(n) PROVE Edited
  <2>1. PICK a : Calls(a, "none")
    BY <1>4 DEF Release
  <2> QED BY <1>1, <2>1
<1>5. ASSUME NEW n, Alloc(n) PROVE Edited
  BY <1>1, <1>5 DEF Alloc
<1>6. ASSUME AllocInc(1) PROVE Edited
  BY <1>1, <1>6 DEF AllocInc
<1>7. ASSUME SetValue PROVE Edited
  <2>1. PICK a : Calls(a, "none")
    BY <1>7 DEF SetValue
  <2> QED BY <1>1, <2>1
<1>8. Edited
  BY <1>2, <1>3, <1>4, <1>5, <1>6, <1>7 DEF ArchiveEdit
<1> QED BY <1>8 DEF Edited

(* writes it, *)
LEMMA PaletteWrites ==
  ASSUME Calm, PaletteStored, client \in DOMAIN ItemsOf, Known, FilesWrite
  PROVE  Maps /\ PaletteStored'
<1>1. WriteACT \/ WriteBBM \/ WritePaletteAnim
  BY DEF FilesWrite, PaletteStored
<1>2. ASSUME NEW fmt, NEW toks, NEW seal, Writes(File(fmt, toks, <<>>, archive, seal), "NONE"),
             fmt \in {"act", "bbm", "anims"}, seal \in {"whole", "loose"},
             fmt = "act" => ActSealed(toks, Len(toks), archive, seal),
             fmt = "bbm" => BbmSealed(toks, Len(toks), archive, seal),
             fmt = "anims" => seal = "loose"
      PROVE  Maps /\ PaletteStored'
  <2>1. PICK f : f = File(fmt, toks, <<>>, archive, seal)
    OBVIOUS
  <2>2. /\ f.fmt = fmt /\ f.toks = toks /\ f.holds = archive /\ f.seal = seal
        /\ f.len = Len(toks) /\ f.ilen = Len(<<>>)
    BY <2>1, FileIs
  <2>3. Len(<<>>) = 0
    BY NoSeq
  <2>4. disk' = f /\ io' = io /\ io = Idle /\ client' = client
    BY <1>2, <2>1 DEF Writes
  <2>5. seal \in Store!Seals
    BY <1>2 DEF Store!Seals
  <2>6. Maps
    BY <1>2, <2>1, <2>2, <2>5, WriteMaps
  <2>7. PaletteSealed'
    BY <1>2, <2>2, <2>3, <2>4, <2>5 DEF PaletteSealed
  <2>8. PaletteLoads'
    BY <2>4, IdleIsIdle DEF PaletteLoads
  <2> QED BY <2>4, <2>6, <2>7, <2>8 DEF PaletteStored
<1>3. PICK n \in Nat : n = Len(archive) /\ DOMAIN archive = 1..n
  BY DEF Calm, IsSeq
<1>4. ASSUME NEW i \in 1..n, Has(archive[i], "palette") PROVE IsPalette(archive[i])
  <2>1. archive[i] \in ItemsOf[client] \union {Null}
    BY <1>3 DEF Known, ToSet
  <2>2. archive[i] \in ItemsOf[client]
    BY <1>4, <2>1 DEF Has
  <2> QED BY <1>4, <2>2, FilesAssumption
<1>5. CASE WriteACT
  <2>1. CASE Writes(disk, "WRONG_ARCHIVE")
    <3>1. Maps
      BY <2>1, WriteMaps
    <3>2. disk' = disk /\ io' = io /\ io = Idle /\ client' = client
      BY <2>1 DEF Writes
    <3>3. io'.op = "idle"
      BY <3>2, IdleIsIdle
    <3> QED BY <3>1, <3>2, <3>3, PaletteFileStays
  <2>2. CASE ~Writes(disk, "WRONG_ARCHIVE")
    <3>1. PICK seal : /\ seal = IF Len(archive) = 1 /\ Keeps(archive[1]) THEN "whole" ELSE "loose"
                      /\ Has(Get(1), "palette")
                      /\ Writes(File("act", Rgb(archive[1].c), <<>>, archive, seal), "NONE")
      BY <1>5, <2>2 DEF WriteACT
    <3>2. 1 \in 1..n /\ Has(archive[1], "palette")
      BY <1>3, <3>1 DEF Get, Has
    <3>3. PICK x : x = archive[1] /\ Has(x, "palette") /\ IsPalette(x)
      BY <1>4, <3>2
    <3>4. seal \in {"whole", "loose"} /\ (seal = "whole" => Len(archive) = 1 /\ archive = <<x>> /\ Keeps(x))
      <4>1. n = 1 => archive = <<x>>
        BY <1>3, <3>3 DEF Calm, IsSeq
      <4> QED BY <1>3, <3>1, <3>3, <4>1
    <3>5. ActSealed(Rgb(x.c), Len(Rgb(x.c)), archive, seal)
      BY <3>3, <3>4, ActWritten
    <3> QED BY <1>2, <3>1, <3>3, <3>4, <3>5
  <2> QED BY <2>1, <2>2
<1>6. CASE WriteBBM
  <2>1. PICK toks, seal : /\ toks = <<[t |-> "FORM"]>> \o PaletteChunks(archive)
                          /\ seal = IF archive # <<>> /\ \A i \in DOMAIN archive : Keeps(archive[i]) THEN "whole" ELSE "loose"
                          /\ Writes(File("bbm", toks, <<>>, archive, seal), "NONE")
    BY <1>6 DEF WriteBBM
  <2>2. seal \in {"whole", "loose"} /\ IsSeq(archive)
        /\ (seal = "whole" => archive # <<>> /\ \A i \in DOMAIN archive : Keeps(archive[i]) /\ IsPalette(archive[i]))
    BY <1>3, <1>4, <2>1 DEF Keeps, Calm
  <2>3. BbmSealed(toks, Len(toks), archive, seal)
    BY <2>1, <2>2, BbmWritten
  <2>4. Writes(File("bbm", toks, <<>>, archive, seal), "NONE") /\ seal \in {"whole", "loose"} /\ "bbm" # "act" /\ "bbm" # "anims"
    BY <2>1, <2>2
  <2> QED BY <1>2, <2>3, <2>4
<1>7. CASE WritePaletteAnim
  <2>1. PICK toks : Writes(File("anims", toks, <<>>, archive, "loose"), "NONE")
    BY <1>7 DEF WritePaletteAnim
  <2> QED BY <1>2, <2>1
<1> QED BY <1>1, <1>5, <1>6, <1>7

(* begins to load it, *)
LEMMA PaletteBegins ==
  ASSUME Calm, PaletteStored, FilesLoad
  PROVE  Maps /\ PaletteStored'
<1>1. PaletteSealed /\ client = "palette" /\ disk.fmt \in {"none", "act", "bbm", "anims"}
  BY DEF PaletteStored, PaletteSealed
<1>2. io = Idle
  BY DEF FilesLoad, OpenFails, LoadListRefused, LoadList, LoadDatAlone, LoadDatIdx, LoadIndexOpenFails, LoadText,
         LoadACT, LoadBBM, LoadPaletteAnim, LoadLBM, LoadBMP, LoadBobRefused, LoadBOB, LoadINI, Opens
<1>3. OpenFails \/ LoadACT \/ LoadBBM \/ LoadPaletteAnim
  BY <1>1 DEF FilesLoad, LoadListRefused, LoadList, LoadDatAlone, LoadDatIdx, LoadIndexOpenFails, LoadText,
              LoadLBM, LoadBMP, LoadBobRefused, LoadBOB, LoadINI, IsTextFile
<1>4. ASSUME NEW code, Fails({code}), code # "NONE", disk.seal # "whole" PROVE Maps /\ PaletteStored'
  <2>1. Maps
    BY <1>4, FailMaps
  <2>2. io'.op = "idle" /\ disk' = disk /\ client' = client
    BY <1>4, IdleIsIdle DEF Fails, Returns
  <2> QED BY <2>1, <2>2, PaletteFileStays
<1>5. CASE OpenFails
  <2>1. disk.len = 0 /\ Fails({"FILE_NOT_ACCESSIBLE"})
    BY <1>5 DEF OpenFails
  <2> QED BY <1>1, <1>4, <2>1, PaletteEmpty
<1>6. CASE LoadACT
  <2>0. disk.fmt = "act" /\ ActSealed(disk.toks, disk.len, disk.holds, disk.seal)
    BY <1>1, <1>6 DEF LoadACT, PaletteSealed
  <2>1. CASE disk.len # Colours
    <3>1. disk.seal # "whole"
      BY <2>0, <2>1 DEF ActSealed
    <3> QED BY <1>4, <1>6, <2>1, <3>1 DEF LoadACT
  <2>2. CASE disk.len = Colours
    <3>1. PICK job : job = Job("act", 1, 0, FALSE, <<>>) /\ Begins(archive, job)
      BY <1>6, <2>2 DEF LoadACT
    <3>2. job.op = "act" /\ job.base = <<>>
      BY <3>1 DEF Job
    <3>3. Maps
      BY <3>1, <3>2, IdleIsIdle, BeginMaps DEF Partly
    <3>4. io' = job /\ disk' = disk /\ client' = client
      BY <3>1 DEF Begins
    <3>5. disk.seal \in {"whole", "loose"}
      <4>1. ~(disk.len < Colours)
        BY <2>2, PaletteAssumption
      <4>2. disk.seal \notin {"torn", "bad"}
        BY <2>0, <4>1 DEF ActSealed
      <4> QED BY <1>1, <4>2 DEF PaletteSealed, Store!Seals
    <3>6. PaletteSealed'
      BY <1>1, <3>4 DEF PaletteSealed
    <3>7. ActLoads'
      BY <2>0, <3>2, <3>4, <3>5 DEF ActLoads
    <3>8. PaletteLoads'
      BY <2>0, <3>2, <3>4, <3>7 DEF PaletteLoads
    <3> QED BY <1>1, <3>3, <3>4, <3>6, <3>8 DEF PaletteStored
  <2> QED BY <2>1, <2>2
<1>7. CASE LoadBBM
  <2>0. disk.fmt = "bbm" /\ BbmSealed(disk.toks, disk.len, disk.holds, disk.seal) /\ disk.len > 0
    BY <1>1, <1>7 DEF LoadBBM, PaletteSealed, Opens
  <2>00. PICK m \in Nat : m = Len(disk.toks) /\ disk.len \in 0..m /\ disk.len # 0
    BY <2>0 DEF BbmSealed
  <2>1. CASE ~Is(1, "FORM")
    <3>1. disk.seal # "whole"
      <4> SUFFICES ASSUME disk.seal = "whole" PROVE FALSE
        OBVIOUS
      <4>1. disk.toks[1].t = "FORM"
        BY <2>0 DEF BbmSealed
      <4> QED BY <2>00, <2>1, <4>1 DEF Is
    <3> QED BY <1>4, <1>7, <2>1, <3>1 DEF LoadBBM
  <2>2. CASE Is(1, "FORM")
    <3>1. PICK job : job = Job("bbm", 2, 0, FALSE, archive) /\ Begins(archive, job)
      BY <1>7, <2>2 DEF LoadBBM
    <3>2. job.op = "bbm" /\ job.base = archive /\ job.pos = 2
      BY <3>1 DEF Job
    <3>3. Maps
      BY <3>1, <3>2, IdleIsIdle, BeginMaps DEF Partly
    <3>4. io' = job /\ disk' = disk /\ client' = client /\ archive' = archive
      BY <3>1 DEF Begins
    <3>5. disk.seal \in {"torn", "bad"} => 2 =< disk.len
      <4> SUFFICES ASSUME disk.seal \in {"torn", "bad"} PROVE 2 =< disk.len
        OBVIOUS
      <4>1. disk.toks[disk.len].t = "CMAP" /\ disk.toks[1].t = "FORM"
        BY <2>0, <2>00, <2>2 DEF BbmSealed, Is
      <4>2. disk.len # 1
        BY <4>1
      <4> QED BY <2>00, <4>2
    <3>6. ASSUME IsFaithful PROVE \E k \in 0..Len(disk.holds) : 2 = 2 * k + 2 /\ Added(archive, archive, disk.holds, k)
      <4>1. IsSeq(disk.holds) /\ Len(disk.holds) \in Nat
        BY <2>0, <3>6 DEF IsFaithful, BbmSealed
      <4>2. SubSeq(disk.holds, 1, 0) = <<>>
        BY <4>1 DEF IsSeq
      <4>3. archive \o <<>> = archive
        BY DEF Calm, IsSeq
      <4>4. Added(archive, archive, disk.holds, 0)
        BY <4>2, <4>3 DEF Added
      <4> QED BY <4>1, <4>4
    <3>7. PaletteSealed'
      BY <1>1, <3>4 DEF PaletteSealed
    <3>8. BbmLoads'
      BY <2>0, <3>2, <3>4, <3>5, <3>6 DEF BbmLoads, Calm, IsFaithful
    <3>9. PaletteLoads'
      BY <2>0, <3>2, <3>4, <3>8 DEF PaletteLoads
    <3> QED BY <1>1, <3>3, <3>4, <3>7, <3>9 DEF PaletteStored
  <2> QED BY <2>1, <2>2
<1>8. CASE LoadPaletteAnim
  <2>0. disk.fmt = "anims" /\ (disk.seal = "loose" \/ (disk.seal = "bad" /\ disk.len = 0))
    BY <1>1, <1>8 DEF LoadPaletteAnim, PaletteSealed
  <2>1. CASE ~Is(1, "palAnimHeader")
    <3>1. disk.seal # "whole"
      BY <2>0
    <3> QED BY <1>4, <1>8, <2>1, <3>1 DEF LoadPaletteAnim
  <2>2. CASE Is(1, "palAnimHeader")
    <3>1. PICK job : job = Job("anims", 2, 0, FALSE, archive) /\ Begins(archive, job)
      BY <1>8, <2>2 DEF LoadPaletteAnim
    <3>2. job.op = "anims" /\ job.base = archive
      BY <3>1 DEF Job
    <3>3. Maps
      BY <3>1, <3>2, IdleIsIdle, BeginMaps DEF Partly
    <3>4. io' = job /\ disk' = disk /\ client' = client
      BY <3>1 DEF Begins
    <3>5. disk.seal = "loose"
      BY <2>0, <2>2 DEF Is
    <3>6. PaletteSealed'
      BY <1>1, <3>4 DEF PaletteSealed
    <3>7. PaletteLoads'
      BY <2>0, <3>2, <3>4, <3>5 DEF PaletteLoads
    <3> QED BY <1>1, <3>3, <3>4, <3>6, <3>7 DEF PaletteStored
  <2> QED BY <2>1, <2>2
<1> QED BY <1>3, <1>5, <1>6, <1>7, <1>8

(* Every step of a load is one of its own format. *)
LEMMA StepsAre ==
  ASSUME LoadStep
  PROVE  \/ ListStep /\ io.op \in {"lst", "dat", "idx", "snd"}
         \/ TextStep /\ io.op = "text"
         \/ PaletteStep /\ io.op \in {"act", "bbm", "anims"}
         \/ PictureStep /\ io.op \in {"lbm", "bmp"}
         \/ BobStep /\ io.op = "bob"
         \/ IniStep /\ io.op = "ini"
<1>1. ListStep => io.op \in {"lst", "dat", "idx", "snd"}
  BY DEF ListStep, LoadListEntry, LoadGlyph, LoadingFont, LoadFontEnd, LoadListEnd, LoadSound, LoadDatEntry,
         LoadDatEnd, LoadingDat, LoadingList
<1>2. TextStep => io.op = "text"
  BY DEF TextStep, LoadPlain, LoadTable, AtTable, LoadTextEntry, LoadTextEnd, LoadingText
<1>3. PaletteStep => io.op \in {"act", "bbm", "anims"}
  BY DEF PaletteStep, LoadActPalette, LoadBbmPalette, LoadBbmUnknown, LoadBbmEnd, LoadAnimLine, LoadAnimComment,
         LoadAnimWrong, LoadAnimEnd
<1>4. PictureStep => io.op \in {"lbm", "bmp"}
  BY DEF PictureStep, LoadLbmHeader, LoadLbmAnim, LoadLbmPalette, LoadLbmUnknown, LoadLbmBody, LoadLbmEnd, AtChunk,
         LoadBmpPalette, LoadBmpRows
<1>5. BobStep => io.op = "bob"
  BY DEF BobStep, LoadBobColours, LoadBobBody, LoadBobDirection, LoadBobCount, LoadBobOverlay, LoadBobLinks, LoadBobLink,
         LoadBobEnd, AtOverlays, LoadingBob
<1>6. IniStep => io.op = "ini"
  BY DEF IniStep, LoadIniSection, LoadIniValue, LoadIniWrong, LoadIniSectionEnd, LoadIniEnd, InSection
<1> QED BY <1>1, <1>2, <1>3, <1>4, <1>5, <1>6 DEF LoadStep

(* goes on with a load, *)
LEMMA PaletteGoesOn ==
  ASSUME Calm, PaletteStored, LoadStep
  PROVE  Maps /\ PaletteStored'
<1>1. /\ PaletteSealed /\ PaletteLoads /\ client = "palette" /\ disk.seal \in Store!Seals
      /\ io.op \in {"idle", "act", "bbm", "anims"} /\ (io.op # "idle" => io.op = disk.fmt)
  BY DEF PaletteStored, PaletteSealed, PaletteLoads
<1>2. PaletteStep
  BY <1>1, StepsAre
<1>3. client' = client /\ disk' = disk
  BY <1>2 DEF PaletteStep, LoadActPalette, LoadBbmPalette, LoadBbmUnknown, LoadBbmEnd, LoadAnimLine, LoadAnimComment,
              LoadAnimWrong, LoadAnimEnd, Goes, Returns, Fails
<1>4. PaletteSealed' /\ client' = "palette"
  BY <1>1, <1>3 DEF PaletteSealed
<1>5. ASSUME io'.op = "idle" PROVE PaletteStored'
  BY <1>3, <1>5, PaletteFileStays
<1>6. CASE LoadActPalette
  <2>1. PICK x : x = LoadedPalette([i \in 1..Colours |-> disk.toks[i].v]) /\ io.op = "act" /\ Returns(<<x>>, "NONE")
    BY <1>6 DEF LoadActPalette
  <2>2. io'.op = "idle" /\ io # Idle
    BY <2>1, IdleIsIdle DEF Returns
  <2>3. disk.seal \in {"whole", "loose"} /\ io.base = <<>> /\ ActSealed(disk.toks, disk.len, disk.holds, disk.seal)
    BY <1>1, <2>1 DEF PaletteLoads, ActLoads
  <2>4. ASSUME disk.seal = "whole" PROVE <<x>> = io.base \o disk.holds
    <3>1. disk.holds = <<x>>
      BY <2>1, <2>3, <2>4, ActLoaded
    <3>2. <<>> \o <<x>> = <<x>>
      OBVIOUS
    <3> QED BY <2>3, <3>1, <3>2
  <2>5. Maps
    BY <2>1, <2>2, <2>3, <2>4, ReturnMaps
  <2> QED BY <1>5, <2>2, <2>5
<1>7. CASE LoadBbmPalette \/ LoadBbmUnknown \/ LoadBbmEnd
  <2>1. io.op = "bbm"
    BY <1>7 DEF LoadBbmPalette, LoadBbmUnknown, LoadBbmEnd
  <2>2. BbmLoads
    BY <1>1, <2>1 DEF PaletteLoads
  <2>3. Maps /\ (io'.op = "bbm" => BbmLoads') /\ io'.op \in {"idle", "bbm"}
    BY <1>1, <1>7, <2>1, <2>2, BbmPaletteMaps, BbmUnknownMaps, BbmEndMaps
  <2>4. ASSUME io'.op = "bbm" PROVE PaletteStored'
    <3>1. PaletteLoads'
      BY <1>1, <1>3, <2>1, <2>3, <2>4 DEF PaletteLoads
    <3> QED BY <1>4, <3>1 DEF PaletteStored
  <2> QED BY <1>5, <2>3, <2>4
<1>8. CASE LoadAnimLine \/ LoadAnimComment \/ LoadAnimWrong \/ LoadAnimEnd
  <2>1. io.op = "anims"
    BY <1>8 DEF LoadAnimLine, LoadAnimComment, LoadAnimWrong, LoadAnimEnd
  <2>2. disk.seal = "loose" /\ io # Idle /\ disk.fmt = "anims"
    BY <1>1, <2>1, IdleIsIdle DEF PaletteLoads
  <2>3. ASSUME NEW a, Goes(a, [io EXCEPT !.pos = @ + 1]) PROVE Maps /\ PaletteStored'
    <3>1. PICK job : job = [io EXCEPT !.pos = @ + 1]
      OBVIOUS
    <3>2. job.op = "anims" /\ job.base = io.base /\ job.pal = io.pal
      BY <2>1, <3>1 DEF Calm, Fields
    <3>3. Goes(a, job) /\ job # Idle
      BY <2>3, <3>1, <3>2, IdleIsIdle
    <3>4. Maps
      BY <2>2, <3>2, <3>3, GoesMaps DEF IsFaithful
    <3>5. io'.op = "anims"
      BY <3>2, <3>3 DEF Goes
    <3>6. PaletteLoads'
      BY <1>3, <2>2, <3>5 DEF PaletteLoads
    <3> QED BY <1>4, <3>4, <3>6 DEF PaletteStored
  <2>4. CASE LoadAnimLine \/ LoadAnimComment
    BY <2>3, <2>4 DEF LoadAnimLine, LoadAnimComment
  <2>5. CASE LoadAnimWrong
    <3>1. PICK code \in {"WRONG_FORMAT", "UNEXPECTED_EOF"} : Fails({code})
      BY <2>5 DEF LoadAnimWrong
    <3>2. Maps
      BY <2>2, <3>1, FailMaps
    <3>3. io'.op = "idle"
      BY <3>1, IdleIsIdle DEF Fails, Returns
    <3> QED BY <1>5, <3>2, <3>3
  <2>6. CASE LoadAnimEnd
    <3>1. Returns(archive, "NONE")
      BY <2>6 DEF LoadAnimEnd
    <3>2. Maps
      BY <2>2, <3>1, ReturnMaps
    <3>3. io'.op = "idle"
      BY <3>1, IdleIsIdle DEF Returns
    <3> QED BY <1>5, <3>2, <3>3
  <2> QED BY <1>8, <2>4, <2>5, <2>6
<1> QED BY <1>2, <1>6, <1>7, <1>8 DEF PaletteStep

(* and loses its end. *)
LEMMA PaletteTorn ==
  ASSUME FileOK, PaletteStored, TearFile \/ TearIndex
  PROVE  Maps /\ PaletteStored'
<1>1. PaletteSealed /\ client = "palette"
  BY DEF PaletteStored
<1>2. ~TearIndex
  <2>1. disk.ilen = 0
    BY <1>1 DEF PaletteSealed
  <2>2. \A n \in 0..(0 - 1) : FALSE
    OBVIOUS
  <2> QED BY <2>1, <2>2 DEF TearIndex
<1>3. PICK n \in 0..(disk.len - 1) :
        Tears([disk EXCEPT !.len = n], IF Missed(n) THEN Broken(disk.seal) ELSE "loose")
  BY <1>2 DEF TearFile
<1>4. PICK f, seal : /\ f = [disk EXCEPT !.len = n] /\ seal = IF Missed(n) THEN Broken(disk.seal) ELSE "loose"
                     /\ Tears(f, seal)
  BY <1>3
<1>5. /\ f.fmt = disk.fmt /\ f.toks = disk.toks /\ f.len = n /\ f.ilen = disk.ilen /\ f.holds = disk.holds
      /\ f = [f EXCEPT !.seal = f.seal]
      /\ f = [fmt |-> f.fmt, toks |-> f.toks, idx |-> f.idx, len |-> f.len, ilen |-> f.ilen,
              holds |-> f.holds, seal |-> f.seal]
  BY <1>4 DEF FileOK
<1>6. seal \in {"torn", "bad", "loose"}
  BY <1>4 DEF Broken
<1>7. seal \in Store!Seals \ {"whole"}
  BY <1>6 DEF Store!Seals
<1>8. Maps
  BY <1>4, <1>5, <1>7, TearMaps
<1>9. /\ disk'.fmt = disk.fmt /\ disk'.toks = disk.toks /\ disk'.len = n /\ disk'.ilen = disk.ilen
      /\ disk'.holds = disk.holds /\ disk'.seal = seal
  <2>1. disk' = [f EXCEPT !.seal = seal]
    BY <1>4 DEF Tears
  <2> QED BY <1>5, <2>1
<1>10. io' = io /\ io = Idle /\ client' = client
  BY <1>4 DEF Tears
<1>11. disk.fmt # "none"
  <2>1. \A k \in 0..(0 - 1) : FALSE
    OBVIOUS
  <2>2. disk.fmt = "none" => disk.len = 0
    BY <1>1 DEF PaletteSealed
  <2> QED BY <2>1, <2>2
<1>12. ASSUME disk.fmt = "act" PROVE ActSealed(disk.toks, n, disk.holds, seal)
  <2>1. Missed(n)
    BY <1>12 DEF Missed
  <2>2. ActSealed(disk.toks, disk.len, disk.holds, disk.seal)
    BY <1>1, <1>12 DEF PaletteSealed
  <2>3. ActSealed(disk.toks, n, disk.holds, Broken(disk.seal))
    BY <2>2, ActTorn
  <2> QED BY <1>4, <2>1, <2>3
<1>13. ASSUME disk.fmt = "bbm" PROVE BbmSealed(disk.toks, n, disk.holds, seal)
  <2>1. Missed(n) <=> n = 0 \/ disk.toks[n].t = "CMAP"
    BY <1>13 DEF Missed
  <2>2. BbmSealed(disk.toks, disk.len, disk.holds, disk.seal)
    BY <1>1, <1>13 DEF PaletteSealed
  <2>3. seal = IF n = 0 \/ disk.toks[n].t = "CMAP" THEN Broken(disk.seal) ELSE "loose"
    BY <1>4, <2>1
  <2> QED BY <2>2, <2>3, BbmTorn
<1>14. ASSUME disk.fmt = "anims" PROVE seal = "loose" \/ (seal = "bad" /\ n = 0)
  <2>1. disk.seal \in {"loose", "bad"}
    BY <1>1, <1>14 DEF PaletteSealed
  <2>2. Missed(n) => n = 0
    BY <1>14 DEF Missed
  <2> QED BY <1>4, <2>1, <2>2 DEF Broken
<1>15. PaletteSealed'
  BY <1>1, <1>7, <1>9, <1>11, <1>12, <1>13, <1>14 DEF PaletteSealed
<1>16. PaletteLoads'
  BY <1>10, IdleIsIdle DEF PaletteLoads
<1> QED BY <1>1, <1>8, <1>10, <1>15, <1>16 DEF PaletteStored

(* Every step. *)
LEMMA PaletteNext ==
  ASSUME FInv, PaletteStored, [FilesNext]_avars
  PROVE  Maps /\ PaletteStored'
<1>1. Calm /\ FileOK /\ client \in DOMAIN ItemsOf
  BY DEF FInv
<1>2. CASE ArchiveEdit(ItemsOf[client]) \/ (client = "ini" /\ SetValue)
  <2>1. Maps /\ io = Idle /\ io' = io /\ disk' = disk /\ client' = client
    BY <1>2, EditsMap
  <2>2. io'.op = "idle"
    BY <2>1, IdleIsIdle
  <2> QED BY <2>1, <2>2, PaletteFileStays
<1>3. CASE Known /\ FilesWrite
  BY <1>1, <1>3, PaletteWrites
<1>4. CASE FilesLoad
  BY <1>1, <1>4, PaletteBegins
<1>5. CASE LoadStep
  BY <1>1, <1>5, PaletteGoesOn
<1>6. CASE TearFile \/ TearIndex
  BY <1>1, <1>6, PaletteTorn
<1>7. CASE UNCHANGED avars
  <2>1. client' = client /\ archive' = archive /\ disk' = disk /\ io' = io /\ ret' = ret
    BY <1>7 DEF avars
  <2>2. UNCHANGED Store!svars
    BY <2>1 DEF Store!svars
  <2>3. Maps
    BY <2>2 DEF Maps
  <2>4. PaletteSealed' /\ PaletteLoads'
    BY <2>1 DEF PaletteStored, PaletteSealed, PaletteLoads, ActLoads, BbmLoads
  <2> QED BY <2>1, <2>3, <2>4 DEF PaletteStored
<1> QED BY <1>2, <1>3, <1>4, <1>5, <1>6, <1>7, Zenon DEF FilesNext

(* For a client who starts with no file, the writers and loaders of        *)
(* palettes and palette animations do what ArchiveStore promises:          *)
(* WriteACT, WriteBBM and WritePaletteAnim, LoadACT, LoadBBM and           *)
(* LoadPaletteAnim.                                                        *)
THEOREM PalettesStored == FilesSpec /\ client = "palette" /\ disk = NoDisk => StoreSpec
<1>1. FilesInit /\ client = "palette" /\ disk = NoDisk => PaletteStored /\ Store!Init
  <2> SUFFICES ASSUME FilesInit, client = "palette", disk = NoDisk PROVE PaletteStored /\ Store!Init
    OBVIOUS
  <2>1. /\ disk.fmt = "none" /\ disk.len = Len(<<>>) /\ disk.ilen = Len(<<>>) /\ disk.seal = "loose"
    BY DEF NoDisk, File
  <2>2. Len(<<>>) = 0
    BY NoSeq
  <2>3. archive = <<>> /\ io = Idle /\ ret = NoRet
    BY DEF FilesInit, ArchiveInit
  <2>4. disk.seal \in Store!Seals
    BY <2>1 DEF Store!Seals
  <2>5. PaletteSealed
    BY <2>1, <2>2, <2>4 DEF PaletteSealed
  <2>6. PaletteLoads
    BY <2>3, IdleIsIdle DEF PaletteLoads
  <2>7. Idle.base = <<>> /\ Idle.pal = FALSE
    BY DEF Idle, Job
  <2>8. Store!Init
    BY <2>3, <2>4, <2>7 DEF Store!Init, NoRet
  <2> QED BY <2>5, <2>6, <2>8 DEF PaletteStored
<1>2. FInv /\ PaletteStored /\ [FilesNext]_avars => PaletteStored' /\ [Store!Next]_(Store!svars)
  BY PaletteNext DEF Maps
<1> QED BY <1>1, <1>2, FilesInvariant, PTL DEF FilesSpec, StoreSpec, Store!Spec

-------------------------------------------------------------------------------
(* INI: a file that has lost a line is read as far as it goes *)

(* Section x begins at line p. *)
SectionAt(toks, p, x) ==
  /\ p \in Nat \ {0} /\ toks[p].t = "section" /\ toks[p].v = x.name /\ x.name # ""
  /\ x \in IniItem /\ x = Ini(x.name, x.vals) /\ IsSeq(x.vals) /\ Len(x.vals) \in Nat /\ NamesDiffer(x)
  /\ \A j \in 1..Len(x.vals) :
       toks[p + j].t = "entry" /\ toks[p + j].n # "" /\ x.vals[j] = [n |-> toks[p + j].n, v |-> <<toks[p + j].v>>]

(* The line behind section x that begins at line p. *)
LineAfter(p, x) == p + Len(x.vals) + 1

(* Each section begins at its place, an empty line behind the one before. *)
SectionsLie(place, toks, holds) ==
  /\ place[1] = 1
  /\ \A k \in 1..Len(holds) : SectionAt(toks, place[k], holds[k]) /\ LineAfter(place[k], holds[k]) =< Len(toks) + 1
  /\ \A k \in 1..(Len(holds) - 1) :
       /\ place[k + 1] = LineAfter(place[k], holds[k]) + 1 /\ toks[LineAfter(place[k], holds[k])].t = "blank"
       /\ LineAfter(place[k], holds[k]) =< Len(toks)
  /\ LineAfter(place[Len(holds)], holds[Len(holds)]) = Len(toks) + 1

(* Only an empty file is known to have lost something. *)
IniSealed(toks, len, holds, seal) ==
  /\ Len(toks) \in Nat /\ len \in 0..Len(toks)
  /\ seal = "whole" =>
       /\ len = Len(toks) /\ IsSeq(holds) /\ Len(holds) \in Nat \ {0} /\ \E place : SectionsLie(place, toks, holds)
  /\ seal \in {"torn", "bad"} => len = 0

(* A load that has come to line pos and gave a is at the head of section   *)
(* k + 1, or behind j of its values, or has seen the end of the file.      *)
AtHead(place, base, holds, a, part, i, pos, k) ==
  part = Null /\ i = 0 /\ k + 1 \in 1..Len(holds) /\ pos = place[k + 1] /\ Added(a, base, holds, k)

AtValue(place, base, holds, a, part, pos, k, j) ==
  /\ k + 1 \in 1..Len(holds) /\ j \in 0..Len(holds[k + 1].vals) /\ pos = place[k + 1] + j + 1
  /\ part = Ini(holds[k + 1].name, SubSeq(holds[k + 1].vals, 1, j)) /\ part # Null
  /\ Added(a, base, holds, k)

AllAdded(base, holds, a, part, i) == part = Null /\ i = 1 /\ Added(a, base, holds, Len(holds))

IniStored(place, base, holds, a, part, i, pos) ==
  \/ \E k \in Nat : AtHead(place, base, holds, a, part, i, pos, k)
  \/ \E k \in Nat : \E j \in Nat : AtValue(place, base, holds, a, part, pos, k, j)
  \/ AllAdded(base, holds, a, part, i)

IniReadTo(toks, base, holds, a, part, i, pos) ==
  \E place : SectionsLie(place, toks, holds) /\ IniStored(place, base, holds, a, part, i, pos)

IniLoads ==
  /\ disk.seal \in {"whole", "loose"} /\ IniSealed(disk.toks, disk.len, disk.holds, disk.seal) /\ IsSeq(io.base)
  /\ disk.seal = "whole" => IniReadTo(disk.toks, io.base, disk.holds, archive, io.part, io.i, io.pos)

(* Null is no section. *)
LEMMA IniNotNull == ASSUME NEW x \in IniItem PROVE x # Null
BY IniAssumption

(* A value of a new name is put behind the others. *)
LEMMA ValueSetNew ==
  ASSUME NEW vals, NEW name, NEW e, \A i \in 1..Len(vals) : vals[i].n # e.n
  PROVE  ValueSet(Ini(name, vals), e) = Ini(name, Append(vals, e))
<1>1. PICK x : x = Ini(name, vals)
  OBVIOUS
<1>2. x = [k |-> "ini", name |-> name, vals |-> vals] /\ x.vals = vals
  BY <1>1 DEF Ini
<1>3. SelectInSeq(x.vals, LAMBDA f : f.n = e.n) = 0
  <2>1. {i \in 1..Len(vals) : vals[i].n = e.n} = {}
    OBVIOUS
  <2> QED BY <1>2, <2>1 DEF SelectInSeq
<1>4. ValueSet(x, e) = [x EXCEPT !.vals = Append(@, e)]
  BY <1>3 DEF ValueSet
<1>5. ValueSet(x, e) = [k |-> "ini", name |-> name, vals |-> Append(vals, e)]
  BY <1>2, <1>4
<1> QED BY <1>1, <1>5 DEF Ini

(* The values that were read, and the next. *)
LEMMA NextValue ==
  ASSUME NEW x, x = Ini(x.name, x.vals), IsSeq(x.vals), NamesDiffer(x), NEW j, j \in Nat, j + 1 \in 1..Len(x.vals),
         NEW e, e = x.vals[j + 1]
  PROVE  ValueSet(Ini(x.name, SubSeq(x.vals, 1, j)), e) = Ini(x.name, SubSeq(x.vals, 1, j + 1))
<1>1. PICK n, vals : n \in Nat /\ n = Len(vals) /\ vals = x.vals /\ DOMAIN vals = 1..n
  BY DEF IsSeq
<1>2. PICK T : vals \in Seq(T)
  BY <1>1 DEF IsSeq
<1>3. PICK s : s = SubSeq(vals, 1, j)
  OBVIOUS
<1>4. Len(s) = j /\ \A i \in 1..j : s[i] = vals[i]
  BY <1>1, <1>2, <1>3
<1>5. SubSeq(vals, 1, j + 1) = Append(s, e)
  BY <1>1, <1>2, <1>3
<1>6. \A i \in 1..j : s[i].n # e.n
  <2> SUFFICES ASSUME NEW i \in 1..j, s[i].n = e.n PROVE FALSE
    OBVIOUS
  <2>1. i \in 1..n /\ j + 1 \in 1..n /\ i # j + 1
    BY <1>1
  <2>2. vals[i].n = vals[j + 1].n
    BY <1>1, <1>4
  <2> QED BY <1>1, <2>1, <2>2 DEF NamesDiffer
<1>7. ValueSet(Ini(x.name, s), e) = Ini(x.name, Append(s, e))
  BY <1>4, <1>6, ValueSetNew
<1> QED BY <1>1, <1>3, <1>5, <1>7

-------------------------------------------------------------------------------
(* The sections that WriteINI writes *)

(* In r, the entries of s are behind the first m. *)
LiesAt(r, m, s) == \A j \in 1..Len(s) : r[m + j] = s[j]

IsPiece(f, n, s, k) ==
  /\ Len(f[k - 1]) \in Nat /\ Len(s[k]) \in Nat /\ Len(f[k]) = Len(f[k - 1]) + Len(s[k])
  /\ Len(f[k]) =< Len(f[n])
  /\ LiesAt(f[n], Len(f[k - 1]), s[k])

(* Of sequences that are put together each is behind those before. *)
LEMMA PiecesAre ==
  ASSUME NEW T, NEW n, NEW s, NEW f, NEW k,
         n \in Nat, s \in [1..n -> Seq(T)], f \in [0..n -> Seq(T)], Joins(f, n, s), k \in 1..n
  PROVE  IsPiece(f, n, s, k)
<1>1. k - 1 \in 0..n /\ k \in 0..n
  OBVIOUS
<1>2. PICK a, b, c, r : a = f[k - 1] /\ b = s[k] /\ c = f[k] /\ r = f[n]
  OBVIOUS
<1>3. a \in Seq(T) /\ b \in Seq(T) /\ c \in Seq(T) /\ r \in Seq(T) /\ c = a \o b
  <2>1. f[k] = f[k - 1] \o s[k]
    BY DEF Joins
  <2>2. n \in 0..n
    OBVIOUS
  <2>3. f[k - 1] \in Seq(T) /\ f[k] \in Seq(T) /\ f[n] \in Seq(T) /\ s[k] \in Seq(T)
    BY <1>1, <2>2
  <2> QED BY <1>2, <2>1, <2>3
<1>4. PICK i \in Nat, m \in Nat : i = Len(a) /\ m = Len(b)
  BY <1>3
<1>5. Joined(c, a, b, i, m)
  BY <1>3, <1>4, TwoParts, Zenon
<1>6. Extends(r, c)
  BY <1>1, <1>2, JoinsExtend
<1>7. Len(c) = i + m /\ \A j \in 1..m : c[i + j] = b[j]
  BY <1>5 DEF Joined
<1>8. Len(c) =< Len(r) /\ \A q \in 1..(i + m) : r[q] = c[q]
  BY <1>6, <1>7 DEF Extends
<1>9. ASSUME NEW j \in 1..m PROVE r[i + j] = b[j]
  <2>1. i + j \in 1..(i + m)
    BY <1>4
  <2> QED BY <1>7, <1>8, <2>1
<1>10. LiesAt(r, i, b)
  BY <1>4, <1>9 DEF LiesAt
<1> QED BY <1>2, <1>4, <1>7, <1>8, <1>10 DEF IsPiece

(* So of what they are put together to there is a place for each. *)
PlacesAre(toks, s, n, from) ==
  /\ Len(toks) \in Nat /\ from[0] = 0 /\ from[n] = Len(toks)
  /\ \A k \in 1..n :
       /\ from[k - 1] \in Nat /\ from[k] \in Nat /\ from[k] =< Len(toks)
       /\ Len(s[k]) \in Nat /\ from[k] = from[k - 1] + Len(s[k])
       /\ LiesAt(toks, from[k - 1], s[k])

LEMMA PlacesOf ==
  ASSUME NEW T, NEW n, NEW s, NEW toks, n \in Nat, s \in [1..n -> Seq(T)], toks = FlattenSeq(s)
  PROVE  toks \in Seq(T) /\ \E from : PlacesAre(toks, s, n, from)
<1>1. PICK f : f \in [0..n -> Seq(T)] /\ Joins(f, n, s) /\ FlattenSeq(s) = f[n]
  BY Flattened
<1>2. \A k \in 0..n : f[k] \in Seq(T) /\ Len(f[k]) \in Nat
  BY <1>1
<1>3. PICK from : from = [k \in 0..n |-> Len(f[k])]
  OBVIOUS
<1>4. n \in 0..n /\ 0 \in 0..n
  OBVIOUS
<1>5. from[0] = 0 /\ from[n] = Len(toks) /\ Len(toks) \in Nat
  <2>1. f[0] = <<>> /\ Len(<<>>) = 0
    BY <1>1, NoSeq DEF Joins
  <2> QED BY <1>1, <1>2, <1>3, <1>4, <2>1
<1>6. ASSUME NEW k \in 1..n
      PROVE  /\ from[k - 1] \in Nat /\ from[k] \in Nat /\ from[k] =< Len(toks)
             /\ Len(s[k]) \in Nat /\ from[k] = from[k - 1] + Len(s[k])
             /\ LiesAt(toks, from[k - 1], s[k])
  <2>1. k - 1 \in 0..n /\ k \in 0..n
    OBVIOUS
  <2>11. n \in Nat /\ s \in [1..n -> Seq(T)] /\ k \in 1..n
    OBVIOUS
  <2>2. from[k - 1] = Len(f[k - 1]) /\ from[k] = Len(f[k]) /\ from[k - 1] \in Nat /\ from[k] \in Nat
    BY <1>2, <1>3, <2>1
  <2>3. /\ Len(s[k]) \in Nat /\ Len(f[k]) = Len(f[k - 1]) + Len(s[k]) /\ Len(f[k]) =< Len(f[n])
        /\ LiesAt(f[n], Len(f[k - 1]), s[k])
    <3>1. IsPiece(f, n, s, k)
      BY <1>1, <2>11, PiecesAre
    <3> QED BY <3>1 DEF IsPiece
  <2> QED BY <1>1, <2>2, <2>3
<1>7. PlacesAre(toks, s, n, from)
  BY <1>5, <1>6 DEF PlacesAre
<1> QED BY <1>1, <1>2, <1>4, <1>7

(* A value of one line. *)
ValueToken(e) == [t |-> "entry", n |-> e.n, v |-> Head(e.v)]

LEMMA ValueTokenIs == ASSUME NEW e \in IniValue, Len(e.v) = 1 PROVE ValueTokens(e) = <<ValueToken(e)>> /\ e = [n |-> e.n, v |-> <<ValueToken(e).v>>]
<1>1. e.v \in Seq(STRING)
  BY DEF IniValue
<1>2. PICK v : v = e.v /\ v \in Seq(STRING) /\ Len(v) = 1
  BY <1>1
<1>3. v = <<Head(v)>>
  BY <1>2
<1>4. PICK more : more = [i \in 1..(Len(v) - 1) |-> [t |-> "words"]]
  OBVIOUS
<1>5. more = <<>>
  BY <1>2, <1>4
<1>6. PICK x : x = ValueToken(e)
  OBVIOUS
<1>7. <<x>> \o <<>> = <<x>>
  OBVIOUS
<1>8. ValueTokens(e) = <<x>>
  BY <1>2, <1>4, <1>5, <1>6, <1>7 DEF ValueTokens, ValueToken
<1>9. e = [n |-> e.n, v |-> <<Head(v)>>]
  BY <1>2, <1>3 DEF IniValue
<1>10. x.v = Head(v)
  BY <1>2, <1>6 DEF ValueToken
<1> QED BY <1>6, <1>8, <1>9, <1>10

(* The lines of a section: its name, and one for each value. *)
SectionLines(s, x) ==
  /\ Len(s) = Len(x.vals) + 1
  /\ s[1].t = "section" /\ s[1].v = x.name
  /\ \A j \in 1..Len(x.vals) :
       s[j + 1].t = "entry" /\ s[j + 1].n # "" /\ x.vals[j] = [n |-> s[j + 1].n, v |-> <<s[j + 1].v>>]

LEMMA SectionTokensLaid ==
  ASSUME NEW x \in IniItem, IniStorable(x)
  PROVE  SectionLines(SectionTokens(x), x)
<1>1. x.vals \in Seq(IniValue)
  BY DEF IniItem
<1>2. PICK vals, n : n \in Nat /\ vals = x.vals /\ n = Len(vals) /\ DOMAIN vals = 1..n /\ \A i \in 1..n : vals[i] \in IniValue
  BY <1>1
<1>3. \A i \in 1..n : vals[i].n # "" /\ Len(vals[i].v) = 1
  BY <1>2 DEF IniStorable
<1>4. PICK s : s = [i \in 1..n |-> ValueTokens(vals[i])]
  OBVIOUS
<1>5. \A i \in 1..n : s[i] = <<ValueToken(vals[i])>> /\ s[i] \in Seq(IniLine)
  BY <1>2, <1>3, <1>4, ValueTokenIs, ValueTokensAre
<1>6. PICK T : T = IniLine
  OBVIOUS
<1>7. s \in [1..n -> Seq(T)]
  BY <1>4, <1>5, <1>6
<1>8. AreWide(s, n, 1)
  <2>1. \A y : Len(<<y>>) = 1
    OBVIOUS
  <2>2. ASSUME NEW i \in 1..n PROVE Len(s[i]) = 1
    BY <1>5, <2>1, Zenon
  <2> QED BY <2>2, Zenon DEF AreWide
<1>9. PICK flat : flat = FlattenSeq(s)
  OBVIOUS
<1>10. PICK w \in Nat : w = 1 /\ AreWide(s, n, w)
  BY <1>8
<1>11. flat \in Seq(T) /\ Laid(flat, s, n, w)
  BY <1>2, <1>7, <1>9, <1>10, FlatRows
<1>12. Len(flat) = n /\ \A j \in 1..n : flat[j] = ValueToken(vals[j])
  <2>1. Len(flat) = n * w /\ \A y \in 1..n : \A i \in 1..w : flat[(y - 1) * w + i] = s[y][i]
    BY <1>11 DEF Laid
  <2>2. n * w = n
    BY <1>2, <1>10
  <2>3. ASSUME NEW j \in 1..n PROVE flat[j] = ValueToken(vals[j])
    <3>1. 1 \in 1..w /\ (j - 1) * w + 1 = j
      BY <1>2, <1>10
    <3>2. flat[j] = s[j][1]
      BY <2>1, <3>1
    <3>3. \A y : <<y>>[1] = y
      OBVIOUS
    <3>4. s[j] = <<ValueToken(vals[j])>>
      BY <1>5
    <3> QED BY <3>2, <3>3, <3>4, Zenon
  <2> QED BY <2>1, <2>2, <2>3
<1>13. PICK head : head = [t |-> "section", v |-> x.name]
  OBVIOUS
<1>14. PICK r : r = <<head>> \o flat /\ r = SectionTokens(x)
  BY <1>2, <1>4, <1>9, <1>13 DEF SectionTokens
<1>15. Len(r) = n + 1 /\ r[1] = head /\ \A j \in 1..n : r[j + 1] = flat[j]
  BY <1>2, <1>11, <1>12, <1>14
<1>16. ASSUME NEW j \in 1..n
       PROVE  r[j + 1].t = "entry" /\ r[j + 1].n # "" /\ vals[j] = [n |-> r[j + 1].n, v |-> <<r[j + 1].v>>]
  <2>1. PICK e \in IniValue : e = vals[j] /\ e.n # "" /\ Len(e.v) = 1
    BY <1>2, <1>3
  <2>2. r[j + 1] = ValueToken(e)
    BY <1>12, <1>15, <2>1
  <2>3. ValueToken(e).t = "entry" /\ ValueToken(e).n = e.n
    BY DEF ValueToken
  <2>4. e = [n |-> e.n, v |-> <<ValueToken(e).v>>]
    BY <2>1, ValueTokenIs
  <2> QED BY <2>1, <2>2, <2>3, <2>4
<1>17. r[1].t = "section" /\ r[1].v = x.name
  BY <1>13, <1>15
<1> QED BY <1>2, <1>14, <1>15, <1>16, <1>17 DEF SectionLines

(* A section with the empty line in front of it, if it is not the first. *)
Piece(x, k) == (IF k = 1 THEN <<>> ELSE <<Blank>>) \o SectionTokens(x)

(* Where its name is. *)
Gap(k) == IF k = 1 THEN 1 ELSE 2

LEMMA PieceIs ==
  ASSUME NEW x \in IniItem, IniStorable(x), NEW k \in Nat
  PROVE  /\ Piece(x, k) \in Seq(IniLine) /\ Gap(k) \in {1, 2}
         /\ Len(x.vals) \in Nat /\ Len(Piece(x, k)) = Gap(k) + Len(x.vals)
         /\ k # 1 => Piece(x, k)[1] = Blank
         /\ \A j \in 0..Len(x.vals) : Piece(x, k)[Gap(k) + j] = SectionTokens(x)[j + 1]
<1>1. PICK T, tokens : T = IniLine /\ tokens = SectionTokens(x) /\ tokens \in Seq(T)
  BY SectionTokensAre
<1>2. PICK n \in Nat : n = Len(x.vals) /\ Len(tokens) = n + 1
  <2>1. x.vals \in Seq(IniValue)
    BY DEF IniItem
  <2>2. Len(x.vals) \in Nat
    BY <2>1
  <2> QED BY <1>1, <2>2, SectionTokensLaid DEF SectionLines
<1>3. PICK blank : blank = Blank /\ blank \in T
  BY <1>1 DEF IniLine
<1>4. CASE k = 1
  <2>1. <<>> \o tokens = tokens
    BY <1>1
  <2>2. Piece(x, k) = tokens /\ Gap(k) = 1
    BY <1>1, <1>4, <2>1 DEF Piece, Gap
  <2>3. \A j \in 0..n : 1 + j = j + 1
    OBVIOUS
  <2> QED BY <1>1, <1>2, <1>4, <2>2, <2>3
<1>5. CASE k # 1
  <2>1. PICK r : r = <<blank>> \o tokens
    OBVIOUS
  <2>2. r \in Seq(T) /\ Len(r) = n + 2 /\ r[1] = blank /\ \A j \in 1..(n + 1) : r[j + 1] = tokens[j]
    BY <1>1, <1>2, <1>3, <2>1
  <2>3. Piece(x, k) = r /\ Gap(k) = 2
    BY <1>1, <1>3, <1>5, <2>1 DEF Piece, Gap
  <2>4. ASSUME NEW j \in 0..n PROVE r[2 + j] = tokens[j + 1]
    <3>1. j + 1 \in 1..(n + 1) /\ j + 1 + 1 = 2 + j
      OBVIOUS
    <3> QED BY <2>2, <3>1
  <2>5. n + 2 = 2 + n
    OBVIOUS
  <2> QED BY <1>1, <1>2, <1>3, <2>2, <2>3, <2>4, <2>5
<1> QED BY <1>4, <1>5

(* The section is where the sequence of its lines is. *)
PieceLies(toks, m, x, k) ==
  /\ SectionAt(toks, m + Gap(k), x) /\ LineAfter(m + Gap(k), x) = m + Len(Piece(x, k)) + 1
  /\ k # 1 => toks[m + 1].t = "blank"

(* Each section is at the end of those before it, *)
LEMMA PieceLaid ==
  ASSUME NEW x, NEW k, NEW toks, NEW m, x \in IniItem, IniStorable(x), k \in Nat, m \in Nat,
         LiesAt(toks, m, Piece(x, k))
  PROVE  PieceLies(toks, m, x, k)
<1>0. PICK n, g, piece, s, p : p = m + g /\ n = Len(x.vals) /\ g = Gap(k) /\ piece = Piece(x, k) /\ s = SectionTokens(x)
  OBVIOUS
<1>1. /\ n \in Nat /\ n = Len(x.vals) /\ g \in {1, 2} /\ g = Gap(k) /\ piece = Piece(x, k) /\ s = SectionTokens(x)
      /\ Len(piece) = g + n /\ p = m + g /\ p = m + Gap(k)
      /\ \A j \in 0..n : piece[g + j] = s[j + 1]
      /\ (k # 1 => piece[1] = Blank)
  BY <1>0, PieceIs
<1>11. \A j \in 1..(g + n) : toks[m + j] = piece[j]
  BY <1>1 DEF LiesAt
<1>12. n \in Nat /\ g \in {1, 2} /\ p = m + g /\ \A j \in 0..n : piece[g + j] = s[j + 1]
  BY <1>1
<1>2. ASSUME NEW j \in 0..n PROVE toks[p + j] = s[j + 1]
  <2>0. n \in Nat /\ g \in {1, 2} /\ p = m + g
    BY <1>12
  <2>1. g + j \in 1..(g + n) /\ p + j = m + (g + j)
    BY <2>0
  <2>2. toks[m + (g + j)] = piece[g + j] /\ piece[g + j] = s[j + 1]
    BY <1>11, <1>12, <2>1
  <2> QED BY <2>1, <2>2
<1>3. SectionLines(s, x)
  BY <1>1, SectionTokensLaid
<1>4. toks[p].t = "section" /\ toks[p].v = x.name /\ p \in Nat \ {0}
  <2>1. p + 0 = p /\ 0 \in 0..n /\ p \in Nat \ {0} /\ 0 + 1 = 1
    BY <1>1
  <2>2. toks[p] = s[1]
    BY <1>2, <2>1
  <2> QED BY <1>3, <2>1, <2>2 DEF SectionLines
<1>5. ASSUME NEW j \in 1..n
      PROVE  toks[p + j].t = "entry" /\ toks[p + j].n # "" /\ x.vals[j] = [n |-> toks[p + j].n, v |-> <<toks[p + j].v>>]
  <2>1. toks[p + j] = s[j + 1]
    BY <1>1, <1>2
  <2> QED BY <1>1, <1>3, <2>1 DEF SectionLines
<1>6. x = Ini(x.name, x.vals)
  BY DEF IniItem, Ini
<1>7. IsSeq(x.vals) /\ x.name # "" /\ NamesDiffer(x)
  BY DEF IniItem, IsSeq, IniStorable
<1>8. SectionAt(toks, p, x)
  BY <1>1, <1>4, <1>5, <1>6, <1>7 DEF SectionAt
<1>9. LineAfter(p, x) = m + Len(piece) + 1
  BY <1>1 DEF LineAfter
<1>10. k # 1 => toks[m + 1].t = "blank"
  <2>1. k # 1 => toks[m + 1] = Blank
    <3>1. 1 \in 1..(g + n)
      BY <1>1
    <3> QED BY <1>1, <1>11, <3>1
  <2> QED BY <2>1 DEF Blank
<1> QED BY <1>1, <1>8, <1>9, <1>10 DEF PieceLies

(* so that what is written has each at its place. *)
LEMMA IniLaid ==
  ASSUME NEW a, a \in Seq(IniItem), a # <<>>, \A i \in 1..Len(a) : IniStorable(a[i])
  PROVE  \E place : SectionsLie(place, IniTokens(a), a)
<1>1. PICK n \in Nat : n = Len(a) /\ n # 0 /\ DOMAIN a = 1..n /\ \A i \in 1..n : a[i] \in IniItem /\ IniStorable(a[i])
  OBVIOUS
<1>2. PICK T : T = IniLine
  OBVIOUS
<1>3. PICK s : s = [i \in 1..n |-> Piece(a[i], i)]
  OBVIOUS
<1>4. \A i \in 1..n : s[i] = Piece(a[i], i) /\ s[i] \in Seq(T)
  BY <1>1, <1>2, <1>3, PieceIs
<1>5. s \in [1..n -> Seq(T)]
  BY <1>3, <1>4
<1>6. PICK toks : toks = IniTokens(a) /\ toks = FlattenSeq(s)
  BY <1>1, <1>3 DEF IniTokens, Piece
<1>7. PICK from : PlacesAre(toks, s, n, from)
  BY <1>5, <1>6, PlacesOf
<1>70. Len(toks) \in Nat /\ from[0] = 0 /\ from[n] = Len(toks)
  BY <1>7 DEF PlacesAre
<1>71. ASSUME NEW k \in 1..n
       PROVE  /\ from[k - 1] \in Nat /\ from[k] \in Nat /\ from[k] =< Len(toks)
              /\ Len(s[k]) \in Nat /\ from[k] = from[k - 1] + Len(s[k])
              /\ LiesAt(toks, from[k - 1], s[k])
  BY <1>7 DEF PlacesAre
<1>72. ASSUME NEW k \in 1..n PROVE Len(s[k]) # 0
  <2>1. a[k] \in IniItem /\ IniStorable(a[k]) /\ s[k] = Piece(a[k], k) /\ k \in Nat
    BY <1>1, <1>4
  <2>2. Len(a[k].vals) \in Nat /\ Gap(k) \in {1, 2} /\ Len(Piece(a[k], k)) = Gap(k) + Len(a[k].vals)
    BY <2>1, PieceIs
  <2> QED BY <2>1, <2>2
<1>8. PICK place : place = [k \in 1..n |-> from[k - 1] + Gap(k)]
  OBVIOUS
<1>9. ASSUME NEW k \in 1..n
      PROVE  /\ place[k] = from[k - 1] + Gap(k)
             /\ SectionAt(toks, place[k], a[k]) /\ LineAfter(place[k], a[k]) = from[k] + 1
             /\ k # 1 => toks[from[k - 1] + 1].t = "blank"
  <2>1. PICK m \in Nat : m = from[k - 1]
    BY <1>71
  <2>2. from[k] = m + Len(s[k]) /\ LiesAt(toks, m, s[k])
    BY <1>71, <2>1
  <2>3. PICK x, p : x = a[k] /\ p = place[k] /\ p = m + Gap(k) /\ s[k] = Piece(x, k)
    BY <1>4, <1>8, <2>1
  <2>01. m \in Nat
    OBVIOUS
  <2>00. x \in IniItem /\ IniStorable(x) /\ k \in Nat
    BY <1>1, <2>3
  <2>4. LiesAt(toks, m, Piece(x, k))
    BY <2>2, <2>3
  <2>5. SectionAt(toks, p, x) /\ LineAfter(p, x) = m + Len(Piece(x, k)) + 1 /\ (k # 1 => toks[m + 1].t = "blank")
    <3>0. PieceLies(toks, m, x, k)
      BY <2>00, <2>01, <2>4, PieceLaid
    <3>1. x \in IniItem /\ IniStorable(x) /\ k \in Nat /\ m \in Nat /\ p = m + Gap(k)
      BY <1>1, <2>3
    <3> QED BY <3>0, <3>1 DEF PieceLies
  <2>6. LineAfter(p, x) = from[k] + 1
    BY <2>2, <2>3, <2>5
  <2> QED BY <2>1, <2>3, <2>5, <2>6
<1>10. place[1] = 1
  <2>1. 1 \in 1..n /\ Gap(1) = 1 /\ 1 - 1 = 0
    BY <1>1 DEF Gap
  <2> QED BY <1>8, <1>70, <2>1
<1>11. ASSUME NEW k \in 1..(n - 1)
       PROVE  /\ place[k + 1] = LineAfter(place[k], a[k]) + 1 /\ toks[LineAfter(place[k], a[k])].t = "blank"
              /\ LineAfter(place[k], a[k]) =< Len(toks)
  <2>1. k \in 1..n /\ k + 1 \in 1..n /\ k + 1 # 1 /\ k + 1 - 1 = k
    BY <1>1
  <2>2. PICK m \in Nat : m = from[k] /\ LineAfter(place[k], a[k]) = m + 1
    BY <1>9, <1>71, <2>1
  <2>3. PICK i \in 1..n : i = k + 1 /\ i # 1 /\ i - 1 = k
    BY <2>1
  <2>4. place[i] = m + Gap(i) /\ toks[m + 1].t = "blank"
    BY <1>9, <2>2, <2>3
  <2>5. Gap(i) = 2
    BY <2>3 DEF Gap
  <2>6. m + 1 =< Len(toks)
    <3>1. Len(s[i]) \in Nat /\ from[i] = m + Len(s[i]) /\ from[i] =< Len(toks) /\ Len(s[i]) # 0
      BY <1>71, <1>72, <2>2, <2>3
    <3> QED BY <1>70, <3>1
  <2>7. place[i] = (m + 1) + 1
    BY <2>4, <2>5
  <2> QED BY <2>2, <2>3, <2>4, <2>6, <2>7
<1>12. ASSUME NEW k \in 1..n PROVE SectionAt(toks, place[k], a[k]) /\ LineAfter(place[k], a[k]) =< Len(toks) + 1
  <2>1. LineAfter(place[k], a[k]) = from[k] + 1 /\ from[k] \in Nat /\ from[k] =< Len(toks)
    BY <1>9, <1>71
  <2> QED BY <1>9, <1>70, <2>1
<1>13. LineAfter(place[n], a[n]) = Len(toks) + 1
  <2>1. n \in 1..n
    BY <1>1
  <2> QED BY <1>9, <1>70, <2>1
<1>14. SectionsLie(place, toks, a)
  BY <1>1, <1>10, <1>11, <1>12, <1>13 DEF SectionsLie
<1> QED BY <1>6, <1>14

-------------------------------------------------------------------------------
(* Loads of INI files that are whole *)

(* Such a file has its sections in a row, and all of them. *)
LEMMA IniWhole ==
  ASSUME IniLoads, disk.seal = "whole"
  PROVE  /\ IsSeq(disk.holds) /\ Len(disk.holds) \in Nat \ {0} /\ disk.len = Len(disk.toks) /\ Len(disk.toks) \in Nat
         /\ IsSeq(io.base) /\ IsFaithful
         /\ \E place : /\ SectionsLie(place, disk.toks, disk.holds)
                       /\ IniStored(place, io.base, disk.holds, archive, io.part, io.i, io.pos)
BY DEF IniLoads, IniSealed, IniReadTo, IsFaithful

(* A part of the sections that were added is one of what the file holds. *)
LEMMA SomeAdded ==
  ASSUME IniLoads, disk.seal = "whole", NEW a, NEW k \in 0..Len(disk.holds), Added(a, io.base, disk.holds, k)
  PROVE  Partly(a, io.base)
BY IniWhole, AddedIsPart DEF Partly

(* A load that goes on. *)
LEMMA IniMapsOn ==
  ASSUME Calm, io.op = "ini", IniLoads, NEW a, NEW part, NEW seen, Continues(a, part, seen),
         disk.seal = "whole" => Partly(a, io.base) /\ IniReadTo(disk.toks, io.base, disk.holds, a, part, seen, io.pos + 1)
  PROVE  Maps /\ IniLoads' /\ io'.op = "ini" /\ disk' = disk /\ client' = client
<1>1. PICK job : job = [io EXCEPT !.part = part, !.pos = @ + 1, !.i = seen] /\ Goes(a, job)
  BY DEF Continues
<1>2. job.op = "ini" /\ job.base = io.base /\ job.pal = io.pal
  BY <1>1 DEF Calm, Fields
<1>3. io # Idle /\ job # Idle
  BY <1>2, IdleIsIdle
<1>4. IsFaithful => disk.seal = "whole"
  BY DEF IniLoads, IsFaithful
<1>5. Maps
  BY <1>1, <1>2, <1>3, <1>4, GoesMaps
<1>6. /\ archive' = a /\ disk' = disk /\ io'.op = "ini" /\ io'.base = io.base /\ io'.pos = io.pos + 1
      /\ io'.part = part /\ io'.i = seen
  BY IniGoes
<1>7. ASSUME disk.seal = "whole"
      PROVE  IniReadTo(disk'.toks, io'.base, disk'.holds, archive', io'.part, io'.i, io'.pos)
  BY <1>6, <1>7
<1>8. IniLoads'
  BY <1>6, <1>7 DEF IniLoads
<1>9. client' = client
  BY <1>1 DEF Goes
<1> QED BY <1>5, <1>6, <1>8, <1>9

(* One that fails does not do so of a whole file. *)
LEMMA IniMapsFail ==
  ASSUME NEW codes, Fails(codes), codes # {}, "NONE" \notin codes, disk.seal # "whole"
  PROVE  Maps /\ io'.op = "idle" /\ disk' = disk /\ client' = client
<1>1. Maps
  BY FailMaps
<1>2. io' = Idle /\ disk' = disk /\ client' = client
  BY DEF Fails, Returns
<1> QED BY <1>1, <1>2, IdleIsIdle

(* Section k + 1 is where it is said to be, and so is what is behind it. *)
SectionFits(place, toks, holds, k) ==
  /\ SectionAt(toks, place[k + 1], holds[k + 1]) /\ Len(holds[k + 1].vals) \in Nat
  /\ place[k + 1] \in Nat /\ place[k + 1] + Len(holds[k + 1].vals) =< Len(toks)
  /\ k + 1 # Len(holds) =>
       LET q == place[k + 1] + Len(holds[k + 1].vals) + 1
       IN toks[q].t = "blank" /\ q =< Len(toks) /\ place[(k + 1) + 1] = q + 1 /\ (k + 1) + 1 \in 1..Len(holds)
  /\ k + 1 = Len(holds) => place[k + 1] + Len(holds[k + 1].vals) + 1 = Len(toks) + 1

(* Where a load is in a section that is known. *)
LEMMA InSectionAt ==
  ASSUME NEW place, NEW toks, NEW holds, NEW k, SectionsLie(place, toks, holds), IsSeq(holds), Len(toks) \in Nat,
         Len(holds) \in Nat, k \in Nat, k + 1 \in 1..Len(holds)
  PROVE  SectionFits(place, toks, holds, k)
<1>1. SectionAt(toks, place[k + 1], holds[k + 1]) /\ LineAfter(place[k + 1], holds[k + 1]) =< Len(toks) + 1
  BY DEF SectionsLie
<1>0. PICK m \in Nat : m = Len(holds)
  OBVIOUS
<1>2. PICK p, x, n : p = place[k + 1] /\ x = holds[k + 1] /\ n = Len(x.vals) /\ m = Len(holds)
  BY <1>0
<1>3. p \in Nat /\ n \in Nat
  BY <1>1, <1>2 DEF SectionAt
<1>4. LineAfter(p, x) = p + n + 1
  BY <1>2 DEF LineAfter
<1>5. ASSUME k + 1 # m
      PROVE  /\ toks[p + n + 1].t = "blank" /\ p + n + 1 =< Len(toks) /\ place[(k + 1) + 1] = (p + n + 1) + 1
             /\ (k + 1) + 1 \in 1..m
  <2>1. k + 1 \in 1..(m - 1) /\ (k + 1) + 1 \in 1..m
    BY <1>2, <1>5
  <2>2. /\ place[(k + 1) + 1] = LineAfter(p, x) + 1 /\ toks[LineAfter(p, x)].t = "blank"
        /\ LineAfter(p, x) =< Len(toks)
    BY <1>2, <2>1 DEF SectionsLie
  <2> QED BY <1>1, <1>2, <1>3, <1>4, <1>5, <2>1, <2>2
<1>6. ASSUME k + 1 = m PROVE p + n + 1 = Len(toks) + 1
  <2>1. LineAfter(p, x) = Len(toks) + 1
    BY <1>2, <1>6 DEF SectionsLie
  <2> QED BY <1>1, <1>2, <1>3, <1>4, <1>6, <2>1
<1>7. p + n =< Len(toks)
  <2>1. PICK l \in Nat : l = Len(toks)
    OBVIOUS
  <2> QED BY <1>1, <1>2, <1>3, <1>4, <2>1
<1> QED BY <1>1, <1>3, <1>2, <1>5, <1>6, <1>7 DEF SectionFits

-------------------------------------------------------------------------------
(* What a load of such a file finds *)

(* A load reads the name of section k + 1, *)
ReadsHead(place, toks, base, holds, a, pos, k) ==
  /\ pos \in Nat /\ pos =< Len(toks) /\ toks[pos].t = "section" /\ toks[pos].v # ""
  /\ AtValue(place, base, holds, a, Ini(toks[pos].v, <<>>), pos + 1, k, 0)

(* its value j + 1, *)
ReadsValue(place, toks, base, holds, a, part, pos, k, j) ==
  /\ pos \in Nat /\ pos =< Len(toks) /\ toks[pos].t = "entry" /\ toks[pos].n # ""
  /\ AtValue(place, base, holds, a, ValueSet(part, [n |-> toks[pos].n, v |-> <<toks[pos].v>>]), pos + 1, k, j + 1)

(* or what is behind it. *)
ReadsBehind(place, toks, base, holds, a, part, pos, k) ==
  /\ pos \in Nat /\ k + 1 \in 0..Len(holds) /\ Added(Append(a, part), base, holds, k + 1)
  /\ \/ /\ pos =< Len(toks) /\ toks[pos].t = "blank"
        /\ AtHead(place, base, holds, Append(a, part), Null, 0, pos + 1, k + 1)
     \/ pos = Len(toks) + 1 /\ AllAdded(base, holds, Append(a, part), Null, 1)

(* At the head of a section there is its name. *)
LEMMA HeadRead ==
  ASSUME NEW place, NEW toks, NEW base, NEW holds, NEW a, NEW part, NEW i, NEW pos, NEW k,
         SectionsLie(place, toks, holds), IsSeq(holds), Len(toks) \in Nat, Len(holds) \in Nat, k \in Nat,
         AtHead(place, base, holds, a, part, i, pos, k)
  PROVE  ReadsHead(place, toks, base, holds, a, pos, k)
<1>1. k + 1 \in 1..Len(holds) /\ pos = place[k + 1] /\ Added(a, base, holds, k)
  BY DEF AtHead
<1>2. /\ SectionAt(toks, place[k + 1], holds[k + 1]) /\ Len(holds[k + 1].vals) \in Nat
      /\ place[k + 1] \in Nat /\ place[k + 1] + Len(holds[k + 1].vals) =< Len(toks)
  BY <1>1, InSectionAt DEF SectionFits
<1>3. PICK n \in Nat : n = Len(holds[k + 1].vals)
  BY <1>2
<1>4. PICK x : x = holds[k + 1] /\ SectionAt(toks, pos, x) /\ Len(x.vals) = n
  BY <1>1, <1>2, <1>3
<1>5. pos \in Nat /\ pos =< Len(toks)
  BY <1>1, <1>2, <1>3
<1>6. toks[pos].t = "section" /\ toks[pos].v = x.name /\ x.name # "" /\ x \in IniItem
  BY <1>4 DEF SectionAt
<1>7. PICK part1 : part1 = Ini(x.name, <<>>)
  OBVIOUS
<1>8. part1 # Null
  <2>0. x.name \in STRING
    BY <1>6 DEF IniItem
  <2>1. <<>> \in Seq(IniValue) /\ x.name \in STRING
    BY <2>0
  <2>2. part1 \in IniItem
    BY <1>7, <2>1 DEF Ini, IniItem
  <2> QED BY <2>2, IniNotNull
<1>9. SubSeq(x.vals, 1, 0) = <<>>
  <2>1. x.vals \in Seq(IniValue)
    BY <1>6 DEF IniItem
  <2> QED BY <2>1
<1>10. AtValue(place, base, holds, a, part1, pos + 1, k, 0)
  <2>1. 0 \in 0..n /\ pos + 1 = pos + 0 + 1
    BY <1>5
  <2> QED BY <1>1, <1>3, <1>4, <1>7, <1>8, <1>9, <2>1 DEF AtValue
<1> QED BY <1>5, <1>6, <1>7, <1>10 DEF ReadsHead

(* Behind some of its values there is the next, *)
LEMMA ValueRead ==
  ASSUME NEW place, NEW toks, NEW base, NEW holds, NEW a, NEW part, NEW pos, NEW k, NEW j,
         SectionsLie(place, toks, holds), IsSeq(holds), Len(toks) \in Nat, Len(holds) \in Nat, k \in Nat, j \in Nat,
         AtValue(place, base, holds, a, part, pos, k, j), j # Len(holds[k + 1].vals)
  PROVE  ReadsValue(place, toks, base, holds, a, part, pos, k, j)
<1>1. k + 1 \in 1..Len(holds) /\ pos = place[k + 1] + j + 1 /\ Added(a, base, holds, k)
  BY DEF AtValue
<1>2. /\ SectionAt(toks, place[k + 1], holds[k + 1]) /\ Len(holds[k + 1].vals) \in Nat
      /\ place[k + 1] \in Nat /\ place[k + 1] + Len(holds[k + 1].vals) =< Len(toks)
  BY <1>1, InSectionAt DEF SectionFits
<1>3. PICK n \in Nat : n = Len(holds[k + 1].vals)
  BY <1>2
<1>30. PICK p \in Nat : p = place[k + 1]
  BY <1>2
<1>4. PICK x : x = holds[k + 1] /\ SectionAt(toks, p, x) /\ Len(x.vals) = n
  BY <1>2, <1>3, <1>30
<1>5. j \in 0..n /\ part = Ini(x.name, SubSeq(x.vals, 1, j))
  BY <1>3, <1>4 DEF AtValue
<1>6. j + 1 \in 1..n /\ pos = p + (j + 1) /\ pos \in Nat /\ pos =< Len(toks) /\ pos + 1 = p + (j + 1) + 1
  <2>1. pos = p + j + 1 /\ p + n =< Len(toks) /\ j # n
    BY <1>1, <1>2, <1>3, <1>30
  <2>2. PICK l \in Nat : l = Len(toks)
    OBVIOUS
  <2> QED BY <1>5, <2>1, <2>2
<1>7. PICK e : e = [n |-> toks[pos].n, v |-> <<toks[pos].v>>]
  OBVIOUS
<1>8. /\ toks[pos].t = "entry" /\ toks[pos].n # "" /\ x.vals[j + 1] = e
      /\ x \in IniItem /\ x = Ini(x.name, x.vals) /\ IsSeq(x.vals) /\ NamesDiffer(x)
  BY <1>4, <1>6, <1>7 DEF SectionAt
<1>9. j + 1 \in 1..Len(x.vals) /\ e = x.vals[j + 1]
  BY <1>4, <1>6, <1>8
<1>10. ValueSet(Ini(x.name, SubSeq(x.vals, 1, j)), e) = Ini(x.name, SubSeq(x.vals, 1, j + 1))
  BY <1>8, <1>9, NextValue
<1>11. PICK part1 : part1 = ValueSet(part, e) /\ part1 = Ini(x.name, SubSeq(x.vals, 1, j + 1))
  BY <1>5, <1>10
<1>12. part1 # Null
  <2>1. x.vals \in Seq(IniValue) /\ x.name \in STRING
    BY <1>8 DEF IniItem
  <2>2. SubSeq(x.vals, 1, j + 1) \in Seq(IniValue)
    BY <1>9, <2>1
  <2>3. part1 \in IniItem
    BY <1>11, <2>1, <2>2 DEF Ini, IniItem
  <2> QED BY <2>3, IniNotNull
<1>13. AtValue(place, base, holds, a, part1, pos + 1, k, j + 1)
  <2>1. j + 1 \in 0..n
    BY <1>6
  <2> QED BY <1>1, <1>3, <1>30, <1>4, <1>6, <1>11, <1>12, <2>1 DEF AtValue
<1> QED BY <1>6, <1>7, <1>8, <1>11, <1>13 DEF ReadsValue

(* and behind all of them an empty line, or the end of the file. *)
LEMMA SectionRead ==
  ASSUME NEW place, NEW toks, NEW base, NEW holds, NEW a, NEW part, NEW pos, NEW k, NEW j,
         SectionsLie(place, toks, holds), IsSeq(holds), IsSeq(base), Len(toks) \in Nat, Len(holds) \in Nat, k \in Nat, j \in Nat,
         AtValue(place, base, holds, a, part, pos, k, j), j = Len(holds[k + 1].vals)
  PROVE  ReadsBehind(place, toks, base, holds, a, part, pos, k)
<1>0. PICK m \in Nat : m = Len(holds)
  OBVIOUS
<1>1. k + 1 \in 1..m /\ pos = place[k + 1] + j + 1 /\ Added(a, base, holds, k)
  BY <1>0 DEF AtValue
<1>2. /\ SectionAt(toks, place[k + 1], holds[k + 1]) /\ Len(holds[k + 1].vals) \in Nat
      /\ place[k + 1] \in Nat
      /\ k + 1 # Len(holds) =>
           LET q == place[k + 1] + Len(holds[k + 1].vals) + 1
           IN toks[q].t = "blank" /\ q =< Len(toks) /\ place[(k + 1) + 1] = q + 1 /\ (k + 1) + 1 \in 1..Len(holds)
      /\ k + 1 = Len(holds) => place[k + 1] + Len(holds[k + 1].vals) + 1 = Len(toks) + 1
  <2>1. k + 1 \in 1..Len(holds)
    BY <1>0, <1>1
  <2>2. SectionFits(place, toks, holds, k)
    BY <2>1, InSectionAt
  <2> QED BY <2>2 DEF SectionFits
<1>3. PICK p \in Nat : p = place[k + 1]
  BY <1>2
<1>4. PICK x : x = holds[k + 1] /\ SectionAt(toks, p, x) /\ Len(x.vals) = j
  BY <1>2, <1>3
<1>5. part = Ini(x.name, SubSeq(x.vals, 1, j)) /\ pos = p + j + 1 /\ pos \in Nat
  BY <1>1, <1>3, <1>4 DEF AtValue
<1>6. x \in IniItem /\ x = Ini(x.name, x.vals)
  BY <1>4 DEF SectionAt
<1>7. SubSeq(x.vals, 1, j) = x.vals
  <2>1. x.vals \in Seq(IniValue)
    BY <1>6 DEF IniItem
  <2> QED BY <1>4, <2>1
<1>8. part = x
  BY <1>5, <1>6, <1>7
<1>9. PICK b : b = Append(a, part) /\ Added(b, base, holds, k + 1)
  BY <1>0, <1>1, <1>4, <1>8, AddedMore
<1>10. CASE k + 1 # m
  <2>1. toks[pos].t = "blank" /\ pos =< Len(toks) /\ place[(k + 1) + 1] = pos + 1 /\ (k + 1) + 1 \in 1..m
    BY <1>0, <1>2, <1>3, <1>4, <1>5, <1>10
  <2>2. AtHead(place, base, holds, b, Null, 0, pos + 1, k + 1)
    BY <1>0, <1>9, <2>1 DEF AtHead
  <2> QED BY <1>0, <1>1, <1>5, <1>9, <2>1, <2>2 DEF ReadsBehind
<1>11. CASE k + 1 = m
  <2>1. pos = Len(toks) + 1
    BY <1>0, <1>2, <1>3, <1>4, <1>5, <1>11
  <2>2. AllAdded(base, holds, b, Null, 1)
    BY <1>0, <1>9, <1>11 DEF AllAdded
  <2> QED BY <1>0, <1>1, <1>5, <1>9, <2>1, <2>2 DEF ReadsBehind
<1> QED BY <1>10, <1>11

-------------------------------------------------------------------------------
(* The steps of such a load *)

(* A step of a load of sections does what is promised. *)
IniGoesOn ==
  Maps /\ (io'.op = "ini" => IniLoads') /\ io'.op \in {"idle", "ini"} /\ disk' = disk /\ client' = client

(* Such a load is somewhere in a whole file. *)
LEMMA IniIsAt ==
  ASSUME IniLoads, disk.seal = "whole"
  PROVE  \E place : /\ SectionsLie(place, disk.toks, disk.holds)
                    /\ \/ io.part = Null /\ io.i = 0 /\ \E k \in Nat :
                            AtHead(place, io.base, disk.holds, archive, io.part, io.i, io.pos, k)
                       \/ io.part # Null /\ \E k \in Nat : \E j \in Nat :
                            AtValue(place, io.base, disk.holds, archive, io.part, io.pos, k, j)
                       \/ io.part = Null /\ io.i = 1 /\ AllAdded(io.base, disk.holds, archive, io.part, io.i)
<1>1. PICK place : /\ SectionsLie(place, disk.toks, disk.holds)
                   /\ IniStored(place, io.base, disk.holds, archive, io.part, io.i, io.pos)
  BY IniWhole
<1>2. ASSUME NEW k \in Nat, AtHead(place, io.base, disk.holds, archive, io.part, io.i, io.pos, k)
      PROVE  io.part = Null /\ io.i = 0
  BY <1>2 DEF AtHead
<1>3. ASSUME NEW k \in Nat, NEW j \in Nat, AtValue(place, io.base, disk.holds, archive, io.part, io.pos, k, j)
      PROVE  io.part # Null
  BY <1>3 DEF AtValue
<1>4. ASSUME AllAdded(io.base, disk.holds, archive, io.part, io.i)
      PROVE  io.part = Null /\ io.i = 1
  BY <1>4 DEF AllAdded
<1> QED BY <1>1, <1>2, <1>3, <1>4 DEF IniStored

(* LoadIniSection *)
LEMMA IniSectionMaps ==
  ASSUME Calm, io.op = "ini", IniLoads, LoadIniSection
  PROVE  IniGoesOn
<1>1. io.part = Null /\ io.i = 0
  BY DEF LoadIniSection
<1>2. CASE disk.seal = "whole"
  <2>1. PICK place : /\ SectionsLie(place, disk.toks, disk.holds)
                     /\ \E k \in Nat : AtHead(place, io.base, disk.holds, archive, io.part, io.i, io.pos, k)
    BY <1>1, <1>2, IniIsAt
  <2>2. PICK k \in Nat : AtHead(place, io.base, disk.holds, archive, io.part, io.i, io.pos, k)
    BY <2>1
  <2>3. IsSeq(disk.holds) /\ Len(disk.holds) \in Nat /\ Len(disk.toks) \in Nat /\ disk.len = Len(disk.toks)
    BY <1>2, IniWhole
  <2>4. PICK part : part = Ini(disk.toks[io.pos].v, <<>>)
    OBVIOUS
  <2>50. ReadsHead(place, disk.toks, io.base, disk.holds, archive, io.pos, k)
    BY <2>1, <2>2, <2>3, HeadRead
  <2>5. /\ io.pos \in Nat /\ io.pos =< Len(disk.toks) /\ disk.toks[io.pos].t = "section" /\ disk.toks[io.pos].v # ""
        /\ AtValue(place, io.base, disk.holds, archive, part, io.pos + 1, k, 0)
    BY <2>4, <2>50 DEF ReadsHead
  <2>60. ~AtEnd(io.pos) /\ Is(io.pos, "section")
    <3>1. PICK l \in Nat, p \in Nat : l = disk.len /\ p = io.pos /\ p =< l
      BY <2>3, <2>5
    <3>2. ~(p > l)
      BY <3>1
    <3> QED BY <2>5, <3>1, <3>2 DEF AtEnd, Is
  <2>6. Continues(archive, part, 0)
    BY <2>4, <2>5, <2>60 DEF LoadIniSection
  <2>7. IniStored(place, io.base, disk.holds, archive, part, 0, io.pos + 1)
    BY <2>5 DEF IniStored
  <2>8. IniReadTo(disk.toks, io.base, disk.holds, archive, part, 0, io.pos + 1)
    BY <2>1, <2>7 DEF IniReadTo
  <2>9. Partly(archive, io.base)
    BY DEF Partly
  <2> QED BY <2>6, <2>8, <2>9, IniMapsOn DEF IniGoesOn
<1>3. CASE disk.seal # "whole"
  <2>1. CASE \E codes : Fails(codes) /\ codes # {} /\ "NONE" \notin codes
    BY <1>3, <2>1, IniMapsFail DEF IniGoesOn
  <2>2. CASE \E a, part, seen : Continues(a, part, seen)
    BY <1>3, <2>2, IniMapsOn DEF IniGoesOn
  <2>3. ASSUME Fails({"WRONG_FORMAT"}) \/ Fails({"WRONG_HEADER"})
        PROVE  \E codes : Fails(codes) /\ codes # {} /\ "NONE" \notin codes
    <3>1. CASE Fails({"WRONG_FORMAT"})
      <4>1. {"WRONG_FORMAT"} # {} /\ "NONE" \notin {"WRONG_FORMAT"}
        OBVIOUS
      <4> QED BY <3>1, <4>1
    <3>2. CASE Fails({"WRONG_HEADER"})
      <4>1. {"WRONG_HEADER"} # {} /\ "NONE" \notin {"WRONG_HEADER"}
        OBVIOUS
      <4> QED BY <3>2, <4>1
    <3> QED BY <2>3, <3>1, <3>2
  <2> QED BY <2>1, <2>2, <2>3 DEF LoadIniSection
<1> QED BY <1>2, <1>3

(* LoadIniValue *)
LEMMA IniValueMaps ==
  ASSUME Calm, io.op = "ini", IniLoads, LoadIniValue
  PROVE  IniGoesOn
<1>1. io.part # Null /\ Is(io.pos, "entry")
  BY DEF LoadIniValue, InSection
<1>2. PICK e : /\ e = [n |-> disk.toks[io.pos].n, v |-> <<disk.toks[io.pos].v>>]
               /\ Continues(archive, IF e.n = "" THEN io.part ELSE ValueSet(io.part, e), 0)
  BY DEF LoadIniValue
<1>3. CASE disk.seal = "whole"
  <2>1. PICK place : /\ SectionsLie(place, disk.toks, disk.holds)
                     /\ \E k \in Nat : \E j \in Nat : AtValue(place, io.base, disk.holds, archive, io.part, io.pos, k, j)
    BY <1>1, <1>3, IniIsAt
  <2>2. PICK k \in Nat : \E j \in Nat : AtValue(place, io.base, disk.holds, archive, io.part, io.pos, k, j)
    BY <2>1
  <2>3. PICK j \in Nat : AtValue(place, io.base, disk.holds, archive, io.part, io.pos, k, j)
    BY <2>2
  <2>4. /\ IsSeq(disk.holds) /\ Len(disk.holds) \in Nat /\ Len(disk.toks) \in Nat /\ disk.len = Len(disk.toks)
        /\ IsSeq(io.base)
    BY <1>3, IniWhole
  <2>5. j # Len(disk.holds[k + 1].vals)
    <3> SUFFICES ASSUME j = Len(disk.holds[k + 1].vals) PROVE FALSE
      OBVIOUS
    <3>0. ReadsBehind(place, disk.toks, io.base, disk.holds, archive, io.part, io.pos, k)
      BY <2>1, <2>3, <2>4, SectionRead
    <3>1. (io.pos =< Len(disk.toks) /\ disk.toks[io.pos].t = "blank") \/ io.pos = Len(disk.toks) + 1
      BY <3>0 DEF ReadsBehind
    <3> QED BY <1>1, <2>4, <3>1 DEF Is
  <2>6. PICK part : part = ValueSet(io.part, e)
    OBVIOUS
  <2>7. disk.toks[io.pos].n # "" /\ AtValue(place, io.base, disk.holds, archive, part, io.pos + 1, k, j + 1)
    <3>1. ReadsValue(place, disk.toks, io.base, disk.holds, archive, io.part, io.pos, k, j)
      BY <2>1, <2>3, <2>4, <2>5, ValueRead
    <3> QED BY <1>2, <2>6, <3>1 DEF ReadsValue
  <2>8. e.n # ""
    BY <1>2, <2>7
  <2>9. Continues(archive, part, 0)
    BY <1>2, <2>6, <2>8
  <2>10. IniStored(place, io.base, disk.holds, archive, part, 0, io.pos + 1)
    <3>1. j + 1 \in Nat
      OBVIOUS
    <3> QED BY <2>7, <3>1 DEF IniStored
  <2>11. IniReadTo(disk.toks, io.base, disk.holds, archive, part, 0, io.pos + 1)
    BY <2>1, <2>10 DEF IniReadTo
  <2>12. Partly(archive, io.base)
    BY DEF Partly
  <2> QED BY <2>9, <2>11, <2>12, IniMapsOn DEF IniGoesOn
<1>4. CASE disk.seal # "whole"
  BY <1>2, <1>4, IniMapsOn DEF IniGoesOn
<1> QED BY <1>3, <1>4

(* LoadIniSectionEnd *)
LEMMA IniSectionEndMaps ==
  ASSUME Calm, io.op = "ini", IniLoads, LoadIniSectionEnd
  PROVE  IniGoesOn
<1>1. io.part # Null /\ (AtEnd(io.pos) \/ Is(io.pos, "blank"))
  BY DEF LoadIniSectionEnd, InSection
<1>2. PICK a, seen : /\ a = Append(archive, io.part) /\ seen = IF AtEnd(io.pos) THEN 1 ELSE 0
                     /\ Continues(a, Null, seen)
  BY DEF LoadIniSectionEnd
<1>3. CASE disk.seal = "whole"
  <2>1. PICK place : /\ SectionsLie(place, disk.toks, disk.holds)
                     /\ \E k \in Nat : \E j \in Nat : AtValue(place, io.base, disk.holds, archive, io.part, io.pos, k, j)
    BY <1>1, <1>3, IniIsAt
  <2>2. PICK k \in Nat : \E j \in Nat : AtValue(place, io.base, disk.holds, archive, io.part, io.pos, k, j)
    BY <2>1
  <2>3. PICK j \in Nat : AtValue(place, io.base, disk.holds, archive, io.part, io.pos, k, j)
    BY <2>2
  <2>4. /\ IsSeq(disk.holds) /\ Len(disk.holds) \in Nat /\ Len(disk.toks) \in Nat /\ disk.len = Len(disk.toks)
        /\ IsSeq(io.base)
    BY <1>3, IniWhole
  <2>5. j = Len(disk.holds[k + 1].vals)
    <3> SUFFICES ASSUME j # Len(disk.holds[k + 1].vals) PROVE FALSE
      OBVIOUS
    <3>0. ReadsValue(place, disk.toks, io.base, disk.holds, archive, io.part, io.pos, k, j)
      BY <2>1, <2>3, <2>4, ValueRead
    <3>1. io.pos \in Nat /\ io.pos =< Len(disk.toks) /\ disk.toks[io.pos].t = "entry"
      BY <3>0 DEF ReadsValue
    <3> QED BY <1>1, <2>4, <3>1 DEF Is, AtEnd
  <2>6. /\ io.pos \in Nat /\ k + 1 \in 0..Len(disk.holds) /\ Added(a, io.base, disk.holds, k + 1)
        /\ \/ /\ io.pos =< Len(disk.toks) /\ disk.toks[io.pos].t = "blank"
              /\ AtHead(place, io.base, disk.holds, a, Null, 0, io.pos + 1, k + 1)
           \/ io.pos = Len(disk.toks) + 1 /\ AllAdded(io.base, disk.holds, a, Null, 1)
    <3>1. ReadsBehind(place, disk.toks, io.base, disk.holds, archive, io.part, io.pos, k)
      BY <2>1, <2>3, <2>4, <2>5, SectionRead
    <3> QED BY <1>2, <3>1 DEF ReadsBehind
  <2>7. IniStored(place, io.base, disk.holds, a, Null, seen, io.pos + 1)
    <3>1. CASE /\ io.pos =< Len(disk.toks)
               /\ AtHead(place, io.base, disk.holds, a, Null, 0, io.pos + 1, k + 1)
      <4>1. seen = 0 /\ k + 1 \in Nat
        BY <1>2, <2>4, <2>6, <3>1 DEF AtEnd
      <4> QED BY <3>1, <4>1 DEF IniStored
    <3>2. CASE io.pos = Len(disk.toks) + 1 /\ AllAdded(io.base, disk.holds, a, Null, 1)
      <4>1. seen = 1
        BY <1>2, <2>4, <2>6, <3>2 DEF AtEnd
      <4> QED BY <3>2, <4>1 DEF IniStored
    <3> QED BY <2>6, <3>1, <3>2
  <2>8. IniReadTo(disk.toks, io.base, disk.holds, a, Null, seen, io.pos + 1)
    BY <2>1, <2>7 DEF IniReadTo
  <2>9. Partly(a, io.base)
    BY <1>3, <2>6, SomeAdded
  <2> QED BY <1>2, <2>8, <2>9, IniMapsOn DEF IniGoesOn
<1>4. CASE disk.seal # "whole"
  BY <1>2, <1>4, IniMapsOn DEF IniGoesOn
<1> QED BY <1>3, <1>4

(* LoadIniWrong *)
LEMMA IniWrongMaps ==
  ASSUME Calm, io.op = "ini", IniLoads, LoadIniWrong
  PROVE  IniGoesOn
<1>1. io.part # Null /\ (Is(io.pos, "words") \/ Is(io.pos, "section")) /\ Fails({"WRONG_FORMAT"})
  BY DEF LoadIniWrong, InSection
<1>2. disk.seal # "whole"
  <2> SUFFICES ASSUME disk.seal = "whole" PROVE FALSE
    OBVIOUS
  <2>1. PICK place : /\ SectionsLie(place, disk.toks, disk.holds)
                     /\ \E k \in Nat : \E j \in Nat : AtValue(place, io.base, disk.holds, archive, io.part, io.pos, k, j)
    BY <1>1, IniIsAt
  <2>2. PICK k \in Nat : \E j \in Nat : AtValue(place, io.base, disk.holds, archive, io.part, io.pos, k, j)
    BY <2>1
  <2>3. PICK j \in Nat : AtValue(place, io.base, disk.holds, archive, io.part, io.pos, k, j)
    BY <2>2
  <2>4. /\ IsSeq(disk.holds) /\ Len(disk.holds) \in Nat /\ Len(disk.toks) \in Nat /\ disk.len = Len(disk.toks)
        /\ IsSeq(io.base)
    BY IniWhole
  <2>5. CASE j # Len(disk.holds[k + 1].vals)
    <3>0. ReadsValue(place, disk.toks, io.base, disk.holds, archive, io.part, io.pos, k, j)
      BY <2>1, <2>3, <2>4, <2>5, ValueRead
    <3>1. disk.toks[io.pos].t = "entry"
      BY <3>0 DEF ReadsValue
    <3> QED BY <1>1, <3>1 DEF Is
  <2>6. CASE j = Len(disk.holds[k + 1].vals)
    <3>0. ReadsBehind(place, disk.toks, io.base, disk.holds, archive, io.part, io.pos, k)
      BY <2>1, <2>3, <2>4, <2>6, SectionRead
    <3>1. (io.pos =< Len(disk.toks) /\ disk.toks[io.pos].t = "blank") \/ io.pos = Len(disk.toks) + 1
      BY <3>0 DEF ReadsBehind
    <3> QED BY <1>1, <2>4, <3>1 DEF Is
  <2> QED BY <2>5, <2>6
<1>3. {"WRONG_FORMAT"} # {} /\ "NONE" \notin {"WRONG_FORMAT"}
  OBVIOUS
<1> QED BY <1>1, <1>2, <1>3, IniMapsFail DEF IniGoesOn

(* LoadIniEnd *)
LEMMA IniEndMaps ==
  ASSUME Calm, io.op = "ini", IniLoads, LoadIniEnd
  PROVE  IniGoesOn
<1>1. io.part = Null /\ io.i = 1 /\ Returns(archive, "NONE")
  BY DEF LoadIniEnd
<1>2. io # Idle /\ disk.seal \in {"whole", "loose"}
  BY IdleIsIdle DEF IniLoads
<1>3. ASSUME disk.seal = "whole" PROVE archive = io.base \o disk.holds
  <2>1. AllAdded(io.base, disk.holds, archive, io.part, io.i)
    BY <1>1, <1>3, IniIsAt
  <2>2. PICK n \in Nat : n = Len(disk.holds) /\ Added(archive, io.base, disk.holds, n)
    BY <1>3, <2>1, IniWhole DEF AllAdded
  <2>3. IsSeq(io.base) /\ IsSeq(disk.holds) /\ n \in 0..Len(disk.holds)
    BY <1>3, <2>2, IniWhole
  <2>4. archive = Both(io.base, disk.holds)
    BY <2>2, <2>3, AddedIsPart
  <2> QED BY <2>4 DEF Both
<1>4. Maps
  BY <1>1, <1>2, <1>3, ReturnMaps
<1>5. io'.op = "idle" /\ disk' = disk /\ client' = client
  BY <1>1, IdleIsIdle DEF Returns
<1> QED BY <1>4, <1>5 DEF IniGoesOn

-------------------------------------------------------------------------------
(* Clients of INI files *)

(* The file of such a client *)
SectionsSealed ==
  /\ disk.seal \in Store!Seals /\ disk.ilen = 0 /\ disk.fmt \in {"none", "ini"}
  /\ disk.fmt = "none" => disk.len = 0 /\ disk.seal = "loose"
  /\ disk.fmt = "ini" => IniSealed(disk.toks, disk.len, disk.holds, disk.seal)

(* and what he may be loading from it. *)
SectionsLoad == io.op \in {"idle", "ini"} /\ (io.op = "ini" => IniLoads)

SectionsStored == client = "ini" /\ SectionsSealed /\ SectionsLoad

(* A file that could not be opened was not whole. *)
LEMMA SectionsEmpty == ASSUME SectionsSealed, disk.len = 0 PROVE disk.seal # "whole"
<1>1. CASE disk.fmt = "ini"
  <2> SUFFICES ASSUME disk.seal = "whole" PROVE FALSE
    OBVIOUS
  <2>1. /\ Len(disk.toks) = 0 /\ IsSeq(disk.holds) /\ Len(disk.holds) \in Nat \ {0}
        /\ \E place : SectionsLie(place, disk.toks, disk.holds)
    BY <1>1 DEF SectionsSealed, IniSealed
  <2>2. PICK place : SectionsLie(place, disk.toks, disk.holds)
    BY <2>1
  <2>3. 0 + 1 \in 1..Len(disk.holds) /\ 0 \in Nat /\ Len(disk.toks) \in Nat
    BY <2>1
  <2>4. SectionFits(place, disk.toks, disk.holds, 0)
    BY <2>1, <2>2, <2>3, InSectionAt
  <2>5. place[1] = 1
    BY <2>2 DEF SectionsLie
  <2>6. Len(disk.holds[1].vals) \in Nat /\ place[1] + Len(disk.holds[1].vals) =< 0
    BY <2>1, <2>4 DEF SectionFits
  <2> QED BY <2>5, <2>6
<1> QED BY <1>1 DEF SectionsSealed

(* A call that loads nothing, and leaves the file. *)
LEMMA SectionsStay ==
  ASSUME SectionsStored, client' = client, disk' = disk, io'.op = "idle"
  PROVE  SectionsStored'
<1>1. SectionsSealed'
  BY DEF SectionsStored, SectionsSealed
<1>2. SectionsLoad'
  BY DEF SectionsLoad
<1> QED BY <1>1, <1>2 DEF SectionsStored

(* A client writes the file, *)
LEMMA SectionsWrite ==
  ASSUME Calm, SectionsStored, client \in DOMAIN ItemsOf, Known, FilesWrite
  PROVE  Maps /\ SectionsStored'
<1>1. WriteINI /\ client = "ini"
  BY DEF FilesWrite, SectionsStored
<1>2. FileOK'
  BY <1>1, IniWritten
<1>3. PICK hole : hole = SelectInSeq(archive, LAMBDA x : x = Null)
  OBVIOUS
<1>4. PICK given : given = IF hole = 0 THEN archive ELSE SubSeq(archive, 1, hole - 1)
  OBVIOUS
<1>5. PICK seal : seal = IF hole = 0 /\ archive # <<>> /\ \A i \in DOMAIN archive : IniStorable(archive[i])
                         THEN "whole" ELSE "loose"
  OBVIOUS
<1>6. PICK toks, code : /\ toks = IniTokens(given) /\ code = IF hole = 0 THEN "NONE" ELSE "WRONG_ARCHIVE"
                        /\ Writes(File("ini", toks, <<>>, archive, seal), code)
  BY <1>1, <1>3, <1>4, <1>5 DEF WriteINI
<1>7. PICK f : f = File("ini", toks, <<>>, archive, seal) /\ Writes(f, code)
  BY <1>6
<1>8. /\ f.fmt = "ini" /\ f.toks = toks /\ f.holds = archive /\ f.seal = seal
      /\ f.len = Len(toks) /\ f.ilen = Len(<<>>)
  BY <1>7, FileIs
<1>9. Len(<<>>) = 0
  BY NoSeq
<1>10. disk' = f /\ io' = io /\ io = Idle /\ client' = client
  BY <1>7 DEF Writes
<1>11. seal \in {"whole", "loose"} /\ seal \in Store!Seals /\ (code # "NONE" => seal # "whole")
  BY <1>5, <1>6 DEF Store!Seals
<1>12. Maps
  BY <1>7, <1>8, <1>11, WriteMaps
<1>13. Len(toks) \in Nat
  BY <1>2, <1>8, <1>10 DEF FileOK
<1>14. ASSUME seal = "whole"
       PROVE  IsSeq(archive) /\ Len(archive) \in Nat \ {0} /\ \E place : SectionsLie(place, toks, archive)
  <2>1. hole = 0 /\ archive # <<>> /\ (\A i \in DOMAIN archive : IniStorable(archive[i])) /\ given = archive
    BY <1>4, <1>5, <1>14
  <2>2. PICK n \in Nat : n = Len(archive) /\ DOMAIN archive = 1..n /\ \A i \in 1..n : archive[i] = Null \/ archive[i] \in IniItem
    <3>1. ItemsOf[client] \subseteq IniItem
      BY <1>1, FilesAssumption
    <3> QED BY <3>1 DEF Calm, IsSeq, Known, ToSet
  <2>3. \A i \in 1..n : archive[i] # Null
    BY <1>3, <2>1, <2>2, FirstHole DEF Calm
  <2>4. archive \in Seq(IniItem)
    <3>1. archive = [i \in 1..n |-> archive[i]]
      BY <2>2 DEF Calm, IsSeq
    <3>2. archive \in [1..n -> IniItem]
      BY <2>2, <2>3, <3>1
    <3> QED BY <2>2, <3>2
  <2>5. \A i \in 1..Len(archive) : IniStorable(archive[i])
    BY <2>1, <2>2
  <2>6. PICK place : SectionsLie(place, IniTokens(archive), archive)
    BY <2>1, <2>4, <2>5, IniLaid
  <2>7. SectionsLie(place, toks, archive)
    BY <1>6, <2>1, <2>6
  <2>8. Len(archive) \in Nat \ {0}
    BY <2>1, <2>4
  <2> QED BY <2>7, <2>8 DEF Calm
<1>15. IniSealed(toks, Len(toks), archive, seal)
  BY <1>11, <1>13, <1>14 DEF IniSealed
<1>16. SectionsSealed'
  BY <1>8, <1>9, <1>10, <1>11, <1>15 DEF SectionsSealed
<1>17. SectionsLoad'
  BY <1>10, IdleIsIdle DEF SectionsLoad
<1> QED BY <1>1, <1>10, <1>12, <1>16, <1>17 DEF SectionsStored

(* begins to load it, *)
LEMMA SectionsBegin ==
  ASSUME Calm, SectionsStored, FilesLoad
  PROVE  Maps /\ SectionsStored'
<1>1. SectionsSealed /\ client = "ini" /\ disk.fmt \in {"none", "ini"} /\ disk.seal \in Store!Seals
  BY DEF SectionsStored, SectionsSealed
<1>2. OpenFails \/ LoadINI
  BY <1>1 DEF FilesLoad, LoadListRefused, LoadList, LoadDatAlone, LoadDatIdx, LoadIndexOpenFails, LoadText,
              LoadACT, LoadBBM, LoadPaletteAnim, LoadLBM, LoadBMP, LoadBobRefused, LoadBOB, IsTextFile
<1>3. CASE OpenFails
  <2>1. disk.len = 0 /\ Fails({"FILE_NOT_ACCESSIBLE"})
    BY <1>3 DEF OpenFails
  <2>2. disk.seal # "whole"
    BY <1>1, <2>1, SectionsEmpty
  <2>3. {"FILE_NOT_ACCESSIBLE"} # {} /\ "NONE" \notin {"FILE_NOT_ACCESSIBLE"}
    OBVIOUS
  <2>4. Maps /\ io'.op = "idle" /\ disk' = disk /\ client' = client
    BY <2>1, <2>2, <2>3, IniMapsFail
  <2> QED BY <2>4, SectionsStay
<1>4. CASE LoadINI
  <2>1. disk.fmt = "ini" /\ disk.len > 0
    BY <1>4 DEF LoadINI, Opens
  <2>2. PICK job : job = Job("ini", 1, 0, FALSE, archive) /\ Begins(archive, job)
    BY <1>4 DEF LoadINI
  <2>3. job.op = "ini" /\ job.base = archive /\ job.pos = 1 /\ job.part = Null /\ job.i = 0
    BY <2>2 DEF Job
  <2>4. Maps
    BY <2>2, <2>3, IdleIsIdle, BeginMaps DEF Partly
  <2>5. io' = job /\ disk' = disk /\ client' = client /\ archive' = archive
    BY <2>2 DEF Begins
  <2>6. IniSealed(disk.toks, disk.len, disk.holds, disk.seal)
    BY <1>1, <2>1 DEF SectionsSealed
  <2>7. disk.seal \in {"whole", "loose"}
    <3>1. disk.seal \notin {"torn", "bad"}
      BY <2>1, <2>6 DEF IniSealed
    <3> QED BY <1>1, <3>1 DEF Store!Seals
  <2>8. ASSUME disk.seal = "whole" PROVE IniReadTo(disk.toks, archive, disk.holds, archive, Null, 0, 1)
    <3>1. PICK place : /\ SectionsLie(place, disk.toks, disk.holds) /\ IsSeq(disk.holds)
                       /\ Len(disk.holds) \in Nat \ {0}
      BY <2>6, <2>8 DEF IniSealed
    <3>2. SubSeq(disk.holds, 1, 0) = <<>>
      BY <3>1 DEF IsSeq
    <3>3. archive \o <<>> = archive
      BY DEF Calm, IsSeq
    <3>4. Added(archive, archive, disk.holds, 0)
      BY <3>2, <3>3 DEF Added
    <3>5. place[1] = 1
      BY <3>1 DEF SectionsLie
    <3>6. AtHead(place, archive, disk.holds, archive, Null, 0, 1, 0)
      <4>1. 0 + 1 \in 1..Len(disk.holds) /\ place[0 + 1] = 1
        BY <3>1, <3>5
      <4> QED BY <3>4, <4>1 DEF AtHead
    <3>7. IniStored(place, archive, disk.holds, archive, Null, 0, 1)
      <4>1. 0 \in Nat
        OBVIOUS
      <4> QED BY <3>6, <4>1 DEF IniStored
    <3> QED BY <3>1, <3>7 DEF IniReadTo
  <2>9. IniLoads'
    BY <2>3, <2>5, <2>6, <2>7, <2>8 DEF IniLoads, Calm
  <2>10. SectionsSealed'
    BY <1>1, <2>5 DEF SectionsSealed
  <2>11. SectionsLoad'
    BY <2>3, <2>5, <2>9 DEF SectionsLoad
  <2> QED BY <1>1, <2>4, <2>5, <2>10, <2>11 DEF SectionsStored
<1> QED BY <1>2, <1>3, <1>4

(* goes on with a load, *)
LEMMA SectionsGoOn ==
  ASSUME Calm, SectionsStored, LoadStep
  PROVE  Maps /\ SectionsStored'
<1>1. SectionsSealed /\ io.op \in {"idle", "ini"} /\ client = "ini"
  BY DEF SectionsStored, SectionsLoad
<1>2. IniStep /\ io.op = "ini"
  BY <1>1, StepsAre
<1>3. IniLoads
  BY <1>2 DEF SectionsStored, SectionsLoad
<1>4. IniGoesOn
  BY <1>2, <1>3, IniSectionMaps, IniValueMaps, IniWrongMaps, IniSectionEndMaps, IniEndMaps DEF IniStep
<1>5. SectionsSealed'
  BY <1>1, <1>4 DEF IniGoesOn, SectionsSealed
<1>6. SectionsLoad'
  BY <1>4 DEF IniGoesOn, SectionsLoad
<1> QED BY <1>1, <1>4, <1>5, <1>6 DEF IniGoesOn, SectionsStored

(* and loses its end. *)
LEMMA SectionsTorn ==
  ASSUME FileOK, SectionsStored, TearFile \/ TearIndex
  PROVE  Maps /\ SectionsStored'
<1>1. SectionsSealed /\ client = "ini"
  BY DEF SectionsStored
<1>2. ~TearIndex
  <2>1. disk.ilen = 0
    BY <1>1 DEF SectionsSealed
  <2>2. \A n \in 0..(0 - 1) : FALSE
    OBVIOUS
  <2> QED BY <2>1, <2>2 DEF TearIndex
<1>3. PICK n \in 0..(disk.len - 1) :
        Tears([disk EXCEPT !.len = n], IF Missed(n) THEN Broken(disk.seal) ELSE "loose")
  BY <1>2 DEF TearFile
<1>4. PICK f, seal : /\ f = [disk EXCEPT !.len = n] /\ seal = IF Missed(n) THEN Broken(disk.seal) ELSE "loose"
                     /\ Tears(f, seal)
  BY <1>3
<1>5. /\ f.fmt = disk.fmt /\ f.toks = disk.toks /\ f.len = n /\ f.ilen = disk.ilen /\ f.holds = disk.holds
      /\ f = [f EXCEPT !.seal = f.seal]
      /\ f = [fmt |-> f.fmt, toks |-> f.toks, idx |-> f.idx, len |-> f.len, ilen |-> f.ilen,
              holds |-> f.holds, seal |-> f.seal]
  BY <1>4 DEF FileOK
<1>6. seal \in {"torn", "bad", "loose"}
  BY <1>4 DEF Broken
<1>7. seal \in Store!Seals \ {"whole"}
  BY <1>6 DEF Store!Seals
<1>8. Maps
  BY <1>4, <1>5, <1>7, TearMaps
<1>9. /\ disk'.fmt = disk.fmt /\ disk'.toks = disk.toks /\ disk'.len = n /\ disk'.ilen = disk.ilen
      /\ disk'.holds = disk.holds /\ disk'.seal = seal
  <2>1. disk' = [f EXCEPT !.seal = seal]
    BY <1>4 DEF Tears
  <2> QED BY <1>5, <2>1
<1>10. io' = io /\ io = Idle /\ client' = client
  BY <1>4 DEF Tears
<1>11. disk.fmt = "ini"
  <2>1. \A k \in 0..(0 - 1) : FALSE
    OBVIOUS
  <2>2. disk.fmt = "none" => disk.len = 0
    BY <1>1 DEF SectionsSealed
  <2> QED BY <1>1, <2>1, <2>2 DEF SectionsSealed
<1>12. Missed(n) <=> n = 0
  BY <1>11 DEF Missed
<1>13. IniSealed(disk.toks, n, disk.holds, seal)
  <2>1. IniSealed(disk.toks, disk.len, disk.holds, disk.seal)
    BY <1>1, <1>11 DEF SectionsSealed
  <2>2. PICK m \in Nat : m = Len(disk.toks) /\ disk.len \in 0..m
    BY <2>1 DEF IniSealed
  <2>3. n \in 0..m
    BY <2>2
  <2>4. seal # "whole" /\ (seal \in {"torn", "bad"} => n = 0)
    BY <1>4, <1>6, <1>12
  <2> QED BY <2>2, <2>3, <2>4 DEF IniSealed
<1>14. SectionsSealed'
  BY <1>1, <1>7, <1>9, <1>11, <1>13 DEF SectionsSealed
<1>15. SectionsLoad'
  BY <1>10, IdleIsIdle DEF SectionsLoad
<1> QED BY <1>1, <1>8, <1>10, <1>14, <1>15 DEF SectionsStored

(* Every step. *)
LEMMA SectionsNext ==
  ASSUME FInv, SectionsStored, [FilesNext]_avars
  PROVE  Maps /\ SectionsStored'
<1>1. Calm /\ FileOK /\ client \in DOMAIN ItemsOf
  BY DEF FInv
<1>2. CASE ArchiveEdit(ItemsOf[client]) \/ (client = "ini" /\ SetValue)
  <2>1. Maps /\ io = Idle /\ io' = io /\ disk' = disk /\ client' = client
    BY <1>2, EditsMap
  <2>2. io'.op = "idle"
    BY <2>1, IdleIsIdle
  <2> QED BY <2>1, <2>2, SectionsStay
<1>3. CASE Known /\ FilesWrite
  BY <1>1, <1>3, SectionsWrite
<1>4. CASE FilesLoad
  BY <1>1, <1>4, SectionsBegin
<1>5. CASE LoadStep
  BY <1>1, <1>5, SectionsGoOn
<1>6. CASE TearFile \/ TearIndex
  BY <1>1, <1>6, SectionsTorn
<1>7. CASE UNCHANGED avars
  <2>1. client' = client /\ archive' = archive /\ disk' = disk /\ io' = io /\ ret' = ret
    BY <1>7 DEF avars
  <2>2. UNCHANGED Store!svars
    BY <2>1 DEF Store!svars
  <2>3. Maps
    BY <2>2 DEF Maps
  <2>4. SectionsSealed'
    BY <2>1 DEF SectionsStored, SectionsSealed
  <2>5. SectionsLoad'
    BY <2>1 DEF SectionsStored, SectionsLoad, IniLoads
  <2> QED BY <2>1, <2>3, <2>4, <2>5 DEF SectionsStored
<1> QED BY <1>2, <1>3, <1>4, <1>5, <1>6, <1>7, Zenon DEF FilesNext

(* For a client who starts with no file, the writer and the loader of INI  *)
(* files do what ArchiveStore promises: WriteINI and LoadINI, whatever     *)
(* setValue makes of the sections between them.                            *)
THEOREM InisStored == FilesSpec /\ client = "ini" /\ disk = NoDisk => StoreSpec
<1>1. FilesInit /\ client = "ini" /\ disk = NoDisk => SectionsStored /\ Store!Init
  <2> SUFFICES ASSUME FilesInit, client = "ini", disk = NoDisk PROVE SectionsStored /\ Store!Init
    OBVIOUS
  <2>1. /\ disk.fmt = "none" /\ disk.len = Len(<<>>) /\ disk.ilen = Len(<<>>) /\ disk.seal = "loose"
    BY DEF NoDisk, File
  <2>2. Len(<<>>) = 0
    BY NoSeq
  <2>3. archive = <<>> /\ io = Idle /\ ret = NoRet
    BY DEF FilesInit, ArchiveInit
  <2>4. disk.seal \in Store!Seals
    BY <2>1 DEF Store!Seals
  <2>5. SectionsSealed
    BY <2>1, <2>2, <2>4 DEF SectionsSealed
  <2>6. SectionsLoad
    BY <2>3, IdleIsIdle DEF SectionsLoad
  <2>7. Idle.base = <<>> /\ Idle.pal = FALSE
    BY DEF Idle, Job
  <2>8. Store!Init
    BY <2>3, <2>4, <2>7 DEF Store!Init, NoRet
  <2> QED BY <2>5, <2>6, <2>8 DEF SectionsStored
<1>2. FInv /\ SectionsStored /\ [FilesNext]_avars => SectionsStored' /\ [Store!Next]_(Store!svars)
  BY SectionsNext DEF Maps
<1> QED BY <1>1, <1>2, FilesInvariant, PTL DEF FilesSpec, StoreSpec, Store!Spec


==============================================================================
