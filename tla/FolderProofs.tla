----------------------------- MODULE FolderProofs -----------------------------
(***************************************************************************)
(* Loading folders of any number of files and depth: a null pointer is     *)
(* followed only where files of the same number left an empty slot.        *)
(***************************************************************************)
EXTENDS Folder, NatSetLemmas, FiniteSetTheorems, TLAPS

IsSeq(s) == s \in Seq(Range(s))

LEMMA IsSeqIntro ==
  ASSUME NEW S, NEW s \in Seq(S)
  PROVE  IsSeq(s)
<1>1. s \in [1..Len(s) -> S] /\ Len(s) \in Nat
  OBVIOUS
<1>2. s \in [1..Len(s) -> Range(s)]
  BY <1>1 DEF Range
<1> QED BY <1>1, <1>2 DEF IsSeq

LEMMA SeqFacts ==
  ASSUME NEW s, IsSeq(s)
  PROVE  /\ Len(s) \in Nat /\ DOMAIN s = 1..Len(s)
         /\ s = [k \in 1..Len(s) |-> s[k]]
BY DEF IsSeq

LEMMA AppendFacts ==
  ASSUME NEW s, IsSeq(s), NEW x
  PROVE  /\ IsSeq(Append(s, x)) /\ Len(Append(s, x)) = Len(s) + 1
         /\ \A k \in 1..Len(s) : Append(s, x)[k] = s[k]
         /\ Append(s, x)[Len(s) + 1] = x
<1> DEFINE S == Range(s) \cup {x}
<1>1. s \in Seq(S)
  BY DEF IsSeq
<1> HIDE DEF S
<1>2. Append(s, x) \in Seq(S)
  BY <1>1, x \in S DEF S
<1>3. IsSeq(Append(s, x))
  BY <1>2, IsSeqIntro
<1>4. /\ Len(Append(s, x)) = Len(s) + 1
      /\ \A k \in 1..Len(s) : Append(s, x)[k] = s[k]
      /\ Append(s, x)[Len(s) + 1] = x
  BY <1>1
<1> QED BY <1>3, <1>4

(* A part of a sequence is replaced. *)
LEMMA ExceptFacts ==
  ASSUME NEW s, IsSeq(s), NEW k \in DOMAIN s, NEW x
  PROVE  /\ IsSeq([s EXCEPT ![k] = x]) /\ Len([s EXCEPT ![k] = x]) = Len(s)
         /\ \A l \in DOMAIN s : [s EXCEPT ![k] = x][l] = IF l = k THEN x ELSE s[l]
<1> DEFINE S == Range(s) \cup {x}
<1>1. s \in Seq(S) /\ x \in S
  BY DEF IsSeq
<1>2. [s EXCEPT ![k] = x] \in Seq(S) /\ Len([s EXCEPT ![k] = x]) = Len(s)
  BY <1>1
<1> QED BY <1>1, <1>2, IsSeqIntro, SeqFacts

LEMMA NoneBelow == \A a, b \in Int : a < 1 /\ b < 1 => 1..a = 1..b
OBVIOUS

(* alloc_inc puts null pointers behind what the archive holds. *)
LEMMA PaddedFacts ==
  ASSUME NEW s, IsSeq(s), NEW n \in Int
  PROVE  LET p == Padded(s, n)
         IN /\ IsSeq(p)
            /\ Len(p) = IF n > Len(s) THEN n ELSE Len(s)
            /\ \A k \in DOMAIN p : p[k] = IF k \in DOMAIN s THEN s[k] ELSE Null
<1> DEFINE m == IF n > Len(s) THEN n - Len(s) ELSE 0
           t == [k \in 1..(n - Len(s)) |-> Null]
           S == Range(s) \cup {Null}
           p == Padded(s, n)
<1>1. Len(s) \in Nat /\ m \in Nat /\ s \in Seq(S) /\ DOMAIN s = 1..Len(s)
  BY DEF IsSeq
<1>2. 1..(n - Len(s)) = 1..m
  <2>1. CASE n > Len(s)
    BY <2>1
  <2>2. CASE ~ (n > Len(s))
    <3>1. m = 0 /\ n - Len(s) < 1
      BY <2>2, <1>1
    <3> HIDE DEF m
    <3>2. n - Len(s) \in Int /\ m \in Int /\ n - Len(s) < 1 /\ m < 1
      BY <3>1, <1>1
    <3> QED BY <3>2, NoneBelow
  <2> QED BY <2>1, <2>2
<1>3. t \in [1..m -> S] /\ \A k \in 1..m : t[k] = Null
  BY <1>2
<1> HIDE DEF m, S, t
<1>4. t \in Seq(S) /\ Len(t) = m
  BY <1>1, <1>3
<1>5. /\ p \in Seq(S) /\ Len(p) = Len(s) + m
      /\ \A k \in 1..(Len(s) + m) : p[k] = IF k =< Len(s) THEN s[k] ELSE t[k - Len(s)]
  <2>1. p = s \o t
    BY DEF t, Padded
  <2> HIDE DEF p
  <2>2. s \o t \in Seq(S) /\ Len(s \o t) = Len(s) + Len(t)
    BY <1>1, <1>4
  <2>3. \A k \in 1..(Len(s) + Len(t)) : (s \o t)[k] = IF k =< Len(s) THEN s[k] ELSE t[k - Len(s)]
    BY <1>1, <1>4
  <2> QED BY <2>1, <2>2, <2>3, <1>4
<1>6. \A k \in DOMAIN p : p[k] = IF k \in DOMAIN s THEN s[k] ELSE Null
  <2> SUFFICES ASSUME NEW k \in DOMAIN p PROVE p[k] = IF k \in DOMAIN s THEN s[k] ELSE Null
    OBVIOUS
  <2> HIDE DEF p
  <2>1. k \in 1..(Len(s) + m)
    BY <1>5
  <2>2. CASE k =< Len(s)
    BY <1>1, <1>5, <2>1, <2>2
  <2>3. CASE ~(k =< Len(s))
    <3>1. k - Len(s) \in 1..m /\ k \notin DOMAIN s
      BY <1>1, <2>1, <2>3
    <3> QED BY <1>3, <1>5, <2>1, <2>3, <3>1
  <2> QED BY <2>2, <2>3
<1> QED BY <1>5, <1>6, <1>1, IsSeqIntro DEF m

(* Where Stored puts an item, and what it leaves in between. *)
LEMMA StoredFacts ==
  ASSUME NEW s, IsSeq(s), NEW e, e.nr \in Int, NEW x
  PROVE  LET p   == Stored(s, e, x)
             pos == IF e.nr >= 0 THEN e.nr + 1 ELSE Len(s) + 1
         IN /\ IsSeq(p) /\ pos \in DOMAIN p /\ p[pos] = x
            /\ DOMAIN s \subseteq DOMAIN p
            /\ \A k \in DOMAIN p : k # pos => p[k] = IF k \in DOMAIN s THEN s[k] ELSE Null
            /\ \A k \in DOMAIN p : k \in DOMAIN s \/ k =< pos
<1>1. CASE e.nr >= 0
  <2> DEFINE q == Padded(s, e.nr + 1)
  <2>1. /\ IsSeq(q)
        /\ Len(q) = IF e.nr + 1 > Len(s) THEN e.nr + 1 ELSE Len(s)
        /\ \A k \in DOMAIN q : q[k] = IF k \in DOMAIN s THEN s[k] ELSE Null
    BY PaddedFacts
  <2>2. Stored(s, e, x) = [q EXCEPT ![e.nr + 1] = x]
    BY <1>1 DEF Stored
  <2> HIDE DEF q
  <2>3. Len(q) \in Nat /\ DOMAIN q = 1..Len(q) /\ Len(s) \in Nat /\ DOMAIN s = 1..Len(s)
    BY <2>1, SeqFacts
  <2>4. e.nr + 1 \in DOMAIN q
    BY <2>1, <2>3, <1>1
  <2>9. /\ IsSeq([q EXCEPT ![e.nr + 1] = x]) /\ Len([q EXCEPT ![e.nr + 1] = x]) = Len(q)
        /\ \A l \in DOMAIN q : [q EXCEPT ![e.nr + 1] = x][l] = IF l = e.nr + 1 THEN x ELSE q[l]
    BY <2>1, <2>4, ExceptFacts, Zenon
  <2>5. /\ IsSeq(Stored(s, e, x)) /\ Len(Stored(s, e, x)) = Len(q)
        /\ \A l \in DOMAIN q : Stored(s, e, x)[l] = IF l = e.nr + 1 THEN x ELSE q[l]
    BY <2>2, <2>9
  <2> QED BY <2>1, <2>3, <2>4, <2>5, <1>1, SeqFacts
<1>2. CASE ~ (e.nr >= 0)
  <2>1. Stored(s, e, x) = Append(s, x)
    BY <1>2 DEF Stored
  <2> QED BY <2>1, <1>2, AppendFacts, SeqFacts
<1> QED BY <1>1, <1>2
-------------------------------------------------------------------------------
(* The entries of a folder: every one has a name of its own, and entries   *)
(* with numbers come first and in the order of their numbers.              *)
EntryOK(e) ==
  /\ e.nr \in Int /\ e.file.id # "none"
  /\ e.file.content.kind = "items" => IsSeq(e.file.content.items)
  /\ e.file.content.kind = "folder" => e.file.content.files \in Folders

EntriesOK(s) ==
  /\ IsSeq(s)
  /\ \A n \in DOMAIN s : EntryOK(s[n])
  /\ \A m, n \in DOMAIN s : s[m].file.id = s[n].file.id => m = n
  /\ \A m, n \in DOMAIN s : m < n /\ s[n].nr >= 0 => s[m].nr >= 0 /\ s[m].nr =< s[n].nr
  /\ \A m, n \in DOMAIN s :
       s[m].nr = s[n].nr /\ s[n].nr >= 0 /\ s[m].type = "Palette" /\ s[n].type # "Palette" => m < n

LEMMA EntryFacts ==
  ASSUME NEW F \in Folders, NEW f \in F
  PROVE  EntryOK(Entry(f)) /\ Entry(f).file = f
<1> DEFINE base == TypeOfExt(f.ext)
           wf   == IF base = "Unset" THEN Append(f.parts, [k |-> "word", v |-> 0]) ELSE f.parts
           Part == [k : Keywords, v : Int]
<1>1. f.parts \in Seq(Part) /\ IsFile(f)
  BY FolderAssumption DEF IsFile
<1>2. wf \in Seq(Part)
  <2>1. [k |-> "word", v |-> 0] \in Part
    BY DEF Keywords
  <2> HIDE DEF Part
  <2>2. Append(f.parts, [k |-> "word", v |-> 0]) \in Seq(Part)
    BY <2>1, <1>1
  <2> QED BY <2>2, <1>1
<1>3. wf # <<>> => wf[1].v \in Int
  <2> HIDE DEF wf
  <2>1. wf # <<>> => wf[1] \in Part
    <3> HIDE DEF Part
    <3> QED BY <1>2
  <2> QED BY <2>1
<1>4. Entry(f).nr \in Int /\ Entry(f).file = f
  <2> HIDE DEF wf
  <2>1. Entry(f).file = f
    BY DEF Entry
  <2>2. Entry(f).nr = IF wf # <<>> /\ wf[1].k \in {"num", "hex"} THEN wf[1].v ELSE -1
    BY DEF Entry, wf
  <2> QED BY <2>1, <2>2, <1>3
<1> QED BY <1>1, <1>4 DEF EntryOK, IsFile, IsSeq

(* The order of the sort on numbers. *)
LEMMA LessByNumber ==
  ASSUME NEW a, NEW b, a.nr \in Int, b.nr \in Int, ~Less(b, a), b.nr >= 0
  PROVE  a.nr >= 0 /\ a.nr =< b.nr
BY DEF Less

LEMMA SortedEntries ==
  ASSUME NEW F \in Folders, NEW s \in Sortings(F)
  PROVE  EntriesOK(s)
<1> DEFINE S == {Entry(f) : f \in F}
<1>1. IsFiniteSet(S)
  <2>1. IsFiniteSet(F)
    BY FolderAssumption
  <2>2. [f \in F |-> Entry(f)] \in Surjection(F, S)
    BY DEF Surjection
  <2> QED BY <2>1, <2>2, FS_Surjection
<1>2. Cardinality(S) \in Nat
  BY <1>1, FS_CardinalityType
<1>3. /\ s \in [1..Cardinality(S) -> S]
      /\ \A m, n \in 1..Cardinality(S) : m # n => s[m] # s[n]
      /\ \A m \in DOMAIN s : \A n \in 1..(m - 1) : ~Less(s[m], s[n])
  BY DEF Sortings, SetToSeqs
<1>4. IsSeq(s) /\ Len(s) = Cardinality(S)
  <2> HIDE DEF S
  <2>1. s \in Seq(S) /\ Len(s) = Cardinality(S)
    BY <1>2, <1>3
  <2> QED BY <2>1, IsSeqIntro
<1>5. \A n \in DOMAIN s : \E f \in F : s[n] = Entry(f)
  BY <1>3
<1>6. \A n \in DOMAIN s : EntryOK(s[n]) /\ s[n].file \in F /\ s[n] = Entry(s[n].file)
  BY <1>5, EntryFacts
<1>7. \A m, n \in DOMAIN s : s[m].file.id = s[n].file.id => m = n
  <2> SUFFICES ASSUME NEW m \in DOMAIN s, NEW n \in DOMAIN s, s[m].file.id = s[n].file.id
               PROVE  m = n
    OBVIOUS
  <2>1. s[m].file = s[n].file
    BY <1>6, FolderAssumption
  <2>2. s[m] = s[n]
    BY <2>1, <1>6
  <2> QED BY <2>2, <1>3
<1>8. ASSUME NEW m \in DOMAIN s, NEW n \in DOMAIN s, m < n, s[n].nr >= 0
      PROVE  s[m].nr >= 0 /\ s[m].nr =< s[n].nr
  <2>1. m \in 1..(n - 1)
    BY <1>8, <1>3, <1>2
  <2>2. s[m].nr \in Int /\ s[n].nr \in Int
    BY <1>6 DEF EntryOK
  <2> QED BY <2>1, <2>2, <1>3, <1>8, LessByNumber
<1>9. ASSUME NEW m \in DOMAIN s, NEW n \in DOMAIN s, s[m].nr = s[n].nr, s[n].nr >= 0,
             s[m].type = "Palette", s[n].type # "Palette"
      PROVE  m < n
  <2>1. m # n /\ m \in Nat /\ n \in Nat
    BY <1>9, <1>3, <1>2
  <2>2. Less(s[m], s[n])
    BY <1>9, <1>6 DEF Less, EntryOK
  <2>3. CASE n < m
    BY <2>1, <2>2, <2>3, <1>3
  <2> QED BY <2>1, <2>3
<1> QED BY <1>4, <1>6, <1>7, <1>8, <1>9 DEF EntriesOK
-------------------------------------------------------------------------------
(* What holds of a call that runs. *)

ShapeOK(fr) ==
  /\ fr = [entries |-> fr.entries, next |-> fr.next, items |-> fr.items]
  /\ EntriesOK(fr.entries) /\ IsSeq(fr.items)
  /\ fr.next \in 1..(Len(fr.entries) + 1)

(* Every item but null pointers came from an entry before: at its number,  *)
(* or behind the numbers, or as an animation.                              *)
SourcesOK(fr) ==
  \A k \in DOMAIN fr.items :
    IF IsNull(fr.items[k]) THEN fr.items[k] = Null
    ELSE \E n \in 1..(fr.next - 1) :
           LET e == fr.entries[n]
           IN /\ Holds(fr.items, k, e)
              /\ \/ /\ MakesItem(e) /\ (e.nr >= 0 => k = e.nr + 1)
                    /\ e.type = "Palette" /\ AsNamed(e) => fr.items[k].type = "Palette"
                 \/ /\ e.type = "PaletteAnim" /\ k \in DOMAIN e.file.content.items
                    /\ ~IsNull(e.file.content.items[k])
                    /\ AsNamed(e) => fr.items[k].type = "PaletteAnim"

(* The archive reaches up to every number before. *)
ReachesOK(fr) ==
  \A n \in 1..(fr.next - 1) : Names(fr.entries[n]) => fr.entries[n].nr < Len(fr.items)

(* Why a slot is empty. *)
HolesOK(fr) ==
  \/ \E n \in 1..(fr.next - 1) : fr.entries[n].type = "PaletteAnim"
  \/ \A k \in DOMAIN fr.items : IsNull(fr.items[k]) =>
       \E n \in 1..(fr.next - 1) :
         LET e == fr.entries[n]
         IN e.nr < 0 \/ e.nr >= k \/ (e.nr = k - 1 /\ ~MakesItem(e))

(* The last entry of a number leaves the slot empty if it has no item,     *)
(* until there are animations.                                             *)
EmptiedOK(fr) ==
  \A n \in 1..(fr.next - 1) :
    LET e == fr.entries[n] IN
    /\ e.nr >= 0 /\ Names(e) /\ ~MakesItem(e)
    /\ \A m \in 1..(fr.next - 1) : Names(fr.entries[m]) /\ fr.entries[m].nr = e.nr => m =< n
    /\ \A m \in 1..(fr.next - 1) : fr.entries[m].type = "PaletteAnim" => m < n
    => IsNull(fr.items[e.nr + 1])

FrameOK(fr) ==
  /\ ShapeOK(fr) /\ SourcesOK(fr) /\ ReachesOK(fr) /\ HolesOK(fr) /\ EmptiedOK(fr)
  /\ FilesInPlace(fr)

RunOK ==
  /\ IsSeq(stack) /\ stack # <<>>
  /\ \A d \in DOMAIN stack : FrameOK(stack[d])
  /\ \A d \in 1..(Len(stack) - 1) :
       /\ stack[d].next \in DOMAIN stack[d].entries
       /\ stack[d].entries[stack[d].next].type = "Font"

FInv ==
  /\ folder \in Folders
  /\ phase = "call" => stack = <<>>
  /\ phase = "running" => RunOK
  /\ ArchiveFollowsNames
  /\ CrashNeedsHole
-------------------------------------------------------------------------------
(* One entry *)

LEMMA MakersHaveNames == \A e : MakesItem(e) => Names(e) /\ e.type # "PaletteAnim"
BY DEF MakesItem, Names, BitmapTypes

LEMMA NullFacts == IsNull(Null) /\ Null.src = "none" /\ Null.type = "null"
BY DEF Null, IsNull

LEMMA FrameFacts ==
  ASSUME NEW fr, FrameOK(fr)
  PROVE  /\ IsSeq(fr.entries) /\ IsSeq(fr.items)
         /\ Len(fr.entries) \in Nat /\ DOMAIN fr.entries = 1..Len(fr.entries)
         /\ Len(fr.items) \in Nat /\ DOMAIN fr.items = 1..Len(fr.items)
         /\ fr.next \in 1..(Len(fr.entries) + 1)
         /\ \A n \in DOMAIN fr.entries : EntryOK(fr.entries[n])
         /\ 1..(fr.next - 1) \subseteq DOMAIN fr.entries
<1>1. ShapeOK(fr)
  BY DEF FrameOK
<1>2. IsSeq(fr.entries) /\ IsSeq(fr.items) /\ fr.next \in 1..(Len(fr.entries) + 1)
  BY <1>1 DEF ShapeOK, EntriesOK
<1>3. \A n \in DOMAIN fr.entries : EntryOK(fr.entries[n])
  BY <1>1 DEF ShapeOK, EntriesOK
<1>4. /\ Len(fr.entries) \in Nat /\ DOMAIN fr.entries = 1..Len(fr.entries)
      /\ Len(fr.items) \in Nat /\ DOMAIN fr.items = 1..Len(fr.items)
  BY <1>2, SeqFacts
<1> QED BY <1>2, <1>3, <1>4

(* What an entry stores: its item, or nothing. *)
IsItemOf(e, x) ==
  /\ Names(e)
  /\ IF MakesItem(e) THEN ~IsNull(x) /\ x.src = e.file.id ELSE x = Null
  /\ MakesItem(e) /\ e.type = "Palette" /\ AsNamed(e) => x.type = "Palette"

(* Where an entry stores it: at its number, or at the end. *)
Slot(fr, e) == IF e.nr >= 0 THEN e.nr + 1 ELSE Len(fr.items) + 1

(* it has x in that slot; nothing else has come to another place, and x is *)
(* the only item of its entry.                                             *)
StoredIn(fr, e, x, it, pos) ==
  /\ IsSeq(it) /\ pos \in DOMAIN it /\ it[pos] = x
  /\ DOMAIN fr.items \subseteq DOMAIN it
  /\ \A k \in DOMAIN it : k # pos => it[k] = IF k \in DOMAIN fr.items THEN fr.items[k] ELSE Null
  /\ \A k \in DOMAIN it : k \in DOMAIN fr.items \/ k =< pos
  /\ \A n \in 1..(fr.next - 1), k \in DOMAIN it :
       Holds(it, k, fr.entries[n]) <=> k \in DOMAIN fr.items /\ k # pos /\ Holds(fr.items, k, fr.entries[n])
  /\ \A k \in DOMAIN it : Holds(it, k, e) <=> k = pos /\ MakesItem(e)

LEMMA StoringOne ==
  ASSUME NEW fr, FrameOK(fr), fr.next \in DOMAIN fr.entries, NEW e, e = fr.entries[fr.next],
         NEW x, IsItemOf(e, x)
  PROVE  StoredIn(fr, e, x, Stored(fr.items, e, x), Slot(fr, e))
<1> DEFINE it  == Stored(fr.items, e, x)
           pos == Slot(fr, e)
<1>0. /\ IsSeq(fr.items) /\ e.nr \in Int /\ fr.next \in Nat
      /\ \A n \in DOMAIN fr.entries : fr.entries[n].file.id # "none"
      /\ \A m, n \in DOMAIN fr.entries : fr.entries[m].file.id = fr.entries[n].file.id => m = n
      /\ \A n \in 1..(fr.next - 1) : n \in DOMAIN fr.entries /\ n # fr.next
  BY FrameFacts DEF EntryOK, FrameOK, ShapeOK, EntriesOK
<1>1. /\ IsSeq(it) /\ pos \in DOMAIN it /\ it[pos] = x
      /\ DOMAIN fr.items \subseteq DOMAIN it
      /\ \A k \in DOMAIN it : k # pos => it[k] = IF k \in DOMAIN fr.items THEN fr.items[k] ELSE Null
      /\ \A k \in DOMAIN it : k \in DOMAIN fr.items \/ k =< pos
  BY <1>0, StoredFacts DEF Slot
<1> HIDE DEF it, pos
<1>2. x.src = IF MakesItem(e) THEN e.file.id ELSE "none"
  BY NullFacts DEF IsItemOf
<1>3. \A n \in 1..(fr.next - 1), k \in DOMAIN it :
        Holds(it, k, fr.entries[n]) <=>
          k \in DOMAIN fr.items /\ k # pos /\ Holds(fr.items, k, fr.entries[n])
  BY <1>0, <1>1, <1>2, NullFacts DEF Holds
<1>4. \A k \in DOMAIN fr.items : fr.items[k].src # e.file.id
  <2>1. \A k \in DOMAIN fr.items :
          fr.items[k] = Null \/ \E n \in 1..(fr.next - 1) : Holds(fr.items, k, fr.entries[n])
    BY DEF FrameOK, SourcesOK
  <2> QED BY <2>1, <1>0, NullFacts DEF Holds
<1>5. \A k \in DOMAIN it : Holds(it, k, e) <=> k = pos /\ MakesItem(e)
  BY <1>0, <1>1, <1>2, <1>4, NullFacts DEF Holds
<1>6. StoredIn(fr, e, x, it, pos)
  BY <1>1, <1>3, <1>5 DEF StoredIn
<1> QED BY <1>6 DEF it, pos

(* The three parts of FilesInPlace. *)
Places(fr, n) == {k \in DOMAIN fr.items : Holds(fr.items, k, fr.entries[n])}

IsLastOfNumber(fr, n) ==
  \A m \in 1..(fr.next - 1) :
    Names(fr.entries[m]) /\ fr.entries[m].nr = fr.entries[n].nr => m =< n

NumberedInPlace(fr) ==
  \A n \in 1..(fr.next - 1) :
    fr.entries[n].nr >= 0 /\ MakesItem(fr.entries[n]) /\ IsLastOfNumber(fr, n)
    => Places(fr, n) = {fr.entries[n].nr + 1}

NamedInPlace(fr) ==
  \A n \in 1..(fr.next - 1) :
    fr.entries[n].nr < 0 /\ MakesItem(fr.entries[n]) =>
      /\ Cardinality(Places(fr, n)) = 1
      /\ \A m \in 1..(n - 1), k \in Places(fr, n) : \A l \in Places(fr, m) : l < k
      /\ \A m \in 1..(fr.next - 1), k \in Places(fr, n) :
           Names(fr.entries[m]) => fr.entries[m].nr + 1 < k

NothingElse(fr) ==
  \A k \in DOMAIN fr.items :
    \/ IsNull(fr.items[k])
    \/ \E n \in 1..(fr.next - 1) : MakesItem(fr.entries[n]) /\ k \in Places(fr, n)
    \/ \E n \in DOMAIN fr.entries :
         /\ fr.entries[n].type = "PaletteAnim" /\ Holds(fr.items, k, fr.entries[n])
         /\ k \in DOMAIN fr.entries[n].file.content.items
         /\ ~IsNull(fr.entries[n].file.content.items[k])

LEMMA InPlaceParts ==
  ASSUME NEW fr
  PROVE  FilesInPlace(fr) <=> NumberedInPlace(fr) /\ NamedInPlace(fr) /\ NothingElse(fr)
<1>1. FilesInPlace(fr) => NumberedInPlace(fr)
  BY DEF FilesInPlace, NumberedInPlace, Places, IsLastOfNumber
<1>2. FilesInPlace(fr) => NamedInPlace(fr)
  BY DEF FilesInPlace, NamedInPlace, Places
<1>3. FilesInPlace(fr) => NothingElse(fr)
  BY DEF FilesInPlace, NothingElse, Places
<1>4. NumberedInPlace(fr) /\ NamedInPlace(fr) /\ NothingElse(fr) => FilesInPlace(fr)
  BY DEF FilesInPlace, NumberedInPlace, NamedInPlace, NothingElse, Places, IsLastOfNumber
<1> QED BY <1>1, <1>2, <1>3, <1>4

(* What SourcesOK says is more than that there is nothing else. *)
LEMMA SourcesAreAll ==
  ASSUME NEW fr, SourcesOK(fr), 1..(fr.next - 1) \subseteq DOMAIN fr.entries
  PROVE  NothingElse(fr)
BY DEF SourcesOK, NothingElse, Places

(* The items of a call stay where the names put them when an entry stores  *)
(* its item, or nothing, at its place.                                     *)
LEMMA StoringKeepsFrame ==
  ASSUME NEW fr, FrameOK(fr), fr.next \in DOMAIN fr.entries, NEW e, e = fr.entries[fr.next],
         NEW x, IsItemOf(e, x)
  PROVE  FrameOK(After(fr, Stored(fr.items, e, x)))
<1> DEFINE it  == Stored(fr.items, e, x)
           pos == Slot(fr, e)
           j   == fr.next
           new == After(fr, it)
           E_(n) == fr.entries[n]
<1>0. /\ j \in Nat \ {0} /\ e.nr \in Int /\ e = E_(j) /\ j \in DOMAIN fr.entries
      /\ Len(fr.items) \in Nat /\ DOMAIN fr.items = 1..Len(fr.items)
      /\ 1..(j - 1) \subseteq DOMAIN fr.entries /\ 1..j = 1..(j - 1) \cup {j}
      /\ \A n \in DOMAIN fr.entries : E_(n).nr \in Int
      /\ \A n \in 1..(j - 1) : E_(j).nr >= 0 => E_(n).nr >= 0 /\ E_(n).nr =< E_(j).nr
  <2>1. \A n \in 1..(j - 1) : n < j /\ n \in DOMAIN fr.entries
    BY FrameFacts
  <2>2. \A n \in DOMAIN fr.entries : E_(n).nr \in Int
    BY FrameFacts DEF EntryOK
  <2> QED BY <2>1, <2>2, FrameFacts DEF FrameOK, ShapeOK, EntriesOK
<1> HIDE DEF it, pos
<1>8. StoredIn(fr, e, x, it, pos)
  BY StoringOne DEF it, pos
<1>1. /\ IsSeq(it) /\ pos \in DOMAIN it /\ it[pos] = x
      /\ DOMAIN fr.items \subseteq DOMAIN it
      /\ \A k \in DOMAIN it : k # pos => it[k] = IF k \in DOMAIN fr.items THEN fr.items[k] ELSE Null
      /\ \A k \in DOMAIN it : k \in DOMAIN fr.items \/ k =< pos
  BY <1>8 DEF StoredIn
<1>2. \A n \in 1..(j - 1), k \in DOMAIN it :
        Holds(it, k, E_(n)) <=> k \in DOMAIN fr.items /\ k # pos /\ Holds(fr.items, k, E_(n))
  BY <1>8 DEF StoredIn
<1>3. \A k \in DOMAIN it : Holds(it, k, E_(j)) <=> k = pos /\ MakesItem(e)
  BY <1>8 DEF StoredIn
<1>4. e.type # "PaletteAnim"
  BY DEF Names, IsItemOf
<1>7. /\ Names(e)
      /\ IF MakesItem(e) THEN ~IsNull(x) /\ x.src = e.file.id ELSE x = Null
      /\ MakesItem(e) /\ e.type = "Palette" /\ AsNamed(e) => x.type = "Palette"
  BY DEF IsItemOf
<1>5. DOMAIN it = 1..Len(it) /\ Len(it) \in Nat
  BY <1>1, SeqFacts
<1>6. pos \in Nat /\ (e.nr >= 0 => pos = e.nr + 1) /\ (e.nr < 0 => pos = Len(fr.items) + 1)
  BY <1>0 DEF pos, Slot
<1>10. /\ new = [entries |-> new.entries, next |-> new.next, items |-> new.items]
       /\ new.entries = fr.entries /\ new.items = it /\ new.next = j + 1 /\ new.next - 1 = j
  BY <1>0 DEF After
<1> HIDE DEF new
<1>11. ShapeOK(new)
  BY <1>10, <1>1, <1>0, FrameFacts DEF ShapeOK, FrameOK
<1>12. SourcesOK(new)
  <2> SUFFICES ASSUME NEW k \in DOMAIN it
               PROVE  IF IsNull(it[k]) THEN it[k] = Null
                      ELSE \E n \in 1..j :
                             /\ Holds(it, k, E_(n))
                             /\ \/ /\ MakesItem(E_(n)) /\ (E_(n).nr >= 0 => k = E_(n).nr + 1)
                                   /\ E_(n).type = "Palette" /\ AsNamed(E_(n)) => it[k].type = "Palette"
                                \/ /\ E_(n).type = "PaletteAnim" /\ k \in DOMAIN E_(n).file.content.items
                                   /\ ~IsNull(E_(n).file.content.items[k])
                                   /\ AsNamed(E_(n)) => it[k].type = "PaletteAnim"
    BY <1>10 DEF SourcesOK
  <2>1. CASE k = pos
    BY <2>1, <1>0, <1>1, <1>3, <1>6, <1>7, NullFacts
  <2>2. CASE k # pos /\ k \notin DOMAIN fr.items
    BY <2>2, <1>1, NullFacts
  <2>3. CASE k # pos /\ k \in DOMAIN fr.items
    <3>1. it[k] = fr.items[k]
      BY <2>3, <1>1
    <3> QED BY <3>1, <2>3, <1>0, <1>2 DEF FrameOK, SourcesOK
  <2> QED BY <2>1, <2>2, <2>3
<1>13. ReachesOK(new)
  <2> SUFFICES ASSUME NEW n \in 1..j, Names(E_(n)) PROVE E_(n).nr < Len(it)
    BY <1>10 DEF ReachesOK
  <2>1. CASE n = j
    BY <2>1, <1>0, <1>1, <1>5, <1>6
  <2>2. CASE n \in 1..(j - 1)
    <3>1. E_(n).nr < Len(fr.items)
      BY <2>2 DEF FrameOK, ReachesOK
    <3>2. Len(fr.items) =< Len(it)
      BY <1>0, <1>1, <1>5
    <3> QED BY <3>1, <3>2, <1>0, <1>5, <2>2
  <2> QED BY <2>1, <2>2, <1>0
<1>14. HolesOK(new)
  <2> SUFFICES ASSUME ~ \E n \in 1..j : E_(n).type = "PaletteAnim",
                      NEW k \in DOMAIN it, IsNull(it[k])
               PROVE  \E n \in 1..j : \/ E_(n).nr < 0 \/ E_(n).nr >= k
                                      \/ E_(n).nr = k - 1 /\ ~MakesItem(E_(n))
    BY <1>10 DEF HolesOK
  <2>0. k \in Nat /\ j \in 1..j
    BY <1>5, <1>0
  <2>1. CASE k = pos
    <3>1. ~MakesItem(E_(j))
      BY <2>1, <1>0, <1>1, <1>7
    <3>2. E_(j).nr < 0 \/ E_(j).nr = k - 1
      BY <2>1, <1>0, <1>6
    <3> QED BY <3>1, <3>2, <2>0
  <2>2. CASE k # pos /\ k \notin DOMAIN fr.items
    BY <2>2, <2>0, <1>0, <1>1, <1>6
  <2>3. CASE k # pos /\ k \in DOMAIN fr.items
    <3>1. IsNull(fr.items[k])
      BY <2>3, <1>1
    <3> QED BY <3>1, <2>3, <1>0 DEF FrameOK, HolesOK
  <2> QED BY <2>1, <2>2, <2>3
<1>9. EmptiedOK(new)
  <2> SUFFICES ASSUME NEW n \in 1..j, E_(n).nr >= 0, Names(E_(n)), ~MakesItem(E_(n)),
                      \A m \in 1..j : Names(E_(m)) /\ E_(m).nr = E_(n).nr => m =< n,
                      \A m \in 1..j : E_(m).type = "PaletteAnim" => m < n
               PROVE  IsNull(it[E_(n).nr + 1])
    BY <1>10 DEF EmptiedOK
  <2>1. CASE n = j
    BY <2>1, <1>0, <1>1, <1>6, <1>7, NullFacts
  <2>2. CASE n \in 1..(j - 1)
    <3>1. IsNull(fr.items[E_(n).nr + 1])
      BY <2>2, <1>0 DEF FrameOK, EmptiedOK
    <3>2. E_(n).nr + 1 \in DOMAIN fr.items
      <4>1. E_(n).nr < Len(fr.items) /\ E_(n).nr \in Int
        BY <2>2, <1>0 DEF FrameOK, ReachesOK
      <4> QED BY <4>1, <1>0
    <3>3. E_(j).nr # E_(n).nr
      BY <1>7, <1>0, <2>2
    <3>4. E_(n).nr + 1 # pos
      <4>1. CASE e.nr >= 0
        BY <4>1, <3>3, <1>0, <1>6, <2>2
      <4>2. CASE ~(e.nr >= 0)
        <5>1. pos = Len(fr.items) + 1
          BY <4>2, <1>0, <1>6
        <5> QED BY <5>1, <3>2, <1>0
      <4> QED BY <4>1, <4>2
    <3> QED BY <3>1, <3>2, <3>4, <1>1
  <2> QED BY <2>1, <2>2, <1>0
<1>15. \A n \in 1..(j - 1) : Places(new, n) = Places(fr, n) \ {pos}
  BY <1>1, <1>2, <1>10 DEF Places
<1>16. Places(new, j) = IF MakesItem(e) THEN {pos} ELSE {}
  <2>1. \A k : k \in Places(new, j) <=> k = pos /\ MakesItem(e)
    BY <1>1, <1>3, <1>10 DEF Places
  <2> QED BY <2>1
<1>17. \A n \in 1..(j - 1) : Places(fr, n) \subseteq DOMAIN fr.items
  BY DEF Places
<1>18. NumberedInPlace(fr) /\ NamedInPlace(fr)
  BY InPlaceParts DEF FrameOK
<1>20. NumberedInPlace(new)
  <2> SUFFICES ASSUME NEW n \in 1..j, E_(n).nr >= 0, MakesItem(E_(n)), IsLastOfNumber(new, n)
               PROVE  Places(new, n) = {E_(n).nr + 1}
    BY <1>10 DEF NumberedInPlace
  <2>1. CASE n = j
    BY <2>1, <1>0, <1>6, <1>16
  <2>2. CASE n \in 1..(j - 1)
    <3>1. \A m \in 1..(j - 1) : Names(E_(m)) /\ E_(m).nr = E_(n).nr => m =< n
      BY <1>10, <1>0 DEF IsLastOfNumber
    <3>2. Places(fr, n) = {E_(n).nr + 1}
      BY <3>1, <2>2, <1>18 DEF NumberedInPlace, IsLastOfNumber
    <3>3. E_(j).nr # E_(n).nr
      BY <1>7, <1>10, <1>0, <2>2 DEF IsLastOfNumber
    <3>4. E_(n).nr + 1 # pos
      <4>1. E_(n).nr + 1 \in DOMAIN fr.items
        BY <1>17, <2>2, <3>2
      <4>2. CASE e.nr >= 0
        BY <4>2, <3>3, <1>0, <1>6, <2>2
      <4>3. CASE ~(e.nr >= 0)
        <5>1. pos = Len(fr.items) + 1
          BY <4>3, <1>0, <1>6
        <5> QED BY <5>1, <4>1, <1>0
      <4> QED BY <4>2, <4>3
    <3> QED BY <3>2, <3>4, <2>2, <1>15
  <2> QED BY <2>1, <2>2, <1>0
<1>21. NamedInPlace(new)
  <2> SUFFICES ASSUME NEW n \in 1..j, E_(n).nr < 0, MakesItem(E_(n))
               PROVE  /\ Cardinality(Places(new, n)) = 1
                      /\ \A m \in 1..(n - 1), k \in Places(new, n) : \A l \in Places(new, m) : l < k
                      /\ \A m \in 1..j, k \in Places(new, n) : Names(E_(m)) => E_(m).nr + 1 < k
    BY <1>10 DEF NamedInPlace
  <2>0. e.nr < 0 /\ pos = Len(fr.items) + 1
    <3>1. ~(e.nr >= 0)
      BY <1>0
    <3> QED BY <3>1, <1>0, <1>6
  <2>1. ASSUME NEW m \in 1..(j - 1) PROVE Places(new, m) = Places(fr, m)
    <3>1. pos \notin Places(fr, m)
      BY <2>0, <1>0, <1>17
    <3> QED BY <3>1, <1>15
  <2>2. CASE n = j
    <3>1. Places(new, n) = {pos}
      BY <2>2, <1>0, <1>16
    <3>2. Cardinality(Places(new, n)) = 1
      BY <3>1, FS_Singleton
    <3>3. \A m \in 1..(n - 1) : \A l \in Places(new, m) : l < pos
      BY <2>0, <2>1, <2>2, <1>0, <1>17
    <3>4. \A m \in 1..j : Names(E_(m)) => E_(m).nr + 1 < pos
      <4>1. \A m \in 1..(j - 1) : Names(E_(m)) => E_(m).nr < Len(fr.items)
        BY DEF FrameOK, ReachesOK
      <4> SUFFICES ASSUME NEW m \in 1..j, Names(E_(m)) PROVE E_(m).nr + 1 < pos
        OBVIOUS
      <4>2. E_(m).nr \in Int
        BY <1>0
      <4>3. CASE m = j
        BY <4>3, <2>0, <1>0
      <4>4. CASE m \in 1..(j - 1)
        BY <4>1, <4>2, <4>4, <2>0, <1>0
      <4> QED BY <4>3, <4>4, <1>0
    <3> QED BY <3>1, <3>2, <3>3, <3>4
  <2>3. CASE n \in 1..(j - 1)
    <3>1. /\ Cardinality(Places(fr, n)) = 1
          /\ \A m \in 1..(n - 1), k \in Places(fr, n) : \A l \in Places(fr, m) : l < k
          /\ \A m \in 1..(j - 1), k \in Places(fr, n) : Names(E_(m)) => E_(m).nr + 1 < k
      BY <2>3, <1>0, <1>18 DEF NamedInPlace
    <3>2. \A m \in 1..(n - 1) : m \in 1..(j - 1)
      BY <2>3, <1>0
    <3>3. \A k \in Places(fr, n) : E_(j).nr + 1 < k
      BY <2>0, <1>0, <1>17, <2>3
    <3> QED BY <3>1, <3>2, <3>3, <2>1, <2>3, <1>0
  <2> QED BY <2>2, <2>3, <1>0
<1>22. NothingElse(new)
  BY <1>10, <1>0, <1>12, SourcesAreAll
<1>23. FilesInPlace(new)
  BY <1>20, <1>21, <1>22, InPlaceParts
<1> QED BY <1>9, <1>11, <1>12, <1>13, <1>14, <1>23 DEF FrameOK, new, it
-------------------------------------------------------------------------------
(* Palette animations *)

LEMMA FromFileFacts ==
  ASSUME NEW x
  PROVE  IF IsNull(x) THEN FromFile(x) = Null
         ELSE ~IsNull(FromFile(x)) /\ FromFile(x).src = E.file.id /\ FromFile(x).type = x.type
BY DEF FromFile, IsNull

(* The animations before a clash come where there was nothing. *)
LEMMA MergeFacts ==
  ASSUME NEW items, IsSeq(items), NEW tmp, IsSeq(tmp)
  PROVE  LET clash  == Clashes(items, tmp)
             upto   == IF clash = {} THEN Len(tmp) ELSE Min(clash) - 1
             ours   == {k \in 1..upto : ~IsNull(tmp[k])}
             merged == [k \in 1..Max(ours \cup {Len(items)}) |->
                          IF k \in ours THEN FromFile(tmp[k]) ELSE At(items, k - 1)]
         IN /\ IsSeq(merged) /\ DOMAIN items \subseteq DOMAIN merged /\ ours \subseteq DOMAIN merged
            /\ \A k \in ours : k \in DOMAIN tmp /\ ~IsNull(tmp[k]) /\ (k \in DOMAIN items => IsNull(items[k]))
            /\ \A k \in DOMAIN merged :
                 merged[k] = IF k \in ours THEN FromFile(tmp[k])
                             ELSE IF k \in DOMAIN items THEN items[k] ELSE Null
<1> DEFINE clash  == Clashes(items, tmp)
           upto   == IF clash = {} THEN Len(tmp) ELSE Min(clash) - 1
           ours   == {k \in 1..upto : ~IsNull(tmp[k])}
           top    == Max(ours \cup {Len(items)})
           merged == [k \in 1..top |-> IF k \in ours THEN FromFile(tmp[k]) ELSE At(items, k - 1)]
<1>1. /\ Len(tmp) \in Nat /\ DOMAIN tmp = 1..Len(tmp)
      /\ Len(items) \in Nat /\ DOMAIN items = 1..Len(items)
  BY SeqFacts
<1>2. clash = {k \in DOMAIN tmp \cap DOMAIN items : ~IsNull(tmp[k]) /\ ~IsNull(items[k])}
  BY DEF Clashes
<1>3. clash \subseteq Nat /\ clash \subseteq DOMAIN tmp
  BY <1>1, <1>2
<1> HIDE DEF clash
<1>4. upto \in 0..Len(tmp) /\ \A k \in 1..upto : k \notin clash
  <2>1. CASE clash = {}
    BY <2>1, <1>1
  <2>2. CASE clash # {}
    <3>1. Min(clash) \in clash /\ \A k \in clash : Min(clash) =< k
      BY <2>2, <1>3, MinOfNats
    <3>2. Min(clash) \in 1..Len(tmp) /\ upto = Min(clash) - 1
      BY <3>1, <2>2, <1>1, <1>3
    <3>3. ASSUME NEW k \in 1..upto PROVE k \notin clash
      <4>1. ~(Min(clash) =< k)
        BY <3>2, <1>1
      <4> QED BY <4>1, <3>1
    <3>4. upto \in 0..Len(tmp)
      BY <3>2, <1>1
    <3> QED BY <3>3, <3>4
  <2> QED BY <2>1, <2>2
<1> HIDE DEF upto
<1>5. ours \subseteq 1..Len(tmp) /\ ours \subseteq Nat
  BY <1>1, <1>4
<1>6. \A k \in ours : k \in DOMAIN tmp /\ ~IsNull(tmp[k]) /\ (k \in DOMAIN items => IsNull(items[k]))
  BY <1>1, <1>2, <1>4
<1> HIDE DEF ours
<1>7. top \in Nat /\ \A k \in ours \cup {Len(items)} : k =< top
  <2> DEFINE S == ours \cup {Len(items)}
             b == Len(tmp) + Len(items)
  <2>1. S \subseteq Nat /\ S # {} /\ b \in Nat /\ \A k \in S : k =< b
    <3>1. b \in Nat /\ Len(items) =< b /\ Len(tmp) =< b
      BY <1>1
    <3>2. \A k \in ours : k \in Nat /\ k =< Len(tmp)
      BY <1>1, <1>5
    <3>3. \A k \in ours : k =< b
      BY <3>1, <3>2, <1>1
    <3> QED BY <3>1, <3>2, <3>3, <1>1
  <2>2. Max(S) \in S /\ \A k \in S : k =< Max(S)
    <3> HIDE DEF S, b
    <3> QED BY <2>1, MaxOfNats
  <2> QED BY <2>1, <2>2
<1> HIDE DEF top
<1>8. DOMAIN merged = 1..top /\ IsSeq(merged)
  <2> DEFINE S == Range(merged)
  <2>1. merged \in [1..top -> S]
    BY DEF Range
  <2> HIDE DEF merged, S
  <2>2. merged \in Seq(S)
    BY <2>1, <1>7
  <2> QED BY <2>1, <2>2, IsSeqIntro
<1>9. \A k \in DOMAIN merged :
        merged[k] = IF k \in ours THEN FromFile(tmp[k])
                    ELSE IF k \in DOMAIN items THEN items[k] ELSE Null
  <2> SUFFICES ASSUME NEW k \in 1..top
               PROVE  At(items, k - 1) = IF k \in DOMAIN items THEN items[k] ELSE Null
    BY <1>8
  <2>1. k \in Nat /\ k > 0 /\ (k - 1) + 1 = k
    BY <1>7
  <2> QED BY <2>1, <1>1 DEF At
<1>10. DOMAIN items \subseteq DOMAIN merged /\ ours \subseteq DOMAIN merged
  <2>1. Len(items) =< top
    BY <1>7
  <2>2. ASSUME NEW k \in ours PROVE k \in 1..top
    <3>1. k \in 1..Len(tmp) /\ k =< top /\ top \in Nat /\ Len(tmp) \in Nat
      BY <1>1, <1>5, <1>7
    <3> QED BY <3>1
  <2> HIDE DEF merged
  <2> QED BY <2>1, <2>2, <1>1, <1>7, <1>8
<1> QED BY <1>6, <1>8, <1>9, <1>10 DEF merged, top, ours, upto, clash
(* it is items with those of an entry for animations merged into it. *)
Merges(fr, e, it, ours) ==
  /\ \A k \in ours :
       /\ ~IsNull(it[k]) /\ it[k].src = e.file.id
       /\ k \in DOMAIN e.file.content.items /\ ~IsNull(e.file.content.items[k])
       /\ k \in DOMAIN fr.items => IsNull(fr.items[k])
       /\ it[k].type = e.file.content.items[k].type
  /\ \A k \in DOMAIN it \ ours : it[k] = IF k \in DOMAIN fr.items THEN fr.items[k] ELSE Null

(* Animations that come where there was nothing leave everything else in   *)
(* place, whether the call goes on to the next entry or ends.              *)
LEMMA MergingKeepsPlaces ==
  ASSUME NEW fr, FrameOK(fr), fr.next \in DOMAIN fr.entries, NEW e, e = fr.entries[fr.next],
         e.type = "PaletteAnim", e.file.content.kind = "items",
         NEW it, IsSeq(it), DOMAIN fr.items \subseteq DOMAIN it,
         NEW ours, ours \subseteq DOMAIN it, Merges(fr, e, it, ours)
  PROVE  /\ FilesInPlace([entries |-> fr.entries, next |-> fr.next, items |-> it])
         /\ FrameOK(After(fr, it))
<1> USE DEF Merges
<1> DEFINE j   == fr.next
           new(nx) == [entries |-> fr.entries, next |-> nx, items |-> it]
           E_(n) == fr.entries[n]
<1>0. /\ j \in Nat \ {0} /\ e = E_(j) /\ j \in DOMAIN fr.entries
      /\ Len(fr.items) \in Nat /\ DOMAIN fr.items = 1..Len(fr.items)
      /\ 1..(j - 1) \subseteq DOMAIN fr.entries /\ 1..j = 1..(j - 1) \cup {j}
      /\ \A n \in 1..(j - 1) : E_(n).file.id # e.file.id /\ E_(n).file.id # "none"
  <2>1. \A n \in 1..(j - 1) : n # j /\ n \in DOMAIN fr.entries
    BY FrameFacts
  <2>2. \A n \in DOMAIN fr.entries : E_(n).file.id # "none"
    BY FrameFacts DEF EntryOK
  <2>3. 1..j = 1..(j - 1) \cup {j} /\ j \in Nat \ {0}
    BY FrameFacts
  <2> QED BY <2>1, <2>2, <2>3, FrameFacts DEF FrameOK, ShapeOK, EntriesOK
<1>1. ~MakesItem(e) /\ ~Names(e)
  BY DEF MakesItem, Names, BitmapTypes
<1>2. \A n \in 1..(j - 1), k \in DOMAIN it :
        Holds(it, k, E_(n)) <=> k \in DOMAIN fr.items /\ Holds(fr.items, k, E_(n))
  <2> SUFFICES ASSUME NEW n \in 1..(j - 1), NEW k \in DOMAIN it
               PROVE  Holds(it, k, E_(n)) <=> k \in DOMAIN fr.items /\ Holds(fr.items, k, E_(n))
    OBVIOUS
  <2>1. CASE k \in ours
    <3>1. ~Holds(it, k, E_(n))
      BY <2>1, <1>0 DEF Holds
    <3>2. k \in DOMAIN fr.items => fr.items[k] = Null
      BY <2>1 DEF FrameOK, SourcesOK
    <3> QED BY <3>1, <3>2, <1>0, NullFacts DEF Holds
  <2>2. CASE k \notin ours
    BY <2>2, <1>0, NullFacts DEF Holds
  <2> QED BY <2>1, <2>2
<1>3. SourcesOK(fr) /\ NumberedInPlace(fr) /\ NamedInPlace(fr)
  BY InPlaceParts DEF FrameOK
<1>4. ASSUME NEW nx \in {j, j + 1}
      PROVE  FilesInPlace(new(nx))
  <2> DEFINE B == 1..(nx - 1)
  <2>0. /\ new(nx).entries = fr.entries /\ new(nx).next = nx /\ new(nx).items = it
        /\ 1..(j - 1) \subseteq B /\ \A n \in B : n = j \/ n \in 1..(j - 1)
    BY <1>0
  <2> HIDE DEF new, B
  <2>1. \A n \in 1..(j - 1) : Places(new(nx), n) = Places(fr, n)
    BY <1>2, <2>0 DEF Places
  <2>2. NumberedInPlace(new(nx))
    <3> SUFFICES ASSUME NEW n \in B, E_(n).nr >= 0, MakesItem(E_(n)), IsLastOfNumber(new(nx), n)
                 PROVE  Places(new(nx), n) = {E_(n).nr + 1}
      BY <2>0 DEF NumberedInPlace, B
    <3>1. n \in 1..(j - 1)
      BY <1>0, <1>1, <2>0
    <3>2. IsLastOfNumber(fr, n)
      BY <2>0 DEF IsLastOfNumber, B
    <3> QED BY <3>1, <3>2, <2>1, <1>3 DEF NumberedInPlace
  <2>3. NamedInPlace(new(nx))
    <3> SUFFICES ASSUME NEW n \in B, E_(n).nr < 0, MakesItem(E_(n))
                 PROVE  /\ Cardinality(Places(new(nx), n)) = 1
                        /\ \A m \in 1..(n - 1), k \in Places(new(nx), n) : \A l \in Places(new(nx), m) : l < k
                        /\ \A m \in B, k \in Places(new(nx), n) : Names(E_(m)) => E_(m).nr + 1 < k
      BY <2>0 DEF NamedInPlace, B
    <3>1. n \in 1..(j - 1)
      BY <1>0, <1>1, <2>0
    <3>2. \A m \in 1..(n - 1) : m \in 1..(j - 1)
      BY <3>1, <1>0
    <3>3. \A m \in B : Names(E_(m)) => m \in 1..(j - 1)
      BY <1>0, <1>1, <2>0
    <3> QED BY <3>1, <3>2, <3>3, <2>1, <1>3 DEF NamedInPlace
  <2>4. NothingElse(new(nx))
    <3> SUFFICES ASSUME NEW k \in DOMAIN it, ~IsNull(it[k])
                 PROVE  \/ \E n \in B : MakesItem(E_(n)) /\ k \in Places(new(nx), n)
                        \/ \E n \in DOMAIN fr.entries :
                             /\ E_(n).type = "PaletteAnim" /\ Holds(it, k, E_(n))
                             /\ k \in DOMAIN E_(n).file.content.items
                             /\ ~IsNull(E_(n).file.content.items[k])
      BY <2>0 DEF NothingElse, B
    <3>1. CASE k \in ours
      BY <3>1, <1>0 DEF Holds
    <3>2. CASE k \notin ours
      <4>1. k \in DOMAIN fr.items /\ it[k] = fr.items[k]
        BY <3>2, NullFacts
      <4>2. PICK n \in 1..(j - 1) :
              /\ Holds(fr.items, k, E_(n))
              /\ \/ MakesItem(E_(n))
                 \/ /\ E_(n).type = "PaletteAnim" /\ k \in DOMAIN E_(n).file.content.items
                    /\ ~IsNull(E_(n).file.content.items[k])
        BY <4>1, <1>3 DEF SourcesOK
      <4>3. k \in Places(fr, n)
        BY <4>1, <4>2 DEF Places
      <4> QED BY <4>1, <4>2, <4>3, <2>0, <2>1, <1>0, <1>2
    <3> QED BY <3>1, <3>2
  <2> QED BY <2>2, <2>3, <2>4, InPlaceParts
<1>5. ASSUME NEW nw, nw = After(fr, it) PROVE FrameOK(nw)
  <2>0. /\ nw = [entries |-> nw.entries, next |-> nw.next, items |-> nw.items]
        /\ nw.entries = fr.entries /\ nw.items = it /\ nw.next = j + 1 /\ nw.next - 1 = j
    BY <1>5, <1>0 DEF After
  <2>1. ShapeOK(nw)
    BY <2>0, <1>0, FrameFacts DEF ShapeOK, FrameOK
  <2>2. SourcesOK(nw)
    <3> SUFFICES ASSUME NEW k \in DOMAIN it
                 PROVE  IF IsNull(it[k]) THEN it[k] = Null
                        ELSE \E n \in 1..j :
                               /\ Holds(it, k, E_(n))
                               /\ \/ /\ MakesItem(E_(n)) /\ (E_(n).nr >= 0 => k = E_(n).nr + 1)
                                     /\ E_(n).type = "Palette" /\ AsNamed(E_(n)) => it[k].type = "Palette"
                                  \/ /\ E_(n).type = "PaletteAnim" /\ k \in DOMAIN E_(n).file.content.items
                                     /\ ~IsNull(E_(n).file.content.items[k])
                                     /\ AsNamed(E_(n)) => it[k].type = "PaletteAnim"
      BY <2>0 DEF SourcesOK
    <3>1. CASE k \in ours
      <4>1. j \in 1..j /\ Holds(it, k, E_(j)) /\ ~IsNull(it[k])
        BY <3>1, <1>0 DEF Holds
      <4>2. AsNamed(e) => it[k].type = "PaletteAnim"
        BY <3>1, NullFacts DEF AsNamed, IsNull
      <4> QED BY <4>1, <4>2, <3>1, <1>0
    <3>2. CASE k \notin ours /\ k \in DOMAIN fr.items
      <4>1. it[k] = fr.items[k]
        BY <3>2
      <4> QED BY <4>1, <3>2, <1>0, <1>2, <1>3 DEF SourcesOK
    <3>3. CASE k \notin ours /\ k \notin DOMAIN fr.items
      BY <3>3, NullFacts
    <3> QED BY <3>1, <3>2, <3>3
  <2>3. ReachesOK(nw)
    <3>1. Len(fr.items) =< Len(it) /\ Len(it) \in Nat
      <4>1. Len(it) \in Nat /\ DOMAIN it = 1..Len(it)
        BY SeqFacts
      <4> QED BY <4>1, <1>0
    <3> SUFFICES ASSUME NEW n \in 1..j, Names(E_(n)) PROVE E_(n).nr < Len(it)
      BY <2>0 DEF ReachesOK
    <3>2. n \in 1..(j - 1)
      BY <1>0, <1>1
    <3>3. E_(n).nr < Len(fr.items) /\ E_(n).nr \in Int
      BY <3>2, <1>0, FrameFacts DEF FrameOK, ReachesOK, EntryOK
    <3> QED BY <3>1, <3>3, <1>0
  <2>4. HolesOK(nw)
    BY <2>0, <1>0 DEF HolesOK
  <2>6. EmptiedOK(nw)
    <3> SUFFICES ASSUME NEW n \in 1..j, Names(E_(n)), \A m \in 1..j : E_(m).type = "PaletteAnim" => m < n
                 PROVE  FALSE
      BY <2>0 DEF EmptiedOK
    <3>1. n \in 1..(j - 1) /\ j \in 1..j
      BY <1>0, <1>1
    <3> QED BY <3>1, <1>0
  <2>5. FilesInPlace(nw)
    BY <1>4, <1>5 DEF After
  <2> QED BY <2>1, <2>2, <2>3, <2>4, <2>5, <2>6 DEF FrameOK
<1> QED BY <1>4, <1>5
-------------------------------------------------------------------------------
(* Steps *)

LEMMA NewFrame ==
  ASSUME NEW F \in Folders, NEW s \in Sortings(F)
  PROVE  FrameOK(Frame(s))
<1> DEFINE fr == Frame(s)
<1>1. EntriesOK(s) /\ IsSeq(s) /\ Len(s) \in Nat
  BY SortedEntries, SeqFacts DEF EntriesOK
<1>2. IsSeq(<<>>) /\ Len(<<>>) = 0 /\ DOMAIN <<>> = {}
  <2>1. <<>> \in Seq({}) /\ Len(<<>>) = 0
    OBVIOUS
  <2>2. IsSeq(<<>>)
    BY <2>1, IsSeqIntro
  <2>3. \A k \in 1..0 : FALSE
    OBVIOUS
  <2> QED BY <2>1, <2>2, <2>3, SeqFacts
<1>3. /\ fr = [entries |-> s, next |-> 1, items |-> <<>>]
      /\ fr.entries = s /\ fr.next = 1 /\ fr.items = <<>> /\ 1..(fr.next - 1) = {}
  BY DEF Frame
<1> HIDE DEF fr
<1>4. ShapeOK(fr)
  BY <1>1, <1>2, <1>3 DEF ShapeOK
<1>5. SourcesOK(fr) /\ ReachesOK(fr) /\ HolesOK(fr) /\ EmptiedOK(fr)
  BY <1>2, <1>3 DEF SourcesOK, ReachesOK, HolesOK, EmptiedOK
<1>6. NumberedInPlace(fr) /\ NamedInPlace(fr) /\ NothingElse(fr)
  BY <1>2, <1>3 DEF NumberedInPlace, NamedInPlace, NothingElse
<1> QED BY <1>4, <1>5, <1>6, InPlaceParts DEF FrameOK, fr

(* The call on top. *)
LEMMA TopFacts ==
  ASSUME RunOK
  PROVE  /\ Len(stack) \in Nat \ {0} /\ DOMAIN stack = 1..Len(stack) /\ IsSeq(stack)
         /\ Top = stack[Len(stack)] /\ FrameOK(Top)
         /\ Top = [entries |-> Top.entries, next |-> Top.next, items |-> Top.items]
<1>1. IsSeq(stack) /\ stack # <<>>
  BY DEF RunOK
<1>2. Len(stack) \in Nat /\ DOMAIN stack = 1..Len(stack) /\ stack = [k \in 1..Len(stack) |-> stack[k]]
  BY <1>1, SeqFacts
<1>3. Len(stack) # 0
  BY <1>1 DEF IsSeq
<1>4. Top = stack[Len(stack)]
  BY DEF Top, Last
<1>5. FrameOK(Top)
  BY <1>2, <1>3, <1>4 DEF RunOK
<1> QED BY <1>1, <1>2, <1>3, <1>4, <1>5 DEF FrameOK, ShapeOK

LEMMA PlacesFromFrames ==
  ASSUME RunOK
  PROVE  ArchiveFollowsNames
BY DEF RunOK, ArchiveFollowsNames, FrameOK

LEMMA GoesKeepsInv ==
  ASSUME FInv, phase = "running", NEW items, FrameOK(After(Top, items)), Goes(items)
  PROVE  FInv'
<1> DEFINE nw == After(Top, items)
<1>1. RunOK
  BY DEF FInv
<1>3. stack' = [stack EXCEPT ![Len(stack)] = nw]
  BY DEF Goes
<1>2. FrameOK(nw)
  OBVIOUS
<1> HIDE DEF nw
<1>4. /\ IsSeq(stack') /\ Len(stack') = Len(stack)
      /\ \A d \in DOMAIN stack : stack'[d] = IF d = Len(stack) THEN nw ELSE stack[d]
  <2>1. IsSeq(stack) /\ Len(stack) \in DOMAIN stack
    BY <1>1, TopFacts
  <2>2. /\ IsSeq([stack EXCEPT ![Len(stack)] = nw])
        /\ Len([stack EXCEPT ![Len(stack)] = nw]) = Len(stack)
        /\ \A d \in DOMAIN stack :
             [stack EXCEPT ![Len(stack)] = nw][d] = IF d = Len(stack) THEN nw ELSE stack[d]
    BY <2>1, ExceptFacts, Zenon
  <2> QED BY <2>2, <1>3
<1>5. DOMAIN stack' = DOMAIN stack /\ stack' # <<>>
  BY <1>1, <1>4, TopFacts, SeqFacts
<1>6. RunOK'
  BY <1>1, <1>2, <1>4, <1>5, TopFacts DEF RunOK
<1>7. folder' = folder /\ phase' = phase
  BY DEF Goes
<1> QED BY <1>6, <1>7, PlacesFromFrames DEF FInv, CrashNeedsHole, ArchiveFollowsNames, RunOK, FrameOK

LEMMA EndsKeepsInv ==
  ASSUME FInv, phase = "running", NEW items, NEW how \in {"done", "threw"}, NEW c,
         FilesInPlace([entries |-> Top.entries, next |-> Top.next, items |-> items]),
         Ends(items, how, c)
  PROVE  FInv'
<1> DEFINE last == [entries |-> Top.entries, next |-> Top.next, items |-> items]
<1>1. RunOK
  BY DEF FInv
<1>2. [Top EXCEPT !.items = items] = last
  BY <1>1, TopFacts
<1>3. stack' = <<last>> \/ stack' = <<stack[1]>>
  BY <1>2 DEF Ends
<1>4. FilesInPlace(stack[1])
  BY <1>1, TopFacts DEF RunOK, FrameOK
<1> HIDE DEF last
<1>5. ArchiveFollowsNames'
  <2>1. PICK fr : stack' = <<fr>> /\ FilesInPlace(fr)
    BY <1>3, <1>4 DEF last
  <2>2. \A d \in DOMAIN stack' : FilesInPlace(stack'[d])
    BY <2>1
  <2> QED BY <2>2 DEF ArchiveFollowsNames
<1> QED BY <1>5 DEF FInv, Ends, CrashNeedsHole

LEMMA FailsKeepsInv ==
  ASSUME FInv, phase = "running", NEW how \in {"done", "threw"}, NEW c, Ends(Items, how, c)
  PROVE  FInv'
<1>1. RunOK
  BY DEF FInv
<1>2. FilesInPlace([entries |-> Top.entries, next |-> Top.next, items |-> Items])
  BY <1>1, TopFacts DEF FrameOK, Items
<1> QED BY <1>2, EndsKeepsInv

(* The entry that is loaded. *)
LEMMA EntryFound ==
  ASSUME FInv, NEW types, Running(types)
  PROVE  /\ RunOK /\ phase = "running" /\ FrameOK(Top)
         /\ Top.next \in DOMAIN Top.entries /\ E = Top.entries[Top.next] /\ EntryOK(E)
         /\ E.type \in types
<1>1. RunOK /\ phase = "running" /\ E.type \in types /\ Top.next =< Len(Top.entries)
  BY DEF FInv, Running
<1>2. FrameOK(Top)
  BY <1>1, TopFacts
<1>3. Top.next \in DOMAIN Top.entries /\ EntryOK(Top.entries[Top.next])
  BY <1>1, <1>2, FrameFacts
<1> QED BY <1>1, <1>2, <1>3 DEF E

(* The item of an entry is stored, or nothing. *)
LEMMA StoreKeepsInv ==
  ASSUME FInv, NEW types, Running(types), NEW x, IsItemOf(E, x),
         Goes(Stored(Items, E, x))
  PROVE  FInv'
<1>1. RunOK /\ phase = "running" /\ FrameOK(Top) /\ Top.next \in DOMAIN Top.entries /\ E = Top.entries[Top.next]
  BY EntryFound
<1>2. FrameOK(After(Top, Stored(Top.items, E, x)))
  BY <1>1, StoringKeepsFrame
<1>3. FrameOK(After(Top, Stored(Items, E, x)))
  BY <1>2 DEF Items
<1> QED BY <1>1, <1>3, GoesKeepsInv

(* Nothing is stored, and the entry has no item. *)
LEMMA CrashKeepsInv ==
  ASSUME FInv, phase = "running", Crashes,
         \/ E.type \in BitmapTypes /\ Len(Tmp) = 1 /\ IsNull(Tmp[1])
         \/ \E n \in 1..(Top.next - 1) :
              LET e == Top.entries[n]
              IN e.type = "PaletteAnim" \/ (e.nr = E.nr /\ E.nr >= 0 /\ ~MakesItem(e))
  PROVE  FInv'
<1>1. UNCHANGED <<folder, stack>> /\ phase' = "crashed"
  BY DEF Crashes
<1>2. UNCHANGED <<Top, E, Tmp>>
  BY <1>1 DEF Top, E, Tmp
<1>3. CrashNeedsHole'
  BY <1>1, <1>2 DEF CrashNeedsHole, Tmp
<1> QED BY <1>1, <1>3 DEF FInv, ArchiveFollowsNames

(* A slot that is empty at the number of an entry: no entry of a greater   *)
(* number and none without a number came before, so one of its own number  *)
(* has left it empty, unless there were animations.                        *)
LEMMA NullNeedsHole ==
  ASSUME FInv, NEW types, Running(types), NullAtNumber(Items, E)
  PROVE  \E n \in 1..(Top.next - 1) :
           LET e == Top.entries[n]
           IN e.type = "PaletteAnim" \/ (e.nr = E.nr /\ E.nr >= 0 /\ ~MakesItem(e))
<1>1. FrameOK(Top) /\ Top.next \in DOMAIN Top.entries /\ E = Top.entries[Top.next] /\ EntryOK(E)
  BY EntryFound
<1> DEFINE k == E.nr + 1
<1>2. /\ Len(Items) \in Nat /\ DOMAIN Items = 1..Len(Items)
      /\ 1..(Top.next - 1) \subseteq DOMAIN Top.entries /\ Top.next \in Nat
      /\ \A n \in DOMAIN Top.entries : Top.entries[n].nr \in Int
  BY <1>1, FrameFacts DEF Items, EntryOK
<1>3. E.nr >= 0 /\ k \in DOMAIN Top.items /\ IsNull(Top.items[k]) /\ E.nr \in Int
  BY <1>1, <1>2 DEF NullAtNumber, Items, EntryOK
<1>4. \A n \in 1..(Top.next - 1) : Top.entries[n].nr >= 0 /\ Top.entries[n].nr =< E.nr
  <2>1. \A m, n \in DOMAIN Top.entries :
          m < n /\ Top.entries[n].nr >= 0 => Top.entries[m].nr >= 0 /\ Top.entries[m].nr =< Top.entries[n].nr
    BY <1>1 DEF FrameOK, ShapeOK, EntriesOK
  <2>2. \A n \in 1..(Top.next - 1) : n \in DOMAIN Top.entries /\ n < Top.next
    BY <1>2
  <2> QED BY <2>1, <2>2, <1>1, <1>3
<1>5. CASE \E n \in 1..(Top.next - 1) : Top.entries[n].type = "PaletteAnim"
  BY <1>5
<1>6. CASE ~ \E n \in 1..(Top.next - 1) : Top.entries[n].type = "PaletteAnim"
  <2>1. PICK n \in 1..(Top.next - 1) :
          \/ Top.entries[n].nr < 0 \/ Top.entries[n].nr >= k
          \/ Top.entries[n].nr = k - 1 /\ ~MakesItem(Top.entries[n])
    BY <1>1, <1>3, <1>6 DEF FrameOK, HolesOK
  <2>2. Top.entries[n].nr \in Int
    BY <1>2
  <2>3. Top.entries[n].nr = E.nr /\ ~MakesItem(Top.entries[n])
    BY <2>1, <2>2, <1>3, <1>4
  <2> QED BY <2>3, <1>3
<1> QED BY <1>5, <1>6
-------------------------------------------------------------------------------
(* Each action *)

LEMMA CallStep == ASSUME FInv, Call PROVE FInv'
<1>1. phase = "call" /\ stack = <<>> /\ folder \in Folders /\ folder' = folder
  BY DEF FInv, Call
<1>2. CASE phase' = "threw" /\ UNCHANGED stack
  BY <1>1, <1>2 DEF FInv, ArchiveFollowsNames, CrashNeedsHole
<1>3. CASE phase' = "running" /\ \E s \in Sortings(folder) : stack' = <<Frame(s)>>
  <2>1. PICK s \in Sortings(folder) : stack' = <<Frame(s)>>
    BY <1>3
  <2>2. FrameOK(Frame(s))
    BY <1>1, NewFrame
  <2>3. stack' \in Seq({Frame(s)}) /\ Len(stack') = 1 /\ stack' # <<>>
    BY <2>1
  <2>4. IsSeq(stack')
    BY <2>3, IsSeqIntro
  <2>5. RunOK'
    <3>1. \A d \in DOMAIN stack' : FrameOK(stack'[d])
      BY <2>1, <2>2
    <3>2. 1..(Len(stack') - 1) = {}
      BY <2>3
    <3> QED BY <2>3, <2>4, <3>1, <3>2 DEF RunOK
  <2>6. ArchiveFollowsNames'
    BY <2>5 DEF RunOK, ArchiveFollowsNames, FrameOK
  <2> QED BY <1>1, <1>3, <2>5, <2>6 DEF FInv, CrashNeedsHole
<1> QED BY <1>2, <1>3 DEF Call

LEMMA IgnoredKeepsFrame ==
  ASSUME NEW fr, FrameOK(fr), fr.next \in DOMAIN fr.entries, fr.entries[fr.next].type = "Unset"
  PROVE  FrameOK(After(fr, fr.items))
<1> DEFINE j   == fr.next
           new == After(fr, fr.items)
           E_(n) == fr.entries[n]
<1>0. /\ j \in Nat \ {0} /\ j \in DOMAIN fr.entries
      /\ 1..(j - 1) \subseteq DOMAIN fr.entries /\ 1..j = 1..(j - 1) \cup {j}
      /\ ~Names(E_(j)) /\ ~MakesItem(E_(j))
  BY FrameFacts DEF Names, MakesItem, BitmapTypes
<1>1. /\ new = [entries |-> new.entries, next |-> new.next, items |-> new.items]
      /\ new.entries = fr.entries /\ new.items = fr.items /\ new.next = j + 1 /\ new.next - 1 = j
  BY <1>0 DEF After
<1> HIDE DEF new
<1>2. ShapeOK(new)
  BY <1>0, <1>1, FrameFacts DEF ShapeOK, FrameOK
<1>3. SourcesOK(new)
  BY <1>0, <1>1 DEF SourcesOK, FrameOK
<1>4. ReachesOK(new)
  BY <1>0, <1>1 DEF ReachesOK, FrameOK
<1>5. HolesOK(new)
  BY <1>0, <1>1 DEF HolesOK, FrameOK
<1>11. EmptiedOK(new)
  BY <1>0, <1>1 DEF EmptiedOK, FrameOK
<1>6. NumberedInPlace(fr) /\ NamedInPlace(fr)
  BY InPlaceParts DEF FrameOK
<1>7. \A n : Places(new, n) = Places(fr, n)
  BY <1>1 DEF Places
<1>8. NumberedInPlace(new)
  BY <1>0, <1>1, <1>6, <1>7 DEF NumberedInPlace, IsLastOfNumber
<1>9. NamedInPlace(new)
  BY <1>0, <1>1, <1>6, <1>7 DEF NamedInPlace
<1>10. NothingElse(new)
  BY <1>0, <1>1, <1>3, SourcesAreAll
<1> QED BY <1>2, <1>3, <1>4, <1>5, <1>8, <1>9, <1>10, <1>11, InPlaceParts DEF FrameOK, new

LEMMA IgnoreStep == ASSUME FInv, Ignore PROVE FInv'
<1>1. Running({"Unset"}) /\ Goes(Items)
  BY DEF Ignore
<1>2. /\ phase = "running" /\ FrameOK(Top) /\ Top.next \in DOMAIN Top.entries
      /\ Top.entries[Top.next].type = "Unset"
  BY <1>1, EntryFound
<1>3. FrameOK(After(Top, Items))
  BY <1>2, IgnoredKeepsFrame DEF Items
<1> QED BY <1>1, <1>2, <1>3, GoesKeepsInv

LEMMA EmptyEntryStep == ASSUME FInv, EmptyEntry PROVE FInv'
<1>1. Running({"None"}) /\ Goes(Stored(Items, E, Null))
  BY DEF EmptyEntry
<1>2. E.type = "None"
  BY <1>1, EntryFound
<1>3. IsItemOf(E, Null)
  BY <1>2 DEF IsItemOf, Names, MakesItem, BitmapTypes
<1> QED BY <1>1, <1>3, StoreKeepsInv

LEMMA NullPaletteStep == ASSUME FInv, NullPalette PROVE FInv'
<1>1. Running(LoadedTypes) /\ NullAtNumber(Items, E) /\ Crashes
  BY DEF NullPalette
<1>2. phase = "running"
  BY <1>1, EntryFound
<1> QED BY <1>1, <1>2, NullNeedsHole, CrashKeepsInv

LEMMA LoadFailsStep == ASSUME FInv, LoadFails PROVE FInv'
<1>1. PICK c : phase = "running" /\ Ends(Items, "done", c)
  BY DEF LoadFails, Fails, Running
<1> QED BY <1>1, FailsKeepsInv

LEMMA StoreBitmapStep ==
  ASSUME FInv, Running(BitmapTypes), NEW own, StoreBitmap(own)
  PROVE  FInv'
<1> DEFINE x == [type |-> E.type, src |-> E.file.id,
                 own |-> IF own = NoPal THEN CurPal ELSE own, glyphs |-> <<>>]
<1>0. E.type \in BitmapTypes /\ phase = "running"
  BY EntryFound
<1>1. IsItemOf(E, x)
  BY <1>0 DEF IsItemOf, Names, MakesItem, IsNull, BitmapTypes
<1>2. CASE ~OriginOK
  <2>1. Ends(Items, "done", "CUSTOM + 1")
    BY <1>2 DEF StoreBitmap, Fails
  <2> QED BY <2>1, <1>0, FailsKeepsInv
<1>3. CASE OriginOK
  <2>1. Goes(Stored(Items, E, x))
    BY <1>3 DEF StoreBitmap
  <2> HIDE DEF x
  <2> QED BY <2>1, <1>1, StoreKeepsInv
<1> QED BY <1>2, <1>3

LEMMA TakeBitmapStep == ASSUME FInv, TakeBitmap PROVE FInv'
<1>1. Running(BitmapTypes) /\ StoreBitmap(Tmp[1].own)
  BY DEF TakeBitmap, Loads
<1> QED BY <1>1, StoreBitmapStep

LEMMA ConvertBitmapStep == ASSUME FInv, ConvertBitmap PROVE FInv'
<1>1. Running(BitmapTypes)
  BY DEF ConvertBitmap, Loads
<1>2. phase = "running"
  BY <1>1, EntryFound
<1>3. \/ Ends(Items, "done", "PALETTE_MISSING")
      \/ Ends(Items, "threw", "none")
      \/ StoreBitmap(NoPal)
  BY DEF ConvertBitmap, Fails
<1> QED BY <1>1, <1>2, <1>3, FailsKeepsInv, StoreBitmapStep

LEMMA NoBitmapStep == ASSUME FInv, NoBitmap PROVE FInv'
<1>1. Running(BitmapTypes)
  BY DEF NoBitmap, Loads
<1>2. phase = "running" /\ E.type \in BitmapTypes
  BY <1>1, EntryFound
<1>3. CASE Len(Tmp) = 1 /\ IsNull(Tmp[1])
  BY <1>2, <1>3, CrashKeepsInv DEF NoBitmap
<1>4. CASE ~(Len(Tmp) = 1 /\ IsNull(Tmp[1]))
  <2>1. Ends(Items, "done", "UNSUPPORTED_FORMAT")
    BY <1>4 DEF NoBitmap, Fails
  <2> QED BY <2>1, <1>2, FailsKeepsInv
<1> QED BY <1>3, <1>4

(* A palette, a text or a sound is stored as an item of its entry. *)
LEMMA TakenIsItem ==
  ASSUME FInv, TakeItem, Len(Tmp) = 1
  PROVE  IsItemOf(E, FromFile(Tmp[1]))
<1> DEFINE T == {"Palette", "Text", "Sound"}
<1>1. Running(T)
  BY DEF TakeItem, Loads
<1>2. phase = "running" /\ E.type \in T
  BY <1>1, EntryFound
<1>3. Names(E) /\ (MakesItem(E) <=> ~IsNull(Tmp[1]))
  BY <1>2 DEF Names, MakesItem, BitmapTypes, Tmp
<1>4. IF MakesItem(E) THEN ~IsNull(FromFile(Tmp[1])) /\ FromFile(Tmp[1]).src = E.file.id
      ELSE FromFile(Tmp[1]) = Null
  BY <1>3, FromFileFacts
<1>5. MakesItem(E) /\ E.type = "Palette" /\ AsNamed(E) => FromFile(Tmp[1]).type = "Palette"
  <2>1. E.file.content.kind = "items" /\ EntryOK(E)
    BY <1>1, EntryFound DEF TakeItem, Loads
  <2>2. 1 \in DOMAIN Tmp
    BY <2>1, SeqFacts DEF EntryOK, Tmp
  <2> QED BY <2>1, <2>2, <1>3, FromFileFacts DEF AsNamed, Tmp, IsNull
<1> QED BY <1>3, <1>4, <1>5 DEF IsItemOf

LEMMA TakeItemStep == ASSUME FInv, TakeItem PROVE FInv'
<1>1. Running({"Palette", "Text", "Sound"})
  BY DEF TakeItem, Loads
<1>2. phase = "running"
  BY <1>1, EntryFound
<1>3. \/ Ends(Items, "done", "UNSUPPORTED_FORMAT")
      \/ IsItemOf(E, FromFile(Tmp[1])) /\ Goes(Stored(Items, E, FromFile(Tmp[1])))
  BY TakenIsItem DEF TakeItem, Fails
<1> QED BY <1>1, <1>2, <1>3, FailsKeepsInv, StoreKeepsInv

(* What the animations of a file leave is a merge. *)
LEMMA AnimsMerge ==
  ASSUME FInv, MergeAnims
  PROVE  \E it, ours :
           /\ IsSeq(it) /\ DOMAIN Top.items \subseteq DOMAIN it /\ ours \subseteq DOMAIN it
           /\ Merges(Top, E, it, ours)
           /\ Goes(it) \/ Ends(it, "done", "UNSUPPORTED_FORMAT")
<1> DEFINE clash  == Clashes(Items, Tmp)
           upto   == IF clash = {} THEN Len(Tmp) ELSE Min(clash) - 1
           ours   == {k \in 1..upto : ~IsNull(Tmp[k])}
           merged == [k \in 1..Max(ours \cup {Len(Items)}) |->
                        IF k \in ours THEN FromFile(Tmp[k]) ELSE At(Items, k - 1)]
<1>1. Running({"PaletteAnim"}) /\ E.file.content.kind = "items"
  BY DEF MergeAnims, Loads
<1>2. EntryOK(E) /\ FrameOK(Top)
  BY <1>1, EntryFound
<1>3. IsSeq(Tmp) /\ IsSeq(Items)
  BY <1>1, <1>2, FrameFacts DEF EntryOK, Tmp, Items
<1>4. \/ Goes(merged)
      \/ Ends(merged, "done", "UNSUPPORTED_FORMAT")
  BY DEF MergeAnims
<1>5. /\ IsSeq(merged) /\ DOMAIN Items \subseteq DOMAIN merged /\ ours \subseteq DOMAIN merged
      /\ \A k \in ours : k \in DOMAIN Tmp /\ ~IsNull(Tmp[k]) /\ (k \in DOMAIN Items => IsNull(Items[k]))
      /\ \A k \in DOMAIN merged :
           merged[k] = IF k \in ours THEN FromFile(Tmp[k])
                       ELSE IF k \in DOMAIN Items THEN Items[k] ELSE Null
  BY <1>3, MergeFacts
<1> HIDE DEF merged, ours
<1>6. \A k \in ours :
        /\ ~IsNull(merged[k]) /\ merged[k].src = E.file.id
        /\ k \in DOMAIN E.file.content.items /\ ~IsNull(E.file.content.items[k])
        /\ k \in DOMAIN Top.items => IsNull(Top.items[k])
        /\ merged[k].type = E.file.content.items[k].type
  <2> SUFFICES ASSUME NEW k \in ours
               PROVE  /\ ~IsNull(merged[k]) /\ merged[k].src = E.file.id
                      /\ k \in DOMAIN Tmp /\ ~IsNull(Tmp[k])
                      /\ k \in DOMAIN Items => IsNull(Items[k])
                      /\ merged[k].type = Tmp[k].type
    BY DEF Tmp, Items
  <2>1. merged[k] = FromFile(Tmp[k]) /\ ~IsNull(Tmp[k])
    BY <1>5
  <2> QED BY <2>1, <1>5, FromFileFacts
<1>7. \A k \in DOMAIN merged \ ours : merged[k] = IF k \in DOMAIN Top.items THEN Top.items[k] ELSE Null
  BY <1>5 DEF Items
<1>8. DOMAIN Top.items \subseteq DOMAIN merged
  BY <1>5 DEF Items
<1>9. Merges(Top, E, merged, ours)
  BY <1>6, <1>7 DEF Merges
<1> QED BY <1>4, <1>5, <1>8, <1>9

LEMMA MergeAnimsStep == ASSUME FInv, MergeAnims PROVE FInv'
<1>1. Running({"PaletteAnim"}) /\ E.file.content.kind = "items"
  BY DEF MergeAnims, Loads
<1>2. /\ phase = "running" /\ E.type = "PaletteAnim"
      /\ FrameOK(Top) /\ Top.next \in DOMAIN Top.entries /\ E = Top.entries[Top.next]
  BY <1>1, EntryFound
<1>3. PICK it, ours :
        /\ IsSeq(it) /\ DOMAIN Top.items \subseteq DOMAIN it /\ ours \subseteq DOMAIN it
        /\ Merges(Top, E, it, ours)
        /\ Goes(it) \/ Ends(it, "done", "UNSUPPORTED_FORMAT")
  BY AnimsMerge
<1>4. /\ FilesInPlace([entries |-> Top.entries, next |-> Top.next, items |-> it])
      /\ FrameOK(After(Top, it))
  <2>1. ASSUME NEW fr, fr = Top, NEW e, e = E
        PROVE  /\ FilesInPlace([entries |-> fr.entries, next |-> fr.next, items |-> it])
               /\ FrameOK(After(fr, it))
    <3>1. FrameOK(fr) /\ fr.next \in DOMAIN fr.entries /\ e = fr.entries[fr.next]
      BY <2>1, <1>2
    <3>2. e.type = "PaletteAnim" /\ e.file.content.kind = "items"
      BY <2>1, <1>1, <1>2
    <3>3. DOMAIN fr.items \subseteq DOMAIN it /\ Merges(fr, e, it, ours)
      BY <2>1, <1>3
    <3> QED BY <3>1, <3>2, <3>3, <1>3, MergingKeepsPlaces
  <2> QED BY <2>1
<1> QED BY <1>2, <1>3, <1>4, GoesKeepsInv, EndsKeepsInv

LEMMA FontFailsStep == ASSUME FInv, FontFails PROVE FInv'
<1>1. PICK c : phase = "running" /\ Ends(Items, "done", c)
  BY DEF FontFails, Fails, Running
<1> QED BY <1>1, FailsKeepsInv

LEMMA EnterFontStep == ASSUME FInv, EnterFont PROVE FInv'
<1>1. Running({"Font"}) /\ E.file.content.kind = "folder"
  BY DEF EnterFont
<1>2. /\ RunOK /\ phase = "running" /\ E.type = "Font" /\ EntryOK(E)
      /\ Top.next \in DOMAIN Top.entries /\ E = Top.entries[Top.next]
  BY <1>1, EntryFound
<1>3. CASE Ends(Items, "threw", "none")
  BY <1>2, <1>3, FailsKeepsInv
<1>4. CASE /\ \E s \in Sortings(E.file.content.files) : stack' = Append(stack, Frame(s))
           /\ UNCHANGED <<folder, default, phase, code>>
  <2>1. E.file.content.files \in Folders
    BY <1>1, <1>2 DEF EntryOK
  <2>2. PICK s \in Sortings(E.file.content.files) : stack' = Append(stack, Frame(s))
    BY <1>4
  <2>3. FrameOK(Frame(s))
    BY <2>1, NewFrame
  <2>4. /\ IsSeq(stack') /\ Len(stack') = Len(stack) + 1
        /\ \A d \in 1..Len(stack) : stack'[d] = stack[d]
        /\ stack'[Len(stack) + 1] = Frame(s)
    BY <1>2, <2>2, TopFacts, AppendFacts
  <2>5. /\ DOMAIN stack' = 1..(Len(stack) + 1) /\ stack' # <<>> /\ Len(stack) \in Nat \ {0}
        /\ DOMAIN stack = 1..Len(stack) /\ Top = stack[Len(stack)]
    BY <1>2, <2>4, TopFacts, SeqFacts
  <2>6. \A d \in DOMAIN stack' : FrameOK(stack'[d])
    <3>1. \A d \in DOMAIN stack' : d \in DOMAIN stack \/ d = Len(stack) + 1
      BY <2>5
    <3> QED BY <3>1, <2>3, <2>4, <2>5, <1>2 DEF RunOK
  <2>7. ASSUME NEW d \in 1..(Len(stack') - 1)
        PROVE  /\ stack'[d].next \in DOMAIN stack'[d].entries
               /\ stack'[d].entries[stack'[d].next].type = "Font"
    <3>0. Len(stack') - 1 = Len(stack) /\ Len(stack) \in Nat \ {0}
      BY <2>4, <2>5
    <3>1. d \in 1..Len(stack) /\ (d = Len(stack) \/ d \in 1..(Len(stack) - 1))
      BY <3>0
    <3> QED BY <3>1, <2>4, <2>5, <1>2 DEF RunOK
  <2>8. RunOK'
    BY <2>4, <2>5, <2>6, <2>7 DEF RunOK
  <2>9. ArchiveFollowsNames'
    BY <2>6 DEF ArchiveFollowsNames, FrameOK
  <2> QED BY <1>2, <1>4, <2>8, <2>9 DEF FInv, CrashNeedsHole
<1> QED BY <1>3, <1>4 DEF EnterFont

LEMMA FrontFacts ==
  ASSUME NEW s, IsSeq(s), Len(s) > 1
  PROVE  /\ IsSeq(Front(s)) /\ Len(Front(s)) = Len(s) - 1 /\ Len(s) - 1 \in Nat \ {0}
         /\ \A k \in 1..(Len(s) - 1) : Front(s)[k] = s[k]
<1> DEFINE S == Range(s)
<1>1. s \in Seq(S) /\ Len(s) \in Nat
  BY DEF IsSeq
<1> HIDE DEF S
<1>2. Front(s) = SubSeq(s, 1, Len(s) - 1)
  BY DEF Front
<1>3. /\ SubSeq(s, 1, Len(s) - 1) \in Seq(S) /\ Len(SubSeq(s, 1, Len(s) - 1)) = Len(s) - 1
      /\ \A k \in 1..(Len(s) - 1) : SubSeq(s, 1, Len(s) - 1)[k] = s[k]
  BY <1>1
<1>4. IsSeq(Front(s))
  BY <1>2, <1>3, IsSeqIntro
<1>5. \A n \in Nat : n > 1 => n - 1 \in Nat \ {0}
  OBVIOUS
<1> QED BY <1>1, <1>2, <1>3, <1>4, <1>5

LEMMA LeaveFontStep == ASSUME FInv, LeaveFont PROVE FInv'
<1> DEFINE below == Front(stack)
           fr    == Last(below)
           e     == fr.entries[fr.next]
           font  == [type |-> "Font", src |-> e.file.id, own |-> NoPal, glyphs |-> Items]
           nw    == After(fr, Stored(fr.items, e, font))
           L     == Len(stack) - 1
<1>1. /\ RunOK /\ phase = "running" /\ Len(stack) > 1
      /\ stack' = [below EXCEPT ![Len(below)] = nw]
      /\ UNCHANGED <<folder, default, phase, code>>
  BY DEF FInv, LeaveFont
<1>2. /\ IsSeq(below) /\ Len(below) = L /\ L \in Nat \ {0} /\ DOMAIN below = 1..L
      /\ \A d \in 1..L : below[d] = stack[d] /\ d \in DOMAIN stack
  <2>1. IsSeq(stack) /\ DOMAIN stack = 1..Len(stack) /\ Len(stack) \in Nat
    BY <1>1, TopFacts
  <2>2. /\ IsSeq(below) /\ Len(below) = L /\ L \in Nat \ {0}
        /\ \A d \in 1..L : below[d] = stack[d]
    BY <2>1, <1>1, FrontFacts
  <2> HIDE DEF below
  <2>3. DOMAIN below = 1..L
    BY <2>2, SeqFacts
  <2>4. \A d \in 1..L : d \in DOMAIN stack
    BY <2>1, <2>2
  <2> QED BY <2>2, <2>3, <2>4
<1>3. fr = stack[L] /\ L \in 1..L
  BY <1>2 DEF Last
<1>4. /\ FrameOK(fr) /\ fr.next \in DOMAIN fr.entries /\ e.type = "Font"
      /\ \A d \in 1..L : FrameOK(below[d])
      /\ \A d \in 1..L : /\ below[d].next \in DOMAIN below[d].entries
                         /\ below[d].entries[below[d].next].type = "Font"
  BY <1>1, <1>2, <1>3 DEF RunOK
<1>5. FrameOK(nw)
  <2>1. IsItemOf(e, font)
    BY <1>4 DEF IsItemOf, Names, MakesItem, IsNull, BitmapTypes
  <2>2. e = fr.entries[fr.next]
    OBVIOUS
  <2> HIDE DEF font, e, fr
  <2> QED BY <1>4, <2>1, <2>2, StoringKeepsFrame
<1> HIDE DEF nw, fr, below, e
<1>6. /\ IsSeq(stack') /\ Len(stack') = L
      /\ \A d \in 1..L : stack'[d] = IF d = L THEN nw ELSE below[d]
  <2>1. IsSeq(below) /\ L \in DOMAIN below /\ stack' = [below EXCEPT ![L] = nw]
    BY <1>1, <1>2
  <2>2. /\ IsSeq([below EXCEPT ![L] = nw]) /\ Len([below EXCEPT ![L] = nw]) = Len(below)
        /\ \A d \in DOMAIN below : [below EXCEPT ![L] = nw][d] = IF d = L THEN nw ELSE below[d]
    BY <2>1, ExceptFacts, Zenon
  <2> QED BY <2>1, <2>2, <1>2
<1>7. DOMAIN stack' = 1..L /\ stack' # <<>>
  BY <1>2, <1>6, SeqFacts
<1>8. RunOK'
  <2>1. \A d \in DOMAIN stack' : FrameOK(stack'[d])
    BY <1>4, <1>5, <1>6, <1>7
  <2>2. ASSUME NEW d \in 1..(Len(stack') - 1)
        PROVE  /\ stack'[d].next \in DOMAIN stack'[d].entries
               /\ stack'[d].entries[stack'[d].next].type = "Font"
    <3>1. d \in 1..L /\ d # L
      BY <1>2, <1>6
    <3> QED BY <3>1, <1>4, <1>6
  <2> QED BY <1>6, <1>7, <2>1, <2>2 DEF RunOK
<1>9. ArchiveFollowsNames'
  BY <1>8 DEF RunOK, ArchiveFollowsNames, FrameOK
<1> QED BY <1>1, <1>8, <1>9 DEF FInv, CrashNeedsHole

LEMMA FinishStep == ASSUME FInv, Finish PROVE FInv'
BY DEF FInv, Finish, ArchiveFollowsNames, CrashNeedsHole

-------------------------------------------------------------------------------
LEMMA InitFInv == Init => FInv
BY DEF Init, FInv, ArchiveFollowsNames, CrashNeedsHole

LEMMA StepFInv == FInv /\ [Next]_vars => FInv'
<1> SUFFICES ASSUME FInv, [Next]_vars PROVE FInv'
  OBVIOUS
<1>1. CASE UNCHANGED vars
  BY <1>1 DEF vars, FInv, RunOK, ArchiveFollowsNames, CrashNeedsHole, Top, E
<1>2. CASE Next
  BY <1>2, CallStep, IgnoreStep, EmptyEntryStep, NullPaletteStep, LoadFailsStep, TakeBitmapStep,
     ConvertBitmapStep, NoBitmapStep, MergeAnimsStep, TakeItemStep, FontFailsStep, EnterFontStep,
     LeaveFontStep, FinishStep DEF Next
<1> QED BY <1>1, <1>2

LEMMA FolderInvariant == Spec => []FInv
BY InitFInv, StepFInv, PTL DEF Spec

(* For folders of any files, nested to any depth, iterated in any order:   *)
(* wherever LoadFolder stops, the archive holds what the names of the      *)
(* files before ask for and nothing else.                                  *)
THEOREM FolderFollowsNames == Spec => []ArchiveFollowsNames
<1>1. FInv => ArchiveFollowsNames
  BY DEF FInv
<1> QED BY <1>1, FolderInvariant, PTL

(* LoadFolder follows a null pointer only where a file of the same number, *)
(* or animations, left a slot empty, or where the file of a bitmap loads   *)
(* as a null item.                                                         *)
THEOREM FolderCrashNeedsHole == Spec => []CrashNeedsHole
<1>1. FInv => CrashNeedsHole
  BY DEF FInv
<1> QED BY <1>1, FolderInvariant, PTL
-------------------------------------------------------------------------------
(* The palettes of bitmaps *)

(* PaletteOfName for one call. *)
PalOK(fr) ==
  \A n \in 1..(fr.next - 1) :
    /\ \A m \in DOMAIN fr.entries : AsNamed(fr.entries[m])
    /\ fr.entries[n].type \in BitmapTypes
    /\ fr.entries[n].nr >= 0 => Alone(fr, n)
    => \A k \in DOMAIN fr.items : Holds(fr.items, k, fr.entries[n]) => GetsPalette(fr, k, n)

LEMMA PaletteByFrames == PaletteOfName <=> \A d \in DOMAIN stack : PalOK(stack[d])
BY DEF PaletteOfName, PalOK

(* CurPal, for any call. *)
PalFor(items, e) ==
  LET near == IF e.nr >= 0 THEN At(items, e.nr) ELSE At(items, Len(items) - 1)
  IN IF items # <<>> /\ near.type = "Palette" THEN near.src ELSE default

LEMMA CurPalIs == CurPal = PalFor(Items, E)
BY DEF CurPal, PalFor

(* The entry right before in the order of the sort that is last of its     *)
(* number.                                                                 *)
LEMMA LastOfNumber ==
  ASSUME NEW fr, FrameOK(fr), NEW p \in 1..(fr.next - 1), Names(fr.entries[p])
  PROVE  \E q \in 1..(fr.next - 1) :
           Names(fr.entries[q]) /\ fr.entries[q].nr = fr.entries[p].nr /\ IsLastOfNumber(fr, q)
<1> DEFINE S == {m \in 1..(fr.next - 1) : Names(fr.entries[m]) /\ fr.entries[m].nr = fr.entries[p].nr}
<1>1. fr.next \in Nat /\ \A m \in 1..(fr.next - 1) : m \in Nat /\ m =< fr.next
  BY FrameFacts
<1>2. S \subseteq Nat /\ p \in S /\ \A m \in S : m =< fr.next
  BY <1>1
<1>3. Max(S) \in S /\ \A m \in S : m =< Max(S)
  <2> HIDE DEF S
  <2> QED BY <1>1, <1>2, MaxOfNats
<1>4. IsLastOfNumber(fr, Max(S))
  BY <1>3 DEF IsLastOfNumber
<1> QED BY <1>3, <1>4

(* A numbered bitmap is loaded with a palette of its number if there is    *)
(* one, and only then: the palettes come right before it in the sort.      *)
LEMMA NearPalette ==
  ASSUME NEW fr, FrameOK(fr), NEW j, j = fr.next, j \in DOMAIN fr.entries, NEW e, e = fr.entries[j],
         e.type \in BitmapTypes, e.nr >= 0, Alone(fr, j),
         \A m \in DOMAIN fr.entries : AsNamed(fr.entries[m]), ~NullAtNumber(fr.items, e)
  PROVE  IF PalettesOf(fr, j) = {} THEN PalFor(fr.items, e) = default
         ELSE PalFor(fr.items, e) \in PalettesOf(fr, j)
<1> DEFINE E_(n) == fr.entries[n]
           near  == At(fr.items, e.nr)
           IsPal(m) == E_(m).nr = E_(j).nr /\ E_(m).type = "Palette" /\ MakesItem(E_(m))
<1>1. /\ j \in Nat \ {0} /\ e.nr \in Int
      /\ Len(fr.items) \in Nat /\ DOMAIN fr.items = 1..Len(fr.items)
      /\ 1..(j - 1) \subseteq DOMAIN fr.entries
      /\ \A n \in DOMAIN fr.entries : E_(n).nr \in Int
      /\ \A n \in 1..(j - 1) : n < j
      /\ \A n \in DOMAIN fr.entries : n < j => n \in 1..(j - 1)
  BY FrameFacts DEF EntryOK
<1>2. /\ \A m, n \in DOMAIN fr.entries : E_(m).file.id = E_(n).file.id => m = n
      /\ \A m, n \in DOMAIN fr.entries : m < n /\ E_(n).nr >= 0 => E_(m).nr >= 0 /\ E_(m).nr =< E_(n).nr
      /\ \A m, n \in DOMAIN fr.entries :
           E_(m).nr = E_(n).nr /\ E_(n).nr >= 0 /\ E_(m).type = "Palette" /\ E_(n).type # "Palette" => m < n
  BY DEF FrameOK, ShapeOK, EntriesOK
<1>3. e.type # "Palette"
  BY DEF BitmapTypes
<1>4. \A m \in DOMAIN fr.entries : IsPal(m) => m \in 1..(j - 1)
  BY <1>1, <1>2, <1>3
<1>5. /\ \A m \in DOMAIN fr.entries : IsPal(m) => E_(m).file.id \in PalettesOf(fr, j)
      /\ PalettesOf(fr, j) # {} => \E m \in DOMAIN fr.entries : IsPal(m)
  BY DEF PalettesOf
<1>6. PalFor(fr.items, e) = IF fr.items # <<>> /\ near.type = "Palette" THEN near.src ELSE default
  BY DEF PalFor
<1>7. CASE ~(e.nr < Len(fr.items))
  <2>1. near = Null
    BY <1>7 DEF At
  <2>2. \A m \in DOMAIN fr.entries : ~IsPal(m)
    <3> SUFFICES ASSUME NEW m \in DOMAIN fr.entries, IsPal(m) PROVE FALSE
      OBVIOUS
    <3>1. m \in 1..(j - 1) /\ Names(E_(m))
      BY <1>4, MakersHaveNames
    <3>2. E_(m).nr < Len(fr.items)
      BY <3>1 DEF FrameOK, ReachesOK
    <3> QED BY <3>2, <1>1, <1>7
  <2> QED BY <2>1, <2>2, <1>5, <1>6, NullFacts
<1>8. CASE e.nr < Len(fr.items)
  <2> DEFINE k == e.nr + 1
  <2>1. near = fr.items[k] /\ k \in DOMAIN fr.items /\ fr.items # <<>>
    BY <1>1, <1>8 DEF At
  <2>2. ~IsNull(fr.items[k])
    <3>1. e.nr \in 0..(Len(fr.items) - 1)
      BY <1>1, <1>8
    <3> QED BY <3>1 DEF NullAtNumber
  <2>3. PICK n \in 1..(j - 1) :
          /\ Holds(fr.items, k, E_(n))
          /\ \/ /\ MakesItem(E_(n)) /\ (E_(n).nr >= 0 => k = E_(n).nr + 1)
                /\ E_(n).type = "Palette" /\ AsNamed(E_(n)) => fr.items[k].type = "Palette"
             \/ E_(n).type = "PaletteAnim" /\ (AsNamed(E_(n)) => fr.items[k].type = "PaletteAnim")
    BY <2>1, <2>2 DEF FrameOK, SourcesOK
  <2>4. n \in DOMAIN fr.entries /\ n < j /\ E_(n).nr \in Int /\ AsNamed(E_(n)) /\ E_(n).nr >= 0
    BY <1>1, <1>2
  <2>5. CASE MakesItem(E_(n)) /\ (E_(n).nr >= 0 => k = E_(n).nr + 1)
             /\ (E_(n).type = "Palette" => fr.items[k].type = "Palette")
    <3>1. E_(n).nr = E_(j).nr
      BY <2>4, <2>5, <1>1
    <3>2. E_(n).type \in {"Palette", "Unset"}
      BY <3>1, <2>4 DEF Alone
    <3>3. IsPal(n)
      BY <3>1, <3>2, <2>5 DEF MakesItem, BitmapTypes
    <3> QED BY <3>3, <2>1, <2>3, <2>4, <2>5, <1>5, <1>6 DEF Holds
  <2>6. CASE E_(n).type = "PaletteAnim" /\ fr.items[k].type = "PaletteAnim"
    <3>1. \A m \in DOMAIN fr.entries : ~IsPal(m)
      <4> SUFFICES ASSUME NEW p \in DOMAIN fr.entries, IsPal(p) PROVE FALSE
        OBVIOUS
      <4>1. p \in 1..(j - 1) /\ Names(E_(p))
        BY <1>4, MakersHaveNames
      <4>2. PICK q \in 1..(j - 1) : Names(E_(q)) /\ E_(q).nr = E_(p).nr /\ IsLastOfNumber(fr, q)
        BY <4>1, LastOfNumber
      <4>3. q \in DOMAIN fr.entries /\ q < j /\ E_(q).nr = e.nr /\ E_(q).nr >= 0
        BY <4>2, <1>1
      <4>4. E_(q).type = "Palette"
        BY <4>2, <4>3 DEF Alone, Names
      <4>5. CASE MakesItem(E_(q))
        <5>1. Places(fr, q) = {k}
          BY <4>2, <4>3, <4>5, InPlaceParts DEF FrameOK, NumberedInPlace
        <5>2. Holds(fr.items, k, E_(q))
          BY <5>1 DEF Places
        <5>3. q = n
          BY <5>2, <2>3, <2>4, <4>3, <1>2 DEF Holds
        <5> QED BY <5>3, <4>4, <2>6
      <4>6. CASE ~MakesItem(E_(q))
        <5>1. ASSUME NEW m \in 1..(j - 1), E_(m).type = "PaletteAnim", ~(m < q) PROVE FALSE
          <6>1. m \in DOMAIN fr.entries /\ m < j /\ q < m
            BY <5>1, <4>3, <4>4, <1>1
          <6>2. E_(m).nr = e.nr
            BY <6>1, <4>3, <1>1, <1>2
          <6> QED BY <6>1, <6>2, <5>1 DEF Alone
        <5>2. IsNull(fr.items[k])
          BY <5>1, <4>2, <4>3, <4>6 DEF FrameOK, EmptiedOK, IsLastOfNumber
        <5> QED BY <5>2, <2>2
      <4> QED BY <4>5, <4>6
    <3> QED BY <3>1, <2>1, <2>6, <1>5, <1>6
  <2> QED BY <2>3, <2>4, <2>5, <2>6
<1> QED BY <1>7, <1>8

(* The palette a bitmap is stored with. *)
PalGiven(fr, e, x) ==
  LET made == e.file.content.items[1]
  IN /\ ~NullAtNumber(fr.items, e)
     /\ x.own = IF made.type = e.type /\ made.own # NoPal THEN made.own ELSE PalFor(fr.items, e)

(* A bitmap that has been stored gets the palette of its name. *)
LEMMA StoredGetsPalette ==
  ASSUME NEW fr, FrameOK(fr), NEW j, j = fr.next, j \in DOMAIN fr.entries, NEW e, e = fr.entries[j],
         NEW x, IsItemOf(e, x), e.type \in BitmapTypes, PalGiven(fr, e, x),
         e.nr >= 0 => Alone(fr, j), \A m \in DOMAIN fr.entries : AsNamed(fr.entries[m]),
         NEW new, new = After(fr, Stored(fr.items, e, x)),
         NEW k \in DOMAIN new.items, Holds(new.items, k, e)
  PROVE  GetsPalette(new, k, j)
<1> DEFINE it   == Stored(fr.items, e, x)
           made == e.file.content.items[1]
           asked == IF e.nr >= 0 THEN PalettesOf(new, j)
                    ELSE IF k > 1 /\ it[k - 1].type = "Palette" THEN {it[k - 1].src} ELSE {}
<1>1. new.items = it /\ new.entries = fr.entries
  BY DEF After
<1> HIDE DEF it
<1>2. StoredIn(fr, e, x, it, Slot(fr, e))
  BY StoringOne DEF it
<1>3. k = Slot(fr, e) /\ it[k] = x
  BY <1>1, <1>2 DEF StoredIn
<1>4. e.nr \in Int /\ Len(fr.items) \in Nat /\ DOMAIN fr.items = 1..Len(fr.items)
  BY FrameFacts DEF EntryOK
<1>5. CASE made.type = e.type /\ made.own # NoPal
  BY <1>1, <1>3, <1>5 DEF GetsPalette, PalGiven
<1>6. CASE ~(made.type = e.type /\ made.own # NoPal)
  <2>1. x.own = PalFor(fr.items, e)
    BY <1>6 DEF PalGiven
  <2>2. IF asked = {} THEN x.own = default ELSE x.own \in asked
    <3>1. CASE e.nr >= 0
      <4>1. PalettesOf(new, j) = PalettesOf(fr, j)
        BY <1>1 DEF PalettesOf
      <4>2. ~NullAtNumber(fr.items, e)
        BY DEF PalGiven
      <4>3. IF PalettesOf(fr, j) = {} THEN PalFor(fr.items, e) = default
            ELSE PalFor(fr.items, e) \in PalettesOf(fr, j)
        BY <4>2, <3>1, NearPalette
      <4>4. asked = PalettesOf(fr, j)
        BY <4>1, <3>1
      <4> HIDE DEF asked
      <4> QED BY <4>3, <4>4, <2>1
    <3>2. CASE ~(e.nr >= 0)
      <4>1. k = Len(fr.items) + 1
        BY <3>2, <1>3 DEF Slot
      <4>2. CASE Len(fr.items) = 0
        <5>1. ~(k > 1) /\ fr.items = <<>>
          BY <4>1, <4>2, FrameFacts DEF IsSeq
        <5> QED BY <5>1, <3>2, <2>1 DEF PalFor
      <4>3. CASE Len(fr.items) # 0
        <5>1. k > 1 /\ k - 1 = Len(fr.items) /\ k - 1 \in DOMAIN fr.items /\ fr.items # <<>>
          BY <4>1, <4>3, <1>4
        <5>2. it[k - 1] = fr.items[k - 1]
          BY <5>1, <4>1, <1>2, <1>3, <1>4 DEF StoredIn
        <5>3. At(fr.items, Len(fr.items) - 1) = fr.items[k - 1]
          BY <5>1, <1>4 DEF At
        <5> QED BY <5>1, <5>2, <5>3, <3>2, <2>1 DEF PalFor
      <4> QED BY <4>2, <4>3
    <3> QED BY <3>1, <3>2
  <2>3. /\ new.entries[j] = e /\ new.items[k] = x /\ new.items = it
    BY <1>1, <1>3
  <2> QED BY <2>2, <2>3, <1>6 DEF GetsPalette
<1> QED BY <1>5, <1>6

(* A bitmap that was there before keeps the palette it was asked to have:  *)
(* the item before it does not become a palette, nor lose being one.       *)
LEMMA OlderKeepPalettes ==
  ASSUME NEW fr, FrameOK(fr), PalOK(fr), NEW new, new.entries = fr.entries, NEW n \in 1..(fr.next - 1),
         \A m \in DOMAIN fr.entries : AsNamed(fr.entries[m]), fr.entries[n].type \in BitmapTypes,
         fr.entries[n].nr >= 0 => Alone(fr, n),
         NEW k \in DOMAIN fr.items, Holds(fr.items, k, fr.entries[n]), new.items[k] = fr.items[k],
         fr.entries[n].nr < 0 /\ k > 1 =>
           \/ new.items[k - 1] = fr.items[k - 1]
           \/ fr.items[k - 1].type # "Palette" /\ new.items[k - 1].type # "Palette"
  PROVE  GetsPalette(new, k, n)
<1>1. GetsPalette(fr, k, n)
  BY DEF PalOK
<1>2. PalettesOf(new, n) = PalettesOf(fr, n)
  BY DEF PalettesOf
<1>3. fr.entries[n].nr \in Int
  BY FrameFacts DEF EntryOK
<1>4. (IF new.entries[n].nr >= 0 THEN PalettesOf(new, n)
        ELSE IF k > 1 /\ new.items[k - 1].type = "Palette" THEN {new.items[k - 1].src} ELSE {})
      = IF fr.entries[n].nr >= 0 THEN PalettesOf(fr, n)
        ELSE IF k > 1 /\ fr.items[k - 1].type = "Palette" THEN {fr.items[k - 1].src} ELSE {}
  BY <1>2, <1>3
<1> QED BY <1>1, <1>4 DEF GetsPalette

LEMMA StoringKeepsPalettes ==
  ASSUME NEW fr, FrameOK(fr), PalOK(fr), fr.next \in DOMAIN fr.entries, NEW e, e = fr.entries[fr.next],
         NEW x, IsItemOf(e, x), e.type \in BitmapTypes => PalGiven(fr, e, x)
  PROVE  PalOK(After(fr, Stored(fr.items, e, x)))
<1> DEFINE it  == Stored(fr.items, e, x)
           pos == Slot(fr, e)
           j   == fr.next
           new == After(fr, it)
<1>1. /\ new.entries = fr.entries /\ new.items = it /\ new.next - 1 = j
      /\ j \in Nat \ {0} /\ 1..j = 1..(j - 1) \cup {j}
  BY FrameFacts DEF After
<1>2. /\ Len(fr.items) \in Nat /\ DOMAIN fr.items = 1..Len(fr.items)
      /\ e.nr \in Int /\ \A n \in 1..(j - 1) : fr.entries[n].nr \in Int
      /\ \A n \in 1..(j - 1) : n < j /\ n \in DOMAIN fr.entries
  BY FrameFacts DEF EntryOK
<1>3. StoredIn(fr, e, x, it, pos)
  BY StoringOne
<1> SUFFICES ASSUME NEW n \in 1..j,
                    \A m \in DOMAIN fr.entries : AsNamed(fr.entries[m]),
                    fr.entries[n].type \in BitmapTypes,
                    fr.entries[n].nr >= 0 => Alone(fr, n),
                    NEW k \in DOMAIN it, Holds(it, k, fr.entries[n])
             PROVE  GetsPalette(new, k, n)
  <2> HIDE DEF it
  <2>1. PalOK(new)
    <3> HIDE DEF new
    <3> QED BY <1>1 DEF PalOK, Alone
  <2> QED BY <2>1 DEF it
<1>4. CASE n = j
  <2>1. k \in DOMAIN new.items /\ Holds(new.items, k, e)
    BY <1>1, <1>4
  <2> QED BY <2>1, <1>4, StoredGetsPalette
<1>5. CASE n \in 1..(j - 1)
  <2> HIDE DEF it, new, pos
  <2>1. /\ k \in DOMAIN fr.items /\ k # pos /\ Holds(fr.items, k, fr.entries[n])
        /\ new.items[k] = fr.items[k]
    BY <1>1, <1>3, <1>5 DEF StoredIn
  <2>2. ASSUME fr.entries[n].nr < 0, k > 1 PROVE new.items[k - 1] = fr.items[k - 1]
    <3>1. ~(e.nr >= 0)
      BY <2>2, <1>2, <1>5 DEF FrameOK, ShapeOK, EntriesOK
    <3>2. pos = Len(fr.items) + 1
      BY <3>1 DEF pos, Slot
    <3>3. k - 1 \in DOMAIN fr.items /\ k - 1 # pos
      BY <3>2, <2>1, <2>2, <1>2
    <3> QED BY <3>3, <1>1, <1>3 DEF StoredIn
  <2> QED BY <2>1, <2>2, <1>1, <1>5, OlderKeepPalettes
<1> QED BY <1>1, <1>4, <1>5

LEMMA MergingKeepsPalettes ==
  ASSUME NEW fr, FrameOK(fr), PalOK(fr), fr.next \in DOMAIN fr.entries, NEW e, e = fr.entries[fr.next],
         e.type = "PaletteAnim", e.file.content.kind = "items", NEW it, DOMAIN fr.items \subseteq DOMAIN it,
         NEW ours, ours \subseteq DOMAIN it, Merges(fr, e, it, ours),
         NEW nx \in {fr.next, fr.next + 1},
         NEW new, new = [entries |-> fr.entries, next |-> nx, items |-> it]
  PROVE  PalOK(new)
<1> DEFINE j == fr.next
<1>1. /\ j \in Nat \ {0} /\ Len(fr.items) \in Nat /\ DOMAIN fr.items = 1..Len(fr.items)
      /\ \A n \in 1..(nx - 1) : n = j \/ n \in 1..(j - 1)
      /\ \A n \in 1..(j - 1) : n # j /\ n \in DOMAIN fr.entries /\ fr.entries[n].file.id # "none"
  BY FrameFacts DEF EntryOK
<1>2. /\ new.entries = fr.entries /\ new.items = it /\ new.next = nx
  OBVIOUS
<1> SUFFICES ASSUME NEW n \in 1..(nx - 1),
                    \A m \in DOMAIN fr.entries : AsNamed(fr.entries[m]),
                    fr.entries[n].type \in BitmapTypes,
                    fr.entries[n].nr >= 0 => Alone(fr, n),
                    NEW k \in DOMAIN it, Holds(it, k, fr.entries[n])
             PROVE  GetsPalette(new, k, n)
  BY <1>2 DEF PalOK, Alone
<1>3. n \in 1..(j - 1)
  BY <1>1 DEF BitmapTypes
<1>4. /\ \A l \in ours : /\ it[l].src = e.file.id /\ it[l].type # "Palette"
                         /\ l \in DOMAIN fr.items => fr.items[l].type = "null"
      /\ \A l \in DOMAIN it \ ours : it[l] = IF l \in DOMAIN fr.items THEN fr.items[l] ELSE Null
  BY DEF Merges, AsNamed, IsNull
<1>5. k \notin ours
  <2>1. e.file.id # fr.entries[n].file.id
    BY <1>1, <1>3 DEF FrameOK, ShapeOK, EntriesOK
  <2> QED BY <2>1, <1>4 DEF Holds
<1>6. k \in DOMAIN fr.items /\ it[k] = fr.items[k]
  BY <1>1, <1>3, <1>4, <1>5, NullFacts DEF Holds
<1>7. ASSUME k > 1
      PROVE  \/ it[k - 1] = fr.items[k - 1]
             \/ fr.items[k - 1].type # "Palette" /\ it[k - 1].type # "Palette"
  <2>1. k - 1 \in DOMAIN fr.items
    BY <1>1, <1>6, <1>7
  <2> QED BY <2>1, <1>4
<1>8. Holds(fr.items, k, fr.entries[n])
  BY <1>6 DEF Holds
<1> QED BY <1>2, <1>3, <1>6, <1>7, <1>8, OlderKeepPalettes

(* The same for the state: each action leaves every call with the palettes *)
(* its names ask for.                                                      *)
PInv == FInv /\ PaletteOfName

LEMMA PalettesNext ==
  ASSUME default' = default, \A d \in DOMAIN stack' : PalOK(stack'[d])
  PROVE  PaletteOfName'
<1>1. SUFFICES ASSUME NEW f \in DOMAIN stack', NEW n \in 1..(stack'[f].next - 1),
                      \A m \in DOMAIN stack'[f].entries : AsNamed(stack'[f].entries[m]),
                      stack'[f].entries[n].type \in BitmapTypes,
                      stack'[f].entries[n].nr >= 0 => Alone(stack'[f], n),
                      NEW k \in DOMAIN stack'[f].items,
                      Holds(stack'[f].items, k, stack'[f].entries[n])
               PROVE  GetsPalette(stack[f], k, n)'
  BY DEF PaletteOfName
<1>2. GetsPalette(stack'[f], k, n)
  BY <1>1 DEF PalOK
<1> QED BY <1>2 DEF GetsPalette

LEMMA PalettesStay == ASSUME PaletteOfName, UNCHANGED <<default, stack>> PROVE PaletteOfName'
<1>1. \A d \in DOMAIN stack' : PalOK(stack'[d])
  BY PaletteByFrames
<1> QED BY <1>1, PalettesNext

LEMMA GoesKeepsPalettes ==
  ASSUME PInv, phase = "running", NEW items, PalOK(After(Top, items)), Goes(items)
  PROVE  PaletteOfName'
<1> DEFINE nw == After(Top, items)
<1>1. RunOK /\ default' = default /\ \A d \in DOMAIN stack : PalOK(stack[d])
  BY PaletteByFrames DEF PInv, FInv, Goes
<1>2. PalOK(nw) /\ stack' = [stack EXCEPT ![Len(stack)] = nw]
  BY DEF Goes
<1> HIDE DEF nw
<1>3. DOMAIN stack' = DOMAIN stack /\ \A d \in DOMAIN stack : stack'[d] \in {nw, stack[d]}
  BY <1>2
<1> QED BY <1>1, <1>2, <1>3, PalettesNext

LEMMA EndsKeepsPalettes ==
  ASSUME PInv, phase = "running", NEW items, NEW how, NEW c,
         PalOK([entries |-> Top.entries, next |-> Top.next, items |-> items]),
         Ends(items, how, c)
  PROVE  PaletteOfName'
<1> DEFINE last == [entries |-> Top.entries, next |-> Top.next, items |-> items]
<1>1. RunOK /\ default' = default /\ \A d \in DOMAIN stack : PalOK(stack[d])
  BY PaletteByFrames DEF PInv, FInv, Ends
<1>2. [Top EXCEPT !.items = items] = last
  BY <1>1, TopFacts
<1>3. stack' = <<last>> \/ stack' = <<stack[1]>>
  BY <1>2 DEF Ends
<1>4. PalOK(stack[1])
  BY <1>1, TopFacts
<1>5. PalOK(last)
  OBVIOUS
<1> HIDE DEF last
<1>6. \A d \in DOMAIN stack' : stack'[d] \in {last, stack[1]}
  BY <1>3
<1> QED BY <1>1, <1>4, <1>5, <1>6, PalettesNext

LEMMA FailsKeepsPalettes ==
  ASSUME PInv, phase = "running", NEW how, NEW c, Ends(Items, how, c)
  PROVE  PaletteOfName'
<1>1. RunOK /\ \A d \in DOMAIN stack : PalOK(stack[d])
  BY PaletteByFrames DEF PInv, FInv
<1>2. PalOK([entries |-> Top.entries, next |-> Top.next, items |-> Items])
  BY <1>1, TopFacts DEF Items
<1> QED BY <1>2, EndsKeepsPalettes

LEMMA StoreKeepsPalettes ==
  ASSUME PInv, NEW types, Running(types), NEW x, IsItemOf(E, x),
         E.type \in BitmapTypes => PalGiven(Top, E, x),
         Goes(Stored(Items, E, x))
  PROVE  PaletteOfName'
<1>1. RunOK /\ phase = "running" /\ FrameOK(Top) /\ Top.next \in DOMAIN Top.entries /\ E = Top.entries[Top.next]
  BY EntryFound DEF PInv
<1>2. PalOK(Top)
  BY <1>1, TopFacts, PaletteByFrames DEF PInv
<1>3. PalOK(After(Top, Stored(Top.items, E, x)))
  BY <1>1, <1>2, StoringKeepsPalettes
<1>4. PalOK(After(Top, Stored(Items, E, x)))
  BY <1>3 DEF Items
<1> QED BY <1>1, <1>4, GoesKeepsPalettes

LEMMA CallPalettes == ASSUME PInv, Call PROVE PaletteOfName'
<1>1. default' = default /\ stack = <<>>
  BY DEF PInv, FInv, Call
<1>2. CASE UNCHANGED stack
  BY <1>1, <1>2, PalettesStay DEF PInv
<1>3. CASE \E s \in Sortings(folder) : stack' = <<Frame(s)>>
  <2>1. \A d \in DOMAIN stack' : PalOK(stack'[d])
    BY <1>3 DEF PalOK, Frame
  <2> QED BY <1>1, <2>1, PalettesNext
<1> QED BY <1>2, <1>3 DEF Call

LEMMA IgnorePalettes == ASSUME PInv, Ignore PROVE PaletteOfName'
<1>1. Running({"Unset"}) /\ Goes(Items)
  BY DEF Ignore
<1>2. /\ RunOK /\ phase = "running" /\ FrameOK(Top) /\ Top.next \in DOMAIN Top.entries
      /\ Top.entries[Top.next].type = "Unset"
  BY <1>1, EntryFound DEF PInv
<1>3. PalOK(Top)
  BY <1>2, TopFacts, PaletteByFrames DEF PInv
<1>4. PalOK(After(Top, Top.items))
  <2> SUFFICES ASSUME NEW fr, FrameOK(fr), PalOK(fr), fr.next \in DOMAIN fr.entries,
                      fr.entries[fr.next].type = "Unset"
               PROVE  PalOK(After(fr, fr.items))
    BY <1>2, <1>3
  <2> DEFINE new == After(fr, fr.items)
  <2>1. /\ new.entries = fr.entries /\ new.items = fr.items
        /\ \A n \in 1..(new.next - 1) : n \in 1..(fr.next - 1) \/ n = fr.next
    BY FrameFacts DEF After
  <2>2. fr.entries[fr.next].type \notin BitmapTypes
    BY DEF BitmapTypes
  <2> HIDE DEF new
  <2>3. \A n, k : GetsPalette(new, k, n) <=> GetsPalette(fr, k, n)
    BY <2>1 DEF GetsPalette, PalettesOf
  <2>4. PalOK(new)
    BY <2>1, <2>2, <2>3 DEF PalOK, Alone
  <2> QED BY <2>4 DEF new
<1> QED BY <1>1, <1>2, <1>4, GoesKeepsPalettes DEF Items

LEMMA EmptyEntryPalettes == ASSUME PInv, EmptyEntry PROVE PaletteOfName'
<1>1. Running({"None"}) /\ Goes(Stored(Items, E, Null))
  BY DEF EmptyEntry
<1>2. E.type = "None"
  BY <1>1, EntryFound DEF PInv
<1>3. IsItemOf(E, Null) /\ E.type \notin BitmapTypes
  BY <1>2 DEF IsItemOf, Names, MakesItem, BitmapTypes
<1> QED BY <1>1, <1>3, StoreKeepsPalettes

(* A bitmap that is stored was given the palette of its file, or the one   *)
(* Load was called with.                                                   *)
LEMMA StoreBitmapPalettes ==
  ASSUME PInv, Loads(BitmapTypes), NEW own, StoreBitmap(own),
         own = IF Tmp[1].type = E.type THEN Tmp[1].own ELSE NoPal
  PROVE  PaletteOfName'
<1> DEFINE x == [type |-> E.type, src |-> E.file.id,
                 own |-> IF own = NoPal THEN CurPal ELSE own, glyphs |-> <<>>]
<1>0. /\ Running(BitmapTypes) /\ E.type \in BitmapTypes /\ phase = "running"
      /\ ~NullAtNumber(Items, E)
  BY EntryFound DEF PInv, Loads
<1>1. IsItemOf(E, x)
  BY <1>0 DEF IsItemOf, Names, MakesItem, IsNull, BitmapTypes
<1>2. CASE ~OriginOK
  <2>1. Ends(Items, "done", "CUSTOM + 1")
    BY <1>2 DEF StoreBitmap, Fails
  <2> QED BY <2>1, <1>0, FailsKeepsPalettes
<1>3. CASE OriginOK
  <2>1. Goes(Stored(Items, E, x))
    BY <1>3 DEF StoreBitmap
  <2>2. x.own = IF Tmp[1].type = E.type /\ Tmp[1].own # NoPal THEN Tmp[1].own ELSE PalFor(Items, E)
    BY CurPalIs
  <2> HIDE DEF x
  <2>3. PalGiven(Top, E, x)
    BY <2>2, <1>0 DEF PalGiven, Tmp, Items
  <2> QED BY <2>1, <2>3, <1>0, <1>1, StoreKeepsPalettes
<1> QED BY <1>2, <1>3

LEMMA TakeBitmapPalettes == ASSUME PInv, TakeBitmap PROVE PaletteOfName'
<1>1. Loads(BitmapTypes) /\ Tmp[1].type = E.type /\ StoreBitmap(Tmp[1].own)
  BY DEF TakeBitmap
<1> QED BY <1>1, StoreBitmapPalettes

LEMMA ConvertBitmapPalettes == ASSUME PInv, ConvertBitmap PROVE PaletteOfName'
<1>1. Loads(BitmapTypes) /\ Tmp[1].type # E.type /\ phase = "running"
  BY DEF ConvertBitmap, Loads, Running
<1>2. \/ Ends(Items, "done", "PALETTE_MISSING")
      \/ Ends(Items, "threw", "none")
      \/ StoreBitmap(NoPal)
  BY DEF ConvertBitmap, Fails
<1> QED BY <1>1, <1>2, FailsKeepsPalettes, StoreBitmapPalettes

LEMMA NoBitmapPalettes == ASSUME PInv, NoBitmap PROVE PaletteOfName'
<1>1. phase = "running" /\ (Crashes \/ Ends(Items, "done", "UNSUPPORTED_FORMAT"))
  BY DEF NoBitmap, Loads, Running, Fails
<1> QED BY <1>1, FailsKeepsPalettes, PalettesStay DEF Crashes, PInv

LEMMA TakeItemPalettes == ASSUME PInv, TakeItem PROVE PaletteOfName'
<1>1. FInv /\ Running({"Palette", "Text", "Sound"})
  BY DEF TakeItem, Loads, PInv
<1>2. phase = "running" /\ E.type \notin BitmapTypes
  BY <1>1, EntryFound DEF BitmapTypes
<1>3. \/ Ends(Items, "done", "UNSUPPORTED_FORMAT")
      \/ IsItemOf(E, FromFile(Tmp[1])) /\ Goes(Stored(Items, E, FromFile(Tmp[1])))
  BY <1>1, TakenIsItem DEF TakeItem, Fails
<1> QED BY <1>1, <1>2, <1>3, FailsKeepsPalettes, StoreKeepsPalettes

LEMMA MergeAnimsPalettes == ASSUME PInv, MergeAnims PROVE PaletteOfName'
<1>1. FInv /\ Running({"PaletteAnim"}) /\ E.file.content.kind = "items"
  BY DEF MergeAnims, Loads, PInv
<1>2. /\ RunOK /\ phase = "running" /\ E.type = "PaletteAnim"
      /\ FrameOK(Top) /\ Top.next \in DOMAIN Top.entries /\ E = Top.entries[Top.next]
  BY <1>1, EntryFound
<1>3. PICK it, ours :
        /\ DOMAIN Top.items \subseteq DOMAIN it /\ ours \subseteq DOMAIN it
        /\ Merges(Top, E, it, ours)
        /\ Goes(it) \/ Ends(it, "done", "UNSUPPORTED_FORMAT")
  BY <1>1, AnimsMerge
<1>4. PalOK(Top)
  BY <1>2, TopFacts, PaletteByFrames DEF PInv
<1>5. \A nx \in {Top.next, Top.next + 1} : PalOK([entries |-> Top.entries, next |-> nx, items |-> it])
  <2>1. ASSUME NEW fr, fr = Top, NEW e, e = E, NEW nx \in {fr.next, fr.next + 1}
        PROVE  PalOK([entries |-> fr.entries, next |-> nx, items |-> it])
    <3>1. FrameOK(fr) /\ PalOK(fr) /\ fr.next \in DOMAIN fr.entries /\ e = fr.entries[fr.next]
      BY <2>1, <1>2, <1>4
    <3>2. e.type = "PaletteAnim" /\ e.file.content.kind = "items"
      BY <2>1, <1>1, <1>2
    <3>3. DOMAIN fr.items \subseteq DOMAIN it /\ Merges(fr, e, it, ours)
      BY <2>1, <1>3
    <3> QED BY <3>1, <3>2, <3>3, <1>3, MergingKeepsPalettes
  <2> QED BY <2>1
<1>6. PalOK(After(Top, it))
  BY <1>5 DEF After
<1> QED BY <1>2, <1>3, <1>5, <1>6, GoesKeepsPalettes, EndsKeepsPalettes

LEMMA EnterFontPalettes == ASSUME PInv, EnterFont PROVE PaletteOfName'
<1>1. phase = "running" /\ RunOK /\ \A d \in DOMAIN stack : PalOK(stack[d])
  BY PaletteByFrames DEF EnterFont, Running, PInv, FInv
<1>2. CASE Ends(Items, "threw", "none")
  BY <1>1, <1>2, FailsKeepsPalettes
<1>3. CASE /\ \E s \in Sortings(E.file.content.files) : stack' = Append(stack, Frame(s))
           /\ UNCHANGED <<folder, default, phase, code>>
  <2>1. PICK s : stack' = Append(stack, Frame(s))
    BY <1>3
  <2>2. PalOK(Frame(s))
    BY DEF PalOK, Frame
  <2>3. /\ DOMAIN stack' = 1..(Len(stack) + 1) /\ DOMAIN stack = 1..Len(stack) /\ Len(stack) \in Nat
        /\ \A d \in 1..Len(stack) : stack'[d] = stack[d]
        /\ stack'[Len(stack) + 1] = Frame(s)
    BY <1>1, <2>1, TopFacts, AppendFacts, SeqFacts
  <2>4. \A d \in DOMAIN stack' : d \in DOMAIN stack \/ d = Len(stack) + 1
    BY <2>3
  <2>5. \A d \in DOMAIN stack' : PalOK(stack'[d])
    BY <1>1, <2>2, <2>3, <2>4
  <2> QED BY <1>3, <2>5, PalettesNext
<1> QED BY <1>2, <1>3 DEF EnterFont

LEMMA LeaveFontPalettes == ASSUME PInv, LeaveFont PROVE PaletteOfName'
<1> DEFINE below == Front(stack)
           fr    == Last(below)
           e     == fr.entries[fr.next]
           font  == [type |-> "Font", src |-> e.file.id, own |-> NoPal, glyphs |-> Items]
           nw    == After(fr, Stored(fr.items, e, font))
           L     == Len(stack) - 1
<1>1. /\ RunOK /\ phase = "running" /\ Len(stack) > 1
      /\ stack' = [below EXCEPT ![Len(below)] = nw]
      /\ default' = default
      /\ \A d \in DOMAIN stack : PalOK(stack[d])
  BY PaletteByFrames DEF PInv, FInv, LeaveFont
<1>2. /\ Len(below) = L /\ L \in Nat \ {0} /\ DOMAIN below = 1..L
      /\ \A d \in 1..L : below[d] = stack[d] /\ d \in DOMAIN stack
  <2>1. IsSeq(stack) /\ DOMAIN stack = 1..Len(stack) /\ Len(stack) \in Nat
    BY <1>1, TopFacts
  <2>2. /\ IsSeq(below) /\ Len(below) = L /\ L \in Nat \ {0}
        /\ \A d \in 1..L : below[d] = stack[d]
    BY <2>1, <1>1, FrontFacts
  <2> HIDE DEF below
  <2>3. DOMAIN below = 1..L
    BY <2>2, SeqFacts
  <2>4. \A d \in 1..L : d \in DOMAIN stack
    BY <2>1, <2>2
  <2> QED BY <2>2, <2>3, <2>4
<1>3. fr = stack[L] /\ L \in 1..L
  BY <1>2 DEF Last
<1>4. FrameOK(fr) /\ PalOK(fr) /\ fr.next \in DOMAIN fr.entries /\ e.type = "Font"
  BY <1>1, <1>2, <1>3 DEF RunOK
<1>5. PalOK(nw)
  <2>1. IsItemOf(e, font) /\ e.type \notin BitmapTypes
    BY <1>4 DEF IsItemOf, Names, MakesItem, IsNull, BitmapTypes
  <2>2. e = fr.entries[fr.next]
    OBVIOUS
  <2> HIDE DEF font, e, fr
  <2> QED BY <1>4, <2>1, <2>2, StoringKeepsPalettes
<1> HIDE DEF nw, fr, below, e
<1>6. DOMAIN stack' = 1..L /\ \A d \in 1..L : stack'[d] \in {nw, below[d]}
  BY <1>1, <1>2
<1>7. \A d \in DOMAIN stack' : PalOK(stack'[d])
  BY <1>1, <1>2, <1>5, <1>6
<1> QED BY <1>1, <1>7, PalettesNext

LEMMA StepPInv == PInv /\ [Next]_vars => PInv'
<1> SUFFICES ASSUME PInv, [Next]_vars PROVE PInv'
  OBVIOUS
<1>1. FInv'
  BY StepFInv DEF PInv
<1>2. PaletteOfName'
  <2>1. CASE UNCHANGED vars
    BY <2>1, PalettesStay DEF vars, PInv
  <2>2. CASE NullPalette
    BY <2>2, PalettesStay DEF NullPalette, Crashes, PInv
  <2>3. CASE LoadFails \/ FontFails
    <3>1. PICK c : phase = "running" /\ Ends(Items, "done", c)
      BY <2>3 DEF LoadFails, FontFails, Fails, Running
    <3> QED BY <3>1, FailsKeepsPalettes
  <2>4. CASE Finish
    BY <2>4, PalettesStay DEF Finish, PInv
  <2> QED BY <2>1, <2>2, <2>3, <2>4, CallPalettes, IgnorePalettes, EmptyEntryPalettes,
             TakeBitmapPalettes, ConvertBitmapPalettes, NoBitmapPalettes, MergeAnimsPalettes,
             TakeItemPalettes, EnterFontPalettes, LeaveFontPalettes DEF Next
<1> QED BY <1>1, <1>2 DEF PInv

(* For folders of any files in any order: a bitmap without a palette of    *)
(* its own gets the palette of its number, or of the item right before it, *)
(* and that of the caller only when there is none.                         *)
THEOREM FolderPaletteOfName == Spec => []PaletteOfName
<1>1. Init => PInv
  BY InitFInv DEF Init, PInv, PaletteOfName
<1>2. PInv => PaletteOfName
  BY DEF PInv
<1> QED BY <1>1, <1>2, StepPInv, PTL DEF Spec
===============================================================================
