------------------------------ MODULE TextFile ------------------------------
(***************************************************************************)
(* GER, ENG and TXT files: a plain text, or an archive of texts, a table   *)
(* of offsets into their data in which equal texts are stored once.  A     *)
(* text is a sequence of characters; a file has one token for each of its  *)
(* bytes of text and one for each number.                                  *)
(***************************************************************************)
EXTENDS Archive

CONSTANTS
  ToOem,   \* AnsiToOem of a character, 0 where it has no equivalent
  ToAnsi   \* OemToAnsi of a character

(* Characters up to 128 are the same in both character sets. *)
ASSUME TextAssumption == \A c \in 0..128 : ToOem[c] = c /\ ToAnsi[c] = c

NUL == 0
LF  == 10
CR  == 13
AT  == 64

(* '\26': the code of the end-of-file marker, in octal. *)
EofMark == 22

Text(s) == [k |-> "text", v |-> s]

-------------------------------------------------------------------------------
(* getFileText, setText *)

Through(tab, s) == [i \in DOMAIN s |-> tab[s[i]]]

Each(s, c, r) == FlattenSeq([i \in DOMAIN s |-> IF s[i] = c THEN r ELSE <<s[i]>>])

(* x is read behind the others; it may close a pair of a and b. *)
Paired(read, x, a, b, c) ==
  IF read.open /\ x = b THEN [out |-> Append(Front(read.out), c), open |-> FALSE]
  ELSE [out |-> Append(read.out, x), open |-> x = a]

(* a and b behind each other become c, from the left. *)
Pairs(s, a, b, c) ==
  LET read[n \in 0..Len(s)] ==
        IF n = 0 THEN [out |-> <<>>, open |-> FALSE] ELSE Paired(read[n - 1], s[n], a, b, c)
  IN read[Len(s)].out

FileText(s, conv) == IF conv THEN Through(ToOem, Each(s, LF, <<AT, AT>>)) ELSE s

Converted(s, conv) ==
  Each(IF conv THEN Pairs(Through(ToAnsi, s), AT, AT, LF) ELSE Pairs(s, CR, LF, LF), CR, <<LF>>)

-------------------------------------------------------------------------------
(* WriteTXT *)

(* Mutant: the terminator of a text takes no room. *)
RoomBare(s) == Len(s)

(* A text has a terminator in the file. *)
Room(s) == Len(s) + 1

(* Where the next text is: if it is there already it is not stored again.  *)
Stored(acc, x, conv) ==
  IF x = Null THEN [acc EXCEPT !.starts = Append(@, 0)]
  ELSE LET s   == FileText(x.v, conv)
           old == SelectInSeq(acc.texts, LAMBDA e : s # <<>> /\ e.s = s)
       IN IF old # 0 THEN [acc EXCEPT !.starts = Append(@, acc.texts[old].at)]
          ELSE [starts |-> Append(acc.starts, acc.cur),
                texts  |-> Append(acc.texts, [s |-> s, at |-> acc.cur]),
                cur    |-> acc.cur + Room(s)]

Layout(a, conv) ==
  LET laid[n \in 0..Len(a)] ==
        IF n = 0 THEN [starts |-> <<>>, texts |-> <<>>, cur |-> 4 * Len(a)]
        ELSE Stored(laid[n - 1], a[n], conv)
  IN laid[Len(a)]

TextTokens(a, conv) ==
  LET l == Layout(a, conv)
  IN Mark \o <<[t |-> "count", v |-> Len(a)], [t |-> "unknown"], [t |-> "size", v |-> l.cur]>>
          \o [i \in DOMAIN l.starts |-> [t |-> "offset", v |-> l.starts[i]]]
          \o FlattenSeq([i \in DOMAIN l.texts |-> Chars(Append(l.texts[i].s, NUL))])

(* A text of characters that the file has, and no at signs. *)
Clean(s, conv) ==
  \A i \in DOMAIN s :
    s[i] \notin {NUL, CR} /\ (conv => s[i] # AT /\ ToOem[s[i]] # NUL /\ ToAnsi[ToOem[s[i]]] = s[i])

Plain(a) == Len(a) = 1 /\ a[1] # Null

TextStorable(a, conv) ==
  /\ \A i \in DOMAIN a : a[i] # Null => Clean(a[i].v, conv)
  /\ Plain(a) => a[1].v # <<>> /\ ~Contains(a[1].v, EofMark) /\ ~IsPrefix(Mark, Chars(FileText(a[1].v, conv)))

WriteTXT(fmt, conv) ==
  IF \E i \in DOMAIN archive : archive[i] # Null /\ archive[i].k # "text"
  THEN Writes(disk, "WRONG_ARCHIVE")
  ELSE Writes(File(fmt,
                   IF Plain(archive) THEN Chars(FileText(archive[1].v, conv))
                   ELSE TextTokens(archive, conv),
                   <<>>, archive,
                   IF TextStorable(archive, conv) THEN "whole" ELSE "loose"), "NONE")

-------------------------------------------------------------------------------
(* LoadTXT, ArchivItem_Text::load *)

(* Texts in an LST file are those of a GER file. *)
IsTextFile == disk.fmt \in {"ger", "txt"} \/ (disk.fmt = "lst" /\ HasMark)

LoadText(conv) ==
  /\ Opens
  /\ IsTextFile /\ (conv <=> disk.fmt # "txt")
  /\ Begins(<<>>, [Job("text", 0, 0, FALSE, <<>>) EXCEPT !.part = [conv |-> conv, offs |-> <<>>, data |-> <<>>]])

LoadingText == io.op = "text"
AtTable     == LoadingText /\ io.pos = 0

Until(s, c) == IF Contains(s, c) THEN SubSeq(s, 1, SelectInSeq(s, LAMBDA x : x = c) - 1) ELSE s

Bytes(first, last) == [i \in 1..(last - first + 1) |-> disk.toks[first + i - 1].v]

(* Without the mark, all of the file is one text. *)
LoadPlain ==
  /\ AtTable /\ ~HasMark
  /\ LET all   == Bytes(1, disk.len)
         ended == IF all # <<>> /\ Last(all) = NUL THEN Front(all) ELSE all
         read  == IF io.part.conv THEN Until(ended, EofMark) ELSE ended
     IN Goes(<<Text(Converted(read, io.part.conv))>>, [io EXCEPT !.pos = 1])

Number(pos) == disk.toks[pos].v

Span(tok) == CASE tok.t = "c" -> 1 [] tok.t \in {"count", "unknown"} -> 2 [] OTHER -> 4

SizeOf(toks) ==
  LET size[n \in 0..Len(toks)] == IF n = 0 THEN 0 ELSE size[n - 1] + Span(toks[n])
  IN size[Len(toks)]

FileSize == SizeOf(SubSeq(disk.toks, 1, disk.len))

(* A size of 0 is that of the file without its header. *)
TableSize == IF Number(5) = 0 THEN FileSize - 10 ELSE Number(5)

(* The number of texts, the size of the data and the offsets. *)
LoadTable ==
  /\ AtTable /\ HasMark
  /\ IF ~(Is(3, "count") /\ Is(4, "unknown") /\ Is(5, "size")) THEN Fails({"WRONG_HEADER"})
     ELSE LET count == Number(3)
              size  == TableSize
              data  == 6 + count
          IN IF size < 4 * count THEN Fails({"WRONG_FORMAT"})
             ELSE IF FileSize - 10 < size THEN Fails({"UNEXPECTED_EOF"})
             ELSE Goes(archive,
                       [io EXCEPT !.pos = 1,
                                  !.part = [@ EXCEPT !.offs = Bytes(6, data - 1),
                                                     !.data = Bytes(data, data + size - 4 * count - 1)]])

(* The text at an offset of the data, up to its terminator. *)
TextAt(at) == Until(SubSeq(io.part.data, at + 1, Len(io.part.data)), NUL)

LoadTextEntry ==
  /\ LoadingText /\ io.pos > 0 /\ io.i < Len(io.part.offs)
  /\ LET at    == io.part.offs[io.i + 1]
         first == 4 * Len(io.part.offs)
     IN IF at # 0 /\ at < first THEN Fails({"WRONG_FORMAT"})
        ELSE Goes(Append(archive, IF at = 0 THEN Null
                                  ELSE Text(Converted(TextAt(at - first), io.part.conv))),
                  [io EXCEPT !.i = @ + 1])

LoadTextEnd ==
  /\ LoadingText /\ io.pos > 0 /\ io.i = Len(io.part.offs)
  /\ Returns(archive, "NONE")

TextStep == LoadPlain \/ LoadTable \/ LoadTextEntry \/ LoadTextEnd

-------------------------------------------------------------------------------
(* What is in a file *)

(* The size that a table gives its data, with the offsets. *)
DataSize(toks) == IF toks[5].v = 0 THEN SizeOf(toks) - 10 ELSE toks[5].v

Tabled(toks) ==
  /\ Len(toks) >= 5 /\ SubSeq(toks, 1, 2) = Mark
  /\ toks[3].t = "count" /\ toks[4].t = "unknown" /\ toks[5].t = "size"
  /\ ~(DataSize(toks) < 4 * toks[3].v) /\ ~(SizeOf(toks) - 10 < DataSize(toks))

(* Where text i of a table is, and what is there up to a terminator. *)
OffsetOf(toks, i) == toks[i + 5].v

DataOf(toks) == [k \in 1..(DataSize(toks) - 4 * toks[3].v) |-> toks[5 + toks[3].v + k].v]

TextOfTable(toks, i) ==
  Until(SubSeq(DataOf(toks), OffsetOf(toks, i) - 4 * toks[3].v + 1, Len(DataOf(toks))), NUL)

(* An item of a text. *)
IsText(x) == x = Text(x.v) /\ x.v \in Seq(0..255)

(* What is found at an offset is the text of x, or x is empty. *)
EntryIs(x, at, found, conv) ==
  IF x = Null THEN at = 0
  ELSE at # 0 /\ IsText(x) /\ (Clean(x.v, conv) => found = FileText(x.v, conv))

(* A table that a load accepts has a text where the archive has one. *)
TextsAre(f) ==
  LET n == f.toks[3].v
  IN Tabled(f.toks) =>
       /\ n \in Nat /\ (n # 0 => DataSize(f.toks) \in Nat)
       /\ (\A i \in 1..n : OffsetOf(f.toks, i) = 0 \/ ~(OffsetOf(f.toks, i) < 4 * n)) =>
            /\ Len(f.holds) = n
            /\ \A i \in 1..n :
                 EntryIs(f.holds[i], OffsetOf(f.toks, i), TextOfTable(f.toks, i), f.fmt # "txt")

-------------------------------------------------------------------------------
(* Properties *)

(* A file of texts that was not damaged has a text or an empty entry where *)
(* they were written, and each text of characters the file knows is the    *)
(* same as before, whatever the texts beside it hold, and whether or not   *)
(* they share their place with it.                                         *)
TextsStayApart ==
  ret = [op |-> "text", code |-> "NONE"] /\ disk.len = Len(disk.toks) /\ HasMark =>
    /\ Len(archive) = Len(disk.holds)
    /\ \A i \in DOMAIN archive :
         IF disk.holds[i] = Null THEN archive[i] = Null
         ELSE archive[i].k = "text"
              /\ (Clean(disk.holds[i].v, disk.fmt # "txt") => archive[i] = disk.holds[i])

SUB == 26

(* Of a file with one text in the old character set, the end-of-file       *)
(* marker SUB and all that follows it is removed (ArchivItem_Text.cpp:40). *)
EndsBeforeSub ==
  ret = [op |-> "text", code |-> "NONE"] /\ ~HasMark /\ disk.fmt # "txt" => ~Contains(archive[1].v, SUB)
===============================================================================
