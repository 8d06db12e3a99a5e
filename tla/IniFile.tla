------------------------------- MODULE IniFile -------------------------------
(***************************************************************************)
(* INI files: sections, each with a name and named values, in a file of    *)
(* lines.  A value is a sequence of lines, of which the file can give back *)
(* one; a line is a token.                                                 *)
(***************************************************************************)
EXTENDS Archive

CONSTANT NewValues   \* what callers set: [n, v]

IniValue == [n : STRING, v : Seq(STRING) \ {<<>>}]
IniItem  == [k : {"ini"}, name : STRING, vals : Seq(IniValue)]

ASSUME IniAssumption == NewValues \subseteq IniValue /\ Null \notin IniItem

Ini(name, vals) == [k |-> "ini", name |-> name, vals |-> vals]

(* Mutant: values are added, whatever their names. *)
ValueAdded(x, e) == [x EXCEPT !.vals = Append(@, e)]

(* ArchivItem_Ini::setValue: the first value of that name, or a new one. *)
ValueSet(x, e) ==
  LET old == SelectInSeq(x.vals, LAMBDA f : f.n = e.n)
  IN IF old = 0 THEN [x EXCEPT !.vals = Append(@, e)] ELSE [x EXCEPT !.vals[old] = e]

SetValue ==
  \E i \in DOMAIN archive, e \in NewValues :
    archive[i] # Null /\ Calls([archive EXCEPT ![i] = ValueSet(@, e)], "none")

-------------------------------------------------------------------------------
(* ArchivItem_Ini::write, WriteINI *)

Blank == [t |-> "blank"]

(* The further lines of a value have no equals sign. *)
ValueTokens(e) == <<[t |-> "entry", n |-> e.n, v |-> Head(e.v)]>> \o [i \in 1..(Len(e.v) - 1) |-> [t |-> "words"]]

SectionTokens(x) ==
  <<[t |-> "section", v |-> x.name]>> \o FlattenSeq([i \in DOMAIN x.vals |-> ValueTokens(x.vals[i])])

IniTokens(a) ==
  FlattenSeq([i \in DOMAIN a |-> (IF i = 1 THEN <<>> ELSE <<Blank>>) \o SectionTokens(a[i])])

(* Of values with one name, a load keeps the last. *)
NamesDiffer(x) == \A i, j \in DOMAIN x.vals : x.vals[i].n = x.vals[j].n => i = j

IniStorable(x) ==
  x.name # "" /\ NamesDiffer(x) /\ \A i \in DOMAIN x.vals : x.vals[i].n # "" /\ Len(x.vals[i].v) = 1

(* The sections before an empty entry are written. *)
WriteINI ==
  LET hole  == SelectInSeq(archive, LAMBDA x : x = Null)
      given == IF hole = 0 THEN archive ELSE SubSeq(archive, 1, hole - 1)
      whole == hole = 0 /\ archive # <<>> /\ \A i \in DOMAIN archive : IniStorable(archive[i])
  IN Writes(File("ini", IniTokens(given), <<>>, archive, IF whole THEN "whole" ELSE "loose"),
            IF hole = 0 THEN "NONE" ELSE "WRONG_ARCHIVE")

-------------------------------------------------------------------------------
(* LoadINI, ArchivItem_Ini::load: part is the section that is read, and i  *)
(* is 1 when the end of the file was seen                                  *)

(* The sections are added to what the archive has. *)
LoadINI ==
  /\ Opens /\ disk.fmt = "ini" /\ HasRoom
  /\ Begins(archive, Job("ini", 1, 0, FALSE, archive))

Continues(a, part, seen) == Goes(a, [io EXCEPT !.part = part, !.pos = @ + 1, !.i = seen])

(* The end of the file is seen only behind it: after an empty line there   *)
(* is one more section, without a name.                                    *)
LoadIniSection ==
  /\ io.op = "ini" /\ io.part = Null /\ io.i = 0
  /\ IF AtEnd(io.pos) THEN Continues(Append(archive, Ini("", <<>>)), Null, 1)
     ELSE IF ~Is(io.pos, "section") THEN Fails({"WRONG_FORMAT"})
     ELSE IF disk.toks[io.pos].v = "" THEN Fails({"WRONG_HEADER"})
     ELSE Continues(archive, Ini(disk.toks[io.pos].v, <<>>), 0)

InSection == io.op = "ini" /\ io.part # Null

(* A value without a name is left out. *)
LoadIniValue ==
  /\ InSection /\ Is(io.pos, "entry")
  /\ LET e == [n |-> disk.toks[io.pos].n, v |-> <<disk.toks[io.pos].v>>]
     IN Continues(archive, IF e.n = "" THEN io.part ELSE ValueSet(io.part, e), 0)

LoadIniWrong == InSection /\ (Is(io.pos, "words") \/ Is(io.pos, "section")) /\ Fails({"WRONG_FORMAT"})

LoadIniSectionEnd ==
  /\ InSection /\ (AtEnd(io.pos) \/ Is(io.pos, "blank"))
  /\ Continues(Append(archive, io.part), Null, IF AtEnd(io.pos) THEN 1 ELSE 0)

LoadIniEnd == io.op = "ini" /\ io.part = Null /\ io.i = 1 /\ Returns(archive, "NONE")

IniStep == LoadIniSection \/ LoadIniValue \/ LoadIniWrong \/ LoadIniSectionEnd \/ LoadIniEnd

-------------------------------------------------------------------------------
(* What is in a file *)

(* Sections and values have a name, values a line, all of which may be     *)
(* empty.                                                                  *)
IniIs(f) ==
  \A p \in 1..Len(f.toks) :
    /\ f.toks[p].t = "section" => f.toks[p].v \in STRING
    /\ f.toks[p].t = "entry" => f.toks[p].n \in STRING /\ f.toks[p].v \in STRING

(* How many sections begin in the first n lines. *)
SectionsTo(n) == Cardinality({p \in 1..n : Is(p, "section")})

(* The values with a name that section k has in the first n lines. *)
ValueLines(k, n) == {p \in 1..n : SectionsTo(p) = k /\ Is(p, "entry") /\ disk.toks[p].n # ""}

(* Those of them that no other with their name follows. *)
LastLines(k, n) ==
  {p \in ValueLines(k, n) : \A q \in ValueLines(k, n) : q > p => disk.toks[q].n # disk.toks[p].n}

ValueAt(p) == [n |-> disk.toks[p].n, v |-> <<disk.toks[p].v>>]

-------------------------------------------------------------------------------
(* Properties *)

(* The sections that an INI file adds to an archive are those of its       *)
(* lines, and one without a name when its last line is empty.  Of values   *)
(* with one name in a section, the last in the file stands, and only it;   *)
(* a value of another section does not.                                    *)
LastValueStands ==
  [][io.op = "ini" /\ ret'.code = "NONE" =>
       LET base == Len(io.base)
           all  == SectionsTo(disk.len)
       IN /\ SubSeq(archive', 1, base) = io.base
          /\ Len(archive') = base + all + (IF Is(disk.len, "blank") THEN 1 ELSE 0)
          /\ \A p \in 1..disk.len :
               Is(p, "section") => archive'[base + SectionsTo(p)].name = disk.toks[p].v
          /\ \A k \in 1..all :
               LET vals == archive'[base + k].vals
               IN /\ ToSet(vals) = {ValueAt(p) : p \in LastLines(k, disk.len)}
                  /\ \A i, j \in DOMAIN vals : vals[i].n = vals[j].n => i = j]_avars
===============================================================================
