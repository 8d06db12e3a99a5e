-------------------------------- MODULE Files --------------------------------
(***************************************************************************)
(* Load and Write by the extension of the file: one archive, one file, and *)
(* all formats of archives.  A client has items and files of one kind, so  *)
(* that what can be in the archive is the sum of the clients', not their   *)
(* product.                                                                *)
(***************************************************************************)
EXTENDS ListFile, TextFile, PictureFile, BobFile, IniFile

CONSTANTS
  ItemsOf,  \* of each kind of client, the items
  FilesOf   \* the files that others made

NoDisk == File("none", <<>>, <<>>, <<>>, "loose")

(* A file holds what its format says. *)
HoldsIt(f) ==
  /\ f.fmt = "dat" /\ f.idx # <<>> /\ f.idx[1].t = "count" => f.idx[1].v \in Nat
  /\ f.fmt = "bob" => BobIs(f)
  /\ f.fmt = "anims" => AnimsAre(f)
  /\ f.fmt = "bmp" => BmpIs(f)
  /\ f.fmt = "lbm" => LbmIs(f.toks, f.holds)
  /\ f.fmt = "ini" => IniIs(f)
  /\ f.fmt \in {"ger", "txt", "lst"} => TextsAre(f)

ASSUME FilesAssumption ==
  /\ MaxItems \in Nat
  /\ \A c \in DOMAIN ItemsOf :
       /\ \A x \in ItemsOf[c] :
            /\ Has(x, "palette") => IsPalette(x)
            /\ Has(x, "image") => x = Image(x.pal, x.px) /\ IsImage(x)
            /\ Has(x, "anim") => IsAnim(x)
       /\ c = "ini" => ItemsOf[c] \subseteq IniItem
       /\ c = "text" => \A x \in ItemsOf[c] : IsText(x)
       /\ c = "list" => \A x \in ItemsOf[c] : IsListItem(x)
       /\ \A f \in FilesOf[c] :
            /\ f = File(f.fmt, f.toks, f.idx, f.holds, f.seal)
            /\ Len(f.toks) \in Nat /\ Len(f.idx) \in Nat /\ HoldsIt(f)
            /\ f.toks = [k \in 1..Len(f.toks) |-> f.toks[k]]

FilesInit ==
  /\ client \in DOMAIN ItemsOf
  /\ disk \in {NoDisk} \union FilesOf[client]
  /\ ArchiveInit

-------------------------------------------------------------------------------
(* Load: LoadDATIDX goes on to LoadSND for a DAT file *)

FilesLoad ==
  \/ OpenFails
  \/ LoadListRefused \/ \E pal \in BOOLEAN : LoadList(pal)
  \/ \E ext \in {"dat", "idx"} : LoadDatAlone(ext) \/ \E pal \in BOOLEAN : LoadDatIdx(ext, pal)
  \/ LoadIndexOpenFails
  \/ \E conv \in BOOLEAN : LoadText(conv)
  \/ LoadACT \/ LoadBBM \/ LoadPaletteAnim \/ LoadLBM \/ LoadBMP
  \/ LoadBobRefused \/ LoadBOB
  \/ LoadINI

LoadStep == ListStep \/ TextStep \/ PaletteStep \/ PictureStep \/ BobStep \/ IniStep

-------------------------------------------------------------------------------
(* Write.  It writes palette animations to any TXT file; texts go to one   *)
(* only through WriteTXT.                                                  *)

FilesWrite ==
  \/ client = "list" /\ \E pal \in BOOLEAN : WriteLST(pal)
  \/ client = "text" /\ \E fmt \in {"ger", "txt"} : WriteTXT(fmt, fmt # "txt")
  \/ client = "palette" /\ (WriteACT \/ WriteBBM \/ WritePaletteAnim)
  \/ client = "picture" /\ (WriteBMP \/ \E pal \in BOOLEAN : WriteLBM(pal))
  \/ client = "ini" /\ WriteINI

-------------------------------------------------------------------------------
(* A file loses its end *)

BodyChunk == SelectInSeq(disk.toks, LAMBDA x : x.t = "BODY")

(* Whether a load must miss what is behind the first n tokens. *)
Missed(n) ==
  \/ n = 0 \/ disk.fmt \in {"lst", "bmp", "act", "bob"}
  \/ disk.fmt \in {"ger", "txt"} /\ HasMark /\ n >= 2 /\ (n >= 5 => disk.toks[5].v # 0)
  \/ disk.fmt = "lbm" /\ n < BodyChunk
  \/ disk.fmt = "bbm" /\ disk.toks[n].t = "CMAP"

TearFile ==
  \E n \in 0..(disk.len - 1) :
    Tears([disk EXCEPT !.len = n], IF Missed(n) THEN Broken(disk.seal) ELSE "loose")

(* What a DAT file has lost, LoadSND does not miss. *)
TearIndex ==
  \E n \in 0..(disk.ilen - 1) :
    Tears([disk EXCEPT !.ilen = n],
          IF disk.len = Len(disk.toks) /\ disk.seal # "loose" THEN Broken(disk.seal) ELSE "loose")

-------------------------------------------------------------------------------
(* Bounds: when there is a file, clients make one change to what it holds, *)
(* and they write archives of the items they know.                         *)
Near  == disk.fmt = "none" \/ archive = disk.holds
Known == Len(archive) =< MaxItems /\ ToSet(archive) \subseteq ItemsOf[client] \union {Null}

FilesNext ==
  \/ Near /\ ArchiveEdit(ItemsOf[client])
  \/ Near /\ client = "ini" /\ SetValue
  \/ Known /\ FilesWrite
  \/ FilesLoad \/ LoadStep
  \/ TearFile \/ TearIndex

(* Whoever called load waits for it, and it goes on. *)
FilesSpec == FilesInit /\ [][FilesNext]_avars /\ WF_avars(LoadStep)

-------------------------------------------------------------------------------
(* Properties *)

Store == INSTANCE ArchiveStore WITH
           stored <- disk.holds, seal <- disk.seal, base <- io.base,
           busy <- io # Idle, pal <- io.pal, code <- ret.code

(* The loaders and writers of every format do what ArchiveStore says.      *)
StoreSpec == Store!Spec

(* Every load ends. *)
FilesLoadEnds == io # Idle ~> io = Idle
===============================================================================
