# libsiedler2 in TLA+

libsiedler2 reads and writes the data files of *The Settlers II*: archives of
bitmaps, palettes, texts, sounds, fonts, figures and maps. It is a sequential
C++ library; nothing in it runs concurrently and nothing is persisted but whole
files. What is hard in it is not interleaving but

- **long sequences of legal calls on one mutable object** (a bitmap is
  initialised, gets and loses palettes, is converted, created again, loaded,
  and every one of these may fail half way),
- **codecs whose two sides must agree at every boundary** (run lengths, end
  marks, 16-bit addresses, buffers sized by an estimate),
- **reordering** (XMIDI notes end in the future of the event that is read; the
  files of a folder come in any order; a palette keeps its transparent index
  elsewhere in an LBM file),
- **damaged files** (one that was cut anywhere must not load as a whole one, and
  every load must end),
- **what an error leaves behind**, and **state that is read after it changed**
  (a palette pointer after `init`, an item that is null).

The modules model exactly these. All line numbers in `PROJECT.json` are those
of the source they were translated from.

## Inventory

| Component (source) | State | Operations | Interacts with | What makes it correct |
|---|---|---|---|---|
| Bitmap base (`ArchivItem_BitmapBase`) | width, height, format, pixels, owned palette | `init` (2), `clear`, `setPixel` (2), `setPalette`, `setPaletteCopy`, `removePalette`, `convertFormat`, `checkPalette` | global texture format; palette lookups | layers agree in size and format; a palette whenever pixels are indices; failed calls keep or empty it |
| Plain bitmaps (`ArchivItem_Bitmap`, `CopyPixelBuffer`) | the base | `create`, `print`, `flipVertical` | caller's pixel buffers and palettes | print after create shows the buffer; nothing is drawn outside the rectangle |
| Player bitmaps (`ArchivItem_Bitmap_Player`) | plus one player colour per pixel | `create`, `print`, `load` (2), `write` | as above | player colours by palette index only |
| Palettes (`ArchivItem_Palette`) | 256 colours, transparent index | `lookup`, `load`, `write` | bitmaps | an opaque colour is never the transparent index |
| Texture format (`libsiedler2.cpp`) | one global | `setGlobalTextureFormat` | every load | README: all bitmaps loaded afterwards are in that format |
| Codecs RLE, Shadow, Player | position, row, buffer, row addresses | `write`, `load` | bitmaps | what is written is read; the buffer is large enough; cut data is an error |
| XMIDI converter (`XMIDI_TrackConverter`) | list of events, cursor, first state per channel | `Convert`, `CreateMidiTrack` | XMIDI files | events by time, stable; delays add up; notes end |
| Folder loader (`LoadFolder`, `ReadFolderInfo`, `FileEntry`) | archive under construction, recursion for fonts | one pass over sorted files | `Load`, bitmaps, `Archiv` | items are where the names say, with the palette the names say |
| `Archiv` | sequence of items, some null | `alloc`, `alloc_inc`, `set`, `push`, `release`, copy | all loaders | index is the identity of an item |
| LST, DAT/IDX, item dispatch | archive, one pass over the file | `LoadLST`, `WriteLST`, `LoadDATIDX`, `LoadType`, `WriteType` | all items | order and indices survive; an item that fails does not shift others |
| Texts (`LoadTXT`, `WriteTXT`, `ArchivItem_Text`, `oem`) | table of offsets, texts | load, write, line ends, character set | `Archiv` | shared, empty and missing texts come back at their index |
| Bobs | bodies, overlays, links | `load`, lookups of bodies and overlays | player codec | a link names an overlay that was loaded, in the colours of a direction it is shown in |
| Fonts | glyphs, spacing | `load`, `write`, folder form | dispatch, folders | glyphs keep their places |
| Maps (`ArchivItem_Map`, its header) | header, layers, animals | `init`, `setMapDataAt`, copy, `load`, `loadHeader`, `write` | `LoadMAP`, `WriteMAP` | layers have the size of the header; what is written is read; the animals end |
| XMIDI sounds (`ArchivItem_Sound_XMidi`) | tracks, cached MIDI tracks | `load`, `write`, `addTrack`, `getTrack`, `getMidiTrack` | converter | the cache shows the track |
| Palette animations | range, direction, rate | `load`, `write`, text form, `apply` | palettes, LBM | the colours rotate; each animation stays at its index |
| ACT, BBM, LBM, BMP | palette, picture, animations in one file | loaders and writers | palettes, bitmaps | a picture shows the same afterwards |
| INI files (`ArchivItem_Ini`) | sections with named values | `LoadINI`, `WriteINI`, `setValue` | `Archiv` | the last value of a name stands, in its own section |
| WAV, MIDI and other sounds, allocators, tools | none over several steps | parsing | – | – |

`PROJECT.json` lists the same parts under `components`, with what is left out,
and 40 hazards with their lines under `hazards`.

## Modules

| Module | What it is |
|---|---|
| `Bitmap` | one bitmap of either kind, under any sequence of calls |
| `RunLength` | write and load of one picture in the three run-length formats |
| `XmidiEvents` | conversion of one XMIDI track |
| `Folder` | `LoadFolder` on one folder, with folders inside |
| `MapFile` | a map and its file, under any sequence of calls, with a load in steps |
| `XmidiFile` | an XMIDI sound, its cache of converted tracks and its file |
| `ItemFiles` | the two above under one specification, with fairness |
| `ArchiveStore` | abstract: what loaders and writers promise, whatever the format |
| `Archive` | one archive, one file on disk, and the call that runs: the part all formats share |
| `ListFile`, `TextFile`, `PaletteFile`, `PictureFile`, `BobFile`, `IniFile` | the formats: LST, DAT/IDX, fonts; GER, ENG, TXT; ACT, BBM, animations; LBM, BMP; BOB; INI |
| `Files` | `Load` and `Write` over all formats of archives; shown to implement `ArchiveStore` |
| `MC*` | instances for TLC: small sets of palettes, pictures, files |
| `NatSetLemmas` | minima of sets of naturals, steps of naturals, and that a function defined by recursion on them exists |
| `BitmapProofs`, `RunLengthProofs`, `XmidiProofs`, `FolderProofs`, `ItemFilesProofs`, `FilesProofs`, `StoreProofs` | theorems and proofs |

The file formats are one specification over the variables of `Archive`, and
`Files` composes them; `ItemFiles` composes the two items that have a file of
their own. The other modules share no variables. They meet where one part hands
data to another: `RunLength` decodes what `Bitmap` takes as a file (`Files`:
extents and the pixels a file sets), `Folder` takes what `Load` makes of a file,
`XmidiFile` knows a MIDI track by the data that `XmidiEvents` makes it of, and
`ListFile` takes a bitmap of a list as one token.

### Bitmap

`img` is the object: `w`, `h`, `fmt`, `px` (pixels at `y*w + x`), `pal` (the
owned palette or `NoPal`), `tex` (player layer) and whether the object is a
player bitmap. `gfmt` is the global texture format. `ret` is what the last call
returned, with its arguments; `Return` forgets it. Each operation of the code is
an operator from an image to an image and a code, so that `load` composes
`init`, pixels, `convertFormat` and `removePalette` in the code's order, and an
operation that throws leaves the image as far as it came (`convertFormat` looks
all colours up before it assigns). A player bitmap is loaded from a file
(`LoadRunsImg`) or from data in memory, as the loader of bobs does
(`LoadImageImg`, which `LoadRunsImg` calls in its turn); the latter keeps the palette.
`Sees` is what `getPixel` and `getPlayerColorIdx` return, `Screen` what `print`
shows in an empty buffer. The two differ for a player colour over a transparent
pixel, as `create` leaves it of a paletted buffer: `print` shows it while the
bitmap is paletted and not when it is BGRA. `ConvertKeepsView` says that this is
all that a conversion changes. `LoadHonoursFormat` is the promise of the
repository's README that bitmaps are loaded in the global texture format. A shadow
whose file has no data for it does not keep it: it is paletted in any format
(`ArchivItem_Bitmap_Shadow.cpp:72`), and the property says so. Colours are members of a set, indices are
`0..NumIdx-1`. A palette read after it was destroyed reads as any of `Garbage`.

### RunLength

`pic` is the picture, chosen once. `phase` goes from "writing" over "written"
and "reading" to "done"; "overrun" is a write behind the buffer, "wrapped" a
16-bit position or 8-bit count that wrapped. One action writes or reads one run,
one row mark, or the end mark, as the loops do. `Load(c)` loses the last `c`
bytes. `Byte`, `AddrMod` and the run limits are constants so that the limits
can be reached by small pictures: with `Byte = 16` a run is split at 7, 15 or 3,
and with `AddrMod = 26` addresses wrap at 26 bytes.

### XmidiEvents

`list` and `cur` are `MIDI_EventList` and the cursor into it; `fs` is the first
state of the channels (bank, volume and pan before the first note); `out` is the
MIDI track. There is one action per kind of item of the track, one per step of
`ApplyFirstState`, and one for `CreateMidiTrack`. Time is the sum of the delays.
A note-on inserts its note-off later in the list and leaves the cursor at the
note-on. `ReadNoteOnBad`, `ReadDelayBad` and `DataEnds` are the places where
data ends too early.

### Folder

`stack` holds the active calls of `LoadFolder`: their sorted files, the next
one, and the archive so far. Files are records of a number or none, the parts
of their name, an extension and what `Load` makes of them: items, an error, or
a folder, whose files are a member of `Folders` again, so that folders nest to
any depth. `Sortings` are all orders `std::sort` may produce with the code's
`operator<`. A font pushes a call and `LeaveFont` stores the font. "crashed" is
a null pointer that is followed and "threw" an exception that leaves
`LoadFolder`. `PaletteOfName` speaks of folders in which a file that is named as
a palette or as palette animations holds nothing else (`AsNamed`): `LoadFolder`
takes any item it finds for what the name says.

### MapFile

`map` is the object (header, layers, animals), `file` what is on disk, `io` the
load that runs. A file is a record of its header, its blocks and its animals;
`len` counts the parts that are left, one for each thing `load` reads in one go,
and `Cut` may end it behind any of them: at the header, between the head and the
data of a block, between the id and the place of an animal. A load is one step
for the header, one per block, one per animal. The header keeps the name as the
code does: a name shorter than `ShortName` is followed by the extents of the map
as bytes, a longer one uses their place, and `load` tells the two apart by
looking whether the extents are there. In a file with the extra word the last
two bytes of the first block are in the header; `load` replaces them by the byte
before them. Behind the
end of the stream the id of an animal is not set and has any value.

`Found` are files of other programs. `Means` says what a file holds: the header,
what each block decodes to, and the animals. Of files that the model writes this
is proved, of those in `Found` it is assumed (`MapAssumption`).

### XmidiFile

`xmi` is the object: the number of tracks, the tracks, and what was converted.
`hist` remembers what callers did that makes the cache stale, whether a load
refused a number of tracks (`load` takes the number over first, so that the
object says it has more tracks than there is room for), and whether there were
timbres before. A file is its head and, for every track, FORM, perhaps TIMB, and
EVNT. `NeedsNext` is the padding byte of a track of odd length, which `load`
takes and `write` does not write: the loader is then off by one byte (`xio.off`)
and the next chunk is not found. A vector that a cut file filled in part, or
whose length was read from nothing, holds any of `Leavings`
(`XLoadTornTimb`, `XLoadTornEvents`); a length that was lost may ask for more
memory than there is, and the exception leaves `load` (`XLoadLostLength`).

### Archive and the file formats

`archive` is the archive of one client, `disk` one file with the archive it was
written from (`holds`), and `io` the load that runs with its position, index and
the item it is building. `Begins`, `Goes`, `Returns` and `Fails` are how a
loader's steps change these; `ArchiveEdit` is `push`, `set`, `release`, `alloc` and
`alloc_inc`. Each format gives the tokens a writer makes of an archive and the
steps of the loader, one per entry, with every error where the code returns it
and what the archive holds then. `disk.seal` says what a load owes: the archive
("whole"), an error after entries of the file ("torn"), an error ("bad"), or
nothing that could be stated ("loose", where the file cannot tell, as with texts
that were cut inside the data, or where the writer's archive has no form in
the format, as a text with characters the file does not know).

`Files` has clients of one kind each, so that what can be in the archive is the
sum over the formats and not their product: `list`, `text`, `palette`, `picture`,
`bob` and `ini`. `TearFile` and `TearIndex` lose the end of the file or of the
index of a DAT file.

What a file holds is said where a property needs it: `BobIs`, `AnimsAre`, `BmpIs`,
`LbmIs`, `IniIs` and `TextsAre` (together `HoldsIt`) say which token of a bob, a text of
animations, a BMP, LBM or INI file or a table of texts is where and what it stands
for. Of files that the model writes this is proved, of the files of other programs
it is assumed (`FilesAssumption`), as far as the format goes and no further: a
wrong link, a missing block, a cut, an unknown line, a table that is too short or
an offset into itself are all allowed.

**Refinement.** `ArchiveStore` says what no format may break: a load of a whole
file ends with the archive it was written from, behind the entries that were to
stay, or fails for want of a palette; a load of a torn one never succeeds, and
at each of its steps the archive is as before or holds a part of the file at its
own places; a write that reports an error leaves the file, or one that no load
may take for whole. `Files` instantiates it with `stored <- disk.holds` and
`busy <- io # Idle`, and `StoreSpec == Store!Spec` is a property of the run: every step
of every loader and writer is a step of `ArchiveStore` or leaves it alone. A writer
seals its file as whole when every item of the archive has a form in the format,
and a cut seals it as torn where the format lets a loader see that something is
missing; a loader or writer that did less would break the refinement.

## Runs

| Run | Shows | Bounds |
|---|---|---|
| `bitmap` | `Consistent` after any sequence of calls; `ConvertKeepsView`, `FailureKeepsOrEmpties`, `CreateThenPrint`, `PrintStaysInside`, `LoadHonoursFormat` of any step | 4 palette entries of which 2 are player colours, two palettes (one whose transparent colour is also an opaque one, one without a transparent index), 3 colours, bitmaps up to 2 pixels and files and buffers smaller, larger and of another shape; all call sequences |
| `xmidi_events` | `TypeOK`, `InOrder`, `DeltasAddUp`, `NotesEnd`, `NotesHeld`, `ProgramBeforeNotes`, `RunningStatusDecodes` | tracks of 3 items (`MaxItems`) with delay 0 or 2 on two channels, one the drums, one key, two values, notes that last 0, 2 or 3: two notes can touch, overlap, or outlast the track |
| `run_length` | `TypeOK`, `InBuffer`, `RoundTrip`, `CutIsNoticed`, `StartsFindRows` | all pictures up to 4 pixels over two opaque colours (or a player colour) and transparent, further shapes up to 12 pixels with fewer colours, long rows that pass every limit; cut anywhere |
| `folder` | `ArchiveFollowsNames`, `CrashNeedsHole`, `PaletteOfName` | all folders of up to 3 of 22 files that stand for every branch; three is enough for a palette, a bitmap that uses it and one more file that interferes |
| `item_files` | `LayersFit`, `RoundTrip`, `CutIsNoticed`; `CacheShowsTrack`, `CrashNeedsRefusal`, `TracksSurvive`; `LoadEnds` | maps of two layers and up to 4 fields, names of 1 to 5 characters where 1 is short, extents a name can spell, 7 files of other programs (extra word, unused, wrong and larger blocks), memory for 2 animals; sounds with room for 2 tracks, 8 files of other programs; every cut; all call sequences. Two layers are needed because the first is read differently |
| `files` | `StoreSpec`, `FilesLoadEnds`, and per format `TextsStayApart`, `LbmShowsSame`, `BmpShowsSame`, `FiguresComplete`, `AnimsAtPlace`, `LastValueStands` | archives of up to 2 entries, 43 files of other programs, fonts of 2 to 4 glyphs of which the file has those from the second, palettes of 4 colours with the transparent index at either end or nowhere and `TRANSPARENT_COLOR` before it, behind it or alone, pictures up to 2x2, bobs of 2 directions and one step; every cut; a client changes one thing between a load and a write (`Near`). Two entries are enough for one to follow a hole, share a text with another or stay in front of a file's |

The other runs each expect a violation, of something a document or a comment
says:

| Run | What it shows |
|---|---|
| `bitmap_player_colours` | `create` of a player bitmap from a BGRA buffer without a palette argument uses the bitmap's own palette after `init` freed it (`ArchivItem_Bitmap_Player.cpp:343`) |
| `rle_buffer_size` | the RLE buffer is too small for rows of one pixel and some of two (`ArchivItem_Bitmap_RLE.cpp:150`) |
| `folder_unpacked` | a text palette loads as a null item (`PaletteAnimReader.cpp:33`), which `LoadFolder` follows when a bitmap has the same number, as in folders `lstpacker` unpacks |
| `palette_animation` | an upward animation copies its first colour over all but the first of three or more (`ArchivItem_PaletteAnimation.cpp:91`) |
| `text_end_mark` | a converted text keeps the end-of-file marker SUB (26) and what follows it, for the code looks for the octal `'\26'`, which is 22 (`ArchivItem_Text.cpp:41`) |
| `transparent_first` | a palette that has `TRANSPARENT_COLOR` at index 0 and again later gets the later index (`ArchivItem_Palette.cpp:168`) |

The runs of `XmidiEvents`, `RunLength`, `Folder` and `ItemFiles` say
`CHECK_DEADLOCK FALSE`: a conversion, a codec and a pass over a folder end, and
an item may crash the program. A bitmap and an archive can always be called
again, so their runs check deadlock.

**Fairness.** `ItemSpec` and `FilesSpec` assume weak fairness of the steps of a load
that runs, and of nothing else: whoever called `load` waits for it, and the loop
goes on. Clients, writers and losses of a file are not fair. In `MapFile`
`LoadJunkEnd` is outside of the fair steps: that an unset variable happens to be
the end mark may never happen, and the load then ends only when memory is
exhausted (`MaxAnimals`), with an exception. `LoadEnds` and `FilesLoadEnds` say that
every load ends under that assumption. The loops of the other modules end with
their input, one item or one byte at a time.

Each property of a passing run has a mutant: an operator beside the definition
it stands for, marked `Mutant` in the module, that changes it the way a bug
would. Each violates its property under the run's own configuration.

## What is proved

| Theorem | Says, for every value of the constants |
|---|---|
| `BitmapConsistent` | `Spec => []Consistent` |
| `ConversionsKeepView`, `LoadsHonourFormat`, `FailuresKeepOrEmpty`, `PrintsStayInside`, `CreateThenPrintGivesBack` | the five action properties of `Bitmap`, for any palettes, buffers, files and sizes |
| `XmidiTypeCorrect`, `XmidiInOrder` | `Spec => []TypeOK`, `Spec => []InOrder` for tracks of any length |
| `XmidiDelaysFit`, `XmidiDeltasAddUp` | no delay of the MIDI track is negative, and they add up to the times |
| `XmidiNotesEnd`, `XmidiNotesHeld`, `XmidiProgramBeforeNotes`, `XmidiRunningStatusDecodes` | the other properties of `XmidiEvents`, for any number of channels, events and keys |
| `RunLengthInBuffer`, `RunLengthTypes` | no writer leaves its buffer, no loader its data, for pictures of any size |
| `RunLengthRoundTrip`, `RunLengthCutIsNoticed`, `RunLengthStartsFindRows` | what is written is loaded, what is cut is an error, and the table leads to the rows, for any bounds on runs |
| `FolderFollowsNames`, `FolderCrashNeedsHole`, `FolderPaletteOfName` | the properties of `Folder`, for any folders of any files, nested to any depth |
| `MapLayersFit`, `MapRoundTrip`, `MapCutIsNoticed` | the properties of `MapFile`, for any layers, sizes, names, character sets and files |
| `XmidiCacheShowsTrack`, `XmidiCrashNeedsRefusal`, `XmidiTracksSurvive` | the properties of `XmidiFile`, for any files, tracks and room |
| `FilesInvariant`, `TextsApart`, `BobsComplete`, `BmpsShowSame`, `LbmsShowSame`, `AnimationsAtPlace`, `ValuesStand` | `FilesSpec => []FInv` and from it the properties of texts, bobs, BMP and LBM pictures, texts of animations and INI files, in archives of any length and whatever other formats do in between |
| `PalettesStored`, `InisStored` | a client of palettes, of palette animations or of INI files who starts with no file sees `StoreSpec`: what was written is loaded, and a file known to be incomplete is not, for any files and archives |

All assumptions are those of the modules, named and evaluated by TLC in the runs:
what the constants are, and what the files of other programs are.

**Bitmap.** `Consistent` is inductive as it stands, from `BitmapAssumption`
(palettes are total, player colours are indices, no palette is `NoPal`). One
lemma per operation says that it takes consistent images to consistent ones
whatever its arguments and wherever it stops; operations that compose others
cite the lemmas of those. `lookup` returns an index of the palette or throws. The
action properties use `Consistent` in the state before the step and compare
pixels: a conversion looks a colour up that the palette gave, so the same colour
is found (`ConversionsKeepView`), and `print` into an empty buffer is worked out
pixel by pixel for both formats and kinds (`ScreenShows`); the rectangle of `create` and of `print` is
clipped twice, by the bitmap and by the buffer, and `CreateThenPrintGivesBack`
shows that both clip to the same pixels and that `y*w + x` tells pixels apart. A
failed call returns before it assigns, or after `clear`. A buffer that is a null
pointer is `NoBuf`.

**Run lengths.** The invariant of `InBuffer` adds that while writing, finished
rows took at most `RowSize` bytes each and the bytes of the row being written are
bounded by a function of its column, which differs by format: a coloured run of
RLE is opened only after a transparent pixel or a full count, so that the next
pixel is opaque (`NextIsOpaque`). It needs `MaxColour >= 3` and
`MaxClear >= 2` (127 and 255 in the code). Pictures less than three wide are the
exception `InBuffer` names and the run `rle_buffer_size` exhibits.

`RoundTrip` needs to know how the bytes that are written will be read, which no
variable says. `TripInv` therefore claims that a function of marks exists
(`Marks`): for each place in the data, the pixel a reader is at when it comes
there, with the run that follows. The writer extends the marks by one run; a
loader follows them (`OnMark`) until the data ends or, in a file that was cut, it
has left what is there (`OffFile`) and the next look at the end is an error. That
every run fits a byte and is told from a skip by its high bits comes from the
bounds on runs (`Quarters` for player bitmaps), and that 16-bit addresses do not
wrap is the premise `Addressable`.

**XMIDI.** The invariant of `InOrder` is `TypeOK /\ InOrder /\ (phase = "reading" =>
Ids(list))`. `InOrder` alone is not inductive: a new event is placed behind the
events that are not later, starting at the cursor, which is right only because
the cursor is at an event that is not later than the present (part of `TypeOK`),
and because no id in the list exceeds its length while reading (`Ids`), so that
a new event, whose id is one more, is younger than all others. The lemmas on
`Place` and on inserting into an ordered list carry the steps.

`NotesHeld` follows from what the list is at the end and how it is numbered:
the end of a note has the id that follows that of its beginning (`Paired`), so
that in a list that is sorted by time and id no event of the same key comes
between the two unless the notes overlap (`NothingBetween`), and the delays
between them add up to the duration.

`HInv` speaks of the set of events and not of their places, so that inserting is
adding: every note-on has its note-off (`Paired`), nothing is behind the end
(`EndIsLast`), the first state of a channel is that of the first event of its
kind (`FirstPrograms`), and channels that were come to begin with their program
(`Prologued`). What `CreateMidiTrack` writes are the recursive functions of the
time and of the running status along the list. That the delays add up, and that
a status left out is the one a reader has, are equations between such functions
at every place, shown at the least place where they could fail (`MinOfNats`).

**Folders.** `FInv` has for every active call: the sequences are what they are
(`ShapeOK`), an item is of a file that was come to (`SourcesOK`), the archive
reaches as far as the highest number so far (`ReachesOK`), an empty slot that a
file of the same number will look into has a reason (`HolesOK`, `EmptiedOK`), and
`FilesInPlace`. `CrashNeedsHole` follows from the reasons of holes. `PInv` adds
`PaletteOfName`, which needs the sorting: a palette comes before the bitmaps of
its number, and what is at the number of a bitmap when it is come to is the
palette, because only palettes and ignored files share the number (`Alone`).

**Maps.** `MInv` says that the file holds what it says (`FileHolds`: `IsFile` and
`Means`) and that the part of a file that was read is in the object (`Loading`).
Written files mean the map they were written from: the name comes back if its
characters do and its bytes are not taken for extents (`NameKept`), a layer that
was never set is an unused block. In a file with the extra word the last
two fields of the first block are those before them once more, which is also what
`Means` says of the file; with less than three fields there is nothing to repeat,
the exception `ShowsLayer` names.
`AnimalsShown` is only claimed where there is something to be read, for behind
the end of the file an animal is anything.

**XMIDI sounds.** `XInv` is the two properties of the cache with the shape of the
object (its arrays have an element for every slot), that the number of tracks is
at most `MaxTracks` unless a load refused one (`NumFits`), and that while a load
runs nothing is cached or the cache is known to be stale (`LoadsFresh`). The last
is what makes `CacheShowsTrack` inductive: a step of a load changes a track, and
only because the head of the file has looked at the cache does that not matter.
`TInv` adds what a load has read: the tracks before the one it has come to are
those of the file (`LoadedTrack`, `LoadGoesOn`), none of them off by a byte.

**Archives.** `FInv` of `FilesProofs` is for all formats at once. `Calm` says what
calls and loads leave in `io` and `ret`; `FileOK` that the file holds what its
format says; `TextOK`, `BobOK`, `BmpOK`, `LbmOK`, `AnimsOK` and `IniOK` what a load of that format has
read so far. Every other step leaves them (`OthersKeep`: an operation of another kind is
known by `io.op` and `ret.op`), so that each format needs its own steps only.

- Of a table of texts, `Contiguous` is what `Layout` keeps: each text that is stored
  begins where the one before it and its terminator end. So the bytes at an
  offset are those of the text up to the first terminator (`StretchesAt`,
  `UntilAt`), for no character that the file knows becomes one (`CleanLacks`), and
  an entry whose text is there already shares it (`OldPlaceIs`). `OemBack` and
  `AnsiBack` say that a text comes back from its form in the file: every at sign
  that `setText` finds stands in a pair that was a line feed, because the text has
  none of its own (`PairsOfEach`). That takes `TextAssumption`: the two character
  sets are the same up to 128 (`oem.cpp`). A file is read twice over (`TableRead`),
  first the offsets and the data, of which the size may be that of the file, then
  entry after entry; a list or a plain text that is read as a table is none (`Tabled`).
- A bob is loaded in stages, bodies, overlays and links (`InBodies`,
  `InOverlays`, `InLinks`), each with the position that follows from what was
  taken. `LinksOK` is the heart: an overlay is decoded if and only if a link
  names it, with the colours of the direction of the first that does. That the
  place of a link gives its direction back, and that every place is one of a job,
  build, direction and step, is division by a product, done in two digits
  (`TwoDigits`, `TwoDigitsOf`).
- The writer of a BMP puts `TRANSPARENT_COLOR` at the transparent index, and
  `DefaultTrans` finds that index again, or the first entry with the colour that is
  ahead of it (`PickedIndex`). In the second case the two change roles, which
  no one sees in a picture that uses neither (`ChangesRoles`, `SameShown`). The rows are upside down
  unless the file says otherwise, which `RowAt` undoes.
- `LbmOK` knows where the header is and which palette was last (`OnlyHeader`,
  `LastPalette`), and that the animations of the archive are those of the chunks so
  far. What the body stores is `Stores`: the pixels with 0 and the transparent
  index exchanged (`Swap`) under a palette with the same two colours exchanged
  (`Exchanged`), so a pixel has the colour it had. For a file that is written here this
  comes from `WriteLBM`, whose pixels are laid out row after row (`FlatRows`); that
  the body of a found file unpacks to its pixels is part of `FilesAssumption`, which TLC
  evaluates, and a found file that ends with something other than a body is
  outside of the property. Turning the palette and exchanging two colours
  that the animation leaves alone can be done in either order (`Turned`, `Moves`).
- Of a text of animations, every entry of the archive is that of the last line
  that names it, or what was there before (`EntryRead`), and the last entry is
  either named or was there (`LinesRead`), so that the archive is no longer than
  it has to be. `LinesOf` describes the
  recursive function `AnimLines` of the writer.
- Of an INI file, every section of the archive, and the one that is read, is what
  the lines so far make of it (`SectionIs`): its values are those of the last
  lines with their names, each name once. `setValue` keeps that because it
  replaces the first value of the name, and there is no second
  (`ValueSetIs`, `SectionGrows`). An empty line ends a section, so that a load that
  finds the end of the file outside of one has read an empty last line: the only
  way to the section without a name (`SectionsRead`). Which lines `WriteINI` makes
  comes from a lemma about `FlattenSeq` (`Flattened`).

**Refinement.** `StoreProofs` shows that the steps of a client who starts with no
file are steps of `ArchiveStore`, so far for clients of palettes and of palette
animations (`PalettesStored`) and for clients of INI files (`InisStored`). Each action of `ArchiveStore` has a lemma that says when a
step of `Files` is one (`EditMaps` to `FailMaps`); the rest is what has to be known of the file.
`PaletteSealed` says it of each format by the seal: a whole file is all there and has the
tokens of what it holds, and one that is known to be incomplete ends where the loader
looks: an ACT file with too few colours, a BBM file within a palette (`ActSealed`,
`BbmSealed`). `PaletteLoads` says how far a load is: in the archive are the first so many
palettes of the file, behind what was there (`Added`), and in a file that has lost a
palette the load does not get to its end. What `WriteBBM` writes, two tokens for
each palette whatever else is in the archive, is a lemma about `FlattenSeq` again (`ChunksAre`).
Of an INI file `SectionsLie` says where each section begins: at the first line, and then
an empty line behind the section before, as `WriteINI` leaves it (`IniLaid`, from where
the pieces of a flattened sequence lie, `PlacesOf`). A load of a whole file is at the head
of a section, behind some of its values, or has seen the end of the file (`IniStored`):
`HeadRead`, `ValueRead` and `SectionRead` say what it finds there, and so that it
fails nowhere. The values that it puts into a section are put behind the others, for no two
of a storable section have one name (`NextValue`). A shortened INI file may still
load, with fewer sections; only of an empty one is it known that it must not (`IniSealed`).

Liveness under fairness and `ENABLED` are out of this prover's reach: `LoadEnds` and
`FilesLoadEnds` are only model-checked. So is `StoreSpec` for the clients of the other formats
and for those who start with a file of another program.

## Abstractions to know of

- Pixels of a file are a set of writes (`put`) inside of the picture, made before
  an error at any of the loaders' checks; which bytes encode them is `RunLength`'s
  matter. Files that write outside of the picture are left out: `setPixel` has
  no check but an assertion, and what happens then is undefined.
- `RunLength` loads what the writers wrote, whole or cut, not arbitrary bytes.
- Parts of file names are tokens (`num`, `hex`, a keyword, a word); parsing of
  digits and names of items are left out. A part whose number does not parse is
  a token that throws.
- `Folder` assumes the texture format Original and leaves out sizes of
  bitmaps: the 1000x1000 buffer that converted bitmaps pass through
  (`libsiedler2.cpp:203`) cuts larger ones.
- An exception inside `Load` is an error code (`Load` catches it); one from
  `create` or `ReadFolderInfo` leaves `LoadFolder`.

- Files are sequences of tokens and are cut between two of them. A cut inside of
  a token that a loader reads in one go gives the same error as a cut before it
  wherever the code looks at the stream only afterwards; where it differs (the
  header of a map, the data of an XMIDI track) both are there.
- The model is of a release build: `assert(false)` (`ArchivItem_Map.cpp:95`,
  `LoadDATIDX.cpp:86`) does nothing.
- A bitmap in an archive has a palette of its own, as one that was loaded
  paletted has; one in BGRA needs a palette to be written.
- Names of items are not kept; `CUSTOM + index` of `LoadLST` is one code.
- Characters are numbers and the conversion to the character set of the files a
  table, with characters that have no equivalent.
- The palette given to `Load` or `Write` has a transparent index.
- Of a map's header the name, extents and extra word are told apart; all other
  fields travel as one value.
- `PictureFile` has the texture format Original. The number of colours a BMP
  says it uses is not kept.
- The further lines of an INI value have no equals sign.

## Not modelled, and why

- Maps inside of LST lists, headers of WAV, MIDI and other sounds, allocators,
  cloning of items that are plain values, error messages: pure input and output,
  or without behaviour over several steps.
- `writeLinks` and `readLinks` of bobs, `getVisibleArea`, the command line programs
  (but for the names `unpack` gives): tools over finished data.
- The text form of a palette (`LoadTxtPalette`, `WriteTxtPalette`) beyond the null
  item it loads as.
- LBM runs that go past their chunk, offsets of texts behind the data and player
  rows that begin outside of it: files that no writer makes, for which the
  loaders have no check and no document promises one.
- Player bitmaps written to BMP; the value of a font's spacing.

## Plan

What would be next, in this order:

1. The refinement of `ArchiveStore`, format by format, as step theorems. It needs
   for every format what `HoldsIt` says of six: which tokens stand for which
   entry.
2. Archives of three entries in `files`; `LoadTxtPalette` and `WriteTxtPalette`;
   maps in lists.
