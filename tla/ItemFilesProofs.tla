--------------------------- MODULE ItemFilesProofs ---------------------------
(***************************************************************************)
(* The two items with a file of their own, for any files, cuts and calls.  *)
(* Maps, for any number of layers, any sizes and names: layers fit the     *)
(* header, a load without error gives the map that the file holds, and a   *)
(* file that lost a part is not loaded without one.  XMIDI sounds, for any *)
(* number of tracks: what is kept of conversions is what the tracks        *)
(* convert to, unless a caller edits or loads tracks after a conversion or *)
(* goes on after a refused load; and only after a refused load can the     *)
(* program crash.  And the tracks: what is loaded without error is what    *)
(* the file holds (TInv).                                                  *)
(***************************************************************************)
EXTENDS MapFile, XmidiFile, NatSetLemmas, SequenceTheorems, TLAPS

(***************************************************************************)
(* Maps                                                                    *)
(***************************************************************************)

(* Whatever is in the file, it is a file and says what it holds. *)
FileHolds == IsFile(file) /\ Means(file, file.holds)

(* What a load that runs has read so far is what the file holds: the       *)
(* header, the layers, and, as long as there is an animal to be read or an *)
(* end, the animals, none of which is the last.                            *)
AnimalsShown ==
  Given(AnimalAt(Coming)) =>
    /\ Len(map.animals) =< Len(file.animals)
    /\ \A j \in DOMAIN map.animals :
         map.animals[j] = file.animals[j] /\ file.animals[j].id # EndId

Loading ==
  io # Idle =>
    /\ ret = NoRet /\ map.hdr = HeaderRead(file.hdr)
    /\ \A k \in DOMAIN map.layers : ShowsLayer(map, file.holds, k)
    /\ InAnimals => AnimalsShown

MInv == LayersFit /\ io \in 0..(NumLayers + 2) /\ FileHolds /\ Loading /\ RoundTrip /\ CutIsNoticed

-------------------------------------------------------------------------------
(* Sequences *)

LEMMA MapConstants ==
  /\ NumLayers \in Nat \ {0} /\ ShortName \in Nat /\ Byte \in Nat \ {0} /\ EndId \in Int
  /\ ToOem \in [Char -> Char] /\ ToAnsi \in [Char -> Char]
  /\ 0 \in Char /\ 0 \in Cells /\ NoHeader \notin Header /\ NoLayer \notin Seq(Cells)
  /\ Headers \subseteq Header /\ Animals \subseteq Animal
<1>1. Byte \in Nat \ {0}
  BY MapAssumption
<1>2. 0 \in Char
  BY <1>1 DEF Char
<1> QED BY <1>2, MapAssumption, Zenon

LEMMA Extensional ==
  ASSUME NEW S, NEW s \in Seq(S), NEW t \in Seq(S), Len(s) = Len(t),
         \A k \in 1..Len(s) : s[k] = t[k]
  PROVE  s = t
  BY SMT

LEMMA ThroughOK ==
  ASSUME NEW tab \in [Char -> Char], NEW s \in Seq(Char)
  PROVE  /\ Through(tab, s) \in Seq(Char) /\ Len(Through(tab, s)) = Len(s)
         /\ \A k \in 1..Len(s) : Through(tab, s)[k] = tab[s[k]]
<1>1. DOMAIN s = 1..Len(s) /\ Len(s) \in Nat /\ \A k \in 1..Len(s) : s[k] \in Char
  OBVIOUS
<1>2. Through(tab, s) \in [1..Len(s) -> Char]
  BY <1>1 DEF Through
<1> QED BY <1>1, <1>2 DEF Through

LEMMA PrefixOK ==
  ASSUME NEW S, NEW s \in Seq(S), NEW n \in 0..Len(s)
  PROVE  /\ SubSeq(s, 1, n) \in Seq(S) /\ Len(SubSeq(s, 1, n)) = n
         /\ \A k \in 1..n : SubSeq(s, 1, n)[k] = s[k]
  BY SMT

LEMMA BeforeOK ==
  ASSUME NEW S, NEW s \in Seq(S), NEW places, places \subseteq DOMAIN s
  PROVE  Before(s, places) \in Seq(S)
<1>1. CASE places = {}
  BY <1>1 DEF Before
<1>2. CASE places # {}
  <2>1. Min(places) \in 1..Len(s)
    <3>1. places \subseteq Nat
      OBVIOUS
    <3> QED BY <1>2, <3>1, MinOfNats
  <2>2. Min(places) - 1 \in 0..Len(s)
    BY <2>1
  <2> QED BY <1>2, <2>2, PrefixOK DEF Before
<1> QED BY <1>1, <1>2

(* A sequence before places that begin after n elements. *)
LEMMA BeforeFirst ==
  ASSUME NEW S, NEW s \in Seq(S), NEW n \in 0..Len(s), NEW places,
         places \subseteq (n + 1)..Len(s), n < Len(s) => n + 1 \in places
  PROVE  Before(s, places) = SubSeq(s, 1, n)
<1>1. CASE n = Len(s)
  <2>1. places = {}
    BY <1>1
  <2>2. SubSeq(s, 1, Len(s)) = s
    BY SMT
  <2> QED BY <1>1, <2>1, <2>2 DEF Before
<1>2. CASE n < Len(s)
  <2>1. n + 1 \in places /\ places \subseteq Nat
    BY <1>2
  <2>2. Min(places) \in places /\ Min(places) =< n + 1
    BY <2>1, MinOfNats
  <2>3. Min(places) = n + 1
    <3>1. Min(places) \in (n + 1)..Len(s)
      BY <2>2
    <3> HIDE DEF Min
    <3> QED BY <2>2, <3>1
  <2> QED BY <2>1, <2>3 DEF Before
<1> QED BY <1>1, <1>2

-------------------------------------------------------------------------------
(* The name in the header *)

LEMMA HighByte ==
  ASSUME NEW B \in Nat \ {0}, NEW n \in 0..(B * B - 1)
  PROVE  n % B \in 0..(B - 1) /\ n \div B \in 0..(B - 1)
<1> DEFINE d == n \div B
           m == n % B
<1>1. n = B * d + m /\ m \in 0..(B - 1) /\ d \in Int /\ n \in Nat
  BY SMT
<1>2. d >= 0
  <2>1. CASE d < 0
    <3>1. B * d =< B * (-1)
      BY <2>1, <1>1, SMT
    <3> QED BY <3>1, <1>1
  <2> QED BY <2>1, <1>1
<1>3. d < B
  <2>1. CASE d >= B
    <3>1. B * d >= B * B
      BY <2>1, <1>1, SMT
    <3> QED BY <3>1, <1>1
  <2> QED BY <2>1, <1>1
<1> QED BY <1>1, <1>2, <1>3

LEMMA SizeBytesOK ==
  ASSUME NEW h, h.w \in Extent, h.h \in Extent
  PROVE  \A k \in 1..4 : SizeBytes(h)[k] \in Char
<1>1. h.w % Byte \in Char /\ h.w \div Byte \in Char
  BY MapConstants, HighByte DEF Extent, Char
<1>2. h.h % Byte \in Char /\ h.h \div Byte \in Char
  BY MapConstants, HighByte DEF Extent, Char
<1>3. \A k \in 1..4 : k = 1 \/ k = 2 \/ k = 3 \/ k = 4
  OBVIOUS
<1> QED BY <1>1, <1>2, <1>3 DEF SizeBytes

LEMMA TruncatedOK ==
  ASSUME NEW S, NEW s \in Seq(S), NEW n \in Nat
  PROVE  /\ Truncated(s, n) \in Seq(S) /\ Len(Truncated(s, n)) =< n
         /\ Len(s) =< n => Truncated(s, n) = s
<1> DEFINE m == IF n < Len(s) THEN n ELSE Len(s)
<1>1. m \in 0..Len(s) /\ m =< n
  OBVIOUS
<1>2. SubSeq(s, 1, Len(s)) = s
  BY SMT
<1>3. Len(s) =< n => m = Len(s)
  OBVIOUS
<1>4. Truncated(s, n) = SubSeq(s, 1, m)
  BY DEF Truncated
<1> HIDE DEF m
<1> QED BY <1>1, <1>2, <1>3, <1>4, PrefixOK

LEMMA NameFieldOK ==
  ASSUME NEW h \in Header
  PROVE  NameField(h) \in [1..(ShortName + 4) -> Char] /\ NameField(h) \in Seq(Char)
         /\ Len(NameField(h)) = ShortName + 4
<1> DEFINE oem == Through(ToOem, Truncated(h.name, ShortName + 3))
<1>1. oem \in Seq(Char)
  <2>1. h.name \in Seq(Char) /\ ShortName + 3 \in Nat
    BY MapConstants DEF Header
  <2> QED BY <2>1, TruncatedOK, ThroughOK, MapConstants
<1>2. \A k \in 1..4 : SizeBytes(h)[k] \in Char
  BY SizeBytesOK DEF Header
<1> HIDE DEF oem
<1>3. ASSUME NEW k \in 1..(ShortName + 4)
      PROVE  (IF k =< Len(oem) THEN oem[k]
              ELSE IF k > ShortName /\ Len(oem) < ShortName THEN SizeBytes(h)[k - ShortName]
              ELSE 0) \in Char
  <2>1. k =< Len(oem) => oem[k] \in Char
    BY <1>1, MapConstants
  <2>2. k > ShortName => k - ShortName \in 1..4
    BY MapConstants
  <2> QED BY <1>2, <2>1, <2>2, MapConstants
<1>4. NameField(h) \in [1..(ShortName + 4) -> Char]
  BY <1>3 DEF NameField, oem
<1>5. ShortName + 4 \in Nat
  BY MapConstants
<1> QED BY <1>4, <1>5

(* What is read of any name field is a name. *)
LEMMA NameReadOK ==
  ASSUME NEW head, head.name \in Seq(Char), Len(head.name) = ShortName + 4
  PROVE  NameRead(head) \in Seq(Char)
<1> DEFINE n == IF Sized(head) THEN ShortName ELSE ShortName + 4
           s == SubSeq(head.name, 1, n)
<1>1. n \in 0..Len(head.name)
  BY MapConstants
<1>2. s \in Seq(Char)
  BY <1>1, PrefixOK
<1>3. NameRead(head) = Through(ToAnsi, CString(s))
  BY DEF NameRead
<1> HIDE DEF s
<1>4. CString(s) \in Seq(Char)
  BY <1>2, BeforeOK DEF CString
<1> QED BY <1>3, <1>4, ThroughOK, MapConstants

(* A name that the file can express comes back, short or long. *)
LEMMA NameBack ==
  ASSUME NEW h \in Header, NameKept(h)
  PROVE  NameRead(HeaderPart(h)) = h.name
<1> DEFINE head == HeaderPart(h)
           oem == Through(ToOem, h.name)
           len == IF Sized(head) THEN ShortName ELSE ShortName + 4
           s == SubSeq(head.name, 1, len)
           zeros == {k \in DOMAIN s : s[k] = 0}
<1>1. h.name \in Seq(Char) /\ Len(h.name) \in Nat /\ Len(h.name) =< ShortName + 3
  BY DEF Header, NameKept
<1>2. /\ oem \in Seq(Char) /\ Len(oem) = Len(h.name)
      /\ \A k \in 1..Len(h.name) : oem[k] = ToOem[h.name[k]]
  BY <1>1, ThroughOK, MapConstants
<1>3. \A k \in 1..Len(oem) : oem[k] # 0 /\ ToAnsi[oem[k]] = h.name[k]
  BY <1>1, <1>2 DEF NameKept
<1>4. Truncated(h.name, ShortName + 3) = h.name
  <2>1. ShortName + 3 \in Nat
    BY MapConstants
  <2> QED BY <1>1, <2>1, TruncatedOK
<1>5. head.name = NameField(h) /\ head.w = h.w /\ head.h = h.h
  BY DEF HeaderPart
<1> HIDE DEF oem, head
<1>6. \A k \in 1..(ShortName + 4) :
        head.name[k] = IF k =< Len(oem) THEN oem[k]
                       ELSE IF k > ShortName /\ Len(oem) < ShortName THEN SizeBytes(h)[k - ShortName]
                       ELSE 0
  BY <1>4, <1>5 DEF NameField, oem
<1>7. head.name \in Seq(Char) /\ Len(head.name) = ShortName + 4
  BY <1>5, NameFieldOK
<1>8. Len(oem) =< len /\ len \in 0..(ShortName + 4)
  <2>1. Len(oem) > ShortName => ~Sized(head)
    BY <1>2 DEF NameKept, head
  <2> QED BY <1>1, <1>2, <2>1, MapConstants
<1>9. Len(oem) < ShortName => Sized(head)
  <2> SUFFICES ASSUME Len(oem) < ShortName, NEW k \in 1..4
               PROVE  head.name[ShortName + k] = SizeBytes(head)[k]
    BY DEF Sized
  <2> DEFINE p == ShortName + k
  <2>1. p \in 1..(ShortName + 4) /\ p > ShortName /\ ~(p =< Len(oem)) /\ p - ShortName = k
    BY <1>1, <1>2, MapConstants
  <2>2. SizeBytes(head) = SizeBytes(h)
    BY <1>5 DEF SizeBytes
  <2> HIDE DEF p
  <2>3. head.name[p] = SizeBytes(h)[p - ShortName]
    BY <1>6, <2>1
  <2> QED BY <2>1, <2>2, <2>3 DEF p
<1>10. s \in Seq(Char) /\ Len(s) = len /\ \A k \in 1..len : s[k] = head.name[k]
  BY <1>7, <1>8, PrefixOK
<1>11. \A k \in 1..len : k =< Len(oem) => s[k] = oem[k] /\ s[k] # 0
  BY <1>3, <1>6, <1>8, <1>10, MapConstants
<1>12. Len(oem) < len => s[Len(oem) + 1] = 0
  <2> SUFFICES ASSUME Len(oem) < len
               PROVE  s[Len(oem) + 1] = 0
    OBVIOUS
  <2>1. Len(oem) + 1 \in 1..len /\ Len(oem) + 1 \in 1..(ShortName + 4) /\ ~(Len(oem) + 1 =< Len(oem))
    BY <1>1, <1>2, <1>8, MapConstants
  <2>2. ~(Len(oem) + 1 > ShortName /\ Len(oem) < ShortName)
    BY <1>1, <1>2, MapConstants
  <2> QED BY <1>6, <1>10, <2>1, <2>2
<1> HIDE DEF s, len
<1>13. zeros \subseteq (Len(oem) + 1)..Len(s) /\ (Len(oem) < Len(s) => Len(oem) + 1 \in zeros)
  BY <1>1, <1>2, <1>8, <1>10, <1>11, <1>12, MapConstants
<1>14. CString(s) = SubSeq(s, 1, Len(oem))
  <2>1. Len(oem) \in 0..Len(s)
    BY <1>1, <1>2, <1>8, <1>10
  <2> QED BY <1>10, <1>13, <2>1, BeforeFirst DEF CString
<1>15. CString(s) \in Seq(Char) /\ Len(CString(s)) = Len(oem) /\ \A k \in 1..Len(oem) : CString(s)[k] = oem[k]
  <2>1. Len(oem) \in 0..Len(s)
    BY <1>1, <1>2, <1>8, <1>10
  <2>2. /\ SubSeq(s, 1, Len(oem)) \in Seq(Char) /\ Len(SubSeq(s, 1, Len(oem))) = Len(oem)
        /\ \A k \in 1..Len(oem) : SubSeq(s, 1, Len(oem))[k] = s[k]
    BY <1>10, <2>1, PrefixOK
  <2> QED BY <1>8, <1>10, <1>11, <1>14, <2>1, <2>2
<1>16. NameRead(head) = Through(ToAnsi, CString(s))
  BY DEF NameRead, s, len
<1>17. /\ Through(ToAnsi, CString(s)) \in Seq(Char) /\ Len(Through(ToAnsi, CString(s))) = Len(oem)
       /\ \A k \in 1..Len(oem) : Through(ToAnsi, CString(s))[k] = ToAnsi[CString(s)[k]]
  BY <1>15, ThroughOK, MapConstants
<1>18. \A k \in 1..Len(oem) : Through(ToAnsi, CString(s))[k] = h.name[k]
  BY <1>3, <1>15, <1>17
<1> QED BY <1>1, <1>2, <1>16, <1>17, <1>18, Extensional DEF head
-------------------------------------------------------------------------------
(* Maps in memory *)

(* What LayersFit says of the map. *)
MapFits(m) ==
  /\ m \in Map /\ Len(m.layers) =< NumLayers
  /\ \A k \in DOMAIN m.layers :
       m.layers[k] # NoLayer => m.hdr # NoHeader /\ Len(m.layers[k]) = Area(m.hdr)

Layer1 == Seq(Cells) \cup {NoLayer}

LEMMA MapParts ==
  ASSUME NEW m \in Map
  PROVE  /\ m.hdr \in Header \cup {NoHeader} /\ m.layers \in Seq(Layer1) /\ m.animals \in Seq(Animal)
         /\ m = [hdr |-> m.hdr, layers |-> m.layers, animals |-> m.animals]
  BY DEF Map, Layer1

LEMMA MadeMap ==
  ASSUME NEW h \in Header \cup {NoHeader}, NEW l \in Seq(Layer1), NEW a \in Seq(Animal)
  PROVE  [hdr |-> h, layers |-> l, animals |-> a] \in Map
  BY DEF Map, Layer1

LEMMA AreaIsNat ==
  ASSUME NEW h \in Header
  PROVE  Area(h) \in Nat
<1>1. Byte * Byte - 1 \in Int
  BY MapConstants, SMT
<1>2. h.w \in Nat /\ h.h \in Nat
  BY <1>1 DEF Header, Extent
<1> QED BY <1>2, SMT DEF Area

(* A call that leaves a map that fits. *)
LEMMA CallKeepsInv ==
  ASSUME MInv, NEW m, MapFits(m), Calls(m)
  PROVE  MInv'
<1>1. map' = m /\ io = Idle /\ io' = Idle /\ ret' = NoRet /\ file' = file
  BY DEF Calls
<1>2. LayersFit'
  BY <1>1 DEF MapFits, LayersFit
<1>3. FileHolds'
  BY <1>1 DEF MInv, FileHolds
<1>4. Loading' /\ RoundTrip' /\ CutIsNoticed'
  BY <1>1 DEF Loading, RoundTrip, CutIsNoticed, NoRet
<1>5. io' \in 0..(NumLayers + 2)
  BY <1>1 DEF MInv
<1> QED BY <1>2, <1>3, <1>4, <1>5 DEF MInv

LEMMA InvFits ==
  ASSUME MInv
  PROVE  MapFits(map)
  BY DEF MInv, LayersFit, MapFits

LEMMA NewFits == MapFits(NewMap)
<1>1. <<>> \in Seq(Layer1) /\ <<>> \in Seq(Animal)
  OBVIOUS
<1>2. NewMap \in Map
  BY <1>1, MadeMap DEF NewMap
<1>3. NewMap.layers = <<>>
  BY DEF NewMap
<1> QED BY <1>2, <1>3, MapConstants DEF MapFits

LEMMA InitMapKeepsInv ==
  ASSUME MInv, NEW h \in Headers \cup {NoHeader}, InitMap(h)
  PROVE  MInv'
<1> DEFINE row == [n \in 1..Area(h) |-> 0]
           ls == IF h = NoHeader THEN <<>> ELSE [k \in 1..NumLayers |-> row]
           m == Headed(h, ls)
<1>1. /\ map.hdr \in Header \cup {NoHeader} /\ map.layers \in Seq(Layer1) /\ map.animals \in Seq(Animal)
      /\ map = [hdr |-> map.hdr, layers |-> map.layers, animals |-> map.animals]
  BY InvFits, MapParts DEF MapFits
<1>2. h \in Header \cup {NoHeader}
  BY MapConstants
<1>3. CASE h = NoHeader
  <2>1. ls = <<>>
    BY <1>3
  <2> HIDE DEF ls
  <2>2. m = [hdr |-> h, layers |-> ls, animals |-> map.animals]
    BY DEF Headed
  <2>3. ls \in Seq(Layer1)
    BY <2>1
  <2>4. m \in Map
    BY <1>1, <1>2, <2>2, <2>3, MadeMap
  <2> HIDE DEF m
  <2>5. m.layers = <<>>
    BY <2>1, <2>2
  <2>6. MapFits(m)
    BY <2>4, <2>5, MapConstants DEF MapFits
  <2> QED BY <2>6, CallKeepsInv DEF InitMap, m, ls
<1>4. CASE h # NoHeader
  <2>1. Area(h) \in Nat
    BY <1>2, <1>4, AreaIsNat
  <2>2. row \in Seq(Cells) /\ Len(row) = Area(h)
    BY <2>1, MapConstants
  <2> HIDE DEF row
  <2>3. row \in Layer1
    BY <2>2 DEF Layer1
  <2>4. ls \in Seq(Layer1) /\ Len(ls) = NumLayers /\ \A k \in 1..NumLayers : ls[k] = row
    BY <1>4, <2>3, MapConstants
  <2> HIDE DEF ls
  <2>5. m = [hdr |-> h, layers |-> ls, animals |-> map.animals]
    BY DEF Headed
  <2>6. m \in Map
    BY <1>1, <1>2, <2>4, <2>5, MadeMap
  <2> HIDE DEF m
  <2>7. m.hdr = h /\ m.layers = ls
    BY <2>5
  <2>8. MapFits(m)
    BY <1>4, <2>2, <2>4, <2>6, <2>7, MapConstants DEF MapFits
  <2> QED BY <2>8, CallKeepsInv DEF InitMap, m, ls, row
<1> QED BY <1>3, <1>4

LEMMA SetMapDataKeepsInv ==
  ASSUME MInv, NEW k \in 1..NumLayers, NEW n, NEW c \in Cells, SetMapDataAt(k, n, c)
  PROVE  MInv'
<1> DEFINE old == map.layers[k]
           row == [old EXCEPT ![n] = c]
           ls == [map.layers EXCEPT ![k] = row]
           m == [map EXCEPT !.layers = ls]
<1>1. /\ map.hdr \in Header \cup {NoHeader} /\ map.layers \in Seq(Layer1) /\ map.animals \in Seq(Animal)
      /\ map = [hdr |-> map.hdr, layers |-> map.layers, animals |-> map.animals]
  BY InvFits, MapParts DEF MapFits
<1>2. k \in DOMAIN map.layers /\ old # NoLayer /\ n \in DOMAIN old
  BY DEF SetMapDataAt
<1>3. old \in Seq(Cells)
  BY <1>1, <1>2 DEF Layer1
<1> HIDE DEF old
<1>4. row \in Seq(Cells) /\ Len(row) = Len(old)
  BY <1>2, <1>3
<1> HIDE DEF row
<1>5. row \in Layer1
  BY <1>4 DEF Layer1
<1>6. ls \in Seq(Layer1) /\ Len(ls) = Len(map.layers) /\ DOMAIN ls = DOMAIN map.layers
      /\ \A j \in DOMAIN map.layers : ls[j] = IF j = k THEN row ELSE map.layers[j]
  BY <1>1, <1>2, <1>5
<1> HIDE DEF ls
<1>7. m = [hdr |-> map.hdr, layers |-> ls, animals |-> map.animals]
  BY <1>1
<1>8. m \in Map
  BY <1>1, <1>6, <1>7, MadeMap
<1> HIDE DEF m
<1>9. m.hdr = map.hdr /\ m.layers = ls
  BY <1>7
<1>10. MapFits(m)
  <2>1. MapFits(map)
    BY InvFits
  <2> QED BY <1>2, <1>4, <1>6, <1>8, <1>9, <2>1 DEF MapFits, old
<1>11. Calls(m)
  BY DEF SetMapDataAt, m, ls, row, old
<1> QED BY <1>10, <1>11, CallKeepsInv

LEMMA AnimalsKeepInv ==
  ASSUME MInv, NEW a \in Seq(Animal), Calls([map EXCEPT !.animals = a])
  PROVE  MInv'
<1> DEFINE m == [map EXCEPT !.animals = a]
<1>1. /\ map.hdr \in Header \cup {NoHeader} /\ map.layers \in Seq(Layer1)
      /\ map = [hdr |-> map.hdr, layers |-> map.layers, animals |-> map.animals]
  BY InvFits, MapParts DEF MapFits
<1>2. m = [hdr |-> map.hdr, layers |-> map.layers, animals |-> a]
  BY <1>1
<1>3. m \in Map /\ m.hdr = map.hdr /\ m.layers = map.layers
  BY <1>1, <1>2, MadeMap
<1> HIDE DEF m
<1>4. MapFits(m)
  BY <1>3, InvFits DEF MapFits
<1> QED BY <1>4, CallKeepsInv DEF m

-------------------------------------------------------------------------------
(* Files *)

LEMMA HeaderReadOK ==
  ASSUME NEW f, IsFile(f)
  PROVE  HeaderRead(f.hdr) \in Header
<1>1. /\ f.hdr.name \in Seq(Char) /\ f.hdr.w \in Extent /\ f.hdr.h \in Extent
      /\ f.hdr.extra \in BOOLEAN /\ f.hdr.rest \in Rest /\ Len(f.hdr.name) = ShortName + 4
  BY DEF IsFile
<1>2. NameRead(f.hdr) \in Seq(Char)
  BY <1>1, NameReadOK
<1> QED BY <1>1, <1>2 DEF HeaderRead, Header

LEMMA HeaderIsNoNull == \A h \in Header : h # NoHeader
  BY MapConstants

LEMMA LayerOK ==
  ASSUME NEW m, MapFits(m), NEW k
  PROVE  /\ Layer(m, k) \in Layer1
         /\ Layer(m, k) # NoLayer =>
              Layer(m, k) \in Seq(Cells) /\ m.hdr # NoHeader /\ Len(Layer(m, k)) = Area(m.hdr)
<1>1. m.layers \in Seq(Layer1)
  BY MapParts DEF MapFits
<1> QED BY <1>1 DEF MapFits, Layer, Layer1

(* A file that was written is a file, and holds the map. *)
LEMMA WrittenHolds ==
  ASSUME NEW m, MapFits(m), m.hdr # NoHeader
  PROVE  IsFile(FileOf(m)) /\ Means(FileOf(m), m) /\ FileOf(m).holds = m
<1> DEFINE f == FileOf(m)
           head == HeaderPart(m.hdr)
           block(k) == BlockPart(m.hdr, Layer(m, k))
           blocks == [k \in 1..NumLayers |-> block(k)]
           BlockSet == [ok : BOOLEAN, w : Extent, h : Extent, mult : Nat, len : Nat, d : Seq(Cells)]
           HeadSet == [ok : BOOLEAN, name : Seq(Char), w : Extent, h : Extent, extra : BOOLEAN, rest : Rest]
           end == AnimalAt(Len(m.animals) + 1)
<1>1. m \in Map /\ m.hdr \in Header /\ m.animals \in Seq(Animal)
  BY MapParts DEF MapFits
<1>2. f = [hdr |-> head, blocks |-> blocks, animals |-> m.animals, len |-> end, holds |-> m]
  BY DEF FileOf
<1>3. head \in HeadSet /\ Len(head.name) = ShortName + 4 /\ ~head.extra
  <2>1. NameField(m.hdr) \in Seq(Char) /\ Len(NameField(m.hdr)) = ShortName + 4
    BY <1>1, NameFieldOK
  <2>2. m.hdr.w \in Extent /\ m.hdr.h \in Extent /\ m.hdr.rest \in Rest
    BY <1>1 DEF Header
  <2> QED BY <2>1, <2>2 DEF HeaderPart
<1>4. <<head.w, head.h, head.rest>> = <<m.hdr.w, m.hdr.h, m.hdr.rest>>
  BY DEF HeaderPart
<1>5. NameKept(m.hdr) => NameRead(head) = m.hdr.name
  BY <1>1, NameBack
<1>6. ASSUME NEW k \in 1..NumLayers
      PROVE  /\ block(k) \in BlockSet
             /\ block(k).mult # 0 => block(k).len = Len(block(k).d)
             /\ IF block(k).mult = 0 THEN Layer(m, k) = NoLayer
                ELSE Layer(m, k) \in Seq(Cells) /\ block(k).d = Layer(m, k)
  <2> DEFINE l == Layer(m, k)
  <2>1. l \in Layer1
    BY LayerOK
  <2>2. m.hdr.w \in Extent /\ m.hdr.h \in Extent
    BY <1>1 DEF Header
  <2> HIDE DEF l
  <2>3. CASE l = NoLayer
    <3>1. block(k) = [ok |-> TRUE, w |-> m.hdr.w, h |-> m.hdr.h, mult |-> 0, len |-> 0, d |-> <<>>]
      BY <2>3 DEF BlockPart, l
    <3>2. <<>> \in Seq(Cells)
      OBVIOUS
    <3> HIDE DEF block
    <3> QED BY <2>2, <2>3, <3>1, <3>2 DEF l
  <2>4. CASE l # NoLayer
    <3>1. l \in Seq(Cells)
      BY <2>1, <2>4 DEF Layer1
    <3>2. block(k) = [ok |-> TRUE, w |-> m.hdr.w, h |-> m.hdr.h, mult |-> 1, len |-> Len(l), d |-> l]
      BY <2>4 DEF BlockPart, l
    <3> HIDE DEF block
    <3> QED BY <2>2, <3>1, <3>2 DEF l
  <2> QED BY <2>3, <2>4
<1>7. end \in Nat
  <2>1. Len(m.animals) \in Nat
    BY <1>1
  <2> QED BY <2>1, MapConstants DEF AnimalAt
<1> HIDE DEF head, end, block
<1>8. /\ f.hdr = head /\ f.blocks = blocks /\ f.animals = m.animals /\ f.len = end /\ f.holds = m
  BY <1>2
<1>9. blocks \in [1..NumLayers -> BlockSet] /\ \A k \in 1..NumLayers : blocks[k] = block(k)
  BY <1>6
<1> HIDE DEF blocks
<1>10. f \in [hdr : HeadSet, blocks : [1..NumLayers -> BlockSet], animals : Seq(Animal), len : Nat, holds : Map]
  BY <1>1, <1>2, <1>3, <1>7, <1>9
<1> HIDE DEF f
<1>11. IsFile(f)
  <2>1. f.len =< EndAt(f)
    BY <1>7, <1>8 DEF EndAt, end
  <2>2. \A k \in 1..NumLayers :
          f.blocks[k].mult # 0 =>
            f.blocks[k].len = Len(f.blocks[k].d) + (IF k = 1 /\ f.hdr.extra THEN 2 ELSE 0)
    <3> SUFFICES ASSUME NEW k \in 1..NumLayers, f.blocks[k].mult # 0
                 PROVE  f.blocks[k].len = Len(f.blocks[k].d) + (IF k = 1 /\ f.hdr.extra THEN 2 ELSE 0)
      OBVIOUS
    <3>1. f.blocks[k].len = Len(f.blocks[k].d) /\ f.blocks[k].len \in Nat /\ ~f.hdr.extra
      BY <1>3, <1>6, <1>8, <1>9
    <3> QED BY <3>1
  <2> QED BY <1>3, <1>8, <1>10, <2>1, <2>2 DEF IsFile
<1>12. Means(f, m)
  <2>1. ASSUME NEW k \in 1..NumLayers
        PROVE  LET b == f.blocks[k]
                   l == Layer(m, k)
               IN IF b.mult = 0 THEN l = NoLayer
                  ELSE ~(k = 1 /\ f.hdr.extra /\ b.d = <<>>) =>
                         /\ l \in Seq(Cells) /\ Len(l) = b.len
                         /\ \A n \in 1..b.len : l[n] = b.d[IF n =< Len(b.d) THEN n ELSE Len(b.d)]
    <3>1. f.blocks[k] = block(k)
      BY <1>8, <1>9
    <3> QED BY <1>6, <3>1
  <2> QED BY <1>4, <1>5, <1>8, <2>1 DEF Means
<1> QED BY <1>8, <1>11, <1>12 DEF f

(* Of a file that loses its end, what is left holds the same. *)
LEMMA CutHolds ==
  ASSUME NEW f, IsFile(f), Means(f, f.holds), NEW n \in Nat, n < f.len
  PROVE  LET g == [f EXCEPT !.len = n] IN IsFile(g) /\ Means(g, g.holds)
<1> DEFINE g == [f EXCEPT !.len = n]
<1>1. g = [hdr |-> f.hdr, blocks |-> f.blocks, animals |-> f.animals, len |-> n, holds |-> f.holds]
  BY SMTT(20) DEF IsFile
<1>2. f.len \in Nat /\ f.len =< EndAt(f) /\ EndAt(f) \in Int
  BY MapConstants DEF IsFile, EndAt, AnimalAt
<1> HIDE DEF g
<1>3. g.hdr = f.hdr /\ g.blocks = f.blocks /\ g.animals = f.animals /\ g.len = n /\ g.holds = f.holds
  BY <1>1
<1>4. IsFile(g)
  <2>1. g.len =< EndAt(g)
    BY <1>2, <1>3 DEF EndAt
  <2> QED BY <1>1, <1>3, <2>1 DEF IsFile
<1>5. Means(g, g.holds)
  BY <1>3 DEF Means
<1> QED BY <1>4, <1>5 DEF g
-------------------------------------------------------------------------------
(* Loading *)

(* A load that ends with an error. *)
LEMMA FailKeepsInv ==
  ASSUME MInv, NEW m, MapFits(m), NEW op, NEW code, code # "NONE", Returns(m, op, code)
  PROVE  MInv'
<1>1. map' = m /\ io' = Idle /\ ret' = [op |-> op, code |-> code] /\ file' = file
  BY DEF Returns
<1>2. LayersFit'
  BY <1>1 DEF MapFits, LayersFit
<1>3. FileHolds'
  BY <1>1 DEF MInv, FileHolds
<1>4. Loading' /\ RoundTrip' /\ CutIsNoticed'
  BY <1>1 DEF Loading, RoundTrip, CutIsNoticed
<1>5. io' \in 0..(NumLayers + 2)
  BY <1>1, MapConstants DEF Idle
<1> QED BY <1>2, <1>3, <1>4, <1>5 DEF MInv

LEMMA HeadedOK ==
  ASSUME MInv, NEW h \in Header \cup {NoHeader}
  PROVE  LET m == Headed(h, <<>>) IN MapFits(m) /\ m.hdr = h /\ m.layers = <<>>
<1> DEFINE m == Headed(h, <<>>)
<1>1. m = [hdr |-> h, layers |-> <<>>, animals |-> map.animals]
  BY DEF Headed
<1>2. map.animals \in Seq(Animal) /\ <<>> \in Seq(Layer1)
  BY InvFits, MapParts DEF MapFits
<1>3. m \in Map
  BY <1>1, <1>2, MadeMap
<1> HIDE DEF m
<1>4. m.hdr = h /\ m.layers = <<>>
  BY <1>1
<1>5. MapFits(m)
  BY <1>3, <1>4, MapConstants DEF MapFits
<1> QED BY <1>4, <1>5 DEF m

LEMMA HeaderFailsKeepsInv ==
  ASSUME MInv, NEW only, LoadHeaderFails(only)
  PROVE  MInv'
<1>1. PICK op, code : code # "NONE" /\ Returns(Headed(NoHeader, <<>>), op, code)
  BY DEF LoadHeaderFails
<1>2. MapFits(Headed(NoHeader, <<>>))
  BY HeadedOK
<1> QED BY <1>1, <1>2, FailKeepsInv

(* The header that is read shows what the file holds. *)
LEMMA HeaderShown ==
  ASSUME NEW f, IsFile(f), Means(f, f.holds), NEW m, m.hdr = HeaderRead(f.hdr)
  PROVE  ShowsHeader(m, f.holds)
<1>1. m.hdr \in Header
  BY HeaderReadOK
<1>2. m.hdr # NoHeader
  BY <1>1, MapConstants
<1>3. m.hdr.w = f.hdr.w /\ m.hdr.h = f.hdr.h /\ m.hdr.rest = f.hdr.rest /\ m.hdr.name = NameRead(f.hdr)
  BY DEF HeaderRead
<1> QED BY <1>2, <1>3 DEF ShowsHeader, Means

LEMMA WithHeaderOK ==
  ASSUME MInv
  PROVE  /\ MapFits(WithHeader) /\ WithHeader.hdr = HeaderRead(file.hdr) /\ WithHeader.layers = <<>>
         /\ WithHeader.hdr # NoHeader
<1>1. HeaderRead(file.hdr) \in Header
  BY HeaderReadOK DEF MInv, FileHolds
<1>2. LET m == Headed(HeaderRead(file.hdr), <<>>)
      IN MapFits(m) /\ m.hdr = HeaderRead(file.hdr) /\ m.layers = <<>>
  BY <1>1, HeadedOK
<1> QED BY <1>1, <1>2, MapConstants DEF WithHeader

LEMMA HeaderOnlyKeepsInv ==
  ASSUME MInv, LoadHeaderOnly
  PROVE  MInv'
<1>1. /\ map' = WithHeader /\ io' = Idle /\ ret' = [op |-> "header", code |-> "NONE"] /\ file' = file
  BY DEF LoadHeaderOnly, Returns
<1>2. LayersFit'
  BY <1>1, WithHeaderOK DEF MapFits, LayersFit
<1>3. FileHolds'
  BY <1>1 DEF MInv, FileHolds
<1>4. ShowsHeader(map', file'.holds)
  BY <1>1, WithHeaderOK, HeaderShown DEF MInv, FileHolds
<1>5. Loading' /\ RoundTrip' /\ CutIsNoticed'
  BY <1>1, <1>4, WithHeaderOK DEF Loading, RoundTrip, CutIsNoticed
<1>6. io' \in 0..(NumLayers + 2)
  BY <1>1, MapConstants DEF Idle
<1> QED BY <1>2, <1>3, <1>5, <1>6 DEF MInv

LEMMA LoadHeaderKeepsInv ==
  ASSUME MInv, LoadHeader
  PROVE  MInv'
<1>1. map' = WithHeader /\ io' = 1 /\ ret' = NoRet /\ file' = file
  BY DEF LoadHeader
<1>2. /\ MapFits(WithHeader) /\ WithHeader.hdr = HeaderRead(file.hdr) /\ WithHeader.layers = <<>>
      /\ WithHeader.hdr # NoHeader
  BY WithHeaderOK
<1>3. LayersFit'
  BY <1>1, <1>2, MapConstants DEF MapFits, LayersFit, InBlocks
<1>4. FileHolds'
  BY <1>1 DEF MInv, FileHolds
<1>5. Loading'
  BY <1>1, <1>2, MapConstants DEF Loading, InAnimals
<1>6. RoundTrip' /\ CutIsNoticed'
  BY <1>1 DEF RoundTrip, CutIsNoticed, NoRet
<1>7. io' \in 0..(NumLayers + 2)
  BY <1>1, MapConstants
<1> QED BY <1>3, <1>4, <1>5, <1>6, <1>7 DEF MInv

(* One more layer, which is that of the file. *)
LEMMA PushKeepsInv ==
  ASSUME MInv, InBlocks, NEW l \in Layer1, l # NoLayer => Len(l) = Area(map.hdr),
         l = Layer(file.holds, io) \/ (io = 1 /\ map.hdr.extra /\ Area(map.hdr) < 3),
         Loads(Pushed(l), io + 1)
  PROVE  MInv'
<1> DEFINE ls == Append(map.layers, l)
           m == Pushed(l)
<1>1. /\ map.hdr \in Header \cup {NoHeader} /\ map.layers \in Seq(Layer1) /\ map.animals \in Seq(Animal)
      /\ map = [hdr |-> map.hdr, layers |-> map.layers, animals |-> map.animals]
  BY InvFits, MapParts DEF MapFits
<1>2. io \in 1..NumLayers /\ io # Idle /\ NumLayers \in Nat
  BY MapConstants DEF InBlocks, Idle
<1>3. map.hdr # NoHeader /\ Len(map.layers) = io - 1
  BY <1>2 DEF MInv, LayersFit, InBlocks
<1>4. /\ ls \in Seq(Layer1) /\ Len(ls) = io /\ DOMAIN ls = 1..io /\ DOMAIN map.layers = 1..(io - 1)
      /\ ls[io] = l /\ \A k \in 1..(io - 1) : ls[k] = map.layers[k]
  BY <1>1, <1>2, <1>3
<1> HIDE DEF ls
<1>5. m = [hdr |-> map.hdr, layers |-> ls, animals |-> map.animals]
  <2>1. m = [map EXCEPT !.layers = ls]
    BY DEF Pushed, ls
  <2> HIDE DEF m
  <2> QED BY <1>1, <2>1
<1>6. m \in Map
  BY <1>1, <1>4, <1>5, MadeMap
<1> HIDE DEF m
<1>7. m.hdr = map.hdr /\ m.layers = ls
  BY <1>5
<1>8. map' = m /\ io' = io + 1 /\ ret' = ret /\ file' = file
  BY DEF Loads, m
<1>9. ASSUME NEW k \in 1..io
      PROVE  ls[k] # NoLayer => Len(ls[k]) = Area(map.hdr)
  <2>1. CASE k = io
    BY <2>1, <1>4
  <2>2. CASE k # io
    <3>1. k \in DOMAIN map.layers /\ ls[k] = map.layers[k]
      BY <2>2, <1>2, <1>4
    <3> QED BY <3>1, InvFits DEF MapFits
  <2> QED BY <2>1, <2>2
<1>10. LayersFit'
  <2>1. io + 1 \in 1..NumLayers => io + 1 - 1 = io
    BY <1>2
  <2>2. io + 1 \notin 1..NumLayers => io = NumLayers
    BY <1>2
  <2>3. io =< NumLayers
    BY <1>2
  <2> QED BY <1>3, <1>4, <1>6, <1>7, <1>8, <1>9, <2>1, <2>2, <2>3 DEF LayersFit, InBlocks
<1>11. FileHolds'
  BY <1>8 DEF MInv, FileHolds
<1>12. Loading'
  <2>1. /\ ret = NoRet /\ map.hdr = HeaderRead(file.hdr)
        /\ \A k \in DOMAIN map.layers : ShowsLayer(map, file.holds, k)
    BY <1>2 DEF MInv, Loading
  <2>2. ASSUME NEW k \in 1..io
        PROVE  ShowsLayer(m, file.holds, k)
    <3>1. CASE k = io
      BY <3>1, <1>4, <1>7 DEF ShowsLayer
    <3>2. CASE k # io
      <4>1. k \in DOMAIN map.layers /\ ls[k] = map.layers[k]
        BY <3>2, <1>2, <1>4
      <4> QED BY <4>1, <2>1, <1>7 DEF ShowsLayer
    <3> QED BY <3>1, <3>2
  <2>3. ~InAnimals'
    BY <1>2, <1>8 DEF InAnimals
  <2> QED BY <1>4, <1>7, <1>8, <2>1, <2>2, <2>3 DEF Loading
<1>13. RoundTrip' /\ CutIsNoticed'
  <2>1. ret' = NoRet
    BY <1>2, <1>8 DEF MInv, Loading
  <2> QED BY <2>1 DEF RoundTrip, CutIsNoticed, NoRet
<1>14. io' \in 0..(NumLayers + 2)
  BY <1>2, <1>8
<1> QED BY <1>10, <1>11, <1>12, <1>13, <1>14 DEF MInv

(* The block that is read, and what it means. *)
LEMMA BlockMeans ==
  ASSUME MInv, InBlocks
  PROVE  /\ Block.d \in Seq(Cells) /\ map.hdr.extra = file.hdr.extra
         /\ Block.mult # 0 => Block.len = Len(Block.d) + (IF Shifted THEN 2 ELSE 0)
         /\ Block.mult = 0 => Layer(file.holds, io) = NoLayer
         /\ Block.mult # 0 /\ ~(Shifted /\ Block.d = <<>>) =>
              /\ Layer(file.holds, io) \in Seq(Cells) /\ Len(Layer(file.holds, io)) = Block.len
              /\ \A n \in 1..Block.len :
                   Layer(file.holds, io)[n] = Block.d[IF n =< Len(Block.d) THEN n ELSE Len(Block.d)]
<1>1. io \in 1..NumLayers /\ io # Idle
  BY MapConstants DEF InBlocks, Idle
<1>2. map.hdr = HeaderRead(file.hdr)
  BY <1>1 DEF MInv, Loading
<1>3. map.hdr.extra = file.hdr.extra
  BY <1>2 DEF HeaderRead
<1>4. IsFile(file) /\ Means(file, file.holds)
  BY DEF MInv, FileHolds
<1>5. Block.d \in Seq(Cells)
  BY <1>1, <1>4 DEF IsFile, Block
<1>6. Block.mult # 0 => Block.len = Len(Block.d) + (IF Shifted THEN 2 ELSE 0)
  BY <1>1, <1>3, <1>4 DEF IsFile, Block, Shifted
<1>7. IF Block.mult = 0 THEN Layer(file.holds, io) = NoLayer
      ELSE ~(Shifted /\ Block.d = <<>>) =>
             /\ Layer(file.holds, io) \in Seq(Cells) /\ Len(Layer(file.holds, io)) = Block.len
             /\ \A n \in 1..Block.len :
                  Layer(file.holds, io)[n] = Block.d[IF n =< Len(Block.d) THEN n ELSE Len(Block.d)]
  BY <1>1, <1>3, <1>4 DEF Means, Block, Shifted
<1> QED BY <1>3, <1>5, <1>6, <1>7

LEMMA UnusedKeepsInv ==
  ASSUME MInv, LoadUnusedBlock
  PROVE  MInv'
<1>1. InBlocks /\ Block.mult = 0 /\ Loads(Pushed(NoLayer), io + 1)
  BY DEF LoadUnusedBlock, HeadGiven
<1>2. NoLayer = Layer(file.holds, io) /\ NoLayer \in Layer1
  BY <1>1, BlockMeans DEF Layer1
<1> QED BY <1>1, <1>2, PushKeepsInv

LEMMA BlockKeepsInv ==
  ASSUME MInv, LoadBlock
  PROVE  MInv'
<1>1. InBlocks /\ Block.mult # 0 /\ Block.len = Area(map.hdr) /\ ~Shifted /\ Loads(Pushed(Block.d), io + 1)
  BY DEF LoadBlock, HasData, HeadGiven, Fits
<1>2. /\ Block.d \in Seq(Cells) /\ Block.len = Len(Block.d) + 0
      /\ Layer(file.holds, io) \in Seq(Cells) /\ Len(Layer(file.holds, io)) = Block.len
      /\ \A n \in 1..Block.len :
           Layer(file.holds, io)[n] = Block.d[IF n =< Len(Block.d) THEN n ELSE Len(Block.d)]
  BY <1>1, BlockMeans
<1>3. Len(Block.d) = Block.len /\ Len(Block.d) \in Nat
  BY <1>2
<1>4. \A n \in 1..Len(Block.d) : Layer(file.holds, io)[n] = Block.d[n]
  BY <1>2, <1>3
<1>5. Block.d = Layer(file.holds, io)
  BY <1>2, <1>3, <1>4, Extensional
<1> QED BY <1>1, <1>2, <1>3, <1>5, PushKeepsInv DEF Layer1

LEMMA RepairedOK ==
  ASSUME NEW d \in Seq(Cells), d # <<>>
  PROVE  /\ Repaired(d) \in Seq(Cells) /\ Len(Repaired(d)) = Len(d) + 2
         /\ \A n \in 1..(Len(d) + 2) : Repaired(d)[n] = d[IF n =< Len(d) THEN n ELSE Len(d)]
<1> DEFINE c == Last(d)
           e == <<c, c>>
<1>1. Len(d) \in Nat \ {0} /\ c = d[Len(d)] /\ c \in Cells
  BY DEF Last
<1> HIDE DEF c
<1>2. e \in Seq(Cells) /\ Len(e) = 2 /\ e[1] = c /\ e[2] = c
  BY <1>1
<1>3. Repaired(d) = d \o e
  BY DEF Repaired, c
<1> HIDE DEF e
<1>4. /\ d \o e \in Seq(Cells) /\ Len(d \o e) = Len(d) + Len(e)
      /\ \A n \in 1..(Len(d) + Len(e)) : (d \o e)[n] = IF n =< Len(d) THEN d[n] ELSE e[n - Len(d)]
  BY <1>2, ConcatProperties
<1>5. ASSUME NEW n \in 1..(Len(d) + 2)
      PROVE  Repaired(d)[n] = d[IF n =< Len(d) THEN n ELSE Len(d)]
  <2>1. CASE n =< Len(d)
    BY <2>1, <1>1, <1>2, <1>3, <1>4
  <2>2. CASE ~(n =< Len(d))
    <3>1. n - Len(d) = 1 \/ n - Len(d) = 2
      BY <2>2, <1>1
    <3> QED BY <2>2, <3>1, <1>1, <1>2, <1>3, <1>4
  <2> QED BY <2>1, <2>2
<1> QED BY <1>2, <1>3, <1>4, <1>5

LEMMA ShiftedKeepsInv ==
  ASSUME MInv, LoadShiftedBlock
  PROVE  MInv'
<1> DEFINE l == Repaired(Block.d)
<1>1. /\ InBlocks /\ Block.mult # 0 /\ Block.len = Area(map.hdr) /\ Shifted /\ Block.d # <<>>
      /\ Loads(Pushed(l), io + 1)
  BY DEF LoadShiftedBlock, HasData, HeadGiven, Fits
<1>2. /\ Block.d \in Seq(Cells) /\ Block.len = Len(Block.d) + 2
      /\ Layer(file.holds, io) \in Seq(Cells) /\ Len(Layer(file.holds, io)) = Block.len
      /\ \A n \in 1..Block.len :
           Layer(file.holds, io)[n] = Block.d[IF n =< Len(Block.d) THEN n ELSE Len(Block.d)]
  BY <1>1, BlockMeans
<1>3. /\ l \in Seq(Cells) /\ Len(l) = Block.len
      /\ \A n \in 1..Block.len : l[n] = Block.d[IF n =< Len(Block.d) THEN n ELSE Len(Block.d)]
  BY <1>1, <1>2, RepairedOK
<1> HIDE DEF l
<1>4. \A n \in 1..Len(l) : l[n] = Layer(file.holds, io)[n]
  BY <1>2, <1>3
<1>5. l = Layer(file.holds, io)
  BY <1>2, <1>3, <1>4, Extensional
<1> QED BY <1>1, <1>3, <1>5, PushKeepsInv DEF Layer1

LEMMA TinyKeepsInv ==
  ASSUME MInv, LoadTinyShiftedBlock
  PROVE  MInv'
<1>1. /\ InBlocks /\ Block.mult # 0 /\ Block.len = Area(map.hdr) /\ Shifted /\ Block.d = <<>>
  BY DEF LoadTinyShiftedBlock, HasData, HeadGiven, Fits
<1>2. Area(map.hdr) = 2
  <2>1. Block.len = Len(Block.d) + 2 /\ Len(Block.d) = 0
    BY <1>1, BlockMeans
  <2> QED BY <1>1, <2>1
<1>3. ASSUME NEW c \in Cells, Loads(Pushed(<<c, c>>), io + 1) PROVE MInv'
  <2>1. <<c, c>> \in Seq(Cells) /\ Len(<<c, c>>) = 2
    OBVIOUS
  <2> DEFINE l == <<c, c>>
  <2>2. l \in Layer1 /\ Len(l) = Area(map.hdr) /\ Loads(Pushed(l), io + 1)
    BY <1>2, <1>3, <2>1 DEF Layer1
  <2> HIDE DEF l
  <2>3. io = 1 /\ map.hdr.extra /\ Area(map.hdr) < 3
    BY <1>1, <1>2 DEF Shifted
  <2> QED BY <1>1, <2>2, <2>3, PushKeepsInv
<1>4. CASE Returns(map, "load", "crashed")
  BY <1>4, InvFits, FailKeepsInv
<1> QED BY <1>3, <1>4 DEF LoadTinyShiftedBlock

-------------------------------------------------------------------------------
(* The animals *)

LEMMA WithAnimals ==
  ASSUME MInv, NEW a \in Seq(Animal)
  PROVE  LET m == [map EXCEPT !.animals = a]
         IN MapFits(m) /\ m.hdr = map.hdr /\ m.layers = map.layers /\ m.animals = a
<1> DEFINE m == [map EXCEPT !.animals = a]
<1>1. /\ map.hdr \in Header \cup {NoHeader} /\ map.layers \in Seq(Layer1)
      /\ map = [hdr |-> map.hdr, layers |-> map.layers, animals |-> map.animals]
  BY InvFits, MapParts DEF MapFits
<1>2. m = [hdr |-> map.hdr, layers |-> map.layers, animals |-> a]
  BY <1>1
<1>3. m \in Map /\ m.hdr = map.hdr /\ m.layers = map.layers /\ m.animals = a
  BY <1>1, <1>2, MadeMap
<1> HIDE DEF m
<1>4. MapFits(m)
  BY <1>3, InvFits DEF MapFits
<1> QED BY <1>3, <1>4 DEF m

(* A load goes on with other animals. *)
LEMMA AnimalsKeepLoading ==
  ASSUME MInv, io > NumLayers, NEW a \in Seq(Animal), Loads([map EXCEPT !.animals = a], NumLayers + 2),
         LET n == Len(a) + 1
         IN Given(AnimalAt(n)) =>
              Len(a) =< Len(file.animals)
              /\ \A j \in DOMAIN a : a[j] = file.animals[j] /\ file.animals[j].id # EndId
  PROVE  MInv'
<1> DEFINE m == [map EXCEPT !.animals = a]
<1>1. MapFits(m) /\ m.hdr = map.hdr /\ m.layers = map.layers /\ m.animals = a
  BY WithAnimals
<1> HIDE DEF m
<1>2. map' = m /\ io' = NumLayers + 2 /\ ret' = ret /\ file' = file
  BY DEF Loads, m
<1>3. io \in 0..(NumLayers + 2) /\ NumLayers \in Nat /\ ~InBlocks /\ io # Idle
  BY MapConstants DEF MInv, InBlocks, Idle
<1>4. map.hdr # NoHeader /\ Len(map.layers) = NumLayers
  BY <1>3 DEF MInv, LayersFit
<1>5. LayersFit'
  <2>1. ~(InBlocks')
    BY <1>2, <1>3 DEF InBlocks
  <2> QED BY <1>1, <1>2, <1>4, <2>1 DEF MapFits, LayersFit
<1>6. FileHolds'
  BY <1>2 DEF MInv, FileHolds
<1>7. AnimalsShown'
  BY <1>1, <1>2 DEF AnimalsShown, Given, Coming
<1>8. Loading'
  <2>1. /\ ret = NoRet /\ map.hdr = HeaderRead(file.hdr)
        /\ \A k \in DOMAIN map.layers : ShowsLayer(map, file.holds, k)
    BY <1>3 DEF MInv, Loading
  <2>2. \A k \in DOMAIN m.layers : ShowsLayer(m, file.holds, k)
    BY <1>1, <2>1 DEF ShowsLayer
  <2> QED BY <1>1, <1>2, <1>7, <2>1, <2>2 DEF Loading
<1>9. RoundTrip' /\ CutIsNoticed'
  <2>1. ret' = NoRet
    BY <1>2, <1>3 DEF MInv, Loading
  <2> QED BY <2>1 DEF RoundTrip, CutIsNoticed, NoRet
<1>10. io' \in 0..(NumLayers + 2)
  BY <1>2, <1>3
<1> QED BY <1>5, <1>6, <1>8, <1>9, <1>10 DEF MInv

LEMMA BlocksEndKeepsInv ==
  ASSUME MInv, LoadBlocksEnd
  PROVE  MInv'
<1> DEFINE a == <<>>
<1>1. a \in Seq(Animal) /\ Len(a) = 0 /\ DOMAIN a = {}
  OBVIOUS
<1> HIDE DEF a
<1>2. io > NumLayers /\ Loads([map EXCEPT !.animals = a], NumLayers + 2)
  BY MapConstants DEF LoadBlocksEnd, a
<1>3. Len(file.animals) \in Nat
  BY DEF MInv, FileHolds, IsFile
<1>4. LET n == Len(a) + 1
      IN Given(AnimalAt(n)) =>
           Len(a) =< Len(file.animals)
           /\ \A j \in DOMAIN a : a[j] = file.animals[j] /\ file.animals[j].id # EndId
  BY <1>1, <1>3
<1> QED BY <1>1, <1>2, <1>4, AnimalsKeepLoading

(* One more animal; an animal that is whole is that of the file. *)
LEMMA KeepAnimalKeepsInv ==
  ASSUME MInv, InAnimals, NEW a \in Animal, KeepAnimal(a),
         Given(AnimalAt(Coming + 1)) =>
           /\ Coming =< Len(file.animals) /\ a = file.animals[Coming] /\ a.id # EndId
  PROVE  MInv'
<1>1. CASE Len(map.animals) = MaxAnimals
  BY <1>1, InvFits, FailKeepsInv DEF KeepAnimal
<1>2. CASE Len(map.animals) # MaxAnimals
  <2> DEFINE b == Append(map.animals, a)
             n == Len(map.animals)
  <2>1. map.animals \in Seq(Animal) /\ n \in Nat
    BY InvFits, MapParts DEF MapFits
  <2>2. /\ b \in Seq(Animal) /\ Len(b) = n + 1 /\ DOMAIN b = 1..(n + 1) /\ b[n + 1] = a
        /\ DOMAIN map.animals = 1..n /\ \A j \in 1..n : b[j] = map.animals[j]
    BY <2>1
  <2>3. Loads([map EXCEPT !.animals = b], NumLayers + 2)
    BY <1>2 DEF KeepAnimal, Grown, InAnimals
  <2>4. io > NumLayers /\ io # Idle
    BY MapConstants DEF InAnimals, Idle
  <2>5. AnimalsShown
    BY <2>4 DEF MInv, Loading
  <2> HIDE DEF b
  <2>6. ASSUME Given(AnimalAt(Len(b) + 1))
        PROVE  /\ Len(b) =< Len(file.animals)
               /\ \A j \in DOMAIN b : b[j] = file.animals[j] /\ file.animals[j].id # EndId
    <3>1. Coming = n + 1 /\ Coming + 1 = Len(b) + 1
      BY <2>2 DEF Coming
    <3>2. /\ n + 1 =< Len(file.animals) /\ a = file.animals[n + 1] /\ a.id # EndId
      BY <2>6, <3>1
    <3>3. Given(AnimalAt(Coming))
      <4>1. AnimalAt(Coming) =< AnimalAt(Coming + 1) /\ AnimalAt(Coming) \in Int /\ AnimalAt(Coming + 1) \in Int
        BY <2>1, <3>1, MapConstants DEF AnimalAt
      <4>2. file.len \in Int
        BY DEF MInv, FileHolds, IsFile
      <4> QED BY <2>6, <3>1, <4>1, <4>2 DEF Given
    <3>4. \A j \in 1..n : map.animals[j] = file.animals[j] /\ file.animals[j].id # EndId
      BY <2>2, <2>5, <3>3 DEF AnimalsShown
    <3>5. ASSUME NEW j \in 1..(n + 1) PROVE b[j] = file.animals[j] /\ file.animals[j].id # EndId
      <4>1. j = n + 1 \/ j \in 1..n
        BY <2>1
      <4> QED BY <2>2, <3>2, <3>4, <4>1
    <3> QED BY <2>2, <3>2, <3>5
  <2> QED BY <2>2, <2>3, <2>4, <2>6, AnimalsKeepLoading
<1> QED BY <1>1, <1>2

LEMMA FileAnimals ==
  ASSUME MInv
  PROVE  /\ file.animals \in Seq(Animal) /\ Len(file.animals) \in Nat /\ file.len \in Nat
         /\ file.len =< EndAt(file) /\ EndId \in Int
         /\ \A j \in 1..Len(file.animals) : file.animals[j] \in Animal
         /\ map.animals \in Seq(Animal) /\ Len(map.animals) \in Nat
<1>1. file.animals \in Seq(Animal) /\ file.len \in Nat /\ file.len =< EndAt(file)
  BY DEF MInv, FileHolds, IsFile
<1>2. map.animals \in Seq(Animal)
  BY InvFits, MapParts DEF MapFits
<1> QED BY <1>1, <1>2, MapConstants

LEMMA AnimalKeepsInv ==
  ASSUME MInv, LoadAnimal
  PROVE  MInv'
<1> DEFINE n == Coming
           a == [id |-> IdAt(file, n), at |-> IF Given(AnimalAt(n) + 1) THEN file.animals[n].at ELSE -1]
<1>1. InAnimals /\ Given(AnimalAt(n)) /\ IdAt(file, n) # EndId /\ KeepAnimal(a)
  BY DEF LoadAnimal
<1>2. n \in 1..Len(file.animals) /\ IdAt(file, n) = file.animals[n].id
  BY <1>1, FileAnimals DEF IdAt
<1>3. file.animals[n] \in Animal
  BY <1>2, FileAnimals
<1>4. file.animals[n] = [id |-> file.animals[n].id, at |-> file.animals[n].at]
      /\ file.animals[n].id \in Int /\ file.animals[n].at \in Int
  BY <1>3 DEF Animal
<1>5. a \in Animal
  BY <1>2, <1>4 DEF Animal
<1>6. Given(AnimalAt(n + 1)) => Given(AnimalAt(n) + 1)
  <2>1. AnimalAt(n) + 1 =< AnimalAt(n + 1) /\ AnimalAt(n) \in Int /\ AnimalAt(n + 1) \in Int
    <3>1. n \in Nat
      BY <1>2
    <3> QED BY <3>1, MapConstants DEF AnimalAt
  <2> QED BY <2>1, FileAnimals DEF Given
<1>7. Given(AnimalAt(n + 1)) => n =< Len(file.animals) /\ a = file.animals[n] /\ a.id # EndId
  BY <1>1, <1>2, <1>4, <1>6
<1> HIDE DEF a
<1> QED BY <1>1, <1>5, <1>7, KeepAnimalKeepsInv

LEMMA JunkKeepsInv ==
  ASSUME MInv, LoadJunkAnimal
  PROVE  MInv'
<1>1. InAnimals /\ ~Given(AnimalAt(Coming)) /\ KeepAnimal(Junk)
  BY DEF LoadJunkAnimal
<1>2. Junk \in Animal
  BY DEF Junk, Animal
<1>3. ~Given(AnimalAt(Coming + 1))
  <2>1. AnimalAt(Coming) =< AnimalAt(Coming + 1) /\ AnimalAt(Coming) \in Int /\ AnimalAt(Coming + 1) \in Int
    BY FileAnimals, MapConstants DEF AnimalAt, Coming
  <2> QED BY <1>1, <2>1, FileAnimals DEF Given
<1> QED BY <1>1, <1>2, <1>3, KeepAnimalKeepsInv

(* The end of the animals: the load gives what the file holds. *)
LEMMA LoadEndKeepsInv ==
  ASSUME MInv, LoadEnd
  PROVE  MInv'
<1> DEFINE n == Len(map.animals)
           stops == {j \in DOMAIN file.animals : file.animals[j].id = EndId}
<1>1. InAnimals /\ Given(AnimalAt(n + 1)) /\ IdAt(file, n + 1) = EndId /\ Returns(map, "load", "NONE")
  BY DEF LoadEnd, Coming, EndCode
<1>2. map' = map /\ io' = Idle /\ ret' = [op |-> "load", code |-> "NONE"] /\ file' = file
  BY <1>1 DEF Returns
<1>3. io # Idle /\ ~InBlocks
  BY <1>1, MapConstants DEF InAnimals, Idle, InBlocks
<1>4. /\ map.hdr = HeaderRead(file.hdr)
      /\ \A k \in DOMAIN map.layers : ShowsLayer(map, file.holds, k)
      /\ n =< Len(file.animals)
      /\ \A j \in DOMAIN map.animals : map.animals[j] = file.animals[j] /\ file.animals[j].id # EndId
  BY <1>1, <1>3 DEF MInv, Loading, AnimalsShown, Coming
<1>5. n \in 0..Len(file.animals) /\ DOMAIN map.animals = 1..n /\ DOMAIN file.animals = 1..Len(file.animals)
  BY <1>4, FileAnimals
<1>6. stops \subseteq (n + 1)..Len(file.animals) /\ (n < Len(file.animals) => n + 1 \in stops)
  <2>1. n < Len(file.animals) => n + 1 \in DOMAIN file.animals
    BY <1>5
  <2>2. n < Len(file.animals) => file.animals[n + 1].id = EndId
    BY <1>1, <2>1 DEF IdAt
  <2>3. \A j \in stops : j \in (n + 1)..Len(file.animals)
    BY <1>4, <1>5
  <2> QED BY <2>1, <2>2, <2>3
<1>7. Before(file.animals, stops) = SubSeq(file.animals, 1, n)
  <2> HIDE DEF stops
  <2> QED BY <1>5, <1>6, FileAnimals, BeforeFirst
<1>8. map.animals = SubSeq(file.animals, 1, n)
  <2>1. /\ SubSeq(file.animals, 1, n) \in Seq(Animal) /\ Len(SubSeq(file.animals, 1, n)) = n
        /\ \A j \in 1..n : SubSeq(file.animals, 1, n)[j] = file.animals[j]
    BY <1>5, FileAnimals, PrefixOK
  <2>2. \A j \in 1..n : map.animals[j] = SubSeq(file.animals, 1, n)[j]
    BY <1>4, <1>5, <2>1
  <2> QED BY <2>1, <2>2, FileAnimals, Extensional
<1>9. IsFile(file) /\ Means(file, file.holds)
  BY DEF MInv, FileHolds
<1>10. file.holds.animals = file.animals
  BY <1>9 DEF Means
<1>11. ShowsHeader(map, file.holds)
  BY <1>4, <1>9, HeaderShown
<1>12. ShowsLayers(map, file.holds)
  <2>1. Len(map.layers) = NumLayers /\ map.layers \in Seq(Layer1)
    <3>1. Len(map.layers) = NumLayers
      BY <1>3 DEF MInv, LayersFit
    <3> QED BY <3>1, InvFits, MapParts DEF MapFits
  <2>2. DOMAIN map.layers = 1..NumLayers
    BY <2>1
  <2> QED BY <1>4, <2>1, <2>2 DEF ShowsLayers
<1>13. RoundTrip'
  BY <1>2, <1>7, <1>8, <1>10, <1>11, <1>12 DEF RoundTrip
<1>14. CutIsNoticed'
  <2>1. CASE n < Len(file.animals)
    <3>1. n + 1 \in DOMAIN file.animals /\ file.animals[n + 1].id = EndId /\ AnimalAt(n + 1) =< file.len
      BY <1>1, <1>6, <2>1 DEF Given
    <3> QED BY <1>2, <3>1 DEF CutIsNoticed
  <2>2. CASE n = Len(file.animals)
    <3>1. EndAt(file) =< file.len
      BY <1>1, <2>2 DEF Given, EndAt
    <3>2. EndAt(file) \in Int
      BY FileAnimals, MapConstants DEF EndAt, AnimalAt
    <3>3. file.len = EndAt(file)
      BY <3>1, <3>2, FileAnimals
    <3> QED BY <1>2, <3>3 DEF CutIsNoticed
  <2> QED BY <1>5, <2>1, <2>2
<1>15. LayersFit'
  BY <1>2, InvFits DEF MapFits, LayersFit
<1>16. FileHolds' /\ Loading' /\ io' \in 0..(NumLayers + 2)
  BY <1>2, <1>9, MapConstants DEF FileHolds, Loading, Idle
<1> QED BY <1>13, <1>14, <1>15, <1>16 DEF MInv

-------------------------------------------------------------------------------
(* The invariant *)

LEMMA InitMInv == Init => MInv
<1> SUFFICES ASSUME Init PROVE MInv
  OBVIOUS
<1>1. map = NewMap /\ file \in Found /\ io = Idle /\ ret = NoRet
  BY DEF Init
<1>2. LayersFit
  BY <1>1, NewFits DEF MapFits, LayersFit
<1>3. FileHolds
  BY <1>1, MapAssumption DEF FileHolds
<1>4. Loading /\ RoundTrip /\ CutIsNoticed
  BY <1>1 DEF Loading, RoundTrip, CutIsNoticed, NoRet
<1>5. io \in 0..(NumLayers + 2)
  BY <1>1, MapConstants DEF Idle
<1> QED BY <1>2, <1>3, <1>4, <1>5 DEF MInv

LEMMA WriteKeepsInv ==
  ASSUME MInv, Write
  PROVE  MInv'
<1>1. map' = map /\ io = Idle /\ io' = Idle /\ ret'.op = "write"
  BY DEF Write
<1>2. LayersFit' /\ io' \in 0..(NumLayers + 2)
  BY <1>1, InvFits, MapConstants DEF MapFits, LayersFit, Idle
<1>3. Loading' /\ RoundTrip' /\ CutIsNoticed'
  BY <1>1 DEF Loading, RoundTrip, CutIsNoticed
<1>4. FileHolds'
  <2>1. CASE map.hdr = NoHeader
    <3>1. file' = file
      BY <2>1 DEF Write
    <3> QED BY <3>1 DEF MInv, FileHolds
  <2>2. CASE map.hdr # NoHeader
    <3>1. file' = FileOf(map)
      BY <2>2 DEF Write
    <3>2. IsFile(FileOf(map)) /\ Means(FileOf(map), map) /\ FileOf(map).holds = map
      BY <2>2, InvFits, WrittenHolds
    <3> QED BY <3>1, <3>2 DEF FileHolds
  <2> QED BY <2>1, <2>2
<1> QED BY <1>2, <1>3, <1>4 DEF MInv

LEMMA CutKeepsInv ==
  ASSUME MInv, NEW n \in 0..file.len, Cut(n)
  PROVE  MInv'
<1>1. /\ map' = map /\ io = Idle /\ io' = Idle /\ ret' = NoRet /\ n < file.len /\ n \in Nat
      /\ file' = [file EXCEPT !.len = n]
  BY DEF Cut
<1>2. LayersFit' /\ io' \in 0..(NumLayers + 2)
  BY <1>1, InvFits, MapConstants DEF MapFits, LayersFit, Idle
<1>3. Loading' /\ RoundTrip' /\ CutIsNoticed'
  BY <1>1 DEF Loading, RoundTrip, CutIsNoticed, NoRet
<1>4. IsFile(file) /\ Means(file, file.holds)
  BY DEF MInv, FileHolds
<1>5. FileHolds'
  BY <1>1, <1>4, CutHolds DEF FileHolds
<1> QED BY <1>2, <1>3, <1>5 DEF MInv

LEMMA StepMInv == MInv /\ [Next]_vars => MInv'
<1> SUFFICES ASSUME MInv, [Next]_vars PROVE MInv'
  OBVIOUS
<1>1. CASE UNCHANGED vars
  BY <1>1 DEF vars, MInv, LayersFit, InBlocks, FileHolds, Loading, InAnimals, AnimalsShown, Given, Coming,
     RoundTrip, CutIsNoticed
<1>2. CASE New
  BY <1>2, NewFits, CallKeepsInv DEF New
<1>3. ASSUME NEW h \in Headers \cup {NoHeader}, InitMap(h) PROVE MInv'
  BY <1>3, InitMapKeepsInv
<1>4. ASSUME NEW k \in 1..NumLayers, NEW n \in 1..MaxField, NEW c \in Cells, SetMapDataAt(k, n, c) PROVE MInv'
  BY <1>4, SetMapDataKeepsInv
<1>5. ASSUME NEW a \in Animals, AddAnimal(a) PROVE MInv'
  <2> DEFINE b == Append(map.animals, a)
  <2>1. map.animals \in Seq(Animal) /\ a \in Animal
    BY FileAnimals, MapConstants
  <2>2. b \in Seq(Animal)
    BY <2>1
  <2>3. Calls([map EXCEPT !.animals = b])
    BY <1>5 DEF AddAnimal
  <2> HIDE DEF b
  <2> QED BY <2>2, <2>3, AnimalsKeepInv
<1>6. CASE Clone
  <2>1. <<>> \in Seq(Animal) /\ Calls([map EXCEPT !.animals = <<>>])
    BY <1>6 DEF Clone
  <2> QED BY <2>1, AnimalsKeepInv
<1>7. CASE Write
  BY <1>7, WriteKeepsInv
<1>8. ASSUME NEW n \in 0..file.len, Cut(n) PROVE MInv'
  BY <1>8, CutKeepsInv
<1>9. ASSUME NEW only \in BOOLEAN, LoadHeaderFails(only) PROVE MInv'
  BY <1>9, HeaderFailsKeepsInv
<1>10. CASE LoadHeaderOnly
  BY <1>10, HeaderOnlyKeepsInv
<1>11. CASE LoadHeader
  BY <1>11, LoadHeaderKeepsInv
<1>12. CASE LoadBadBlock
  BY <1>12, InvFits, FailKeepsInv DEF LoadBadBlock
<1>13. CASE LoadUnusedBlock
  BY <1>13, UnusedKeepsInv
<1>14. CASE LoadCutBlock
  BY <1>14, InvFits, FailKeepsInv DEF LoadCutBlock
<1>15. CASE LoadBlock
  BY <1>15, BlockKeepsInv
<1>16. CASE LoadShiftedBlock
  BY <1>16, ShiftedKeepsInv
<1>17. CASE LoadTinyShiftedBlock
  BY <1>17, TinyKeepsInv
<1>18. CASE LoadBlocksEnd
  BY <1>18, BlocksEndKeepsInv
<1>19. CASE LoadAnimal
  BY <1>19, AnimalKeepsInv
<1>20. CASE LoadEnd
  BY <1>20, LoadEndKeepsInv
<1>21. CASE LoadJunkAnimal
  BY <1>21, JunkKeepsInv
<1>22. CASE LoadJunkEnd
  BY <1>22, InvFits, FailKeepsInv DEF LoadJunkEnd, EndCode
<1> QED
  BY <1>1, <1>2, <1>3, <1>4, <1>5, <1>6, <1>7, <1>8, <1>9, <1>10, <1>11, <1>12, <1>13, <1>14, <1>15, <1>16,
     <1>17, <1>18, <1>19, <1>20, <1>21, <1>22 DEF Next, LoadStep

LEMMA AlwaysMInv == Spec => []MInv
  BY InitMInv, StepMInv, PTL DEF Spec

(* Whatever callers do and whatever is in a file, every layer of a map has *)
(* the size of its header, after every load that fails half way as well.   *)
THEOREM MapLayersFit == Spec => []LayersFit
<1>1. MInv => LayersFit
  BY DEF MInv
<1> QED BY <1>1, AlwaysMInv, PTL

(* A load without error gives the map that the file holds: the file write  *)
(* made of it, or that of an editor, with the extra word or without, of    *)
(* any size, with any name the character set has, and any animals.         *)
THEOREM MapRoundTrip == Spec => []RoundTrip
<1>1. MInv => RoundTrip
  BY DEF MInv
<1> QED BY <1>1, AlwaysMInv, PTL

(* A file that lost any part of its end is not loaded without an error,    *)
(* whatever an exhausted stream leaves in the variables it should fill.    *)
THEOREM MapCutIsNoticed == Spec => []CutIsNoticed
<1>1. MInv => CutIsNoticed
  BY DEF MInv
<1> QED BY <1>1, AlwaysMInv, PTL

(***************************************************************************)
(* XMIDI sounds                                                            *)
(***************************************************************************)

(* The shape of an object: its arrays have an element for every slot. *)
Shaped(x) ==
  /\ x = [num |-> x.num, tracks |-> x.tracks, cache |-> x.cache]
  /\ x.tracks = [t \in Slots |-> x.tracks[t]]
  /\ x.cache = [t \in Slots |-> x.cache[t]]

HistOK == hist \in [reused : BOOLEAN, refused : BOOLEAN, timbres : BOOLEAN]

NumFits == ~hist.refused => xmi.num \in 0..MaxTracks

(* While a load replaces the tracks, nothing is kept of them that counts. *)
LoadsFresh == xio # XIdle /\ ~hist.reused => ~Converted

XInv == Shaped(xmi) /\ HistOK /\ NumFits /\ LoadsFresh /\ CacheShowsTrack /\ CrashNeedsRefusal

(* A new object. *)
LEMMA NewObject == Shaped(NewXmi) /\ NewXmi.num = 0 /\ \A t \in Slots : NewXmi.cache[t] = <<>>
BY DEF Shaped, NewXmi

LEMMA InitXInv == XInit => XInv
<1> SUFFICES ASSUME XInit PROVE XInv
  OBVIOUS
<1>1. HistOK /\ ~hist.refused
  BY DEF XInit, NewHist, HistOK
<1>2. xmi = NewXmi /\ xio = XIdle /\ xret.code = "none"
  BY DEF XInit, XNone, XRet
<1> QED BY <1>1, <1>2, NewObject, XmidiAssumption
     DEF XInv, NumFits, LoadsFresh, CacheShowsTrack, CrashNeedsRefusal

(* A step of a load that may change tracks, but neither their number nor   *)
(* what is kept.                                                           *)
LEMMA LoadKeepsInv ==
  ASSUME XInv, xio # XIdle, Shaped(xmi'), xmi'.cache = xmi.cache, xmi'.num = xmi.num,
         hist' = hist, xret'.code # "crashed" \/ xret' = xret
  PROVE  XInv'
<1>1. ~hist.reused => \A t \in Slots : xmi.cache[t] = <<>>
  BY DEF XInv, LoadsFresh, Converted
<1>2. CacheShowsTrack' /\ LoadsFresh'
  BY <1>1 DEF CacheShowsTrack, LoadsFresh, Converted
<1> QED BY <1>2 DEF XInv, HistOK, NumFits, CrashNeedsRefusal

(* A track of an object is replaced. *)
LEMMA TrackReplaced ==
  ASSUME NEW x, Shaped(x), NEW s, NEW tr
  PROVE  LET y == [x EXCEPT !.tracks = [@ EXCEPT ![s] = tr]]
         IN /\ Shaped(y) /\ y.num = x.num /\ y.cache = x.cache
            /\ \A t \in Slots : t # s => y.tracks[t] = x.tracks[t]
            /\ s \in Slots => y.tracks[s] = tr
<1> DEFINE ts == [x.tracks EXCEPT ![s] = tr]
           y  == [x EXCEPT !.tracks = [@ EXCEPT ![s] = tr]]
<1>1. y = [num |-> x.num, tracks |-> ts, cache |-> x.cache]
  BY DEF Shaped
<1>2. DOMAIN x.tracks = Slots
  BY DEF Shaped
<1>3. ts = [t \in Slots |-> IF t = s THEN tr ELSE x.tracks[t]]
  BY <1>2
<1>4. ts = [t \in Slots |-> ts[t]]
  BY <1>3
<1> HIDE DEF ts
<1>5. Shaped([num |-> x.num, tracks |-> ts, cache |-> x.cache])
  BY <1>4 DEF Shaped
<1> QED BY <1>1, <1>3, <1>5

(* A load that fails, with the tracks it has read, and one that ends. *)
LEMMA TrackIsShaped ==
  ASSUME Shaped(xmi), NEW tr
  PROVE  Shaped(TrackIs(tr)) /\ TrackIs(tr).num = xmi.num /\ TrackIs(tr).cache = xmi.cache
BY TrackReplaced DEF TrackIs

LEMMA ReturnKeepsInv ==
  ASSUME XInv, xio # XIdle, NEW x, Shaped(x), x.num = xmi.num, x.cache = xmi.cache,
         NEW code, code # "crashed", XReturns(x, code, hist)
  PROVE  XInv'
<1>1. xmi' = x /\ hist' = hist /\ xret'.code # "crashed"
  BY DEF XReturns, XRet
<1> QED BY <1>1, LoadKeepsInv

(* A call that leaves the object. *)
LEMMA SameObjectKeepsInv ==
  ASSUME XInv, xmi' = xmi, hist' = hist, xio' = xio,
         xret'.code # "crashed" \/ hist.refused
  PROVE  XInv'
BY DEF XInv, HistOK, NumFits, LoadsFresh, Converted, CacheShowsTrack, CrashNeedsRefusal

LEMMA AddTrackKeepsInv == ASSUME XInv, NEW tr, AddTrack(tr) PROVE XInv'
<1>1. CASE Full(xmi)
  <2>1. xmi' = xmi /\ hist' = hist /\ xio' = xio /\ xret'.code # "crashed"
    BY <1>1 DEF AddTrack, XCalls, XRet
  <2> QED BY <2>1, SameObjectKeepsInv
<1>2. CASE ~Full(xmi)
  <2> DEFINE y == [xmi EXCEPT !.tracks = [@ EXCEPT ![xmi.num + 1] = tr]]
  <2>1. /\ xmi' = [xmi EXCEPT !.num = @ + 1, !.tracks = [@ EXCEPT ![xmi.num + 1] = tr]]
        /\ hist' = hist /\ xio = XIdle /\ xio' = xio /\ xret'.code # "crashed"
    BY <1>2 DEF AddTrack, XCalls, XNone, XRet
  <2>2. Shaped(y) /\ y.cache = xmi.cache /\ \A t \in Slots : t # xmi.num + 1 => y.tracks[t] = xmi.tracks[t]
    <3>1. Shaped(xmi)
      BY DEF XInv
    <3>2. /\ Shaped(y) /\ y.num = xmi.num /\ y.cache = xmi.cache
          /\ \A t \in Slots : t # xmi.num + 1 => y.tracks[t] = xmi.tracks[t]
      BY <3>1, TrackReplaced, SMTT(20)
    <3> QED BY <3>2
  <2>3. xmi' = [num |-> xmi.num + 1, tracks |-> y.tracks, cache |-> xmi.cache]
    BY <2>1 DEF XInv, Shaped
  <2> HIDE DEF y
  <2>4. Shaped(xmi') /\ xmi'.num = xmi.num + 1 /\ xmi'.cache = xmi.cache /\ xmi'.tracks = y.tracks
    BY <2>2, <2>3 DEF Shaped
  <2>5. NumFits'
    BY <1>2, <2>1, <2>4, XmidiAssumption DEF XInv, NumFits, Full
  <2>6. CacheShowsTrack'
    <3> SUFFICES ASSUME ~hist.reused, ~hist.refused, NEW t \in Slots, xmi.cache[t] # <<>>
                 PROVE  t =< xmi.num + 1 /\ xmi.cache[t] = y.tracks[t].data
      BY <2>1, <2>4 DEF CacheShowsTrack
    <3>1. t =< xmi.num /\ xmi.cache[t] = xmi.tracks[t].data
      BY DEF XInv, CacheShowsTrack
    <3>2. xmi.num \in 0..MaxTracks /\ t \in Int
      BY XmidiAssumption DEF XInv, NumFits, Slots
    <3> QED BY <2>2, <3>1, <3>2, XmidiAssumption
  <2> QED BY <2>1, <2>4, <2>5, <2>6 DEF XInv, HistOK, LoadsFresh, CrashNeedsRefusal
<1> QED BY <1>1, <1>2

(* An edit counts as reuse if anything is kept. *)
LEMMA EditTrackKeepsInv == ASSUME XInv, NEW s \in Slots, NEW tr, EditTrack(s, tr) PROVE XInv'
<1>1. /\ xmi' = [xmi EXCEPT !.tracks = [@ EXCEPT ![s] = tr]]
      /\ hist' = [hist EXCEPT !.reused = @ \/ Converted]
      /\ xio = XIdle /\ xio' = xio /\ xret'.code # "crashed"
  BY DEF EditTrack, XCalls, XNone, XRet
<1>2. Shaped(xmi') /\ xmi'.num = xmi.num /\ xmi'.cache = xmi.cache
  BY <1>1, TrackReplaced DEF XInv
<1>3. hist.reused \in BOOLEAN /\ Converted \in BOOLEAN
  BY DEF XInv, HistOK, Converted
<1>4. HistOK' /\ hist'.refused = hist.refused /\ (hist'.reused <=> hist.reused \/ Converted)
  BY <1>1, <1>3 DEF XInv, HistOK
<1>5. CacheShowsTrack'
  BY <1>2, <1>4 DEF CacheShowsTrack, Converted
<1> QED BY <1>1, <1>2, <1>4, <1>5 DEF XInv, NumFits, LoadsFresh, CrashNeedsRefusal

LEMMA GetMidiTrackKeepsInv ==
  ASSUME XInv, NEW s \in 1..(MaxTracks + 1), GetMidiTrack(s) PROVE XInv'
<1>1. CASE IsTrackConverted(s) \/ s > xmi.num
  <2>1. xmi' = xmi /\ hist' = hist /\ xio' = xio /\ xret'.code # "crashed"
    BY <1>1 DEF GetMidiTrack, XCalls, XNone, XRet
  <2> QED BY <2>1, SameObjectKeepsInv
<1>2. CASE ~IsTrackConverted(s) /\ ~(s > xmi.num) /\ s \notin Slots
  <2>1. hist.refused
    BY <1>2, XmidiAssumption DEF XInv, NumFits, Slots
  <2>2. xmi' = xmi /\ hist' = hist /\ xio' = xio
    BY <1>2 DEF GetMidiTrack, XCalls
  <2> QED BY <2>1, <2>2, SameObjectKeepsInv
<1>3. CASE ~IsTrackConverted(s) /\ ~(s > xmi.num) /\ s \in Slots
  <2>1. CASE xmi.tracks[s].data \in Bad
    <3>1. xmi' = xmi /\ hist' = hist /\ xio' = xio /\ xret'.code # "crashed"
      BY <1>3, <2>1 DEF GetMidiTrack, XCalls, XRet
    <3> QED BY <3>1, SameObjectKeepsInv
  <2>2. CASE xmi.tracks[s].data \notin Bad
    <3> DEFINE kept == [xmi.cache EXCEPT ![s] = xmi.tracks[s].data]
    <3>1. /\ xmi' = [xmi EXCEPT !.cache = kept]
          /\ hist' = hist /\ xio = XIdle /\ xio' = xio /\ xret'.code # "crashed"
      BY <1>3, <2>2 DEF GetMidiTrack, Kept, XCalls, XNone, XRet
    <3>2. xmi' = [num |-> xmi.num, tracks |-> xmi.tracks, cache |-> kept]
      BY <3>1 DEF XInv, Shaped
    <3>3. kept = [t \in Slots |-> IF t = s THEN xmi.tracks[s].data ELSE xmi.cache[t]]
      BY DEF XInv, Shaped
    <3>4. kept = [t \in Slots |-> kept[t]]
      BY <3>3
    <3> HIDE DEF kept
    <3>5. Shaped(xmi') /\ xmi'.num = xmi.num /\ xmi'.tracks = xmi.tracks /\ xmi'.cache = kept
      BY <3>2, <3>4 DEF XInv, Shaped
    <3>6. CacheShowsTrack'
      <4> SUFFICES ASSUME ~hist.reused, ~hist.refused, NEW t \in Slots, kept[t] # <<>>
                   PROVE  t =< xmi.num /\ kept[t] = xmi.tracks[t].data
        BY <3>1, <3>5 DEF CacheShowsTrack
      <4>1. CASE t = s
        <5>1. xmi.num \in Int /\ s \in Int
          BY XmidiAssumption DEF XInv, NumFits
        <5> QED BY <1>3, <3>3, <4>1, <5>1
      <4>2. CASE t # s
        BY <3>3, <4>2 DEF XInv, CacheShowsTrack
      <4> QED BY <4>1, <4>2
    <3> QED BY <3>1, <3>5, <3>6 DEF XInv, HistOK, NumFits, LoadsFresh, CrashNeedsRefusal
  <2> QED BY <2>1, <2>2
<1> QED BY <1>1, <1>2, <1>3

(* A load begins: what is kept from now on is of other tracks. *)
LEMMA LoadHeadKeepsInv == ASSUME XInv, XLoadHead PROVE XInv'
<1> DEFINE n == HeadNum
<1>1. /\ xmi' = [xmi EXCEPT !.num = n] /\ n \in Slots
      /\ hist' = [hist EXCEPT !.reused = @ \/ Converted,
                              !.timbres = \E t \in Slots : xmi.tracks[t].timb # <<>>]
      /\ xret'.code # "crashed"
  BY DEF XLoadHead, XNone, XRet
<1>2. xmi' = [num |-> n, tracks |-> xmi.tracks, cache |-> xmi.cache]
  BY <1>1 DEF XInv, Shaped
<1> HIDE DEF n
<1>3. Shaped(xmi') /\ xmi'.num = n /\ xmi'.cache = xmi.cache
  BY <1>2 DEF XInv, Shaped
<1>4. hist.reused \in BOOLEAN /\ Converted \in BOOLEAN
      /\ (\E t \in Slots : xmi.tracks[t].timb # <<>>) \in BOOLEAN
  BY DEF XInv, HistOK, Converted
<1>5. HistOK' /\ hist'.refused = hist.refused /\ (hist'.reused <=> hist.reused \/ Converted)
  BY <1>1, <1>4 DEF XInv, HistOK
<1>6. NumFits'
  BY <1>1, <1>3, XmidiAssumption DEF NumFits, Slots
<1>7. CacheShowsTrack' /\ LoadsFresh'
  BY <1>3, <1>5 DEF CacheShowsTrack, LoadsFresh, Converted
<1> QED BY <1>1, <1>3, <1>5, <1>6, <1>7 DEF XInv, CrashNeedsRefusal

(* A refused number of tracks is kept all the same. *)
LEMMA LoadCountFailsKeepsInv == ASSUME XInv, XLoadCountFails PROVE XInv'
<1> DEFINE n == HeadNum
<1>1. /\ xmi' = [xmi EXCEPT !.num = n] /\ hist' = [hist EXCEPT !.refused = TRUE] /\ xio' = XIdle
  BY DEF XLoadCountFails, XReturns
<1>2. xmi' = [num |-> n, tracks |-> xmi.tracks, cache |-> xmi.cache]
  BY <1>1 DEF XInv, Shaped
<1> HIDE DEF n
<1>3. Shaped(xmi')
  BY <1>2 DEF XInv, Shaped
<1>4. HistOK' /\ hist'.refused
  BY <1>1 DEF XInv, HistOK
<1> QED BY <1>1, <1>3, <1>4 DEF XInv, NumFits, LoadsFresh, CacheShowsTrack, CrashNeedsRefusal

(* A number whose head is torn is kept, refused or not. *)
LEMMA LoadHeadTornKeepsInv == ASSUME XInv, XLoadHeadTorn PROVE XInv'
<1> DEFINE n == HeadNum
<1>1. /\ xmi' = [xmi EXCEPT !.num = n] /\ xio' = XIdle /\ xret'.code # "crashed"
      /\ hist' = [hist EXCEPT !.reused = @ \/ Converted, !.refused = @ \/ n \notin Slots]
  BY DEF XLoadHeadTorn, XReturns, XRet
<1>2. xmi' = [num |-> n, tracks |-> xmi.tracks, cache |-> xmi.cache]
  BY <1>1 DEF XInv, Shaped
<1> HIDE DEF n
<1>3. Shaped(xmi') /\ xmi'.num = n /\ xmi'.cache = xmi.cache
  BY <1>2 DEF XInv, Shaped
<1>4. hist.reused \in BOOLEAN /\ hist.refused \in BOOLEAN /\ Converted \in BOOLEAN
  BY DEF XInv, HistOK, Converted
<1>5. /\ HistOK' /\ (hist'.refused <=> hist.refused \/ n \notin Slots)
      /\ (hist'.reused <=> hist.reused \/ Converted)
  BY <1>1, <1>4 DEF XInv, HistOK
<1>6. NumFits'
  BY <1>3, <1>5, XmidiAssumption DEF NumFits, Slots
<1>7. CacheShowsTrack' /\ LoadsFresh'
  BY <1>1, <1>3, <1>5 DEF CacheShowsTrack, LoadsFresh, Converted
<1> QED BY <1>1, <1>3, <1>5, <1>6, <1>7 DEF XInv, CrashNeedsRefusal

(* The steps of a load. *)
LEMMA LoadStepKeepsInv == ASSUME XInv, XLoadStep PROVE XInv'
<1>1. Shaped(xmi) /\ xio # XIdle
  BY DEF XInv, XLoadStep, XLoadNoTrack, XLoadNoEvents, XLoadTornTimb, XLoadTornEvents,
         XLoadLostLength, XLoadTrack, XLoadEnd, XLoading, Formed, HasEvnt, TornEvnt
<1>2. CASE XLoadNoTrack
  BY <1>1, <1>2, ReturnKeepsInv DEF XLoadNoTrack
<1>3. ASSUME NEW tr, NEW code, code # "crashed", XReturns(TrackIs(tr), code, hist) PROVE XInv'
  <2>1. Shaped(TrackIs(tr)) /\ TrackIs(tr).num = xmi.num /\ TrackIs(tr).cache = xmi.cache
    BY <1>1, TrackIsShaped
  <2> QED BY <1>1, <1>3, <2>1, ReturnKeepsInv
<1>4. CASE XLoadNoEvents
  BY <1>3, <1>4 DEF XLoadNoEvents
<1>5. CASE XLoadTornTimb
  <2>1. PICK tr : XReturns(TrackIs(tr), "WRONG_FORMAT", hist)
    BY <1>5 DEF XLoadTornTimb
  <2> QED BY <1>3, <2>1
<1>6. CASE XLoadTornEvents
  <2>1. PICK tr : XReturns(TrackIs(tr), "UNEXPECTED_EOF", hist)
    BY <1>6 DEF XLoadTornEvents
  <2> QED BY <1>3, <2>1
<1>7. CASE XLoadLostLength
  BY <1>3, <1>7 DEF XLoadLostLength
<1>8. CASE XLoadTrack
  <2>1. PICK tr : xmi' = TrackIs(tr) /\ hist' = hist /\ xret' = xret
    BY <1>8 DEF XLoadTrack
  <2>2. Shaped(xmi') /\ xmi'.num = xmi.num /\ xmi'.cache = xmi.cache
    BY <1>1, <2>1, TrackIsShaped
  <2> QED BY <1>1, <2>1, <2>2, LoadKeepsInv
<1>9. CASE XLoadEnd
  BY <1>1, <1>9, ReturnKeepsInv DEF XLoadEnd
<1> QED BY <1>2, <1>4, <1>5, <1>6, <1>7, <1>8, <1>9 DEF XLoadStep

LEMMA StepXInv == XInv /\ [XNext]_xvars => XInv'
<1> SUFFICES ASSUME XInv, [XNext]_xvars PROVE XInv'
  OBVIOUS
<1>1. CASE UNCHANGED xvars
  BY <1>1 DEF xvars, XInv, HistOK, NumFits, LoadsFresh, Converted, CacheShowsTrack, CrashNeedsRefusal
<1>2. CASE XNext
  <2>1. xret.code # "crashed"
    BY <1>2 DEF XNext
  <2>2. CASE XNew
    <3>1. xmi' = NewXmi /\ hist' = NewHist /\ xio' = XIdle /\ xret'.code # "crashed"
      BY <2>2 DEF XNew, XCalls, XNone, XRet
    <3>2. HistOK' /\ ~hist'.refused
      BY <3>1 DEF NewHist, HistOK
    <3> QED BY <3>1, <3>2, NewObject, XmidiAssumption
         DEF XInv, NumFits, LoadsFresh, CacheShowsTrack, CrashNeedsRefusal
  <2>3. ASSUME NEW tr \in Tracks, AddTrack(tr) PROVE XInv'
    BY <2>3, AddTrackKeepsInv
  <2>4. ASSUME NEW t \in Slots, NEW tr \in Tracks, EditTrack(t, tr) PROVE XInv'
    BY <2>4, EditTrackKeepsInv
  <2>5. ASSUME NEW t \in 1..(MaxTracks + 1), GetMidiTrack(t) PROVE XInv'
    BY <2>5, GetMidiTrackKeepsInv
  <2>6. CASE XWrite
    <3>1. xmi' = xmi /\ hist' = hist /\ xio' = xio
      BY <2>6 DEF XWrite
    <3>2. xret'.code # "crashed" \/ hist.refused
      BY <2>6, XmidiAssumption DEF XWrite, XRet, XInv, NumFits
    <3> QED BY <3>1, <3>2, SameObjectKeepsInv
  <2>7. ASSUME NEW n, XCut(n) PROVE XInv'
    <3>1. xmi' = xmi /\ hist' = hist /\ xio' = xio /\ xret'.code # "crashed"
      BY <2>7 DEF XCut, XNone, XRet
    <3> QED BY <3>1, SameObjectKeepsInv
  <2>8. CASE XLoadHeadFails
    <3>1. xmi' = xmi /\ hist' = hist /\ xio' = xio /\ xret'.code # "crashed"
      BY <2>8 DEF XLoadHeadFails, XReturns, XRet
    <3> QED BY <3>1, SameObjectKeepsInv
  <2>9. CASE XLoadCountFails
    BY <2>9, LoadCountFailsKeepsInv
  <2>10. CASE XLoadHead
    BY <2>10, LoadHeadKeepsInv
  <2>11. CASE XLoadHeadTorn
    BY <2>11, LoadHeadTornKeepsInv
  <2>12. CASE XLoadStep
    BY <2>12, LoadStepKeepsInv
  <2> QED BY <1>2, <2>2, <2>3, <2>4, <2>5, <2>6, <2>7, <2>8, <2>9, <2>10, <2>11, <2>12 DEF XNext
<1> QED BY <1>1, <1>2

(* Of an object whose tracks callers leave alone once they were converted, *)
(* getMidiTrack gives what the track converts to.                          *)
THEOREM XmidiCacheShowsTrack == XSpec => []CacheShowsTrack
<1>1. XInv => CacheShowsTrack
  BY DEF XInv
<1> QED BY <1>1, InitXInv, StepXInv, PTL DEF XSpec

(* Only a refused load lets getMidiTrack or write leave the array. *)
THEOREM XmidiCrashNeedsRefusal == XSpec => []CrashNeedsRefusal
<1>1. XInv => CrashNeedsRefusal
  BY DEF XInv
<1> QED BY <1>1, InitXInv, StepXInv, PTL DEF XSpec

-------------------------------------------------------------------------------
(* What is loaded. *)

Track == [data : Values, timb : Values]

(* Track t was loaded from the file: its padding was there, or was taken   *)
(* from the chunk that is read next.                                       *)
LoadedTrack(t) ==
  LET c  == xfile.tracks[t]
      tr == xmi.tracks[t]
  IN /\ EvntAt(t) =< xfile.len
     /\ tr.data = DataRead(c)
     /\ IF c.timbs = <<>> THEN tr.timb = <<>> \/ hist.timbres ELSE tr.timb = c.timbs[1]
     /\ NeedsNext(c) => t = xio.t - 1 /\ xio.off

(* The tracks that were come to are those of the file, and without timbres *)
(* at the beginning the others have none.                                  *)
LoadGoesOn ==
  xio # XIdle =>
    /\ xret = XNone /\ xmi.num \in Slots
    /\ xfile.head.ok /\ xmi.num = HeadNum
    /\ xio.t \in 1..(xmi.num + 1)
    /\ \A t \in 1..(xio.t - 1) : LoadedTrack(t)
    /\ \A t \in Slots : xio.t =< t => xmi.tracks[t].timb = <<>> \/ hist.timbres

(* The inductive invariant of what is loaded. *)
TInv ==
  /\ XInv
  /\ xmi.num \in Nat /\ xmi.tracks \in [Slots -> Track] /\ xio \in [t : Nat, off : BOOLEAN]
  /\ IsXmiFile(xfile) /\ Holds(xfile)
  /\ LoadGoesOn /\ TracksSurvive

(* A call or a load that ends without NONE, and what it leaves. *)
LEMMA IdleKeeps ==
  ASSUME XInv', xio' = XIdle, xmi'.num \in Nat, xmi'.tracks \in [Slots -> Track],
         IsXmiFile(xfile'), Holds(xfile'), xret' # XRet("load", "NONE")
  PROVE  TInv'
<1>1. xio' \in [t : Nat, off : BOOLEAN]
  BY DEF XIdle
<1>2. LoadGoesOn'
  BY DEF LoadGoesOn
<1>3. TracksSurvive'
  BY DEF TracksSurvive
<1>4. IsXmiFile(xfile)' /\ Holds(xfile)'
  OBVIOUS
<1> QED BY <1>1, <1>2, <1>3, <1>4 DEF TInv

(* A new object and a found file. *)
LEMMA InitTInv == XInit => TInv
<1> SUFFICES ASSUME XInit PROVE TInv
  OBVIOUS
<1>1. XInv
  BY InitXInv
<1>2. xmi = NewXmi /\ xio = XIdle /\ xret = XNone
  BY DEF XInit
<1>3. xmi.num \in Nat /\ xmi.tracks = [t \in Slots |-> Empty]
  BY <1>2 DEF NewXmi
<1>4. Empty \in Track
  BY DEF Empty, Track, Values
<1>5. xmi.tracks \in [Slots -> Track]
  BY <1>3, <1>4
<1>6. IsXmiFile(xfile) /\ Holds(xfile)
  BY XmidiAssumption DEF XInit
<1>7. xio \in [t : Nat, off : BOOLEAN]
  BY <1>2 DEF XIdle
<1>8. LoadGoesOn
  BY <1>2 DEF LoadGoesOn
<1>9. TracksSurvive
  BY <1>2 DEF TracksSurvive, XNone, XRet
<1> QED BY <1>1, <1>3, <1>5, <1>6, <1>7, <1>8, <1>9 DEF TInv

(* A track is replaced. *)
LEMMA TrackIsTyped ==
  ASSUME TInv, NEW tr \in Track
  PROVE  /\ TrackIs(tr).num = xmi.num /\ TrackIs(tr).tracks \in [Slots -> Track]
         /\ \A t \in Slots : t # xio.t => TrackIs(tr).tracks[t] = xmi.tracks[t]
         /\ xio.t \in Slots => TrackIs(tr).tracks[xio.t] = tr
<1> DEFINE ts == [xmi.tracks EXCEPT ![xio.t] = tr]
           x  == TrackIs(tr)
<1>1. x = [num |-> xmi.num, tracks |-> ts, cache |-> xmi.cache]
  BY DEF TInv, XInv, Shaped, TrackIs
<1>2. ts \in [Slots -> Track] /\ (\A t \in Slots : t # xio.t => ts[t] = xmi.tracks[t])
      /\ (xio.t \in Slots => ts[xio.t] = tr)
  BY DEF TInv
<1> HIDE DEF ts, x
<1>3. x.num = xmi.num /\ x.tracks = ts
  BY <1>1
<1> QED BY <1>2, <1>3 DEF x

(* The chunks of a track that has begun. *)
LEMMA ChunksTyped ==
  ASSUME TInv, Formed
  PROVE  /\ xio.t \in Slots /\ xio.t \in 1..Len(xfile.tracks)
         /\ Chunks \in Parts
         /\ xmi.tracks[xio.t] \in Track
         /\ Chunks.timbs # <<>> => Chunks.timbs[1] \in Values
         /\ WithTimb \in Track
         /\ DataRead(Chunks) \in Values
<1>1. xio # XIdle /\ xio.t =< xmi.num /\ FormAt(xio.t) =< xfile.len
  BY DEF Formed, XLoading, There
<1>2. xio.t \in 1..(xmi.num + 1) /\ xmi.num \in Slots
  BY <1>1 DEF TInv, LoadGoesOn
<1>3. xio.t \in Slots /\ xio.t \in Nat \ {0}
  BY <1>1, <1>2, XmidiAssumption DEF Slots
<1>4. xfile.len \in Nat /\ Len(xfile.tracks) \in Nat /\ xfile.len =< EvntAt(Len(xfile.tracks))
  BY DEF TInv, IsXmiFile
<1>5. xio.t \in 1..Len(xfile.tracks)
  BY <1>1, <1>3, <1>4 DEF FormAt, EvntAt
<1>6. xfile.tracks \in Seq(Parts)
  BY DEF TInv, IsXmiFile
<1>7. Chunks \in Parts
  BY <1>5, <1>6, ElementOfSeq DEF Chunks
<1>8. xmi.tracks[xio.t] \in Track
  BY <1>3 DEF TInv
<1>9. Chunks.timbs # <<>> => Chunks.timbs[1] \in Values
  <2>1. Chunks.timbs \in Seq(Values)
    BY <1>7 DEF Parts
  <2> QED BY <2>1
<1>10. WithTimb \in Track
  BY <1>8, <1>9 DEF WithTimb, HasTimb, NoTimb, Track
<1>11. DataRead(Chunks) \in Values
  BY <1>7 DEF DataRead, Values, Parts
<1> QED BY <1>3, <1>5, <1>7, <1>8, <1>9, <1>10, <1>11

(* A load that fails. *)
LEMMA FailedLoadKeeps ==
  ASSUME TInv, XInv', NEW tr \in Track, NEW code, code # "NONE", NEW x, x \in {xmi, TrackIs(tr)},
         NEW h, XReturns(x, code, h)
  PROVE  TInv'
<1>1. /\ xmi' = x /\ xio' = XIdle /\ xfile' = xfile /\ xret' # XRet("load", "NONE")
  BY DEF XReturns, XRet
<1>2. x.num \in Nat /\ x.tracks \in [Slots -> Track]
  BY TrackIsTyped DEF TInv
<1>3. IsXmiFile(xfile) /\ Holds(xfile)
  BY DEF TInv
<1> QED BY <1>1, <1>2, <1>3, IdleKeeps

(* The calls of clients. *)
LEMMA CallKeeps ==
  ASSUME TInv, XInv', NEW x, NEW r, NEW h, XCalls(x, r, h), x.num \in Nat,
         x.tracks \in [Slots -> Track], r # XRet("load", "NONE")
  PROVE  TInv'
<1>1. xmi' = x /\ xio' = XIdle /\ xfile' = xfile /\ xret' = r
  BY DEF XCalls
<1>2. IsXmiFile(xfile) /\ Holds(xfile)
  BY DEF TInv
<1> QED BY <1>1, <1>2, IdleKeeps

(* An object with a new number and new tracks, as a record. *)
LEMMA PutTogether ==
  ASSUME NEW y, Shaped(y), NEW n, NEW ts
  PROVE  [y EXCEPT !.num = n, !.tracks = ts] = [num |-> n, tracks |-> ts, cache |-> y.cache]
<1> DEFINE z == [y EXCEPT !.num = n]
<1>1. [y EXCEPT !.num = n, !.tracks = ts] = [z EXCEPT !.tracks = ts]
  OBVIOUS
<1>2. z = [num |-> n, tracks |-> y.tracks, cache |-> y.cache]
  BY DEF Shaped
<1> HIDE DEF z
<1>3. [z EXCEPT !.tracks = ts] = [num |-> n, tracks |-> ts, cache |-> y.cache]
  BY <1>2
<1> QED BY <1>1, <1>3

(* The calls that change the object or convert a track. *)
LEMMA CallsKeep ==
  ASSUME TInv, XInv',
         \/ XNew
         \/ \E tr \in Tracks : AddTrack(tr)
         \/ \E t \in Slots, tr \in Tracks : EditTrack(t, tr)
         \/ \E t \in 1..(MaxTracks + 1) : GetMidiTrack(t)
  PROVE  TInv'
<1>1. xmi.num \in Nat /\ xmi.tracks \in [Slots -> Track] /\ Shaped(xmi) /\ Tracks \subseteq Track
  BY XmidiAssumption DEF TInv, XInv, Track
<1>2. XNone # XRet("load", "NONE") /\ \A op, code : code # "NONE" => XRet(op, code) # XRet("load", "NONE")
  BY DEF XNone, XRet
<1>3. CASE XNew
  <2>1. NewXmi.num \in Nat /\ NewXmi.tracks = [t \in Slots |-> Empty]
    BY DEF NewXmi
  <2>2. Empty \in Track
    BY DEF Empty, Track, Values
  <2> QED BY <1>2, <1>3, <2>1, <2>2, CallKeeps DEF XNew
<1>4. ASSUME NEW tr \in Tracks, AddTrack(tr) PROVE TInv'
  <2>1. CASE Full(xmi)
    BY <1>1, <1>2, <1>4, <2>1, CallKeeps DEF AddTrack
  <2>2. CASE ~Full(xmi)
    <3> DEFINE x == [xmi EXCEPT !.num = @ + 1, !.tracks = [@ EXCEPT ![xmi.num + 1] = tr]]
    <3>0. PICK ts : ts = [xmi.tracks EXCEPT ![xmi.num + 1] = tr]
      OBVIOUS
    <3>1. x = [num |-> xmi.num + 1, tracks |-> ts, cache |-> xmi.cache]
      <4>1. x = [xmi EXCEPT !.num = xmi.num + 1, !.tracks = ts]
        BY <3>0
      <4> HIDE DEF x
      <4> QED BY <1>1, <4>1, PutTogether
    <3>2. XCalls(x, XNone, hist)
      BY <1>4, <2>2, Zenon DEF AddTrack
    <3>3. ts \in [Slots -> Track]
      BY <1>1, <3>0
    <3> HIDE DEF x
    <3>4. x.num = xmi.num + 1 /\ x.tracks \in [Slots -> Track]
      BY <3>1, <3>3
    <3> QED BY <1>1, <1>2, <3>2, <3>4, CallKeeps
  <2> QED BY <2>1, <2>2
<1>5. ASSUME NEW s \in Slots, NEW tr \in Tracks, EditTrack(s, tr) PROVE TInv'
  <2> DEFINE x == [xmi EXCEPT !.tracks = [@ EXCEPT ![s] = tr]]
  <2>1. PICK h : XCalls(x, XNone, h)
    BY <1>5 DEF EditTrack
  <2>2. x = [num |-> xmi.num, tracks |-> [xmi.tracks EXCEPT ![s] = tr], cache |-> xmi.cache]
    BY <1>1 DEF Shaped
  <2>3. [xmi.tracks EXCEPT ![s] = tr] \in [Slots -> Track]
    BY <1>1
  <2> HIDE DEF x
  <2>4. x.num = xmi.num /\ x.tracks \in [Slots -> Track]
    BY <2>2, <2>3
  <2> QED BY <1>1, <1>2, <2>1, <2>4, CallKeeps
<1>6. ASSUME NEW s \in 1..(MaxTracks + 1), GetMidiTrack(s) PROVE TInv'
  <2>1. CASE XCalls(xmi, XNone, hist)
    BY <1>1, <1>2, <2>1, CallKeeps
  <2>2. CASE \E code \in {"threw", "crashed"} : XCalls(xmi, XRet("midi", code), hist)
    <3>1. PICK code \in {"threw", "crashed"} : XCalls(xmi, XRet("midi", code), hist)
      BY <2>2
    <3>2. XRet("midi", code) # XRet("load", "NONE")
      BY DEF XRet
    <3> QED BY <1>1, <3>1, <3>2, CallKeeps
  <2>3. CASE XCalls(Kept(xmi, s), XNone, hist)
    <3>1. Kept(xmi, s) = [num |-> xmi.num, tracks |-> xmi.tracks,
                          cache |-> [xmi.cache EXCEPT ![s] = xmi.tracks[s].data]]
      BY <1>1 DEF Shaped, Kept
    <3>2. Kept(xmi, s).num = xmi.num /\ Kept(xmi, s).tracks = xmi.tracks
      BY <3>1
    <3> QED BY <1>1, <1>2, <2>3, <3>2, CallKeeps
  <2> QED BY <1>6, <2>1, <2>2, <2>3 DEF GetMidiTrack
<1> QED BY <1>3, <1>4, <1>5, <1>6

(* A function on 1..n is a sequence of length n. *)
LEMMA ArrayIsSeq ==
  ASSUME NEW S, NEW n \in Nat, NEW s \in [1..n -> S]
  PROVE  s \in Seq(S) /\ Len(s) = n
OBVIOUS

(* What is written is a file that holds the tracks. *)
LEMMA WriteKeeps == ASSUME TInv, XInv', XWrite PROVE TInv'
<1>1. xio' = XIdle /\ xmi' = xmi /\ xret' # XRet("load", "NONE")
      /\ (xfile' = xfile \/ (xfile' = XmiFile(xmi) /\ xmi.num =< MaxTracks))
  <2>1. xmi.num \in Nat
    BY DEF TInv
  <2> QED BY <2>1, XmidiAssumption DEF XWrite, XRet
<1>2. xmi.num \in Nat /\ xmi.tracks \in [Slots -> Track] /\ IsXmiFile(xfile) /\ Holds(xfile)
  BY DEF TInv
<1>3. ASSUME xmi.num =< MaxTracks PROVE IsXmiFile(XmiFile(xmi)) /\ Holds(XmiFile(xmi))
  <2> DEFINE f == XmiFile(xmi)
             n == xmi.num
  <2>1. /\ f.head = [ok |-> TRUE, num |-> n] /\ f.len = EvntAt(n)
        /\ f.tracks = [t \in 1..n |-> TrackChunks(xmi.tracks[t])]
        /\ f.holds = [t \in 1..n |-> xmi.tracks[t]]
        /\ f = [head |-> f.head, tracks |-> f.tracks, len |-> f.len, holds |-> f.holds]
    BY DEF XmiFile
  <2>2. ASSUME NEW t \in 1..n PROVE xmi.tracks[t] \in Track /\ TrackChunks(xmi.tracks[t]) \in Parts
    <3>1. t \in Slots
      BY <1>2, <1>3, XmidiAssumption DEF Slots
    <3>2. xmi.tracks[t] \in Track
      BY <1>2, <3>1
    <3>3. PICK tr : tr = xmi.tracks[t]
      OBVIOUS
    <3>4. tr.data \in Values /\ tr.timb \in Values
      BY <3>2, <3>3 DEF Track
    <3>5. (IF tr.timb = <<>> THEN <<>> ELSE <<tr.timb>>) \in Seq(Values)
      BY <3>4
    <3>6. TrackChunks(tr) \in Parts
      BY <3>4, <3>5 DEF TrackChunks, Parts
    <3> QED BY <3>2, <3>3, <3>6
  <2> HIDE DEF f
  <2>3. f.tracks \in Seq(Parts) /\ Len(f.tracks) = n /\ \A t \in 1..n : f.tracks[t] = TrackChunks(xmi.tracks[t])
    <3>1. PICK ts : ts = f.tracks
      OBVIOUS
    <3>2. ts \in [1..n -> Parts] /\ \A t \in 1..n : ts[t] = TrackChunks(xmi.tracks[t])
      BY <2>1, <2>2, <3>1
    <3>3. ts \in Seq(Parts) /\ Len(ts) = n
      BY <1>2, <3>2, ArrayIsSeq
    <3> QED BY <3>1, <3>2, <3>3
  <2>4. f.holds \in Seq([data : Values, timb : Values]) /\ Len(f.holds) = n
        /\ \A t \in 1..n : f.holds[t] = xmi.tracks[t]
    <3>1. PICK hs : hs = f.holds
      OBVIOUS
    <3>2. hs \in [1..n -> Track] /\ \A t \in 1..n : hs[t] = xmi.tracks[t]
      BY <2>1, <2>2, <3>1
    <3>3. hs \in Seq(Track) /\ Len(hs) = n
      BY <1>2, <3>2, ArrayIsSeq
    <3> QED BY <3>1, <3>2, <3>3 DEF Track
  <2>5. f.head \in [ok : BOOLEAN, num : Nat] /\ f.head.num = n /\ f.len \in Nat
    BY <1>2, <2>1 DEF EvntAt
  <2>6. IsXmiFile(f)
    <3>1. f.len =< EvntAt(Len(f.tracks))
      BY <1>2, <2>1, <2>3 DEF EvntAt
    <3>2. PICK hd, ts, l, hs : hd = f.head /\ ts = f.tracks /\ l = f.len /\ hs = f.holds
      OBVIOUS
    <3>3. f = [head |-> hd, tracks |-> ts, len |-> l, holds |-> hs]
      BY <2>1, <3>2
    <3> QED BY <2>3, <2>4, <2>5, <3>1, <3>2, <3>3 DEF IsXmiFile
  <2>7. ASSUME NEW t \in 1..n
        PROVE  LET c == f.tracks[t]
               IN f.holds[t] = [data |-> c.d, timb |-> IF c.timbs = <<>> THEN <<>> ELSE c.timbs[1]]
    <3>1. PICK tr \in Track : tr = xmi.tracks[t]
      BY <2>2
    <3>2. tr = [data |-> tr.data, timb |-> tr.timb] /\ f.holds[t] = tr
      BY <2>4, <3>1 DEF Track
    <3>3. PICK c : c = f.tracks[t]
      OBVIOUS
    <3>0. c = TrackChunks(tr)
      BY <2>3, <3>1, <3>3
    <3>4. c.d = tr.data /\ c.timbs = (IF tr.timb = <<>> THEN <<>> ELSE <<tr.timb>>)
      BY <3>0 DEF TrackChunks
    <3>5. (IF c.timbs = <<>> THEN <<>> ELSE c.timbs[1]) = tr.timb
      BY <3>4
    <3> QED BY <3>2, <3>3, <3>4, <3>5
  <2>8. Holds(f)
    BY <2>4, <2>5, <2>7 DEF Holds
  <2> QED BY <2>6, <2>8 DEF f
<1> QED BY <1>1, <1>2, <1>3, IdleKeeps

(* A file that is cut still is one, and holds what it held. *)
LEMMA CutKeeps == ASSUME TInv, XInv', NEW n \in 0..xfile.len, XCut(n) PROVE TInv'
<1>1. xio' = XIdle /\ xmi' = xmi /\ xret' = XNone /\ n < xfile.len
      /\ xfile' = [xfile EXCEPT !.len = n]
  BY DEF XCut
<1>2. IsXmiFile(xfile) /\ Holds(xfile) /\ xmi.num \in Nat /\ xmi.tracks \in [Slots -> Track]
  BY DEF TInv
<1>3. xfile' = [head |-> xfile.head, tracks |-> xfile.tracks, len |-> n, holds |-> xfile.holds]
  BY <1>1, <1>2 DEF IsXmiFile
<1>4. n \in Nat /\ Len(xfile.tracks) \in Nat
  BY <1>2 DEF IsXmiFile
<1>5. IsXmiFile(xfile')
  BY <1>1, <1>2, <1>3, <1>4 DEF IsXmiFile, EvntAt
<1>6. Holds(xfile')
  BY <1>2, <1>3 DEF Holds
<1>7. XNone # XRet("load", "NONE")
  BY DEF XNone, XRet
<1> QED BY <1>1, <1>2, <1>5, <1>6, <1>7, IdleKeeps

(* A load begins: no track was come to. *)
LEMMA HeadKeeps == ASSUME TInv, XInv', XLoadHead PROVE TInv'
<1> DEFINE n == HeadNum
<1>1. /\ xmi' = [xmi EXCEPT !.num = n] /\ n \in Slots /\ HeadThere
      /\ xio' = [t |-> 1, off |-> FALSE] /\ xret' = XNone /\ xfile' = xfile
      /\ hist' = [hist EXCEPT !.reused = @ \/ Converted,
                              !.timbres = \E t \in Slots : xmi.tracks[t].timb # <<>>]
  BY DEF XLoadHead
<1>2. Shaped(xmi) /\ HistOK /\ xmi.tracks \in [Slots -> Track] /\ IsXmiFile(xfile) /\ Holds(xfile)
  BY DEF TInv, XInv
<1>3. xfile.head.ok /\ n = xfile.head.num
  BY <1>1 DEF HeadThere, HeadNum
<1> HIDE DEF n
<1>4. xmi' = [num |-> n, tracks |-> xmi.tracks, cache |-> xmi.cache]
  BY <1>1, <1>2 DEF Shaped
<1>5. xmi'.num = n /\ xmi'.tracks = xmi.tracks /\ n \in Nat \ {0}
  BY <1>1, <1>4, XmidiAssumption DEF Slots
<1>6. hist'.timbres <=> (\E t \in Slots : xmi.tracks[t].timb # <<>>)
  BY <1>1, <1>2 DEF HistOK
<1>7. xio'.t = 1 /\ xio' \in [t : Nat, off : BOOLEAN]
  BY <1>1
<1>8. LoadGoesOn'
  <2>1. \A t \in 1..(xio'.t - 1) : LoadedTrack(t)'
    BY <1>7
  <2>2. \A t \in Slots : xmi'.tracks[t].timb = <<>> \/ hist'.timbres
    BY <1>5, <1>6
  <2>3. xret' = XNone' /\ xmi'.num \in Slots /\ xfile'.head.ok /\ xmi'.num = HeadNum'
    BY <1>1, <1>3, <1>5 DEF HeadNum, XNone, XRet
  <2>4. xio'.t \in 1..(xmi'.num + 1)
    BY <1>5, <1>7
  <2> QED BY <2>1, <2>2, <2>3, <2>4 DEF LoadGoesOn, Slots
<1>9. TracksSurvive'
  BY <1>1 DEF TracksSurvive, XNone, XRet
<1> QED BY <1>1, <1>2, <1>5, <1>7, <1>8, <1>9 DEF TInv, IsXmiFile, Holds

(* The heads that are refused. *)
LEMMA HeadFailsKeeps ==
  ASSUME TInv, XInv', XLoadHeadFails \/ XLoadHeadTorn \/ XLoadCountFails
  PROVE  TInv'
<1>1. xmi.num \in Nat /\ xmi.tracks \in [Slots -> Track] /\ Shaped(xmi)
      /\ IsXmiFile(xfile) /\ Holds(xfile) /\ HeadNum \in Nat
  BY DEF TInv, XInv, IsXmiFile, HeadNum
<1>2. PICK x, c, h : x \in {xmi, [xmi EXCEPT !.num = HeadNum]} /\ c # "NONE" /\ XReturns(x, c, h)
  BY DEF XLoadHeadFails, XLoadHeadTorn, XLoadCountFails
<1>3. [xmi EXCEPT !.num = HeadNum] = [num |-> HeadNum, tracks |-> xmi.tracks, cache |-> xmi.cache]
  BY <1>1 DEF Shaped
<1>4. x.num \in Nat /\ x.tracks \in [Slots -> Track]
  BY <1>1, <1>2, <1>3
<1>5. xmi' = x /\ xio' = XIdle /\ xfile' = xfile /\ xret' # XRet("load", "NONE")
  BY <1>2 DEF XReturns, XRet
<1> QED BY <1>1, <1>4, <1>5, IdleKeeps

(* The next track is loaded. *)
LEMMA TrackKeeps == ASSUME TInv, XInv', XLoadTrack PROVE TInv'
<1> DEFINE s  == xio.t
           c  == Chunks
           tr == [WithTimb EXCEPT !.data = DataRead(c)]
<1>1. /\ HasEvnt /\ Formed /\ xio # XIdle /\ ~xio.off /\ There(EvntAt(s))
      /\ xmi' = TrackIs(tr) /\ xio' = [t |-> s + 1, off |-> NeedsNext(c)]
      /\ xfile' = xfile /\ xret' = xret /\ hist' = hist /\ s =< xmi.num
  BY DEF XLoadTrack, HasEvnt, Formed, XLoading
<1>2. /\ s \in Slots /\ c = xfile.tracks[s] /\ WithTimb \in Track /\ DataRead(c) \in Values
      /\ xmi.tracks[s] \in Track
  BY <1>1, ChunksTyped DEF Chunks
<1>3. tr \in Track /\ tr.data = DataRead(c) /\ tr.timb = WithTimb.timb
  BY <1>2 DEF Track
<1>4. /\ xret = XNone /\ xmi.num \in Slots /\ xfile.head.ok /\ xmi.num = HeadNum
      /\ s \in 1..(xmi.num + 1)
      /\ \A t \in 1..(s - 1) : LoadedTrack(t)
      /\ \A t \in Slots : s =< t => xmi.tracks[t].timb = <<>> \/ hist.timbres
  BY <1>1 DEF TInv, LoadGoesOn
<1>5. WithTimb.timb = IF c.timbs = <<>> THEN xmi.tracks[s].timb ELSE c.timbs[1]
  <2>1. HasTimb <=> c.timbs # <<>>
    <3>1. TimbAt(s) =< xfile.len
      <4>1. xfile.len \in Nat /\ s \in Nat
        BY <1>2 DEF TInv, IsXmiFile, Slots
      <4> QED BY <1>1, <4>1 DEF There, EvntAt, TimbAt
    <3> QED BY <3>1 DEF HasTimb, NoTimb, There
  <2>2. [xmi.tracks[s] EXCEPT !.timb = c.timbs[1]].timb = c.timbs[1]
    BY <1>2 DEF Track
  <2> QED BY <2>1, <2>2 DEF WithTimb
<1> HIDE DEF tr, c
<1>6. /\ xmi'.num = xmi.num /\ xmi'.tracks \in [Slots -> Track] /\ xmi'.tracks[s] = tr
      /\ \A t \in Slots : t # s => xmi'.tracks[t] = xmi.tracks[t]
  BY <1>1, <1>2, <1>3, TrackIsTyped
<1>7. xio'.t = s + 1 /\ (xio'.off <=> NeedsNext(c)) /\ xio' \in [t : Nat, off : BOOLEAN]
  <2>1. NeedsNext(c) \in BOOLEAN
    BY DEF NeedsNext
  <2>2. s \in Nat
    BY <1>2 DEF Slots
  <2> QED BY <1>1, <2>1, <2>2
<1>8. s \in Int /\ xmi.num \in Int /\ xmi.num =< MaxTracks /\ MaxTracks \in Nat
  BY <1>2, <1>4, XmidiAssumption DEF Slots
<1>9. ASSUME NEW t \in 1..s PROVE LoadedTrack(t)'
  <2>1. CASE t = s
    <3>1. xmi'.tracks[t].data = DataRead(xfile'.tracks[t]) /\ EvntAt(t) =< xfile'.len
      BY <1>1, <1>2, <1>3, <1>6, <2>1 DEF There
    <3>2. IF xfile'.tracks[t].timbs = <<>> THEN xmi'.tracks[t].timb = <<>> \/ hist'.timbres
          ELSE xmi'.tracks[t].timb = xfile'.tracks[t].timbs[1]
      BY <1>1, <1>2, <1>3, <1>4, <1>5, <1>6, <1>8, <2>1
    <3>3. NeedsNext(xfile'.tracks[t]) => t = xio'.t - 1 /\ xio'.off
      BY <1>1, <1>2, <1>7, <1>8, <2>1
    <3> QED BY <3>1, <3>2, <3>3 DEF LoadedTrack
  <2>2. CASE t # s
    <3>1. LoadedTrack(t) /\ t \in Slots
      BY <1>4, <1>8, <2>2 DEF Slots
    <3>2. xmi'.tracks[t] = xmi.tracks[t]
      BY <1>6, <2>2, <3>1
    <3> QED BY <1>1, <3>1, <3>2 DEF LoadedTrack
  <2> QED BY <2>1, <2>2
<1>10. LoadGoesOn'
  <2>1. \A t \in 1..(xio'.t - 1) : LoadedTrack(t)'
    BY <1>7, <1>8, <1>9
  <2>2. ASSUME NEW t \in Slots, xio'.t =< t PROVE xmi'.tracks[t].timb = <<>> \/ hist'.timbres
    <3>1. s =< t /\ t # s
      BY <1>7, <1>8, <2>2 DEF Slots
    <3> QED BY <1>1, <1>4, <1>6, <3>1
  <2>3. xret' = XNone' /\ xmi'.num \in Slots /\ xfile'.head.ok /\ xmi'.num = HeadNum'
    BY <1>1, <1>4, <1>6 DEF HeadNum, XNone, XRet
  <2>4. xio'.t \in 1..(xmi'.num + 1)
    BY <1>1, <1>4, <1>6, <1>7, <1>8
  <2> QED BY <2>1, <2>2, <2>3, <2>4 DEF LoadGoesOn, Slots
<1>11. TracksSurvive'
  BY <1>1, <1>4 DEF TracksSurvive, XNone, XRet
<1> QED BY <1>1, <1>6, <1>7, <1>10, <1>11 DEF TInv, IsXmiFile, Holds

(* The data is read with its padding: at most one byte more. *)
LEMMA PaddedData ==
  ASSUME NEW c \in Parts
  PROVE  /\ IsPrefix(c.d, DataRead(c))
         /\ Len(DataRead(c)) = Len(c.d) + (Len(c.d) % 2)
<1>0. PICK d, r : d = c.d /\ r = DataRead(c)
  OBVIOUS
<1>1. d \in Seq(Nat) /\ Len(d) \in Nat
  BY <1>0 DEF Parts, Values
<1>2. CASE Len(d) % 2 = 1
  <2>1. r = Append(d, 0)
    BY <1>0, <1>2 DEF DataRead, Odd
  <2>2. r \in Seq(Nat) /\ Len(r) = Len(d) + 1 /\ \A i \in 1..Len(d) : r[i] = d[i]
    BY <1>1, <2>1
  <2>3. SubSeq(d, 1, Len(d)) = SubSeq(r, 1, Len(d))
    BY <1>1, <2>2
  <2>4. IsPrefix(d, r)
    BY <1>1, <2>2, <2>3 DEF IsPrefix
  <2> QED BY <1>0, <1>2, <2>2, <2>4
<1>3. CASE Len(d) % 2 # 1
  <2>1. r = d
    BY <1>0, <1>3 DEF DataRead, Odd
  <2>2. Len(d) + (Len(d) % 2) = Len(d)
    BY <1>1, <1>3
  <2>3. IsPrefix(d, d)
    BY <1>1 DEF IsPrefix
  <2> QED BY <1>0, <2>1, <2>2, <2>3
<1> QED BY <1>2, <1>3

(* The load ends with the file: all tracks were come to. *)
LEMMA EndKeeps == ASSUME TInv, XInv', XLoadEnd PROVE TInv'
<1>1. /\ xio # XIdle /\ xio.t = xmi.num + 1 /\ xmi' = xmi /\ xfile' = xfile /\ hist' = hist
      /\ xio' = XIdle
      /\ xret'.code = "NONE" => ~xio.off /\ xfile.len = EvntAt(xmi.num)
  BY DEF XLoadEnd, XReturns, XRet
<1>2. /\ xmi.num \in Slots /\ xfile.head.ok /\ xmi.num = HeadNum
      /\ \A t \in 1..xmi.num : LoadedTrack(t)
  <2>1. xmi.num + 1 - 1 = xmi.num
    BY DEF TInv
  <2> QED BY <1>1, <2>1 DEF TInv, LoadGoesOn
<1>3. xmi.num \in Nat /\ xmi.tracks \in [Slots -> Track] /\ IsXmiFile(xfile) /\ Holds(xfile)
  BY DEF TInv
<1>4. CASE xret' # XRet("load", "NONE")
  BY <1>1, <1>3, <1>4, IdleKeeps
<1>5. CASE xret' = XRet("load", "NONE")
  <2>1. ~xio.off /\ xfile.len = EvntAt(xmi.num)
    BY <1>1, <1>5 DEF XRet
  <2>2. xmi.num =< Len(xfile.tracks) /\ Len(xfile.tracks) \in Nat /\ xfile.tracks \in Seq(Parts)
    BY <1>3, <2>1 DEF IsXmiFile, EvntAt
  <2>3. /\ Len(xfile.holds) = xmi.num
        /\ \A t \in 1..xmi.num :
             xfile.holds[t] = [data |-> xfile.tracks[t].d,
                               timb |-> IF xfile.tracks[t].timbs = <<>> THEN <<>>
                                        ELSE xfile.tracks[t].timbs[1]]
    BY <1>2, <1>3, <2>2 DEF Holds, HeadNum
  <2>4. ASSUME NEW t \in 1..xmi.num
        PROVE  /\ IsPrefix(xfile.holds[t].data, xmi.tracks[t].data)
               /\ Len(xmi.tracks[t].data) = Len(xfile.holds[t].data) + (Len(xfile.holds[t].data) % 2)
               /\ \/ xmi.tracks[t].timb = xfile.holds[t].timb
                  \/ xfile.holds[t].timb = <<>> /\ hist.timbres
               /\ xfile.tracks[t].padded \/ ~Odd(xfile.tracks[t].d)
    <3>1. PICK c : c = xfile.tracks[t]
      OBVIOUS
    <3>2. c \in Parts
      <4>1. t \in 1..Len(xfile.tracks)
        BY <1>3, <2>2
      <4> QED BY <2>2, <3>1, <4>1, ElementOfSeq
    <3>3. /\ xmi.tracks[t].data = DataRead(c)
          /\ IF c.timbs = <<>> THEN xmi.tracks[t].timb = <<>> \/ hist.timbres
             ELSE xmi.tracks[t].timb = c.timbs[1]
          /\ ~NeedsNext(c)
      BY <1>2, <2>1, <3>1 DEF LoadedTrack
    <3>4. xfile.holds[t].data = c.d
          /\ xfile.holds[t].timb = (IF c.timbs = <<>> THEN <<>> ELSE c.timbs[1])
      <4>1. PICK timb : timb = (IF c.timbs = <<>> THEN <<>> ELSE c.timbs[1])
        OBVIOUS
      <4>2. xfile.holds[t] = [data |-> c.d, timb |-> timb]
        BY <2>3, <3>1, <4>1
      <4> QED BY <4>1, <4>2
    <3>5. IsPrefix(c.d, DataRead(c)) /\ Len(DataRead(c)) = Len(c.d) + (Len(c.d) % 2)
      BY <3>2, PaddedData
    <3>6. c.padded \/ ~Odd(c.d)
      BY <3>3 DEF NeedsNext
    <3>7. \/ xmi.tracks[t].timb = xfile.holds[t].timb
          \/ xfile.holds[t].timb = <<>> /\ hist.timbres
      BY <3>3, <3>4
    <3> QED BY <3>1, <3>3, <3>4, <3>5, <3>6, <3>7
  <2>5. TracksSurvive'
    BY <1>1, <2>3, <2>4 DEF TracksSurvive
  <2>6. LoadGoesOn' /\ xio' \in [t : Nat, off : BOOLEAN]
    BY <1>1 DEF LoadGoesOn, XIdle
  <2> QED BY <1>1, <1>3, <2>5, <2>6 DEF TInv, IsXmiFile, Holds
<1> QED BY <1>4, <1>5

(* The steps of a load. *)
LEMMA StepsKeep == ASSUME TInv, XInv', XLoadStep PROVE TInv'
<1>1. Empty \in Track
  BY DEF Empty, Track, Values
<1>2. CASE XLoadNoTrack
  <2>1. PICK code : code # "NONE" /\ XReturns(xmi, code, hist)
    BY <1>2 DEF XLoadNoTrack
  <2> QED BY <1>1, <2>1, FailedLoadKeeps
<1>3. ASSUME NEW tr \in Track, NEW code, code # "NONE", XReturns(TrackIs(tr), code, hist) PROVE TInv'
  BY <1>3, FailedLoadKeeps
<1>4. CASE XLoadNoEvents
  <2>1. WithTimb \in Track
    BY <1>4, ChunksTyped DEF XLoadNoEvents
  <2> QED BY <1>3, <1>4, <2>1 DEF XLoadNoEvents
<1>5. CASE XLoadTornTimb
  <2>1. PICK left \in Leavings :
          XReturns(TrackIs([xmi.tracks[xio.t] EXCEPT !.timb = left]), "WRONG_FORMAT", hist)
    BY <1>5 DEF XLoadTornTimb
  <2>2. xmi.tracks[xio.t] \in Track
    BY <1>5, ChunksTyped DEF XLoadTornTimb
  <2>3. [xmi.tracks[xio.t] EXCEPT !.timb = left] \in Track
    BY <2>2, XmidiAssumption DEF Track
  <2> QED BY <1>3, <2>1, <2>3
<1>6. CASE XLoadTornEvents
  <2>1. PICK left \in Leavings :
          XReturns(TrackIs([WithTimb EXCEPT !.data = left]), "UNEXPECTED_EOF", hist)
    BY <1>6 DEF XLoadTornEvents
  <2>2. WithTimb \in Track
    BY <1>6, ChunksTyped DEF XLoadTornEvents, TornEvnt, HasEvnt
  <2>3. [WithTimb EXCEPT !.data = left] \in Track
    BY <2>2, XmidiAssumption DEF Track
  <2> QED BY <1>3, <2>1, <2>3
<1>7. CASE XLoadLostLength
  <2>1. WithTimb \in Track
    BY <1>7, ChunksTyped DEF XLoadLostLength, TornEvnt
  <2> QED BY <1>3, <1>7, <2>1 DEF XLoadLostLength
<1> QED BY <1>2, <1>4, <1>5, <1>6, <1>7, TrackKeeps, EndKeeps DEF XLoadStep

(* Every step of the program. *)
LEMMA StepTInv == TInv /\ [XNext]_xvars => TInv'
<1> SUFFICES ASSUME TInv, [XNext]_xvars PROVE TInv'
  OBVIOUS
<1>1. XInv'
  BY StepXInv DEF TInv
<1>2. CASE UNCHANGED xvars
  <2>1. LoadGoesOn' /\ TracksSurvive'
    BY <1>2 DEF TInv, LoadGoesOn, LoadedTrack, TracksSurvive, xvars, HeadNum, XNone, XRet
  <2> QED BY <1>1, <1>2, <2>1 DEF TInv, IsXmiFile, Holds, xvars
<1>3. CASE XNext
  BY <1>1, <1>3, CallsKeep, WriteKeeps, CutKeeps, HeadFailsKeeps, HeadKeeps, StepsKeep DEF XNext
<1> QED BY <1>2, <1>3

(* What is loaded without error are the tracks of the file, whatever was   *)
(* in the object, and no load takes a byte of a chunk for padding.         *)
THEOREM XmidiTracksSurvive == XSpec => []TracksSurvive
<1>1. TInv => TracksSurvive
  BY DEF TInv
<1> QED BY <1>1, InitTInv, StepTInv, PTL DEF XSpec
==============================================================================
