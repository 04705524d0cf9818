----------------------------- MODULE ArtifactFormat -----------------------------
(***************************************************************************)
(* How an artifact carries its files: an archive and a manifest in a        *)
(* section of the host image (ELF, PE, Mach-O) or, in artifacts of older    *)
(* builds, behind it with a footer; and how the launcher and `inka doctor`  *)
(* find them again after the artifact was signed, cut off or damaged.       *)
(*                                                                          *)
(* An image is a sequence of cells.  A cell is one field of a header, one   *)
(* name, or one piece of content: a number below WordSize, or a marker      *)
(* (negative), which is some number when it is read as one.                 *)
(***************************************************************************)
EXTENDS Integers, Sequences, SequencesExt

CONSTANTS
  Payload,  \* what is packed: files and manifest
  WordSize  \* lengths and offsets are words modulo WordSize

VARIABLES
  image,    \* the artifact on disk
  packed,   \* what it was packed from
  form,     \* the host's format, "trailer" for the older form
  mishap    \* what has happened to it

artifactVars == <<image, packed, form, mishap>>

Host == {"elf", "pe", "macho-arm", "macho-intel"}
Form == Host \cup {"trailer", "trailer-v1"}

Elf == -1           Pe == -2              MachoArm == -3      MachoIntel == -4
ArchiveMagic == -5  FootMagic == -6       Sentinel == -7      SentinelMagic == -8
Code == -9          LoadSegment == -10    NoteSegment == -11  Gnu == -12
Sui == -13          SectionName == -14    Icon == -15

Num(cell) == cell % WordSize
Fits(s, off, n) == off + n < WordSize /\ off + n <= Len(s)  \* checked_add, then the length
Piece(s, off, n) == SubSeq(s, off + 1, off + n)
Rest(s, off) == SubSeq(s, off + 1, Len(s))

(* How a reader ends. *)
Read(files, manifest) == [end |-> "read", files |-> files, manifest |-> manifest]
Refused == [end |-> "refused"]
Crashed == [end |-> "crashed"]
Endless == [end |-> "endless"]

(* ---- the archive ---------------------------------------------------------------- *)

EncodeEntry(file) == <<1, Len(file.data), file.exec, file.path>> \o file.data
EncodeArchive(files) ==
  <<ArchiveMagic>> \o FlattenSeq([i \in DOMAIN files |-> EncodeEntry(files[i])])

EncodeEntryV1(file) == <<1, Len(file.data), file.path>> \o file.data
EncodeArchiveV1(files) == FlattenSeq([i \in DOMAIN files |-> EncodeEntryV1(files[i])])

ValidPath(cells) == Len(cells) = 1 /\ cells[1] \in {1, 2}

IsV2(blob) == blob # <<>> /\ blob[1] = ArchiveMagic

(* The entry that begins after `at` cells, and where it ends.               *)
EntryAt(blob, at) ==
  LET body == at + (IF IsV2(blob) THEN 3 ELSE 2)
      path == Num(blob[at + 1])
      data == Num(blob[at + 2])
      exec == IF IsV2(blob) THEN blob[at + 3] ELSE 0
  IN IF /\ body <= Len(blob) /\ path # 0 /\ exec \in {0, 1}
        /\ Fits(blob, body, path + data) /\ ValidPath(Piece(blob, body, path))
     THEN [ok |-> TRUE, next |-> body + path + data,
           file |-> [path |-> blob[body + 1], data |-> Piece(blob, body + path, data), exec |-> exec]]
     ELSE [ok |-> FALSE]

(* One entry after the other, until the blob is used up; the first that is  *)
(* not well-formed refuses all of it.                                       *)
ParseArchive(blob) ==
  LET parse[at \in 0..Len(blob)] ==
        IF at = Len(blob) THEN [ok |-> TRUE, files |-> <<>>]
        ELSE LET entry == EntryAt(blob, at)
                 more == IF entry.ok THEN parse[entry.next] ELSE [ok |-> FALSE]
             IN IF more.ok THEN [ok |-> TRUE, files |-> <<entry.file>> \o more.files] ELSE [ok |-> FALSE]
  IN parse[IF IsV2(blob) THEN 1 ELSE 0]

Decoded(archive, manifest) ==
  LET a == ParseArchive(archive) IN IF a.ok THEN Read(a.files, manifest) ELSE Refused

(* ---- the section's content ------------------------------------------------------ *)

EncodeSectionPayload(p) == <<Len(p.manifest)>> \o p.manifest \o EncodeArchive(p.files)
ReadSectionPayload(s) ==
  IF s = <<>> \/ ~Fits(s, 1, Num(s[1])) THEN Refused
  ELSE Decoded(Rest(s, 1 + Num(s[1])), Piece(s, 1, Num(s[1])))

(* ---- the images that the linker and libsui write -------------------------------- *)

(* Besides what is asked for an image has code, in which a marker may occur *)
(* by chance, and a note, a resource or a command of another kind.          *)
Note(name, desc) == <<name, Len(desc)>> \o desc
Embedded(host, data) ==
  CASE host = "elf" ->
         LET d == Note(Sui, <<SectionName>> \o data)
         IN <<Elf, 3, LoadSegment, 14, 2, 8, NoteSegment, 16, 3, 1, NoteSegment, 19, Len(d), 1>>
              \o <<Code, Sentinel>> \o Note(Gnu, <<7>>) \o d
    [] host = "pe" -> <<Pe, 2, 30, 20, 2, 9, 30, 8 + Len(data), 11>> \o <<Code, Sentinel>>
                        \o <<2, Icon, 37, 1, SectionName, 38, Len(data), Code>> \o data
    [] host = "macho-arm" -> <<MachoArm, 2, Code, 8, 2, Sui, 10, Len(data)>> \o <<Code, Sentinel>> \o data
    [] host = "macho-intel" -> <<MachoIntel, Sentinel, Code, Sentinel, SentinelMagic, Len(data)>> \o data

(* The launcher before anything is embedded.                                *)
BareLauncher ==
  <<Elf, 2, LoadSegment, 10, 2, 8, NoteSegment, 12, 3, 1, Code, Sentinel>> \o Note(Gnu, <<7>>)

(* ---- finding the section --------------------------------------------------------- *)

NoSection == [found |-> FALSE, data |-> <<>>]
Section(s, off, n) == IF Fits(s, off, n) THEN [found |-> TRUE, data |-> Piece(s, off, n)] ELSE NoSection
Least(S) == CHOOSE i \in S : \A j \in S : i <= j

(* x & !y, of words.                                                        *)
Bits == {b \in 1..(WordSize - 1) : \E k \in 0..30 : b = 2^k}
AndNot(x, y) == SumSet({b \in Bits : (x \div b) % 2 = 1 /\ (y \div b) % 2 = 0})

(* align_up, unchecked.  Cells are the unit of alignment as of length: what  *)
(* is written, and the least the readers go by, is an alignment to one cell. *)
AlignUp(value, align) ==
  IF align <= 1 THEN value ELSE AndNot((value + (align - 1)) % WordSize, align - 1)

(* Note after note; where the next one begins the alignment decides, and it  *)
(* may lie before this one.  A loop that has gone round more often than the *)
(* segment has places has been at one of them twice, and never ends.        *)
FindInNoteSegment(seg, align) ==
  LET places == 0..Len(seg)
      find[rounds \in 0..Len(seg) + 1] ==
        [pos \in places |->
           LET size == Num(seg[pos + 2])
               at == AlignUp(pos + 2, align)
               desc == Piece(seg, at, size)
               next == AlignUp(at + size, align)
           IN IF rounds = 0 THEN Endless
              ELSE IF ~Fits(seg, pos, 2) \/ at \notin places \/ ~Fits(seg, at, size) THEN NoSection
              ELSE IF seg[pos + 1] = Sui /\ desc # <<>> /\ Head(desc) = SectionName
                   THEN [found |-> TRUE, data |-> Tail(desc)]
              ELSE IF next \in places THEN find[rounds - 1][next] ELSE NoSection]
  IN find[Len(seg) + 1][0]

(* Program headers up to the first that is not in the file, or is of notes  *)
(* whose end overflows; notes that end behind the file are passed over.     *)
LocateElfNote(im) ==
  LET off(i) == Num(im[4 + 4 * i])
      size(i) == Num(im[5 + 4 * i])
      isNote(i) == im[3 + 4 * i] = NoteSegment
      search(i) == FindInNoteSegment(Piece(im, off(i), size(i)), Num(im[6 + 4 * i]))
      looked == {i \in 0..(Num(im[2]) - 1) : \A j \in 0..i :
                   Fits(im, 2 + 4 * j, 4) /\ (isNote(j) => off(j) + size(j) < WordSize)}
      hits == {i \in looked : isNote(i) /\ Fits(im, off(i), size(i)) /\ search(i) # NoSection}
  IN IF Len(im) < 2 \/ hits = {} THEN NoSection ELSE search(Least(hits))

(* The resource directory and the data are named by addresses, which the    *)
(* first section that contains them makes an offset.                        *)
LocatePeResource(im) ==
  LET n == Num(im[2])
      rows == 0..(n - 1)
      va(i) == Num(im[4 + 3 * i])
      holding(rva) == {i \in rows : va(i) <= rva /\ rva - va(i) < Num(im[5 + 3 * i])}
      offset(rva) == LET i == Least(holding(rva)) IN Num(im[6 + 3 * i]) + rva - va(i)
      base == offset(Num(im[3]))
      entry(k) == base + 1 + 3 * k
      hits == {k \in 0..(Num(im[base + 1]) - 1) :
                 (\A j \in 0..k : Fits(im, entry(j), 3)) /\ im[entry(k) + 1] = SectionName}
      data == Num(im[entry(Least(hits)) + 2])
  IN IF \/ ~Fits(im, 0, 3) \/ ~Fits(im, 3, 3 * n)
        \/ Num(im[3]) = 0 \/ holding(Num(im[3])) = {} \/ ~Fits(im, base, 1)
        \/ hits = {} \/ holding(data) = {}
     THEN NoSection
     ELSE Section(im, offset(data), Num(im[entry(Least(hits)) + 3]))

LocateSentinel(im) ==
  LET at == {i \in 1..Len(im) : i + 2 <= Len(im) /\ im[i] = Sentinel /\ im[i + 1] = SentinelMagic}
  IN IF at = {} THEN NoSection ELSE Section(im, Least(at) + 2, Num(im[Least(at) + 2]))

(* The first segment of the name decides, also if it is not in the file.    *)
LocateMachoSection(im) ==
  LET n == IF Len(im) < 2 THEN 0 ELSE Num(im[2])
      hits == {i \in 0..(n - 1) : im[3 + 3 * i] = Sui}
  IN IF Len(im) < 2 \/ ~Fits(im, 2, 3 * n) THEN NoSection
     ELSE IF hits = {} THEN LocateSentinel(im)
     ELSE Section(im, Num(im[4 + 3 * Least(hits)]), Num(im[5 + 3 * Least(hits)]))

LocateSection(im) ==
  CASE im # <<>> /\ im[1] = Elf -> LocateElfNote(im)
    [] im # <<>> /\ im[1] = Pe -> LocatePeResource(im)
    [] im # <<>> /\ im[1] = MachoArm -> LocateMachoSection(im)
    [] im # <<>> /\ im[1] = MachoIntel -> LocateSentinel(im)
    [] OTHER -> NoSection

(* ---- the older form ----------------------------------------------------------------- *)

EncodeFooter(archive, manifest) == <<FootMagic, archive, manifest>>
WithTrailer(archive, manifest) ==
  BareLauncher \o archive \o manifest \o EncodeFooter(Len(archive), Len(manifest))

(* Mutant: the lengths are added as words. *)
ReadLayoutWrapping(im) ==
  LET foot == Rest(im, Len(im) - 3)
  IN IF Len(im) < 3 \/ foot[1] # FootMagic \/ (Num(foot[2]) + Num(foot[3]) + 3) % WordSize > Len(im)
     THEN [ok |-> FALSE, archive |-> 0, manifest |-> 0]
     ELSE [ok |-> TRUE, archive |-> Num(foot[2]), manifest |-> Num(foot[3])]

(* The lengths in the last cells; added without overflow before they are    *)
(* compared with what there is.                                             *)
ReadLayout(im) ==
  LET foot == Rest(im, Len(im) - 3)
  IN IF Len(im) < 3 \/ foot[1] # FootMagic \/ Num(foot[2]) + Num(foot[3]) + 3 > Len(im)
     THEN [ok |-> FALSE, archive |-> 0, manifest |-> 0]
     ELSE [ok |-> TRUE, archive |-> Num(foot[2]), manifest |-> Num(foot[3])]

(* A slice that is out of range ends the reader.                            *)
ReadTrailer(im) ==
  LET layout == ReadLayout(im)
      manifest == Len(im) - 3 - layout.manifest
      archive == manifest - layout.archive
  IN IF ~layout.ok THEN Refused
     ELSE IF archive < 0 THEN Crashed
     ELSE Decoded(Piece(im, archive, layout.archive), Piece(im, manifest, layout.manifest))

(* ---- the readers --------------------------------------------------------------------- *)

(* The launcher: whatever is wrong with the section, the footer is tried.   *)
Launched ==
  LET s == LocateSection(image)
      read == IF s = Endless THEN Endless ELSE IF s.found THEN ReadSectionPayload(s.data) ELSE Refused
  IN IF read # Refused THEN read ELSE ReadTrailer(image)

(* `inka doctor`: a section that is there has to be whole.                  *)
Examined ==
  LET s == LocateSection(image)
  IN IF s = Endless THEN Endless ELSE IF s.found THEN ReadSectionPayload(s.data) ELSE ReadTrailer(image)

(* ---- what is written ---------------------------------------------------------------- *)

PackedImage(f, p) ==
  CASE f \in Host -> Embedded(f, EncodeSectionPayload(p))
    [] f = "trailer" -> WithTrailer(EncodeArchive(p.files), p.manifest)
    [] f = "trailer-v1" -> WithTrailer(EncodeArchiveV1(p.files), p.manifest)

(* A word can hold the length of an artifact.                               *)
ASSUME ArtifactAssumption ==
  /\ WordSize \in Nat /\ WordSize > 40
  /\ \A p \in Payload :
       /\ p.manifest \in Seq(Int) /\ p.files # <<>>
       /\ p.files \in Seq([path : {1, 2}, data : Seq(Int), exec : {0, 1}])
       /\ \A f \in Form : Len(PackedImage(f, p)) < WordSize

(* ---- an artifact's life ---------------------------------------------------------------- *)

(* The oldest archives did not say what is executable.                      *)
ArtifactInit ==
  /\ image = <<>> /\ mishap = "unpacked"
  /\ packed \in Payload /\ form \in Form
  /\ form = "trailer-v1" => \A i \in DOMAIN packed.files : packed.files[i].exec = 0

PackArtifact ==
  /\ mishap = "unpacked" /\ mishap' = "none"
  /\ image' = PackedImage(form, packed)
  /\ UNCHANGED <<packed, form>>

(* A signature is appended; images of the older form cannot be signed.      *)
SignArtifact ==
  /\ mishap = "none" /\ mishap' = "signed" /\ form \in Host
  /\ image' = image \o <<Code, Code>>
  /\ UNCHANGED <<packed, form>>

(* The copy ends early.                                                     *)
CutOff(n) ==
  /\ mishap \in {"none", "signed"} /\ mishap' = "cut" /\ n < Len(image)
  /\ image' = SubSeq(image, 1, n)
  /\ UNCHANGED <<packed, form>>

(* One cell is read as something else.                                      *)
Damage(i, cell) ==
  /\ mishap = "none" /\ mishap' = "damaged" /\ i <= Len(image) /\ cell # image[i]
  /\ image' = [image EXCEPT ![i] = cell]
  /\ UNCHANGED <<packed, form>>

ArtifactNext ==
  \/ PackArtifact \/ SignArtifact
  \/ \E n \in 0..WordSize : CutOff(n)
  \/ \E i \in 1..WordSize, cell \in {0, 1, 3, WordSize - 2, WordSize - 1, Sui} : Damage(i, cell)

(* ---- properties -------------------------------------------------------------------------- *)

(* No cell of what is packed can be mistaken for the footer's mark or the   *)
(* section's name; the manifest may end in the mark.  Of an artifact that   *)
(* contains one of the older form, and is cut off exactly behind it, the    *)
(* readers take the inner one's footer.                                     *)
Unmistakable(p) ==
  /\ \A i \in 1..Len(p.files) : \A j \in 1..Len(p.files[i].data) :
       p.files[i].data[j] \notin {FootMagic, SectionName}
  /\ \A j \in 1..Len(p.manifest) :
       p.manifest[j] # SectionName /\ (p.manifest[j] = FootMagic => j = Len(p.manifest))

(* A header of notes that asks for more than the least alignment.           *)
MisalignedNotes(im) ==
  Len(im) >= 2 /\ \E i \in 0..(Num(im[2]) - 1) :
    Fits(im, 2 + 4 * i, 4) /\ im[3 + 4 * i] = NoteSegment /\ Num(im[6 + 4 * i]) > 1

(* What the launcher runs is what was packed, in every format, also when    *)
(* the artifact was signed afterwards (build.rs:380-383); of an artifact    *)
(* that was cut off it runs all files or none, never the first few; no      *)
(* length or offset that is damaged ends a reader other than by a refusal,  *)
(* and only the alignment of notes can keep it from ending; and doctor      *)
(* calls exactly those artifacts well-formed that launch                    *)
(* (inka-format lib.rs:175-218, 280-739, main.rs:655-694).                  *)
ReadsAsPacked ==
  LET whole == Read(packed.files, packed.manifest)
  IN mishap # "unpacked" =>
       \A launched \in {Launched}, examined \in {Examined} :
         /\ launched # Crashed /\ launched = examined
         /\ mishap \in {"none", "signed"} => launched = whole
         /\ mishap = "cut" => launched \in {Refused, whole}
         /\ launched = Endless => MisalignedNotes(image)

(* locate_section works on arbitrary file bytes (lib.rs:311-312).  It does   *)
(* not: an alignment of notes that is damaged wraps the place of the next   *)
(* note round to one that was read before (lib.rs:360-366, 451, 456).       *)
ReadersEndAlways == mishap # "unpacked" => Launched # Endless /\ Examined # Endless
================================================================================
