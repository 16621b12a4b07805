------------------------------ MODULE MCExtract ------------------------------
(***************************************************************************)
(* Instances of Extract for TLC.                                           *)
(***************************************************************************)
EXTENDS Extract

Member(name, kind, size) == [name |-> name, kind |-> kind, size |-> size]
File(name, size) == Member(name, "file", size)
Chunk(kind, m) == [kind |-> kind, m |-> m, ok |-> TRUE]
DataChunks(members, m) == [k \in 1 .. Size(members[m]) |-> Chunk("data", m)]
Archive(first, members, heads, last) ==
  [members |-> members,
   chunks |-> first \o FlattenSeq([m \in DOMAIN members |->
                (IF heads THEN <<Chunk("head", m)>> ELSE <<>>) \o DataChunks(members, m)]) \o last]
Tar(members) == Archive(<<>>, members, TRUE, <<Chunk("end", 0)>>)
PaddedTar(members) == Archive(<<>>, members, TRUE, <<Chunk("end", 0), Chunk("pad", 0)>>)
ZipOf(members) == Archive(<<>>, members, TRUE, <<Chunk("index", 0)>>)
SevenZ(members) == Archive(<<Chunk("start", 0)>>, members, FALSE, <<Chunk("index", 0)>>)
Iso(members) == Archive(<<Chunk("index", 0)>>, members, FALSE, <<>>)
Damaged(a, p) == [a EXCEPT !.chunks[p].ok = FALSE]
CutAt(a, p) == [a EXCEPT !.chunks = SubSeq(@, 1, p)]
AllDamaged(a) == {a} \cup {Damaged(a, p) : p \in DOMAIN a.chunks} \cup {CutAt(a, p) : p \in 1 .. Len(a.chunks) - 1}

Lines(op, lists, choices, skips, recoveries, overwrites) ==
  [op : {op}, files : lists, chosen : choices, skip : skips, recovery : recoveries, overwrite : overwrites]
Plain(op, lists, choices) == Lines(op, lists, choices, {FALSE}, {FALSE}, BOOLEAN)
\* without --overwrite
Fresh(op, lists) == Lines(op, lists, {{}}, {FALSE}, {FALSE}, {FALSE})
Skipping(lists, recoveries) == Lines("unzip", lists, {{}}, {TRUE}, recoveries, BOOLEAN)

Mixed == <<Member(9, "dir", 0), File(1, 2), Member(2, "slink", 0), Member(3, "odd", 1), File(4, 0)>>
Links == <<File(1, 1), Member(2, "hlink", 0)>>
Some == <<File(1, 2), Member(9, "dir", 0), File(2, 1)>>
Two == <<File(1, 1), File(4, 1)>>

\* The command lines that the loops handle as they should.
Sound ==
  Fresh("untar", {<<a>> : a \in AllDamaged(Tar(Mixed))})
  \cup Plain("untar", {<<Tar(Links), Tar(Two)>>, <<PaddedTar(Two)>>}, {{}})
  \cup Plain("untar", {<<Tar(Some), Tar(Two)>>}, {{}, {1}, {9, 2}, {4}})
  \cup Fresh("unzip", {<<a, ZipOf(Two)>> : a \in AllDamaged(ZipOf(Some))})
  \cup Plain("unzip", {<<ZipOf(Some), ZipOf(Two)>>}, {{}, {1}, {9, 2}, {4}})
  \cup Skipping({<<Damaged(ZipOf(Some), p)>> : p \in 1 .. 6}, {FALSE})
  \cup Skipping({<<Damaged(ZipOf(Some), p)>> : p \in {2, 5, 7}}, {TRUE})
  \cup Lines("unzip", {<<Damaged(ZipOf(Some), p)>> : p \in {4, 7}}, {{}}, {FALSE}, {TRUE}, {FALSE})
  \cup Fresh("un7z", {<<a>> : a \in AllDamaged(SevenZ(Some))}) \cup Plain("un7z", {<<SevenZ(Some)>>}, {{}, {9, 2}})
  \cup Fresh("uniso", {<<a, Iso(Two)>> : a \in AllDamaged(Iso(Some))}) \cup Plain("uniso", {<<Iso(Some), Iso(Two)>>}, {{}, {9, 2}})

All == {"input", "open", "info", "read", "mkdir", "link", "create", "write", "flush", "short", "signal"}
None == {}

\* Zero blocks after the end of the first of two archives.
Padded == Plain("untar", {<<PaddedTar(Two), Tar(Some)>>}, {{}})
\* A member that was not asked for follows a directory that was.
AfterDirectory == Plain("untar", {<<Tar(<<Member(9, "dir", 0), File(1, 2), File(2, 1)>>)>>}, {{9, 2}})
\* Two archives with --skip, and an index that is damaged.
SkipTwo == Skipping({<<ZipOf(Some), ZipOf(Two)>>}, {FALSE})
SkipIndex == Skipping({<<Damaged(ZipOf(Two), 5)>>}, {FALSE})
\* The list of names with --skip.
SkipNames == Skipping({<<ZipOf(Two)>>}, {FALSE})
=============================================================================
