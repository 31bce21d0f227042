---- MODULE ZipArchive ----
(* The archives of src/compress/miniz.c: entries one after another, the central directory and the
   end record behind them. An archive is extended in place: new entries overwrite its central
   directory until it is finalized again. A write may fail in the middle, and the program may stop
   between any two. A cell of the file is a header, a byte of data, a record of the directory or the
   end record; a checksum is as good as the data. *)
EXTENDS Naturals, Sequences, SequencesExt, FiniteSetsExt

CONSTANTS Names, Folded,        \* numbers for names, and for what is left without case
          Payloads, Small,      \* data, and the size up to which it is always stored
          Alignment,            \* m_file_offset_alignment, or 0
          ScanLimit,            \* how far behind the end record a file may go on
          SourceName, SourceData, \* the archive entries are copied from
          MaxFiles, MaxFaults

ASSUME ZipAssumption == SourceName \in Names /\ SourceData \in Payloads /\ Alignment \in Nat

VARIABLES file, mode,           \* m_zip_mode
          size,                 \* m_archive_size
          central,              \* m_central_dir, with m_central_dir_offsets
          added,                \* ghost: what the archive should hold
          faults

zipVars == <<file, mode, size, central, added, faults>>

FileEntry(name, ofs, data, method) == [name |-> name, ofs |-> ofs, data |-> data, method |-> method]
Body(data, method) == IF method = "stored" THEN [i \in DOMAIN data |-> <<"byte", data[i]>>] ELSE << <<"deflated", data>> >>
Zero == <<"zero">>
Local(e) == <<"local", e.name, e.method>>

ZipInit ==
  /\ file = <<>> /\ mode = "invalid" /\ size = 0 /\ central = <<>> /\ added = <<>> /\ faults = 0
----
(* Writing. *)

\* m_pWrite: cells at an offset.
PutCells(f, ofs, cells) ==
  [i \in 1..Max({Len(f), ofs + Len(cells)}) |->
      IF i \in ofs + 1..ofs + Len(cells) THEN cells[i - ofs] ELSE IF i <= Len(f) THEN f[i] ELSE Zero]

\* A series of writes <<offset, cell>>, the first n of which succeed.
Performed(f, writes, n) == FoldLeft(LAMBDA g, w : PutCells(g, w[1], <<w[2]>>), f, SubSeq(writes, 1, n))
At(ofs, cells) == [i \in DOMAIN cells |-> <<ofs + i - 1, cells[i]>>]

\* mz_zip_writer_compute_padding_needed_for_file_alignment().
Padding == IF Alignment = 0 THEN 0 ELSE (Alignment - (size % Alignment)) % Alignment

\* Fault: the header is written where the padding begins.
EntryWritesEarly(e) ==
  At(size, [i \in 1..Padding + 1 |-> Zero]) \o At(e.ofs + 1, Body(e.data, e.method)) \o At(size, <<Local(e)>>)

\* mz_zip_writer_add_mem_ex(): the header last, when the sizes are known.
EntryWrites(e) ==
  At(size, [i \in 1..Padding + 1 |-> Zero]) \o At(e.ofs + 1, Body(e.data, e.method)) \o At(e.ofs, <<Local(e)>>)

\* m_archive_size, once all writes are done.
SizeAfter(e, n) == IF n = Len(EntryWrites(e)) THEN e.ofs + 1 + Len(Body(e.data, e.method)) ELSE size

\* The first n writes succeed; only all of them make an entry.
WriteEntry(e, n) ==
  LET writes == EntryWrites(e)
      done == n = Len(writes)
  IN /\ n \in 0..Len(writes) /\ (done \/ faults < MaxFaults)
     /\ file' = Performed(file, writes, n) /\ size' = SizeAfter(e, n)
     /\ central' = IF done THEN Append(central, e) ELSE central
     /\ added' = IF done THEN Append(added, <<e.name, e.data>>) ELSE added
     /\ faults' = (IF done THEN faults ELSE faults + 1) /\ UNCHANGED mode

\* mz_zip_writer_init_file(): the file is made anew.
Create ==
  /\ mode = "invalid" /\ mode' = "writing" /\ file' = <<>> /\ size' = 0 /\ central' = <<>> /\ added' = <<>>
  /\ UNCHANGED faults

\* mz_zip_writer_add_mem(), mz_zip_writer_add_file().
AddMem(name, data, n) ==
  /\ mode = "writing" /\ Len(central) < MaxFiles
  /\ \E method \in {"stored", "deflated"} :
        /\ Len(data) <= Small => method = "stored"
        /\ WriteEntry(FileEntry(name, size + Padding, data, method), n)

\* mz_zip_writer_add_from_zip_reader(): the cells of the entry as they are.
AddFromReader(n) ==
  /\ mode = "writing" /\ Len(central) < MaxFiles
  /\ WriteEntry(FileEntry(SourceName, size + Padding, SourceData, "deflated"), n)

\* mz_zip_writer_finalize_archive(); after a failed one it may be called again.
Finalize(n) ==
  LET records == [i \in DOMAIN central |-> <<"central", central[i]>>]
      end == <<"end", Len(central), IF central = <<>> THEN 0 ELSE size>>
      writes == At(size, records) \o At(size + Len(records), <<end>>)
  IN /\ mode = "writing" /\ n \in 0..Len(writes) /\ (n = Len(writes) \/ faults < MaxFaults)
     /\ file' = Performed(file, writes, n)
     /\ size' = IF n = Len(writes) THEN size + Len(writes) ELSE IF n = Len(records) THEN size + n ELSE size
     /\ mode' = (IF n = Len(writes) THEN "finalized" ELSE mode)
     /\ faults' = (IF n = Len(writes) THEN faults ELSE faults + 1) /\ UNCHANGED <<central, added>>

\* mz_zip_writer_end(), or the program stops.
EndWriter == mode \in {"writing", "finalized"} /\ mode' = "invalid" /\ UNCHANGED <<file, size, central, added, faults>>
----
(* Reading. *)

\* mz_zip_reader_read_central_dir(): the last end record, and what it points to.
EndRecords(f) == {i \in 1..Len(f) : f[i][1] = "end" /\ Len(f) - i < ScanLimit}
LastEnd(f) == f[Max(EndRecords(f))]
Opens(f) ==
  /\ EndRecords(f) # {}
  /\ LET end == LastEnd(f)
     IN /\ end[3] + end[2] <= Len(f)
        /\ \A i \in end[3] + 1..end[3] + end[2] : f[i][1] = "central"
Directory(f) == LET end == LastEnd(f) IN [i \in 1..end[2] |-> f[end[3] + i][2]]

\* mz_zip_reader_extract_to_mem_no_alloc(): a local header, and the data of the checksum.
Extracts(f, e) ==
  /\ e.ofs < Len(f) /\ f[e.ofs + 1][1] = "local" /\ e.ofs + 1 + Len(Body(e.data, e.method)) <= Len(f)
  /\ SubSeq(f, e.ofs + 2, e.ofs + 1 + Len(Body(e.data, e.method))) = Body(e.data, e.method)

\* mz_zip_reader_sort_central_dir_offsets_by_filename().
SortedIndex(dir) == SetToSortSeq(DOMAIN dir, LAMBDA i, j : Folded[dir[i].name] < Folded[dir[j].name])

\* mz_zip_reader_locate_file_binary_search(): the entries it may end at.
Located(dir, name) ==
  LET sorted == SortedIndex(dir)
      Search[l \in 1..Len(dir) + 1, h \in 0..Len(dir)] ==
          IF l > h THEN {}
          ELSE LET m == (l + h) \div 2
               IN IF Folded[dir[sorted[m]].name] = Folded[name] THEN {sorted[m]}
                  ELSE IF Folded[dir[sorted[m]].name] < Folded[name] THEN Search[m + 1, h] ELSE Search[l, m - 1]
  IN Search[1, Len(dir)]

\* mz_zip_reader_locate_file() without the index: the first one.
LocatedFirst(dir, name) ==
  LET all == {i \in DOMAIN dir : Folded[dir[i].name] = Folded[name]}
  IN IF all = {} THEN {} ELSE {Min(all)}

\* mz_zip_reader_init_file() and mz_zip_writer_init_from_reader(): new entries are
\* written from the central directory on.
Extend ==
  /\ mode = "invalid" /\ Opens(file) /\ mode' = "writing"
  /\ size' = LastEnd(file)[3] /\ central' = Directory(file)
  /\ added' = [i \in DOMAIN central' |-> <<central'[i].name, central'[i].data>>]
  /\ UNCHANGED <<file, faults>>

ZipNext ==
  \/ Create \/ EndWriter \/ Extend
  \/ \E n \in 0..Len(file) + 6 : \/ Finalize(n) \/ AddFromReader(n)
                                 \/ \E name \in Names, data \in Payloads : AddMem(name, data, n)
----
(* Properties. *)

\* A finalized archive holds everything that was added, in order, whatever failed in
\* between: entries of an archive that is extended are never lost to a failed one.
AddedIsKept ==
  mode = "finalized" =>
      /\ Opens(file) /\ Len(Directory(file)) = Len(added)
      /\ \A i \in DOMAIN added : LET e == Directory(file)[i]
                                 IN <<e.name, e.data>> = added[i] /\ Extracts(file, e)

\* Entries begin where the alignment asks for.
EntriesAreAligned ==
  Alignment > 0 => \A i \in DOMAIN central : central[i].ofs % Alignment = 0 /\ file[central[i].ofs + 1][1] = "local"

\* The index finds a name when the search without it does.
IndexIsSearch ==
  mode = "finalized" /\ Opens(file) => \A name \in Names :
      LET dir == Directory(file)
          found == Located(dir, name)
      IN /\ (found = {}) = (LocatedFirst(dir, name) = {})
         /\ \A i \in found : Folded[dir[i].name] = Folded[name]
====
