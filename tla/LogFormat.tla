------------------------------ MODULE LogFormat ------------------------------
(***************************************************************************)
(* The files LevelDB logs to (pod leveldb-library, db/log_writer.cc and    *)
(* db/log_reader.cc).  A file is a sequence of bytes, cut by the reader    *)
(* into blocks of BlockSize.  A logical record is written as one or more   *)
(* physical records, each a header of HeaderSize bytes and a part of the   *)
(* data, none of which crosses the end of a block.                         *)
(*                                                                         *)
(* A byte is its physical record and its place in it, which stands for the *)
(* checksum: the reader accepts a physical record when it finds all of its *)
(* bytes in their order, and nothing else.                                 *)
(***************************************************************************)
EXTENDS Integers, Sequences, SequencesExt

CONSTANTS
  BlockSize, HeaderSize,
  Nothing              \* stands for a logical record where there is none

ASSUME LogFormatAssumption ==
  /\ HeaderSize \in Nat \ {0}
  /\ BlockSize \in Nat
  /\ BlockSize > HeaderSize

-----------------------------------------------------------------------------
(* Writing *)

\* Bytes from + 1 .. from + len of the data of the logical record of, with a
\* header that says which part of the record they are.
Physical(type, of, from, len) == [type |-> type, of |-> of, from |-> from, len |-> len]

PhysicalsOf(records) ==
  [type : {"full", "first", "middle", "last"}, of : records, from : Nat, len : Nat]

ZeroByte == <<Physical("zero", Nothing, 0, 0), 0>>

Bytes(p) == [i \in 1 .. HeaderSize + p.len |-> <<p, i>>]

\* The loop of Writer::AddRecord: how much of the data is written, where it
\* believes to be in a block, and whether it has written nothing yet.
LoopStates(len) == [from : 0 .. len, at : 0 .. BlockSize, begin : BOOLEAN]

\* Once around the loop: a trailer of zeros that fills a block with no room for a
\* header, and a physical record.
Emission(of, len, s) ==
  LET leftover == BlockSize - s.at
      full == leftover < HeaderSize
      start == IF full THEN 0 ELSE s.at
      avail == BlockSize - start - HeaderSize
      n == IF len - s.from < avail THEN len - s.from ELSE avail
      end == s.from + n = len
      type == IF s.begin THEN IF end THEN "full" ELSE "first"
                         ELSE IF end THEN "last" ELSE "middle"
  IN  [trailer |-> IF full THEN leftover ELSE 0,
       record  |-> Physical(type, of, s.from, n),
       offset  |-> start + HeaderSize + n]

AfterEmission(e) == [from |-> e.record.from + e.record.len, at |-> e.offset, begin |-> FALSE]

\* All it emits for a record with len bytes of data when it starts at offset.
Emissions(of, len, offset) ==
  LET emit[s \in LoopStates(len)] ==
        LET e == Emission(of, len, s)
        IN  IF e.record.type \in {"full", "last"} THEN <<e>> ELSE <<e>> \o emit[AfterEmission(e)]
  IN  emit[[from |-> 0, at |-> offset, begin |-> TRUE]]

EmittedBytes(e) == [i \in 1 .. e.trailer |-> ZeroByte] \o Bytes(e.record)

AllBytes(es) ==
  LET bytes[k \in 0 .. Len(es)] == IF k = 0 THEN <<>> ELSE bytes[k - 1] \o EmittedBytes(es[k])
  IN  bytes[Len(es)]

\* What a call that succeeds appends, and where it leaves block_offset_.
AddRecord(of, len, offset) ==
  LET es == Emissions(of, len, offset)
  IN  [bytes |-> AllBytes(es), offset |-> Last(es).offset]

\* What a call that fails may have appended: all emissions before one and a
\* part of that one.  EmitPhysicalRecord advances block_offset_ by all of it.
\* (The result of appending a trailer is ignored; that it fails alone is left out.)
FailedAdds(of, len, offset) ==
  LET es == Emissions(of, len, offset)
      Before(k) == AllBytes(SubSeq(es, 1, k - 1))
  IN  UNION { { [bytes |-> Before(k) \o SubSeq(EmittedBytes(es[k]), 1, n), offset |-> es[k].offset]
                : n \in 0 .. Len(EmittedBytes(es[k])) } : k \in DOMAIN es }

-----------------------------------------------------------------------------
(* Reading *)

BadRecord == Physical("bad", Nothing, 0, 0)

\* Whether the bytes of a physical record start at a place and end by another.
IntactAt(file, at, end) ==
  LET p == file[at][1]
  IN  /\ p.type # "zero"
      /\ at + HeaderSize + p.len - 1 <= end
      /\ \A i \in 1 .. HeaderSize + p.len : file[at + i - 1] = <<p, i>>

\* Reader::ReadPhysicalRecord, from a place to the end of the file.  The end of a
\* block with no room for a header is skipped.  Where no intact record starts,
\* the rest of the block is dropped.  (At the end of the file it answers kEof
\* there; nothing follows, so that is the same.)
PhysicalRecords(file) ==
  LET BlockEnd(at) == LET e == ((at - 1) \div BlockSize + 1) * BlockSize
                      IN  IF e < Len(file) THEN e ELSE Len(file)
      parse[at \in 1 .. Len(file) + 1] ==
        IF at > Len(file) THEN <<>>
        ELSE IF BlockEnd(at) - at + 1 < HeaderSize THEN parse[BlockEnd(at) + 1]
        ELSE IF IntactAt(file, at, BlockEnd(at))
             THEN <<file[at][1]>> \o parse[at + HeaderSize + file[at][1].len]
             ELSE <<BadRecord>> \o parse[BlockEnd(at) + 1]
  IN  parse[1]

\* A mutant of ReadPhysical: a new first part does not clear what was collected.
ReadPhysicalUncleared(r, p) ==
  CASE p.type = "full"   -> [out |-> Append(r.out, <<p>>), scratch |-> <<>>, inside |-> FALSE]
    [] p.type = "first"  -> [r EXCEPT !.scratch = Append(@, p), !.inside = TRUE]
    [] p.type = "middle" -> IF r.inside THEN [r EXCEPT !.scratch = Append(@, p)] ELSE r
    [] p.type = "last"   -> IF r.inside
                            THEN [out |-> Append(r.out, Append(r.scratch, p)), scratch |-> <<>>, inside |-> FALSE]
                            ELSE r
    [] p.type = "bad"    -> [r EXCEPT !.scratch = <<>>, !.inside = FALSE]

\* Reader::ReadRecord: the effect of one physical record on what was returned so
\* far, the scratch and in_fragmented_record.
ReadPhysical(r, p) ==
  CASE p.type = "full"   -> [out |-> Append(r.out, <<p>>), scratch |-> <<>>, inside |-> FALSE]
    [] p.type = "first"  -> [r EXCEPT !.scratch = <<p>>, !.inside = TRUE]
    [] p.type = "middle" -> IF r.inside THEN [r EXCEPT !.scratch = Append(@, p)] ELSE r
    [] p.type = "last"   -> IF r.inside
                            THEN [out |-> Append(r.out, Append(r.scratch, p)), scratch |-> <<>>, inside |-> FALSE]
                            ELSE r
    [] p.type = "bad"    -> [r EXCEPT !.scratch = <<>>, !.inside = FALSE]

\* The records of a file, each as the sequence of its parts.
ReadRecords(file) ==
  LET ps == PhysicalRecords(file)
      read[i \in 0 .. Len(ps)] ==
        IF i = 0 THEN [out |-> <<>>, scratch |-> <<>>, inside |-> FALSE]
                 ELSE ReadPhysical(read[i - 1], ps[i])
  IN  read[Len(ps)].out

\* Whether parts put together are the data of one record, all of it.
Complete(parts, len) ==
  /\ \A i \in DOMAIN parts : parts[i].of = parts[1].of
  /\ parts[1].from = 0
  /\ \A i \in 2 .. Len(parts) : parts[i].from = parts[i - 1].from + parts[i - 1].len
  /\ Last(parts).from + Last(parts).len = len
=============================================================================
