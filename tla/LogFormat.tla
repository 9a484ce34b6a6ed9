----------------------------- MODULE LogFormat ------------------------------
(* The log of db/log_writer.cc and db/log_reader.cc: records cut into      *)
(* physical records that never cross a block.                              *)
(*                                                                         *)
(* A log is its physical records, each with the offset of its header, its  *)
(* type and its data; size is the length of the file and offset            *)
(* block_offset_.  The reader sees the first cut bytes of it.              *)
EXTENDS Integers, Sequences, SequencesExt

CONSTANTS BlockSize, HeaderSize

NewLog == [pieces |-> <<>>, size |-> 0, offset |-> 0]

\* A trailer is filled with zeros.
SwitchBlock(log) ==
    LET leftover == BlockSize - log.offset
    IN  IF leftover < HeaderSize THEN [log EXCEPT !.size = @ + leftover, !.offset = 0] ELSE log

EmitPhysicalRecord(log, type, data) ==
    [pieces |-> Append(log.pieces, [at |-> log.size, type |-> type, data |-> data]),
     size   |-> log.size + HeaderSize + Len(data),
     offset |-> log.offset + HeaderSize + Len(data)]

FragmentType(begin, end) == IF begin THEN IF end THEN "full" ELSE "first"
                            ELSE IF end THEN "last" ELSE "middle"

RECURSIVE Emit(_, _, _)
Emit(log, left, begin) ==
    LET l     == SwitchBlock(log)
        avail == BlockSize - l.offset - HeaderSize
        n     == IF Len(left) < avail THEN Len(left) ELSE avail
        done  == EmitPhysicalRecord(l, FragmentType(begin, Len(left) = n), SubSeq(left, 1, n))
    IN  IF Len(left) > n THEN Emit(done, SubSeq(left, n + 1, Len(left)), FALSE) ELSE done
AddRecord(log, record) == Emit(log, record, TRUE)

---------------------------------------------------------------------------
(* The reader: pos is where the rest of its buffer begins.                 *)

BlockEnd(pos, cut) == LET end == (pos \div BlockSize + 1) * BlockSize
                      IN  IF cut < end THEN cut ELSE end
AtEof(pos, cut) == cut < (pos \div BlockSize + 1) * BlockSize

Physical(type, pos, piece) == [type |-> type, pos |-> pos, piece |-> piece]
NoPiece == [at |-> 0, type |-> "none", data |-> <<>>]

\* Mutant of ReadPhysicalRecord: a header that just fits is taken for a trailer.
RECURSIVE ReadPastHeader(_, _, _)
ReadPastHeader(log, cut, pos) ==
    LET end == BlockEnd(pos, cut)
        i   == SelectInSeq(log.pieces, LAMBDA p : p.at = pos)
    IN  IF end - pos <= HeaderSize
        THEN IF AtEof(pos, cut) THEN Physical("eof", pos, NoPiece) ELSE ReadPastHeader(log, cut, end)
        ELSE IF i = 0 THEN Physical("bad", end, NoPiece)
        ELSE IF HeaderSize + Len(log.pieces[i].data) > end - pos
        THEN Physical(IF AtEof(pos, cut) THEN "eof" ELSE "bad", end, NoPiece)
        ELSE Physical(log.pieces[i].type, pos + HeaderSize + Len(log.pieces[i].data), log.pieces[i])

\* A header is read only where all of it is there, and a physical record that
\* ends past the file is the end of the log; what is no header has no checksum.
RECURSIVE ReadPhysicalRecord(_, _, _)
ReadPhysicalRecord(log, cut, pos) ==
    LET end == BlockEnd(pos, cut)
        i   == SelectInSeq(log.pieces, LAMBDA p : p.at = pos)
    IN  IF end - pos < HeaderSize
        THEN IF AtEof(pos, cut) THEN Physical("eof", pos, NoPiece) ELSE ReadPhysicalRecord(log, cut, end)
        ELSE IF i = 0 THEN Physical("bad", end, NoPiece)
        ELSE IF HeaderSize + Len(log.pieces[i].data) > end - pos
        THEN Physical(IF AtEof(pos, cut) THEN "eof" ELSE "bad", end, NoPiece)
        ELSE Physical(log.pieces[i].type, pos + HeaderSize + Len(log.pieces[i].data), log.pieces[i])

\* ReadRecord() until it returns false.  scratch is the pieces of the record
\* begun, <<>> if none is (in_fragmented_record); drops counts ReportDrop().
Joined(pieces) == FlattenSeq([i \in DOMAIN pieces |-> pieces[i].data])
Dropped(got) == [got EXCEPT !.drops = @ + 1]
DroppedIf(got, on) == IF on THEN Dropped(got) ELSE got
With(got, record) == [got EXCEPT !.records = Append(@, record)]
RECURSIVE ReadFrom(_, _, _, _, _), HandlePhysical(_, _, _, _, _)
ReadFrom(log, cut, pos, scratch, got) ==
    HandlePhysical(log, cut, ReadPhysicalRecord(log, cut, pos), scratch, got)
HandlePhysical(log, cut, p, scratch, got) ==
    CASE p.type = "eof"    -> got
      [] p.type = "bad"    -> ReadFrom(log, cut, p.pos, <<>>, Dropped(got))
      [] p.type = "full"   -> ReadFrom(log, cut, p.pos, <<>>,
                                 With(DroppedIf(got, Joined(scratch) # <<>>), p.piece.data))
      [] p.type = "first"  -> ReadFrom(log, cut, p.pos, <<p.piece>>,
                                 DroppedIf(got, Joined(scratch) # <<>>))
      [] scratch = <<>>    -> ReadFrom(log, cut, p.pos, <<>>, Dropped(got))
      [] p.type = "middle" -> ReadFrom(log, cut, p.pos, Append(scratch, p.piece), got)
      [] OTHER             -> ReadFrom(log, cut, p.pos, <<>>,
                                 With(got, Joined(Append(scratch, p.piece))))
ReadLog(log, cut) == ReadFrom(log, cut, 0, <<>>, [records |-> <<>>, drops |-> 0])
=============================================================================
