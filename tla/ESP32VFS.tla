------------------------------ MODULE ESP32VFS ------------------------------
(***************************************************************************)
(* The virtual file system that carries SQLite on the ESP32: the methods   *)
(* of one file, from open to delete, over a stream of the C library and    *)
(* the FAT file system of the SD card.                                     *)
(*                                                                         *)
(* What SQLite has written can be in four places: the write buffer that a  *)
(* journal has, the buffer of the stream, the file system and the card.    *)
(* Calls of the device can fail, and the power can go.                     *)
(*                                                                         *)
(* SQLite is the caller.  It uses a file that is open, closes it before it *)
(* deletes it, writes nothing that it opened for reading, and leaves no    *)
(* holes.                                                                  *)
(***************************************************************************)
EXTENDS FileContent

CONSTANTS
  Byte,        \* what a place of a file holds
  Absent,      \* there is no file
  NoWrite,     \* no xWrite is in progress
  BUFFERSZ,    \* SQLITE_ESP32VFS_BUFFERSZ
  Headers,     \* where a journal has headers, at any of its sectors
  MaxSize,     \* bound: places of a file
  MaxRead,     \* bound: places that a read asks for
  MaxFaults    \* bound: calls of the device that fail

Write == [at : Nat, data : Seq(Byte), done : Nat]

ASSUME VfsAssumption ==
  /\ Absent \notin Seq(Byte)
  /\ NoWrite \notin Write
  /\ BUFFERSZ \in Nat \ {0}
  /\ Headers \subseteq Nat
  /\ MaxSize \in Nat /\ MaxRead \in Nat /\ MaxFaults \in Nat

VARIABLES
  disk,        \* the file on the card, or Absent
  stream,      \* the FILE: the file as the file system has it, and the bytes
               \* `tail` in the buffer of the stream that go behind place `at`
  handle,      \* what the file is opened as
  aBuffer,     \* the nBuffer valid bytes of aBuffer
  iBufferOfst, \* where in the file they belong
  writing,     \* the xWrite in progress, or NoWrite
  result,      \* what the last method returned
  dirty,       \* history: places written since the last fsync
  faults

vfsVars == <<disk, stream, handle, aBuffer, iBufferOfst, writing, result, dirty, faults>>

Handles == {"none", "main", "readonly", "journal", "temp"}
Stream == [file : Seq(Byte), at : Nat, tail : Seq(Byte)]
Result ==
  [op : {"none", "open", "write", "read", "sync", "size", "truncate", "close",
         "delete", "access"},
   rc : {"ok", "short", "error", "crash"}, at : Nat, data : Seq(Byte)]

StreamOf(c) == [file |-> c, at |-> 0, tail |-> <<>>]
NoStream == StreamOf(<<>>)

\* The file with the tail in its place, and with the write buffer as well.
Contents(s) == Overlay(s.file, s.at, s.tail)
Logical == Overlay(Contents(stream), iBufferOfst, aBuffer)

VfsTypeOK ==
  /\ disk \in Seq(Byte) \cup {Absent}
  /\ stream \in Stream
  /\ handle \in Handles
  /\ aBuffer \in Seq(Byte) /\ Len(aBuffer) <= BUFFERSZ
  /\ iBufferOfst \in Nat
  /\ writing \in Write \cup {NoWrite}
  /\ result \in Result
  /\ dirty \subseteq Nat
  /\ faults \in 0..MaxFaults

Returns(op, rc, at, data) == result' = [op |-> op, rc |-> rc, at |-> at, data |-> data]
Nothing == Returns("none", "ok", 0, <<>>)

VfsInit ==
  /\ disk \in {Absent} \cup UNION {[1..n -> Byte] : n \in 0..MaxSize}
  /\ stream = NoStream
  /\ handle = "none"
  /\ aBuffer = <<>>
  /\ iBufferOfst = 0
  /\ writing = NoWrite
  /\ result = [op |-> "none", rc |-> "ok", at |-> 0, data |-> <<>>]
  /\ dirty = {}
  /\ faults = 0

\* A method can be called.
Ready == handle # "none" /\ writing = NoWrite
Closed == handle = "none"

Works == UNCHANGED faults
Fault == faults < MaxFaults /\ faults' = faults + 1

-----------------------------------------------------------------------------
(* The stream.  fseek writes its buffer out, fwrite leaves a rest in it,   *)
(* and what cannot be written out is lost.                                 *)

\* A stream whose buffer was written out, or got lost while it was.
Drained(s) == StreamOf(Contents(s))
Spilt(s) ==
  {StreamOf(Overlay(s.file, s.at, SubSeq(s.tail, 1, n))) : n \in 0..Len(s.tail)}

\* fseek and fwrite: some of the bytes reach the file system, the others stay
\* in the buffer of the stream.
Written(s, at, b) ==
  {[file |-> Overlay(Contents(s), at, SubSeq(b, 1, n)),
    at   |-> at + n,
    tail |-> SubSeq(b, n + 1, Len(b))] : n \in 0..Len(b)}

\* The fseek fails, or the fwrite does with some of the bytes written.
WriteBroken(s, at, b) ==
  Spilt(s) \cup {StreamOf(Overlay(Contents(s), at, SubSeq(b, 1, n))) : n \in 0..Len(b)}

-----------------------------------------------------------------------------
(* ESP32DirectWrite and ESP32FlushBuffer.                                  *)

\* The streams that a flush can leave.
Flushed == IF aBuffer = <<>> THEN {stream} ELSE Written(stream, iBufferOfst, aBuffer)

\* A flush that fails empties the buffer all the same.
FlushFails ==
  /\ aBuffer # <<>>
  /\ Fault
  /\ stream' \in WriteBroken(stream, iBufferOfst, aBuffer)
  /\ aBuffer' = <<>>
  /\ UNCHANGED iBufferOfst

\* A mutant of FlushError: its result is not looked at.
FlushErrorIgnored(op) ==
  /\ Ready
  /\ FlushFails
  /\ Returns(op, "ok", 0, <<>>)
  /\ UNCHANGED <<disk, handle, writing, dirty>>

\* A method that flushes first, and returns the error of a flush that fails.
FlushError(op) ==
  /\ Ready
  /\ FlushFails
  /\ Returns(op, "error", 0, <<>>)
  /\ UNCHANGED <<disk, handle, writing, dirty>>

-----------------------------------------------------------------------------
(* ESP32Open.                                                              *)

Opened(kind, s) ==
  /\ Closed
  /\ handle' = kind
  /\ stream' = s
  /\ aBuffer' = <<>>
  /\ iBufferOfst' = 0
  /\ Returns("open", "ok", 0, <<>>)
  /\ UNCHANGED writing

\* "r+" for a file that stat() finds, and "r" for a file to be read only.
OpenExisting(kind) ==
  /\ disk # Absent
  /\ Opened(kind, StreamOf(disk))
  /\ Works
  /\ UNCHANGED <<disk, dirty>>

\* "w+" for one that it does not find, or fails to find, whatever the flags say
\* of creating it.
OpenCreates(kind) ==
  /\ kind # "readonly"
  /\ Opened(kind, NoStream)
  /\ IF disk = Absent THEN Works ELSE Fault
  /\ disk' = <<>>
  /\ dirty' = {}

\* A file without a name gets one and loses it at once.
OpenTemp ==
  /\ disk = Absent
  /\ Opened("temp", NoStream)
  /\ Works
  /\ dirty' = {}
  /\ UNCHANGED disk

\* SQLITE_NOMEM for the write buffer of a journal, or SQLITE_CANTOPEN.
OpenFails(kind) ==
  /\ Closed
  /\ IF kind = "readonly" /\ disk = Absent THEN Works ELSE Fault
  /\ Returns("open", "error", 0, <<>>)
  /\ UNCHANGED <<disk, stream, handle, aBuffer, iBufferOfst, writing, dirty>>

-----------------------------------------------------------------------------
(* ESP32Write.                                                             *)

\* What SQLite may write, and where.
Writable(at, b) ==
  /\ Ready
  /\ handle # "readonly"
  /\ at <= Len(Logical)
  /\ at + Len(b) <= MaxSize

\* Without a write buffer: ESP32DirectWrite.
DirectWrite(at, b) ==
  /\ Writable(at, b)
  /\ handle # "journal"
  /\ \/ /\ Works
        /\ stream' \in Written(stream, at, b)
        /\ Returns("write", "ok", at, b)
     \/ /\ Fault
        /\ stream' \in WriteBroken(stream, at, b)
        /\ Returns("write", "error", at, b)
  /\ dirty' = dirty \cup Places(at, b)
  /\ UNCHANGED <<disk, handle, aBuffer, iBufferOfst, writing>>

\* With one: SQLite appends to the journal, or goes back to one of its headers.
BufferedWrite(at, b) ==
  /\ Writable(at, b)
  /\ handle = "journal"
  /\ at \in Headers \cup {Len(Logical)}
  /\ writing' = [at |-> at, data |-> b, done |-> 0]
  /\ Nothing
  /\ UNCHANGED <<disk, stream, handle, aBuffer, iBufferOfst, dirty, faults>>

\* The local i of the loop: where the next bytes go.
Next_i == writing.at + writing.done

MustFlush == Len(aBuffer) = BUFFERSZ \/ iBufferOfst + Len(aBuffer) # Next_i

\* A mutant of Copied: not limited by the room in the buffer.
CopiedAll(kept) == SubSeq(writing.data, writing.done + 1, Len(writing.data))

\* The bytes that an iteration copies behind the buffered bytes `kept`.
Copied(kept) ==
  LET room == BUFFERSZ - Len(kept)
      left == Len(writing.data) - writing.done
  IN  SubSeq(writing.data, writing.done + 1,
             writing.done + (IF room < left THEN room ELSE left))

\* A mutant of BufferStart: moved with every piece.
BufferStartMoved(kept) == Next_i

BufferStart(kept) == Next_i - Len(kept)

\* One iteration of the loop, the last one with the return of the method.
CopyOn ==
  LET kept == IF MustFlush THEN <<>> ELSE aBuffer
      b == Copied(kept)
      done == writing.done + Len(b)
  IN  /\ writing # NoWrite
      /\ IF MustFlush THEN stream' \in Flushed ELSE UNCHANGED stream
      /\ iBufferOfst' = BufferStart(kept)
      /\ aBuffer' = kept \o b
      /\ dirty' = dirty \cup Places(Next_i, b)
      /\ IF done < Len(writing.data)
           THEN writing' = [writing EXCEPT !.done = done] /\ UNCHANGED result
           ELSE writing' = NoWrite /\ Returns("write", "ok", writing.at, writing.data)
      /\ UNCHANGED <<disk, handle, faults>>

CopyFails ==
  /\ writing # NoWrite
  /\ MustFlush
  /\ FlushFails
  /\ writing' = NoWrite
  /\ Returns("write", "error", writing.at, writing.data)
  /\ UNCHANGED <<disk, handle, dirty>>

-----------------------------------------------------------------------------
(* ESP32Read, ESP32Sync, ESP32FileSize, ESP32Truncate.                     *)

\* A mutant of Read: the write buffer is left where it is.
ReadUnflushed(at, n) ==
  /\ Ready
  /\ stream' = Drained(stream)
  /\ LET there == Len(stream'.file) - at
         got == IF there < 0 THEN 0 ELSE IF there < n THEN there ELSE n
     IN  Returns("read", IF got = n THEN "ok" ELSE "short", at, Slice(stream'.file, at, got))
  /\ UNCHANGED <<disk, handle, aBuffer, iBufferOfst, writing, dirty, faults>>

\* The n bytes behind place `at`, or as many of them as there are.
Read(at, n) ==
  /\ Ready
  /\ \E s \in Flushed : stream' = Drained(s)
  /\ LET there == Len(stream'.file) - at
         got == IF there < 0 THEN 0 ELSE IF there < n THEN there ELSE n
     IN  Returns("read", IF got = n THEN "ok" ELSE "short", at, Slice(stream'.file, at, got))
  /\ aBuffer' = <<>>
  /\ UNCHANGED <<disk, handle, iBufferOfst, writing, dirty, faults>>

\* The result of fseek is not looked at, and a fread that fails is a short read:
\* the bytes come from elsewhere in the file, and those of the stream are lost.
ReadAstray(at, n) ==
  /\ Ready
  /\ Fault
  /\ \E s \in Flushed : stream' \in Spilt(s)
  /\ \E from, got \in 0..n :
       /\ from + got <= Len(stream'.file)
       /\ Returns("read", IF got = n THEN "ok" ELSE "short", at, Slice(stream'.file, from, got))
  /\ aBuffer' = <<>>
  /\ UNCHANGED <<disk, handle, iBufferOfst, writing, dirty>>

\* fflush and fsync; whether fsync has worked is not looked at.
Sync ==
  /\ Ready
  /\ \E s \in Flushed : stream' = Drained(s)
  /\ \/ /\ Works
        /\ disk' = IF handle = "temp" THEN Absent ELSE stream'.file
        /\ dirty' = {}
     \/ /\ Fault
        /\ UNCHANGED <<disk, dirty>>
  /\ Returns("sync", "ok", 0, <<>>)
  /\ aBuffer' = <<>>
  /\ UNCHANGED <<handle, iBufferOfst, writing>>

SyncFails ==
  /\ Ready
  /\ Fault
  /\ \E s \in Flushed : stream' \in Spilt(s)
  /\ Returns("sync", "error", 0, <<>>)
  /\ aBuffer' = <<>>
  /\ UNCHANGED <<disk, handle, iBufferOfst, writing, dirty>>

\* fstat knows nothing of the bytes in the buffer of the stream.
FileSize ==
  /\ Ready
  /\ stream' \in Flushed
  /\ \/ Works /\ Returns("size", "ok", Len(stream'.file), <<>>)
     \/ Fault /\ Returns("size", "error", 0, <<>>)
  /\ aBuffer' = <<>>
  /\ UNCHANGED <<disk, handle, iBufferOfst, writing, dirty>>

\* A no-op.
Truncate ==
  /\ Ready
  /\ Returns("truncate", "ok", 0, <<>>)
  /\ UNCHANGED <<disk, stream, handle, aBuffer, iBufferOfst, writing, dirty, faults>>

-----------------------------------------------------------------------------
(* ESP32Close, ESP32Delete, ESP32Access, and the loss of power.            *)

\* The files that can be on the card when the file system stops half way:
\* the directory has the old size, and any of its places may have been written.
LeftBehind ==
  IF disk = Absent \/ Closed
    THEN {disk}
    ELSE {c \in [1..Len(disk) -> Byte] :
            \A p \in 1..Len(disk) : c[p] \in {disk[p], stream.file[p]}}

Gone ==
  /\ handle' = "none"
  /\ stream' = NoStream
  /\ aBuffer' = <<>>
  /\ iBufferOfst' = 0
  /\ dirty' = {}

\* fclose writes out what the stream has.
Close ==
  /\ Ready
  /\ disk' = IF handle = "temp" THEN Absent ELSE Logical
  /\ Gone
  /\ Works
  /\ Returns("close", "ok", 0, <<>>)
  /\ UNCHANGED writing

\* Whether fclose has worked is not looked at.
CloseFails ==
  /\ Ready
  /\ Fault
  /\ disk' \in LeftBehind
  /\ Gone
  /\ Returns("close", "ok", 0, <<>>)
  /\ UNCHANGED writing

\* The flush fails; the file is closed with what it has.
CloseFlushFails ==
  /\ Ready
  /\ aBuffer # <<>>
  /\ Fault
  /\ \E s \in WriteBroken(stream, iBufferOfst, aBuffer) : disk' = s.file
  /\ Gone
  /\ Returns("close", "error", 0, <<>>)
  /\ UNCHANGED writing

\* With dirSync the name of the directory is looked for in the wrong direction:
\* from the end of the path through bytes that nobody has set, and out of the
\* array if none of them is a slash.  A NUL is written where the search ends.
\* That crashes the device, or the path of the deleted file is opened and its
\* absence reported as an error (other damage to the stack is not modelled).
Delete(dirSync) ==
  /\ Closed
  /\ disk' = Absent
  /\ \E rc \in IF dirSync /\ disk # Absent THEN {"error", "crash"} ELSE {"ok"} :
       Returns("delete", rc, IF dirSync THEN 1 ELSE 0, <<>>)
  /\ UNCHANGED <<stream, handle, aBuffer, iBufferOfst, writing, dirty, faults>>

DeleteFails ==
  /\ Closed
  /\ disk # Absent
  /\ Fault
  /\ Returns("delete", "error", 0, <<>>)
  /\ UNCHANGED <<disk, stream, handle, aBuffer, iBufferOfst, writing, dirty>>

\* An error of access() says that there is no file.
Access ==
  /\ Closed
  /\ \/ Works /\ Returns("access", "ok", IF disk = Absent THEN 0 ELSE 1, <<>>)
     \/ disk # Absent /\ Fault /\ Returns("access", "ok", 0, <<>>)
  /\ UNCHANGED <<disk, stream, handle, aBuffer, iBufferOfst, writing, dirty>>

PowerLoss ==
  /\ disk' \in LeftBehind
  /\ Gone
  /\ writing' = NoWrite
  /\ Nothing
  /\ UNCHANGED faults

-----------------------------------------------------------------------------
Texts == UNION {[1..n -> Byte] : n \in 1..MaxSize}

OpenSteps ==
  \/ \E kind \in {"main", "readonly", "journal"} :
       OpenExisting(kind) \/ OpenCreates(kind) \/ OpenFails(kind)
  \/ OpenTemp

WriteSteps ==
  \/ \E at \in 0..MaxSize, b \in Texts : DirectWrite(at, b) \/ BufferedWrite(at, b)
  \/ CopyOn
  \/ CopyFails

ReadSteps == \E at \in 0..MaxSize, n \in 1..MaxRead : Read(at, n) \/ ReadAstray(at, n)

OtherSteps ==
  \/ Sync \/ SyncFails \/ FileSize \/ Truncate
  \/ \E op \in {"read", "sync", "size"} : FlushError(op)
  \/ Close \/ CloseFails \/ CloseFlushFails
  \/ \E dirSync \in BOOLEAN : Delete(dirSync)
  \/ DeleteFails
  \/ Access

VfsNext == OpenSteps \/ WriteSteps \/ ReadSteps \/ OtherSteps \/ PowerLoss

VfsSpec == VfsInit /\ [][VfsNext]_vfsVars

-----------------------------------------------------------------------------
(* Properties.                                                             *)

\* Whatever is where, the bytes in the buffers continue the file without a hole
\* (the assertion in ESP32Write is about the same), the write in progress has
\* its first bytes in place, and every place where the card may differ from the
\* file is known to be dirty.
LayersFit ==
  /\ stream.at <= Len(stream.file)
  /\ aBuffer # <<>> => handle = "journal" /\ iBufferOfst <= Len(Contents(stream))
  /\ writing # NoWrite =>
       /\ handle = "journal"
       /\ writing.done < Len(writing.data)
       /\ Next_i <= Len(Logical)
       /\ Slice(Logical, writing.at, writing.done) = SubSeq(writing.data, 1, writing.done)
  /\ (~Closed /\ disk # Absent) =>
       /\ Len(disk) <= Len(stream.file)
       /\ \A p \in 1..Len(disk) : p \notin dirty => disk[p] = stream.file[p]

\* A method that says OK after a flush has lost nothing by it: the file is as it
\* was before, but for the bytes that were to be written (ESP32Write,
\* ESP32Sync, ESP32FileSize).
OkKeepsAll ==
  [][result'.rc = "ok" =>
       CASE result'.op = "write" /\ writing # NoWrite ->
              Logical' = Overlay(Logical, writing.at, writing.data)
         [] result'.op \in {"sync", "size"} -> Logical' = Logical
         [] OTHER -> TRUE]_vfsVars

\* The VFS is the file that SQLite relies on, with the deviations that SqliteFile
\* names: the bytes of every write arrive where they were to go through any of
\* the buffers, reads find them there, a sync makes them permanent, and neither
\* a loss of power nor a call that fails touches what was permanent.
File == INSTANCE SqliteFile WITH
  content  <- IF Closed THEN disk ELSE Logical,
  durable  <- disk,
  pending  <- writing,
  returned <- result,
  failures <- faults

ActsAsFile == File!FileSpec

\* "Write the size of the file in bytes to *pSize" (ESP32FileSize): bytes in the
\* buffer of the stream are not counted.
SizeIsWritten ==
  (result.op = "size" /\ result.rc = "ok") => result.at = Len(Logical)
=============================================================================
