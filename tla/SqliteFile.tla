----------------------------- MODULE SqliteFile -----------------------------
(***************************************************************************)
(* One file as SQLite uses it through the methods of a VFS: a write puts   *)
(* the caller's bytes at the caller's place and they are read back from    *)
(* there, a sync makes them permanent, a loss of power takes nothing that  *)
(* was permanent and not written again since, and a call that fails        *)
(* touches no place but those that are not permanent yet.                  *)
(*                                                                         *)
(* It is what sqlite3.h asks of a VFS but for what this one is known to do *)
(* otherwise, which the actions below name as deviations.                  *)
(***************************************************************************)
EXTENDS FileContent

CONSTANTS
  Byte,      \* what a place of the file holds
  Absent,    \* there is no file
  NoWrite    \* no write is in progress

VARIABLES
  content,   \* the file as its user sees it, or Absent
  durable,   \* what a loss of power cannot take, or Absent
  dirty,     \* places written since they were last made durable
  pending,   \* a write that arrives in pieces, or NoWrite
  returned,  \* what the last call returned
  failures   \* operations of the device that have failed

fileVars == <<content, durable, dirty, pending, returned, failures>>

FileInit ==
  /\ content \in Seq(Byte) \cup {Absent}
  /\ durable = content
  /\ dirty = {}
  /\ pending = NoWrite
  /\ failures = 0

Returned(op, rc) == returned'.op = op /\ returned'.rc = rc
Works == UNCHANGED failures
Fails == failures' = failures + 1

\* The call leaves the file alone.
Same == UNCHANGED <<content, durable, dirty, pending>>

\* It reaches nothing but places that are dirty.
Harms ==
  /\ content # Absent /\ content' # Absent
  /\ SameBut(content, content', dirty')
  /\ UNCHANGED durable

\* All that was written is permanent, if the file has a name.
Settled ==
  /\ durable' = IF durable = Absent THEN Absent ELSE content
  /\ dirty' = {}
  /\ UNCHANGED pending

-----------------------------------------------------------------------------
Open ==
  \/ Returned("open", "ok") /\ Works /\ content # Absent /\ Same
  \/ Returned("open", "error") /\ Same /\ (Fails \/ (content = Absent /\ Works))

\* A temporary file has no name that would outlive a loss of power.  Deviation:
\* a file that the device fails to find is emptied, as is one that was there.
Create ==
  /\ Returned("open", "ok")
  /\ content' = <<>>
  /\ \/ content = Absent /\ durable' \in {<<>>, Absent} /\ Works
     \/ durable' = <<>> /\ Fails
  /\ dirty' = {}
  /\ UNCHANGED pending

\* The bytes b reach the file.
Put(at, b) ==
  /\ Works
  /\ dirty' = dirty \cup Places(at, b)
  /\ UNCHANGED durable
  /\ content # Absent
  /\ content' = Overlay(content, at, b)

WriteAtOnce ==
  /\ Returned("write", "ok")
  /\ Put(returned'.at, returned'.data)
  /\ UNCHANGED pending

\* A write may arrive piece by piece.
Begin ==
  /\ Returned("none", "ok")
  /\ pending = NoWrite
  /\ pending' # NoWrite /\ pending'.done = 0
  /\ UNCHANGED <<content, durable, dirty>>
  /\ Works

Piece(n) == SubSeq(pending.data, pending.done + 1, pending.done + n)

WritePiece ==
  /\ pending # NoWrite
  /\ \E n \in 1..(Len(pending.data) - pending.done) :
       /\ IF pending.done + n < Len(pending.data)
            THEN pending' = [pending EXCEPT !.done = @ + n] /\ UNCHANGED returned
            ELSE /\ pending' = NoWrite
                 /\ Returned("write", "ok")
                 /\ returned'.at = pending.at /\ returned'.data = pending.data
       /\ Put(pending.at + pending.done, Piece(n))

\* Of a write that fails, any of the bytes may have arrived, and those that were
\* not permanent may be lost.
WriteFails ==
  /\ Returned("write", "error")
  /\ pending # NoWrite =>
       returned'.at = pending.at /\ returned'.data = pending.data
  /\ pending' = NoWrite
  /\ dirty \subseteq dirty'
  /\ dirty' \subseteq dirty \cup Places(returned'.at, returned'.data)
  /\ Fails
  /\ Harms

\* A short read leaves out nothing.  Deviation: a read that the device fails may
\* return anything, as if it were what the file has.
Read ==
  /\ returned'.op = "read"
  /\ \/ /\ Works
        /\ returned'.rc \in {"ok", "short"}
        /\ content # Absent
        /\ Same
        /\ returned'.data = Slice(content, returned'.at, Len(returned'.data))
        /\ returned'.rc = "short" => returned'.at + Len(returned'.data) >= Len(content)
     \/ Fails /\ UNCHANGED <<dirty, pending>> /\ Harms

\* Deviation: a device that does not sync is not reported.
Sync ==
  \/ Returned("sync", "ok") /\ Works /\ UNCHANGED content /\ Settled
  \/ Returned("sync", "ok") /\ Fails /\ Same
  \/ Returned("sync", "error") /\ Fails /\ UNCHANGED <<dirty, pending>> /\ Harms

\* Deviation: bytes that are not permanent may be left out.
Size ==
  \/ /\ Returned("size", "ok") /\ Works
     /\ content # Absent
     /\ returned'.at <= Len(content)
     /\ durable # Absent => Len(durable) <= returned'.at
     /\ Same
  \/ Returned("size", "error") /\ Fails /\ UNCHANGED <<dirty, pending>> /\ Harms

\* Deviation: nothing is cut off.
Truncate == Returned("truncate", "ok") /\ Same /\ Works

\* What a loss of power may leave of a file.
Survives(c) ==
  IF durable = Absent
    THEN c = Absent
    ELSE /\ c \in Seq(Byte)
         /\ Len(c) = Len(durable)
         /\ \A p \in 1..Len(c) : p \notin dirty => c[p] = durable[p]

\* A close settles the file as a sync does, and ends a temporary one.
\* Deviation: the device may fail to write and the close is OK all the same.
Close ==
  /\ content' = durable'
  /\ \/ Returned("close", "ok") /\ Works /\ Settled
     \/ Returned("close", "ok") /\ Fails /\ Survives(durable')
     \/ /\ Returned("close", "error") /\ Fails
        /\ content # Absent /\ durable' # Absent
        /\ SameBut(content, durable', dirty)
  /\ dirty' = {}
  /\ UNCHANGED pending

\* Deviation: when the directory is to be synced as well (`at` is 1) the call
\* deletes the file and then returns an error, or does not return.
Delete ==
  /\ returned'.op = "delete"
  /\ \/ /\ content' = Absent /\ durable' = Absent /\ dirty' = {}
        /\ returned'.rc \in (IF content # Absent /\ returned'.at = 1
                               THEN {"error", "crash"} ELSE {"ok"})
        /\ UNCHANGED pending
        /\ Works
     \/ returned'.rc = "error" /\ Same /\ Fails

\* Deviation: a device that fails to look says that there is no file.
Access ==
  /\ Returned("access", "ok")
  /\ Same
  /\ \/ returned'.at = (IF content = Absent THEN 0 ELSE 1) /\ Works
     \/ returned'.at = 0 /\ Fails

PowerLoss ==
  /\ Returned("none", "ok")
  /\ Works
  /\ pending' = NoWrite
  /\ dirty' = {}
  /\ content' = durable'
  /\ Survives(durable')

-----------------------------------------------------------------------------
FileNext ==
  \/ Open \/ Create
  \/ WriteAtOnce \/ Begin \/ WritePiece \/ WriteFails
  \/ Read \/ Sync \/ Size \/ Truncate
  \/ Close \/ Delete \/ Access
  \/ PowerLoss

FileSpec == FileInit /\ [][FileNext]_fileVars
=============================================================================
