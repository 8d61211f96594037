---------------------------- MODULE WriteBuffer ----------------------------
(***************************************************************************)
(* DBBuffer: writes that the database cannot take are kept in memory, and  *)
(* line by line in a write-ahead log from which a restart restores them.   *)
(* The log's errors are swallowed; a crash may leave its last line torn.   *)
(***************************************************************************)
EXTENDS Integers, Sequences, SequencesExt, FiniteSets, FiniteSetsExt

CONSTANTS
  Entries,      \* entries that are offered, some of them retries of others
  KeyOf,        \* entry -> its idempotent key
  SizeOf,       \* entry -> bytes of its data
  MaxEntries,   \* db_buffer_max_entries
  MaxBytes,     \* db_buffer_max_bytes
  MaxCrashes, MaxOffers   \* bounds on restarts and on calls of add

ASSUME WriteBufferAssumption ==
  /\ DOMAIN KeyOf = Entries /\ SizeOf \in [Entries -> Nat]
  /\ Entries \cap {"torn", "unreadable"} = {}
  /\ MaxEntries \in Nat /\ MaxBytes \in Nat \ {0} /\ MaxCrashes \in Nat /\ MaxOffers \in Nat

VARIABLES
  buffer,    \* _entries, with _idempotent_keys and _byte_count
  wal,       \* the lines of the log; "torn" is the beginning of a line
  accepted,  \* keys for which add returned True since they were last flushed
  flushed,   \* keys flush_to_db has counted
  history,   \* keys in the order they were first accepted
  trouble,   \* what went wrong with the log so far
  offers, crashes

wvars == <<buffer, wal, accepted, flushed, history, trouble, offers, crashes>>

EmptyBuffer == [entries |-> <<>>, keys |-> {}, bytes |-> 0]

Has(b, e) == KeyOf[e] \in b.keys

Append1(b, e) == [entries |-> Append(b.entries, e), keys |-> b.keys \cup {KeyOf[e]},
                  bytes |-> b.bytes + SizeOf[e]]

\* Faulty: the limit on the bytes lets the last entry through it.
RoomLax(b, e) == Len(b.entries) < MaxEntries /\ b.bytes < MaxBytes

Room(b, e) == Len(b.entries) < MaxEntries /\ b.bytes + SizeOf[e] < MaxBytes

\* Faulty: the line is not written.
LineForNone(e) == <<>>

\* The line _write_wal appends.  A torn line has no end: what is appended next
\* becomes part of it, and from_dict rejects the whole.
LineFor(e) == <<e>>

Torn(lines) == lines # <<>> /\ Last(lines) = "torn"

Appended(lines, e) ==
  IF Torn(lines) THEN Append(Front(lines), "unreadable") ELSE lines \o LineFor(e)

\* add, up to the append to the log.
Add(e) ==
  /\ offers < MaxOffers /\ offers' = offers + 1
  /\ \/ /\ Has(buffer, e)        \* already there: success
        /\ accepted' = accepted \cup {KeyOf[e]}
        /\ UNCHANGED <<buffer, wal, history, trouble>>
     \/ /\ ~Has(buffer, e) /\ ~Room(buffer, e)    \* full: False
        /\ UNCHANGED <<buffer, wal, accepted, history, trouble>>
     \/ /\ ~Has(buffer, e) /\ Room(buffer, e)
        /\ buffer' = Append1(buffer, e)
        /\ accepted' = accepted \cup {KeyOf[e]}
        /\ history' = Append(history, e)
        /\ \/ /\ wal' = Appended(wal, e)
              /\ trouble' = trouble \cup (IF Torn(wal) THEN {"append"} ELSE {})
           \/ UNCHANGED wal /\ trouble' = trouble \cup {"append"}     \* OSError
  /\ UNCHANGED <<flushed, crashes>>

\* Faulty: the keys are kept, so that a later write of a resource is dropped.
ClearedKeysKept == [EmptyBuffer EXCEPT !.keys = buffer.keys]

\* What flush_to_db leaves in memory.
Cleared == EmptyBuffer

\* Faulty: the log is left as it is.
ClearedLogKept == wal

\* _clear_wal truncates the file.
ClearedLog == <<>>

\* flush_to_db: memory and log are cleared; the write itself is still to be done
\* ("TODO: Implement actual database write logic").
Flush ==
  /\ buffer.entries # <<>>
  /\ flushed' = flushed \cup accepted
  /\ buffer' = Cleared /\ accepted' = {}
  /\ \/ wal' = ClearedLog /\ UNCHANGED trouble
     \/ UNCHANGED wal /\ trouble' = trouble \cup {"clear"}     \* OSError
  /\ history' = <<>>
  /\ UNCHANGED <<offers, crashes>>

\* Faulty: a key that occurs twice is restored twice.
RestoredStepBlind(b, e) == IF e \in {"torn", "unreadable"} THEN b ELSE Append1(b, e)

\* _restore_from_wal, one line: limits are not looked at.
RestoredStep(b, line) ==
  IF line \in {"torn", "unreadable"} \/ Has(b, line) THEN b ELSE Append1(b, line)

Restored(lines) == FoldLeft(RestoredStep, EmptyBuffer, lines)

\* The process stops and starts again, perhaps inside _write_wal of an entry
\* whose add has not returned.
Restart ==
  /\ crashes < MaxCrashes /\ crashes' = crashes + 1
  /\ \E lines \in {wal, IF Torn(wal) THEN wal ELSE Append(wal, "torn")} :
       wal' = lines /\ buffer' = Restored(lines)
  /\ UNCHANGED <<accepted, flushed, history, trouble, offers>>

WInit ==
  /\ buffer = EmptyBuffer /\ wal = <<>> /\ accepted = {} /\ flushed = {}
  /\ history = <<>> /\ trouble = {} /\ offers = 0 /\ crashes = 0

WNext == (\E e \in Entries : Add(e)) \/ Flush \/ Restart

WSpec == WInit /\ [][WNext]_wvars

-----------------------------------------------------------------------------
(* Properties.                                                             *)

BytesOf(entries) == MapThenSumSet(LAMBDA i : SizeOf[entries[i]], DOMAIN entries)

\* Every variable of the module has its type.
WTypeOK ==
  /\ buffer.entries \in Seq(Entries)
  /\ wal \in Seq(Entries \cup {"torn", "unreadable"})
  /\ offers \in 0..MaxOffers /\ crashes \in 0..MaxCrashes

\* The three fields that describe the content agree, through additions, flushes
\* and restores: each buffered entry has its key in the set, once, and the byte
\* count is the sum of the sizes (db_buffer.py:179-181, 217-219, 289-291).
BookkeepingAgrees ==
  /\ buffer.keys = {KeyOf[buffer.entries[i]] : i \in DOMAIN buffer.entries}
  /\ Cardinality(buffer.keys) = Len(buffer.entries)
  /\ buffer.bytes = BytesOf(buffer.entries)

\* The buffer never exceeds its limits, a restored one included, unless a flush
\* failed to clear the log (db_buffer.py:166-176; restore checks no limit).
WithinLimits ==
  "clear" \notin trouble =>
    Len(buffer.entries) <= MaxEntries /\ buffer.bytes < MaxBytes

\* A write that add accepted is in the buffer until it is flushed, whatever
\* restarts happen, unless its line failed to reach the log or was glued to the
\* torn line of an earlier crash (db_buffer.py:144-191, 244-296).
AcceptedIsKept == "append" \notin trouble => accepted \subseteq buffer.keys

\* Writes are kept in the order of their acceptance, and what a flush counted
\* does not come back, where no file operation failed.
OrderIsKept == trouble = {} => buffer.entries = history

\* What the buffer accepted it keeps, in order, once and within its limits, over
\* crashes in the midst of a line and flushes that fail (db_buffer.py).
BufferSound ==
  WTypeOK /\ BookkeepingAgrees /\ WithinLimits /\ AcceptedIsKept /\ OrderIsKept
=============================================================================
