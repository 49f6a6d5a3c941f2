----------------------------- MODULE InputStream -----------------------------
(***************************************************************************)
(* The blob input stream (includes/wascore/blobstreams.h,                  *)
(* src/cloud_blob_istreambuf.cpp): reads from a buffer that holds one      *)
(* range of the blob, fetches the next range when it runs out, seeks       *)
(* within the buffer or away from it, and compares the MD5 of the whole    *)
(* blob when the last range has come.                                      *)
(*                                                                         *)
(* One reader, who waits for each call.  A byte is <<version, position>>,  *)
(* version 0 if it was damaged on its way; a digest is the bytes.  The     *)
(* retries of a range are RangeDownload's: here a range comes or fails.    *)
(* container_buffer is external: data and a read position.                 *)
(***************************************************************************)
EXTENDS Integers, Sequences

CONSTANTS
    BlobSizes,      \* the sizes of the blob to try
    BufferSizes     \* for stream_read_size_in_bytes and set_buffer_size

ASSUME InputAssumption == BlobSizes \subseteq Nat /\ BufferSizes \subseteq Nat \ {0}

VARIABLES
    size, blob_version,         \* of the blob; version 2: somebody has overwritten it
    m_current_blob_offset, m_next_blob_offset,
    m_buffer_size, m_next_buffer_size,
    m_buffer, head,             \* the container_buffer's data and read position
    m_blob_hash_provider,       \* the set of what it has hashed, {} if not enabled
    m_currentException,         \* it is not null
    at,                         \* history: the position the reader has been told of
    last,                       \* the call's result: what it delivers, by position, and how it ends
    trusted,                    \* history: FALSE once a read has gone beyond what the buffer holds
    damaged                     \* history: a damaged byte was delivered

blob == <<size, blob_version>>
offsets == <<m_current_blob_offset, m_next_blob_offset>>
buffer == <<m_buffer_size, m_buffer, head>>
checks == <<m_blob_hash_provider, m_currentException>>
ivars == <<blob, offsets, buffer, m_next_buffer_size, checks, at, last, trusted, damaged>>

Result(bytes, how) == [bytes |-> bytes, how |-> how]

(* open_read_async has read the properties; the condition of all requests  *)
(* is their etag, that of version 1.                                       *)
IInit ==
    /\ size \in BlobSizes /\ blob_version = 1
    /\ m_current_blob_offset = 0 /\ m_next_blob_offset = 0
    /\ m_buffer_size \in BufferSizes /\ m_next_buffer_size = m_buffer_size
    /\ m_buffer = <<>> /\ head = 0
    /\ m_blob_hash_provider \in {{}, {<<>>}}    \* content_md5 known and not disabled
    /\ m_currentException = FALSE
    /\ at = 0 /\ last = Result({}, "none") /\ trusted = TRUE /\ damaged = FALSE

in_avail == Len(m_buffer) - head

(* Another client.                                                         *)
overwrite_blob ==
    /\ blob_version = 1 /\ blob_version' = 2
    /\ UNCHANGED <<size, offsets, buffer, m_next_buffer_size, checks, at, last, trusted, damaged>>
-----------------------------------------------------------------------------
(* download(): what it makes of the offsets, the buffer and the checks, as *)
(* a set of outcomes.  The offsets move first, and stay where they are if  *)
(* nothing is left to read or the request fails.                           *)
Unmoved == [offset |-> m_current_blob_offset, next |-> m_next_blob_offset, room |-> m_buffer_size,
            data |-> m_buffer, head |-> head, hash |-> m_blob_hash_provider, ex |-> m_currentException]

read_size == IF size - m_next_blob_offset > m_next_buffer_size
             THEN m_next_buffer_size ELSE size - m_next_blob_offset

DownloadedRange(v) == [i \in 1..read_size |-> <<v, m_next_blob_offset + i - 1>>]

(* The whole blob's MD5, compared when the last range is in the hash.      *)
md5_mismatch(hash, end) == end = size /\ \E h \in hash, i \in 1..size : i > Len(h) \/ h[i] # <<1, i - 1>>

Fetched(data) ==
    LET end == m_next_blob_offset + read_size
        hash == {h \o data : h \in m_blob_hash_provider}
    IN  [offset |-> m_next_blob_offset, next |-> end, room |-> m_next_buffer_size,
         data |-> data, head |-> 0, hash |-> hash, ex |-> m_currentException \/ md5_mismatch(hash, end)]

(* The collection was moved to the request's target: nothing is left.      *)
Lost == [Fetched(<<>>) EXCEPT !.hash = m_blob_hash_provider, !.ex = TRUE]

download ==
    IF read_size = 0 THEN {[Unmoved EXCEPT !.offset = m_next_blob_offset]}
    ELSE {Lost} \cup (IF blob_version = 1 THEN {Fetched(DownloadedRange(v)) : v \in {0, 1}} ELSE {})

download_if_necessary(bytes_needed) == IF in_avail < bytes_needed THEN download ELSE {Unmoved}

(* Afterwards the call goes to the buffer of outcome o: it delivers the    *)
(* bytes at positions `from' behind the head and moves the head by n.  The *)
(* stream's base throws at the end if there is an exception (external).    *)
Deliver(o, from, n) ==
    LET taken == {k \in from : o.head + k <= Len(o.data)}
        step == IF o.head + n <= Len(o.data) THEN n ELSE Len(o.data) - o.head
        bytes == {<<at + k - 1, o.data[o.head + k]>> : k \in taken}
    IN  /\ m_current_blob_offset' = o.offset /\ m_next_blob_offset' = o.next
        /\ m_buffer_size' = o.room /\ m_buffer' = o.data /\ head' = o.head + step
        /\ m_blob_hash_provider' = o.hash /\ m_currentException' = o.ex
        /\ at' = at + step
        /\ last' = Result(bytes, IF bytes # {} THEN "read" ELSE IF o.ex THEN "thrown" ELSE "end")
        /\ damaged' = (damaged \/ \E b \in bytes : b[2][1] = 0)
        /\ UNCHANGED <<blob, m_next_buffer_size>>

(* A read is out of step with the blob once it has fetched although bytes  *)
(* were left, or at the end, or in vain.                                   *)
InStep(o) == o = Unmoved \/ (in_avail = 0 /\ o.data # <<>> /\ o.offset < size)

Read(bytes_needed, from, n) ==
    \E o \in download_if_necessary(bytes_needed) :
        Deliver(o, from, n) /\ trusted' = (trusted /\ InStep(o))

_bumpc == Read(1, {1}, 1)
_getc == Read(1, {1}, 0)
_nextc == Read(2, {2}, 1)
_getn(count) == Read(1, 1..count, count)

(* The synchronous ones do not fetch; an empty buffer asks for the others. *)
ReadBuffered(from, n) == in_avail > 0 /\ Deliver(Unmoved, from, n) /\ UNCHANGED trusted
_sbumpc == ReadBuffered({1}, 1)
_sgetc == ReadBuffered({1}, 0)
_scopy(count) == ReadBuffered(1..count, count)

(* Back by one within the buffer.                                          *)
_ungetc ==
    /\ head > 0
    /\ head' = head - 1 /\ at' = at - 1
    /\ last' = Result({<<at - 1, m_buffer[head]>>}, "read")
    /\ damaged' = (damaged \/ m_buffer[head][1] = 0)
    /\ UNCHANGED <<blob, offsets, m_buffer_size, m_buffer, m_next_buffer_size, checks, trusted>>

set_buffer_size(n) ==
    /\ n # m_next_buffer_size /\ m_next_buffer_size' = n
    /\ last' = Result({}, "none")
    /\ UNCHANGED <<blob, offsets, buffer, checks, at, trusted, damaged>>

(* seekpos: within the buffer if it can be, else from pos on with an empty *)
(* buffer and without the MD5 of the whole; a position outside the blob    *)
(* changes nothing.  Mutant: the next range is still the old one.          *)
in_buffer_seek(pos) == pos - m_current_blob_offset \in 0..Len(m_buffer)

relocate_NextKept(pos) ==
    /\ m_current_blob_offset' = pos /\ UNCHANGED m_next_blob_offset
    /\ m_buffer' = <<>> /\ head' = 0
    /\ m_blob_hash_provider' = {}
relocate(pos) ==
    /\ m_current_blob_offset' = pos /\ m_next_blob_offset' = pos
    /\ m_buffer' = <<>> /\ head' = 0
    /\ m_blob_hash_provider' = {}

seekpos(pos) ==
    /\ \/ /\ in_buffer_seek(pos)
          /\ head' = pos - m_current_blob_offset
          /\ at' = pos
          /\ UNCHANGED <<offsets, m_buffer, m_blob_hash_provider, trusted>>
       \/ /\ ~in_buffer_seek(pos) /\ pos \in 0..size
          /\ relocate(pos)
          /\ at' = pos /\ trusted' = TRUE
       \/ /\ ~in_buffer_seek(pos) /\ pos \notin 0..size
          /\ UNCHANGED <<offsets, m_buffer, head, m_blob_hash_provider, at, trusted>>
    /\ last' = Result({}, "none")
    /\ UNCHANGED <<blob, m_buffer_size, m_next_buffer_size, m_currentException, damaged>>

getpos == m_current_blob_offset + head

(* seekoff: from the beginning, the current position or the end.           *)
seekoff(offset) == \E base \in {0, getpos, size} : seekpos(base + offset)

INext ==
    \/ _bumpc \/ _getc \/ _nextc \/ _sbumpc \/ _sgetc \/ _ungetc \/ overwrite_blob
    \/ \E count \in 1..3 : _getn(count) \/ _scopy(count)
    \/ \E n \in BufferSizes : set_buffer_size(n)
    \/ \E offset \in -2..2 : seekoff(offset)

ISpec == IInit /\ [][INext]_ivars
-----------------------------------------------------------------------------
(* Whatever reads, seeks and buffer sizes come in which order: a byte that *)
(* the stream delivers is the one at the reader's position, of the version *)
(* it opened, and the stream's position is the reader's; and a reader who  *)
(* comes to the end of the blob with the MD5 still in force was given no   *)
(* damaged byte.  The first part excepts a stream that a read at the end   *)
(* of the blob, _nextc on the last byte of a buffer, or a failed read has  *)
(* put out of step, until a seek leaves the buffer.                        *)
ReadsIntact ==
    /\ trusted => /\ \A b \in last.bytes : b[2] \in {<<0, b[1]>>, <<1, b[1]>>}
                  /\ getpos = at
    /\ last.how = "end" /\ m_next_blob_offset = size /\ m_blob_hash_provider # {} => ~damaged
=============================================================================
