---------------------------- MODULE OutputStream ----------------------------
(***************************************************************************)
(* The blob and file output streams (includes/wascore/streams.h,           *)
(* blobstreams.h, filestream.h, src/streams.cpp,                           *)
(* src/cloud_blob_ostreambuf.cpp, src/cloud_file_ostreambuf.cpp): one      *)
(* writer fills a buffer; full buffers are uploaded by tasks that run      *)
(* under an async_semaphore; flush, seek and close wait for all of them.   *)
(*                                                                         *)
(* Character number n of the stream is n.  An upload is one element of     *)
(* Tasks.  Its attempts are the executor's, reduced to what reaches the    *)
(* service: an attempt is lost, or applied with its answer lost, or        *)
(* answered.  The writer waits for the task of one flush before the next   *)
(* call.  Character-wise writing (_putc) is not modelled.                  *)
(***************************************************************************)
EXTENDS AsyncSemaphore, Integers

CONSTANTS
    Kinds,          \* of the stream: "block", "page", "append", "file"
    BufferSizes,    \* for stream_write_size_in_bytes and set_buffer_size
    max_block_size,
    max_page_size,  \* max_append_block_size and max_range_size are the same number
    MaxLength,      \* bound: characters written
    MaxTries,       \* bound: attempts of one request
    max_size,       \* of the access_condition of an append blob, {} for -1
    AbsorbOptions   \* absorb_conditional_errors_on_retry: the values to try

ASSUME StreamAssumption ==
    /\ IsFiniteSet(Tasks) /\ Tasks = 1..Cardinality(Tasks)
    /\ MaxLength <= Cardinality(Tasks)     \* an upload carries at least one character
    /\ Kinds \subseteq {"block", "page", "append", "file"}
    /\ BufferSizes \subseteq Nat \ {0} /\ max_block_size \in Nat /\ max_page_size \in Nat
    /\ MaxLength \in Nat /\ MaxTries \in Nat \ {0} /\ max_size \subseteq Nat
    /\ AbsorbOptions \subseteq BOOLEAN

VARIABLES
    kind, absorb_conditional_errors_on_retry,
    m_buffer, m_buffer_size, m_next_buffer_size,
    m_current_blob_offset,  \* of a file m_current_file_offset
    m_block_list,
    m_currentException,     \* it is not null
    m_committed,
    writer,                 \* the call in which the writer's thread is
    upload,                 \* per task: step, buffer, offset, tries
    service,                \* staged blocks, and the blob's bytes by position
    written,                \* how many characters were written
    image,                  \* history: what the blob should hold, by position
    reported                \* what the last flush or close said

buffer == <<m_buffer, m_buffer_size, m_next_buffer_size>>
stream == <<m_current_blob_offset, m_block_list, m_currentException, m_committed>>
history == <<written, image, reported>>
options == <<kind, absorb_conditional_errors_on_retry>>
ovars == <<vars, options, buffer, stream, writer, upload, service, history>>

Uploads == {t \in Tasks : upload[t].step # "none"}
NextTask == Cardinality(Uploads) + 1
NoUpload == [step |-> "none", buffer |-> <<>>, offset |-> 0, tries |-> 0]

(* x with b at the positions after offset.                                 *)
Overlaid(x, offset, b) ==
    [p \in DOMAIN x |-> IF p - offset \in 1..Len(b) THEN b[p - offset] ELSE x[p]]

(* The semaphore has parallelism_factor permits; that of an append blob    *)
(* stream is opened with one.                                              *)
OnePermit == INSTANCE AsyncSemaphore WITH m_initial_count <- 1

take_permit(t) == IF kind = "append" THEN OnePermit!lock_async(t) ELSE lock_async(t)
unlock(t) == IF kind = "append" THEN OnePermit!dequeue_pending(t) ELSE dequeue_pending(t)

(* A file's stream does not look at stream_write_size_in_bytes.            *)
file_buffer_size == {max_page_size}

OInit ==
    /\ kind \in Kinds
    /\ IF kind = "append" THEN OnePermit!Init ELSE Init
    /\ absorb_conditional_errors_on_retry \in IF kind = "append" THEN AbsorbOptions ELSE {FALSE}
    /\ m_buffer = <<>>
    /\ m_buffer_size \in IF kind = "file" THEN file_buffer_size ELSE BufferSizes
    /\ m_next_buffer_size = m_buffer_size
    /\ m_current_blob_offset = 0 /\ m_block_list = <<>>
    /\ m_currentException = FALSE /\ m_committed = FALSE
    /\ writer = "none"
    /\ upload = [t \in Tasks |-> NoUpload]
    /\ written = 0 /\ image = [p \in 1..MaxLength |-> 0] /\ reported = "nothing"
    /\ service = [staged |-> {}, bytes |-> image]

(* upload_buffer of the four streams, on the content b: a fresh buffer of  *)
(* the next size, the place of b in the blob, and a task in the queue of   *)
(* the semaphore.  An append blob checks max_size first and then takes no  *)
(* permit.                                                                 *)
beyond_max_size(b) ==
    kind = "append" /\ \E m \in max_size : m_current_blob_offset + Len(b) > m

(* prepare_buffer: an empty buffer of the next size takes its place.       *)
prepare_buffer ==
    /\ m_buffer' = <<>>
    /\ m_buffer_size' = m_next_buffer_size
    /\ UNCHANGED m_next_buffer_size

(* The block list grows with the stream, not with the uploads.  Mutant: a  *)
(* new block goes to the front.                                            *)
get_next_block_id_Front == IF kind = "block" THEN <<NextTask>> \o m_block_list ELSE m_block_list
get_next_block_id == IF kind = "block" THEN Append(m_block_list, NextTask) ELSE m_block_list

upload_buffer(b) ==
    /\ prepare_buffer
    /\ m_current_blob_offset' = m_current_blob_offset + Len(b)
    /\ \/ /\ b = <<>>
          /\ UNCHANGED <<vars, m_block_list, m_currentException, upload>>
       \/ /\ b # <<>> /\ beyond_max_size(b)
          /\ m_currentException' = TRUE
          /\ UNCHANGED <<vars, m_block_list, upload>>
       \/ /\ b # <<>> /\ ~beyond_max_size(b)
          /\ take_permit(NextTask)
          /\ m_block_list' = get_next_block_id
          /\ upload' = [upload EXCEPT ![NextTask] =
                            [step |-> "locking", buffer |-> b, offset |-> m_current_blob_offset, tries |-> 1]]
          /\ UNCHANGED m_currentException
    /\ UNCHANGED service

(* One character of _putn: into the buffer, and off with a full buffer.    *)
buffer_full(b) == Len(b) = m_buffer_size

put ==
    /\ writer = "none" /\ written < MaxLength
    /\ LET at == m_current_blob_offset + Len(m_buffer) + 1      \* m_current_streambuf_offset
           b == Append(m_buffer, written + 1)
       IN  /\ at \in DOMAIN image
           /\ image' = [image EXCEPT ![at] = written + 1]
           /\ \/ buffer_full(b) /\ upload_buffer(b) /\ UNCHANGED m_committed
              \/ ~buffer_full(b) /\ m_buffer' = b
                 /\ UNCHANGED <<vars, m_buffer_size, m_next_buffer_size, stream, upload, service>>
    /\ written' = written + 1
    /\ reported' = "nothing"
    /\ UNCHANGED <<options, writer>>

set_buffer_size(n) ==
    /\ writer = "none" /\ n # m_next_buffer_size
    /\ m_next_buffer_size' = n
    /\ UNCHANGED <<vars, options, m_buffer, m_buffer_size, stream, writer, upload, service, history>>

(* _sync up to wait_all_async, on behalf of flush, seekpos and close.      *)
_sync(call) ==
    /\ writer = "none"
    /\ upload_buffer(m_buffer)
    /\ writer' = call
    /\ UNCHANGED <<options, history>>

flush == _sync("flush") /\ UNCHANGED m_committed

seekpos == kind = "page" /\ _sync("seek") /\ UNCHANGED m_committed

file_seekpos == kind = "file" /\ _sync("seek") /\ UNCHANGED m_committed

_close_write ==
    /\ ~m_committed         \* else logic_error: the stream is closed
    /\ m_committed' = TRUE
    /\ _sync("close")

sync_wait ==
    /\ writer \in {"flush", "seek", "close"} /\ waiter = {} /\ reported # "waiting"
    /\ wait_all_async
    /\ reported' = "waiting"
    /\ UNCHANGED <<options, buffer, stream, writer, upload, service, written, image>>

(* wait_all_async's task is done: m_currentException decides.              *)
synced(call) == writer = call /\ reported = "waiting" /\ resume

flush_done ==
    /\ synced("flush")
    /\ writer' = "none"
    /\ reported' = IF m_currentException THEN "failed" ELSE "ok"
    /\ UNCHANGED <<options, buffer, stream, upload, service, written, image>>

(* seekpos goes to any position once the sync has succeeded.               *)
seek_done(pos) ==
    /\ synced("seek")
    /\ writer' = "none"
    /\ reported' = "nothing"
    /\ m_current_blob_offset' = IF m_currentException THEN m_current_blob_offset ELSE pos
    /\ UNCHANGED <<options, buffer, m_block_list, m_currentException, m_committed, upload, service, written, image>>

(* The service puts the blocks of the list together if it has them all.    *)
Content ==
    LET upto[i \in 0..Len(m_block_list)] ==
            IF i = 0 THEN <<>> ELSE upto[i - 1] \o upload[m_block_list[i]].buffer
    IN  upto[Len(m_block_list)]

Committed == [service EXCEPT !.bytes = Overlaid(@, 0, Content)]

commit_close ==
    /\ synced("close")
    /\ writer' = "closed"
    /\ \/ /\ kind = "block" /\ ~m_currentException
          /\ Elements(m_block_list) \subseteq service.staged
          /\ service' = Committed /\ reported' = "ok"
       \/ /\ kind = "block" /\ ~m_currentException      \* refused, or the request or its answer lost
          /\ service' \in {service} \cup (IF Elements(m_block_list) \subseteq service.staged
                                          THEN {Committed} ELSE {})
          /\ reported' = "failed"
       \/ /\ kind # "block" \/ m_currentException
          /\ reported' = IF m_currentException THEN "failed" ELSE "ok"
          /\ UNCHANGED service
    /\ UNCHANGED <<options, buffer, stream, upload, written, image>>
-----------------------------------------------------------------------------
(* The upload tasks.                                                       *)
writers_own == <<options, buffer, m_current_blob_offset, m_block_list, m_committed, writer, history>>

Step(t, step) == upload' = [upload EXCEPT ![t].step = step]
Granted(t) == state[t] = "holding" /\ upload[t].step = "locking"
Oversized(t) ==
    Len(upload[t].buffer) > IF kind = "block" THEN max_block_size ELSE max_page_size

(* A task that finds the exception gives its permit back.  Mutant: not.    *)
skip_upload_KeepPermit(t) ==
    /\ Granted(t) /\ m_currentException
    /\ Step(t, "skipped")
    /\ UNCHANGED <<vars, writers_own, m_currentException, service>>
skip_upload(t) ==
    /\ Granted(t) /\ m_currentException
    /\ unlock(t)
    /\ Step(t, "skipped")
    /\ UNCHANGED <<writers_own, m_currentException, service>>

start_upload(t) ==
    /\ Granted(t) /\ ~m_currentException /\ ~Oversized(t)
    /\ Step(t, "sent")
    /\ UNCHANGED <<vars, writers_own, m_currentException, service>>

(* istream_descriptor::create throws before anything is sent: the permit   *)
(* goes back first; the block stream then keeps the exception, the others  *)
(* drop it.                                                                *)
upload_throws(t) ==
    /\ Granted(t) /\ ~m_currentException /\ Oversized(t)
    /\ unlock(t)
    /\ Step(t, IF kind = "block" THEN "threw" ELSE "dropped")
    /\ UNCHANGED <<writers_own, m_currentException, service>>

keep_thrown(t) ==
    /\ upload[t].step = "threw"
    /\ m_currentException' = TRUE
    /\ Step(t, "failed")
    /\ UNCHANGED <<vars, writers_own, service>>

(* What one attempt does at the service.  An append blob takes it only at  *)
(* the position in the condition and within its max_size.  Mutant: no      *)
(* position is sent.                                                       *)
Length == Cardinality({p \in DOMAIN service.bytes : service.bytes[p] # 0})
append_position_matches_NotSent(t) == TRUE
append_position_matches(t) == upload[t].offset = Length

Accepted(t) ==
    kind = "append" =>
        append_position_matches(t) /\ \A m \in max_size : Length + Len(upload[t].buffer) <= m
Applied(t) ==
    CASE kind = "block"  -> [service EXCEPT !.staged = @ \cup {t}]
      [] kind \in {"page", "file"} -> [service EXCEPT !.bytes = Overlaid(@, upload[t].offset, upload[t].buffer)]
      [] kind = "append" -> [service EXCEPT !.bytes = Overlaid(@, Length, upload[t].buffer)]

upload_succeeds(t) ==
    /\ upload[t].step = "sent" /\ Accepted(t)
    /\ service' = Applied(t)
    /\ Step(t, "ok")
    /\ UNCHANGED <<vars, writers_own, m_currentException>>

(* An attempt or its answer is lost; the executor tries again or gives up. *)
(* The completion handler keeps the exception.                             *)
kept_exception == TRUE

attempt_lost(t) ==
    /\ upload[t].step = "sent"
    /\ service' \in {service} \cup (IF Accepted(t) THEN {Applied(t)} ELSE {})
    /\ \/ /\ upload[t].tries < MaxTries
          /\ upload' = [upload EXCEPT ![t].tries = @ + 1]
          /\ UNCHANGED m_currentException
       \/ /\ upload[t].tries = MaxTries
          /\ Step(t, "failed")
          /\ m_currentException' = kept_exception
    /\ UNCHANGED <<vars, writers_own>>

(* 412: on a retry it may mean that the attempt before was applied.        *)
absorbed(t) == absorb_conditional_errors_on_retry /\ upload[t].tries > 1

upload_refused(t) ==
    /\ upload[t].step = "sent" /\ ~Accepted(t)
    /\ \/ absorbed(t) /\ Step(t, "ok") /\ UNCHANGED m_currentException
       \/ ~absorbed(t) /\ Step(t, "failed") /\ m_currentException' = kept_exception
    /\ UNCHANGED <<vars, writers_own, service>>

(* The guard of the completion handler unlocks.                            *)
finish_upload(t) ==
    /\ upload[t].step \in {"ok", "failed"}
    /\ unlock(t)
    /\ UNCHANGED <<writers_own, m_currentException, upload, service>>

granted(t) == set(t) /\ UNCHANGED <<writers_own, m_currentException, upload, service>>

Upload(t) ==
    \/ skip_upload(t) \/ start_upload(t) \/ upload_throws(t) \/ keep_thrown(t)
    \/ upload_succeeds(t) \/ attempt_lost(t) \/ upload_refused(t)
    \/ finish_upload(t) \/ granted(t)

Synced == flush_done \/ (\E pos \in 0..MaxLength - 1 : seek_done(pos)) \/ commit_close

ONext ==
    \/ put \/ flush \/ seekpos \/ file_seekpos \/ _close_write \/ sync_wait \/ Synced
    \/ \E n \in BufferSizes : set_buffer_size(n)
    \/ \E t \in Tasks : Upload(t)

OSpec == OInit /\ [][ONext]_ovars

(* The pool runs every continuation that is ready, and every request ends. *)
OFairSpec ==
    /\ OSpec
    /\ WF_ovars(sync_wait) /\ WF_ovars(Synced)
    /\ \A t \in Tasks : WF_ovars(Upload(t))
-----------------------------------------------------------------------------
(* An upload was too large to be sent.                                     *)
Threw == \E t \in Tasks : upload[t].step \in {"threw", "failed", "dropped"} /\ Oversized(t)

(* A close that succeeds leaves in the blob exactly what was written, in   *)
(* order, although blocks and pages are uploaded in any order, attempts    *)
(* are lost, repeated and forgiven, and the writer seeks back and forth.   *)
CloseMeansStored == writer = "closed" /\ reported = "ok" => service.bytes = image

(* A flush that succeeds means that everything written so far is on the    *)
(* service (for a block blob: staged), unless a request was too large to   *)
(* be sent.                                                                *)
FlushMeansStored ==
    reported = "ok" /\ writer = "none" /\ ~Threw =>
        IF kind = "block" THEN service.staged = Uploads ELSE service.bytes = image

(* At any moment an append blob holds a prefix of the stream: no block is  *)
(* skipped, repeated or out of order, even while uploads fail.             *)
AppendIsPrefix ==
    kind = "append" => \A p \in DOMAIN image : service.bytes[p] = IF p <= Length THEN image[p] ELSE 0

(* flush, seek and close come back, whatever fails.                        *)
CallsReturn == writer \in {"flush", "seek", "close"} ~> writer \in {"none", "closed"}
=============================================================================
