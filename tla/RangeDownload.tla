---------------------------- MODULE RangeDownload ----------------------------
(***************************************************************************)
(* cloud_blob::download_single_range_to_stream_async (src/cloud_blob.cpp)  *)
(* on the executor's data path (src/executor.cpp): how a download that     *)
(* was interrupted goes on where it was, how one that met an error starts  *)
(* over, and what its checksum tells.  The blob may be overwritten while   *)
(* the attempts go on, and the secondary location may be behind.           *)
(*                                                                         *)
(* An attempt is the request, the answer's headers, its body and the final *)
(* handler; cancellation, time and the steps in between are Executor's.    *)
(* A byte of the blob is <<version, index>>; a checksum of bytes is the    *)
(* bytes themselves, the empty string is {}.                               *)
(***************************************************************************)
EXTENDS RetryPolicy, Sequences

CONSTANTS
    m_max_attempts,     \* of the retry policy
    BlobLength,         \* bytes of the blob, in every version
    Versions,           \* how often it is written
    Offset, Lengths,    \* of the ranges asked for; length 0: to the end
    Start,              \* where the target stands when the download begins
    Checksums           \* subset of ChecksumOptions

ChecksumOptions == {"none", "content_md5", "transactional_md5", "transactional_crc64", "crc64_unvalidated"}

ASSUME RangeDownloadAssumption ==
    /\ m_max_attempts \in Nat /\ BlobLength \in Nat \ {0} /\ Versions \in Nat \ {0}
    /\ Offset \in 0..BlobLength - 1 /\ Lengths \subseteq Nat /\ Start \in Nat
    /\ Checksums \subseteq ChecksumOptions

VARIABLES
    setup,              \* what the caller and the blob bring (see Init)
    version,            \* per location the blob's version; 0: not there yet
    target, cursor,     \* bytes of the target stream and its position
    download_info,      \* the blob_download_info
    m_total_downloaded, m_is_hashing_started, m_should_restart_hash_provider,
    m_hash_provider,    \* the bytes it was given
    m_current_location, m_current_location_mode, m_location_mode, m_retry_count,
    m_request_result,   \* [status, location]
    asked,              \* first index of the range asked for
    incoming, written,  \* the answer's body, and how much of it reached the target
    pc, ex,             \* next step; none, retryable or fatal
    outcome,            \* running, returned, faulted
    origin,             \* history: the location whose bytes the target holds
    mishaps             \* history: overwritten, corrupted, cut

service == <<setup, version>>
stream == <<target, cursor>>
hashing == <<m_total_downloaded, m_is_hashing_started, m_should_restart_hash_provider, m_hash_provider>>
place == <<m_current_location, m_current_location_mode, m_location_mode, m_retry_count>>
answer == <<m_request_result, asked, incoming, written>>
history == <<origin, mishaps>>
vars == <<service, stream, download_info, hashing, place, answer, pc, ex, outcome, history>>

(* The caller asks for the whole blob (offset max) or a range, into a      *)
(* target that can seek or not, perhaps under an if-match condition; with  *)
(* a CRC64 the download is always one of ranges.                           *)
Init ==
    /\ setup \in [whole: BOOLEAN, length: Lengths \cup {0}, can_seek: BOOLEAN, checksum: Checksums,
                  stored_md5: BOOLEAN, if_match: BOOLEAN]
    /\ setup.whole => setup.length = 0 /\ setup.checksum \notin {"transactional_crc64", "crc64_unvalidated"}
    /\ version \in [Locations -> 0..Versions]
    /\ version["primary"] > 0 /\ version["secondary"] <= version["primary"]
    /\ target = [i \in 1..Start |-> <<0, i>>] /\ cursor = Start
    /\ download_info = [populated |-> FALSE, total_written |-> 0, md5 |-> {}, crc64 |-> {}, reset_target |-> FALSE]
    /\ m_total_downloaded = 0 /\ m_hash_provider = <<>>
    /\ m_is_hashing_started = FALSE /\ m_should_restart_hash_provider = FALSE
    /\ m_current_location = "primary" /\ m_current_location_mode = "primary_then_secondary"
    /\ m_location_mode = "primary_or_secondary" /\ m_retry_count = 0
    /\ m_request_result = [status |-> 0, location |-> "primary"]
    /\ asked = 0 /\ incoming = <<>> /\ written = 0
    /\ pc = "send" /\ ex = "none" /\ outcome = "running"
    /\ origin = "primary" /\ mishaps = {}

First == IF setup.whole THEN 0 ELSE Offset
Last == IF setup.length = 0 \/ First + setup.length > BlobLength THEN BlobLength - 1
        ELSE First + setup.length - 1
Bytes(v, from, to) == [i \in 1..(to - from + 1) |-> <<v, from + i - 1>>]

End(how) == pc' = "done" /\ outcome' = how
Step(next) == pc' = next /\ UNCHANGED outcome

(* build_request: the rest of the range.  current_length is unsigned; the  *)
(* end add_range computes from it is the end first asked for even where    *)
(* the subtraction wraps.                                                  *)
current_offset == First + download_info.total_written
everything_written == setup.length > 0 /\ download_info.total_written = setup.length

(* m_locked_etag is never assigned, so every attempt carries the caller's  *)
(* condition, here perhaps an if-match on version 1.                       *)
current_condition == IF setup.if_match THEN {1} ELSE 1..Versions

(* validate_location_mode, build_request, and the hash provider of the     *)
(* response: a new one when hashing starts and after every failure.        *)
send ==
    /\ pc = "send"
    /\ m_current_location_mode' = Narrowed(m_location_mode, m_current_location_mode)
    /\ m_current_location' = NarrowedLocation(m_location_mode, m_current_location)
    /\ IF everything_written
       THEN End("faulted") /\ UNCHANGED <<answer, hashing>>    \* invalid_argument
       ELSE /\ Step("headers")
            /\ asked' = current_offset
            /\ m_request_result' = [status |-> 0, location |-> m_current_location']
            /\ incoming' = <<>> /\ written' = 0
            /\ m_total_downloaded' = IF m_is_hashing_started THEN m_total_downloaded ELSE 0
            /\ m_hash_provider' = IF m_is_hashing_started /\ ~m_should_restart_hash_provider
                                  THEN m_hash_provider ELSE <<>>
            /\ m_is_hashing_started' = TRUE /\ m_should_restart_hash_provider' = FALSE
    /\ UNCHANGED <<service, stream, download_info, m_location_mode, m_retry_count, ex, history>>

Fail(kind) == Step("final") /\ ex' = kind

(* What the service answers with, read at the location asked: its version  *)
(* now, and the status of the request.                                     *)
served == version[m_current_location]
statuses ==
    IF served = 0 THEN {404}
    ELSE IF served \notin current_condition THEN {412}
    ELSE IF asked > Last THEN {416}
    ELSE {200, 500}

(* Content-MD5: of the range when it was asked for, the stored one for a   *)
(* request without a range.                                                *)
with_range == ~setup.whole \/ download_info.total_written > 0
content_md5 ==
    IF IF with_range THEN setup.checksum = "transactional_md5" /\ ~download_info.populated
                     ELSE setup.stored_md5
    THEN {Bytes(served, asked, Last)} ELSE {}
content_crc64 ==
    IF setup.checksum \in {"transactional_crc64", "crc64_unvalidated"} THEN {Bytes(served, asked, Last)} ELSE {}

(* The checksum headers may be missing although they were asked for.       *)
lock_Never(location) == "primary_or_secondary"
lock(location) == LockedTo(location)
headers(md5, crc64) ==
    /\ pc = "headers" /\ 200 \in statuses
    /\ m_request_result' = [status |-> 200, location |-> m_current_location]
    /\ incoming' = Bytes(served, asked, Last)
    /\ LET missing == /\ ~download_info.populated
                      /\ \/ setup.checksum = "transactional_md5" /\ md5 = {}
                         \/ setup.checksum = "transactional_crc64" /\ crc64 = {}
       IN  /\ IF missing THEN Fail("fatal") ELSE Step("body") /\ UNCHANGED ex
           /\ IF download_info.populated
              THEN UNCHANGED <<download_info, m_location_mode>>
              ELSE /\ download_info' = [download_info EXCEPT !.md5 = md5, !.crc64 = crc64, !.populated = ~missing]
                   /\ m_location_mode' = IF missing THEN m_location_mode ELSE lock(m_current_location)
    /\ origin' = IF download_info.total_written = 0 THEN m_current_location ELSE origin
    /\ UNCHANGED <<service, stream, hashing, m_current_location, m_current_location_mode, m_retry_count,
                   asked, written, mishaps>>

(* An error: start over, at whichever location is next.                    *)
error_headers(status) ==
    /\ pc = "headers" /\ status \in statuses \ {200}
    /\ m_request_result' = [status |-> status, location |-> m_current_location]
    /\ incoming' = <<"error", "text">>
    /\ download_info' = [download_info EXCEPT !.reset_target = TRUE, !.populated = FALSE]
    /\ m_location_mode' = "primary_or_secondary"
    /\ Step("error_body")
    /\ UNCHANGED <<service, stream, hashing, m_current_location, m_current_location_mode, m_retry_count,
                   asked, written, ex, history>>

(* The http_client writes through the hash_wrapper_streambuf.              *)
Written(bytes) ==
    /\ target' = [i \in 1..(IF cursor + Len(bytes) > Len(target) THEN cursor + Len(bytes) ELSE Len(target)) |->
                     IF i > cursor /\ i <= cursor + Len(bytes) THEN bytes[i - cursor] ELSE target[i]]
    /\ cursor' = cursor + Len(bytes)
    /\ written' = Len(bytes)
    /\ m_hash_provider' = m_hash_provider \o bytes

(* The error body has arrived: it is in the target, and hashing restarts.  *)
error_received ==
    /\ pc = "error_body"
    /\ Written(incoming)
    /\ m_is_hashing_started' = FALSE
    /\ Fail("retryable")
    /\ UNCHANGED <<service, download_info, m_total_downloaded, m_should_restart_hash_provider, place,
                   m_request_result, asked, incoming, history>>

(* The connection is lost after k bytes of a body, before any headers      *)
(* (k = 0), or short of the content length.                                *)
interrupted(k) ==
    /\ pc \in {"headers", "body", "error_body"}
    /\ k <= Len(incoming)
    /\ Written(SubSeq(incoming, 1, k))
    /\ Fail("retryable")
    /\ mishaps' = IF pc = "error_body" THEN mishaps \cup {"cut"} ELSE mishaps
    /\ UNCHANGED <<service, download_info, m_total_downloaded, m_is_hashing_started,
                   m_should_restart_hash_provider, place, m_request_result, asked, incoming, origin>>

(* postprocess_response: what is compared with what.  A CRC64 is compared  *)
(* when none was calculated, with a member that was never set: stray says  *)
(* how that comes out.  Mutant: nothing is ever different.                 *)
calculated_md5 == setup.checksum \in {"content_md5", "transactional_md5"}
md5_compared == download_info.md5 # {} /\ calculated_md5
calculated_crc64 == setup.checksum = "transactional_crc64"
mismatch_Never(hash, stray) == FALSE
mismatch(hash, stray) ==
    \/ md5_compared /\ download_info.md5 # {hash}
    \/ download_info.crc64 # {} /\ ~calculated_crc64 /\ stray

(* The whole body has arrived, perhaps with a wrong byte.                  *)
received(corrupt, stray) ==
    /\ pc = "body"
    /\ LET bytes == IF corrupt THEN [incoming EXCEPT ![1] = <<0, 0>>] ELSE incoming
       IN  /\ Written(bytes)
           /\ IF mismatch(m_hash_provider \o bytes, stray) THEN Fail("retryable") ELSE Fail("none")
    /\ m_is_hashing_started' = FALSE
    /\ download_info' = [download_info EXCEPT !.reset_target = TRUE, !.populated = FALSE]
    /\ m_location_mode' = "primary_or_secondary"
    /\ mishaps' = IF corrupt THEN mishaps \cup {"corrupted"} ELSE mishaps
    /\ UNCHANGED <<service, m_total_downloaded, m_should_restart_hash_provider, m_current_location,
                   m_current_location_mode, m_retry_count, m_request_result, asked, incoming, origin>>

(* recover_request(total).  Mutant: it forgets what was written.           *)
recover_request_Forget(total) ==
    /\ download_info' = [download_info EXCEPT !.reset_target = FALSE]
    /\ cursor' = IF download_info.reset_target /\ total > 0 THEN Start ELSE cursor
recover_request(total) ==
    IF download_info.reset_target
    THEN /\ download_info' = [download_info EXCEPT !.total_written = 0, !.reset_target = FALSE]
         /\ cursor' = IF total > 0 THEN Start ELSE cursor
    ELSE download_info' = [download_info EXCEPT !.total_written = total] /\ UNCHANGED cursor

(* The final handler.  A target that cannot seek cannot start over.        *)
final ==
    /\ pc = "final"
    /\ LET info == evaluate(m_retry_count, m_max_attempts, m_request_result,
                            get_next_location(m_current_location_mode, m_current_location),
                            m_current_location_mode)
           total == m_total_downloaded + written
           refused == download_info.reset_target /\ total > 0 /\ ~setup.can_seek
       IN  IF ex = "retryable" /\ info.should_retry
           THEN /\ m_current_location' = info.target_location
                /\ m_current_location_mode' = info.updated_location_mode
                /\ m_retry_count' = m_retry_count + 1
                /\ m_should_restart_hash_provider' = TRUE
                /\ m_total_downloaded' = total
                /\ IF refused
                   THEN /\ download_info' = [download_info EXCEPT !.total_written = 0]
                        /\ UNCHANGED cursor /\ End("faulted")
                   ELSE recover_request(total) /\ Step("send")
           ELSE /\ End(IF ex = "none" THEN "returned" ELSE "faulted")
                /\ UNCHANGED <<m_current_location, m_current_location_mode, m_retry_count,
                               m_should_restart_hash_provider, m_total_downloaded, download_info, cursor>>
    /\ ex' = "none"
    /\ UNCHANGED <<service, target, m_is_hashing_started, m_hash_provider, m_location_mode, answer, history>>

(* The service: somebody overwrites the blob, and the secondary follows.   *)
Changed == mishaps' = IF setup.if_match THEN mishaps ELSE mishaps \cup {"overwritten"}
overwrite ==
    /\ pc # "done" /\ version["primary"] < Versions
    /\ version' = [version EXCEPT !["primary"] = @ + 1]
    /\ Changed
    /\ UNCHANGED <<setup, stream, download_info, hashing, place, answer, pc, ex, outcome, origin>>

replicate ==
    /\ pc # "done" /\ version["secondary"] # version["primary"]
    /\ version' = [version EXCEPT !["secondary"] = version["primary"]]
    /\ Changed
    /\ UNCHANGED <<setup, stream, download_info, hashing, place, answer, pc, ex, outcome, origin>>

Next ==
    \/ send \/ error_received \/ final
    \/ \E md5 \in {{}, content_md5}, crc64 \in {{}, content_crc64} : headers(md5, crc64)
    \/ \E status \in {404, 412, 416, 500} : error_headers(status)
    \/ \E k \in 0..BlobLength : interrupted(k)
    \/ \E corrupt, stray \in BOOLEAN : received(corrupt, stray)
    \/ overwrite \/ replicate

Spec == Init /\ [][Next]_vars
-----------------------------------------------------------------------------
Holds(n, v) ==
    Len(target) >= Start + n /\ \A i \in 1..n : target[Start + i] = <<v, First + i - 1>>
HoldsRange == \E v \in 1..Versions : Holds(Last - First + 1, v)

(* A download that returns has put the range of one version of the blob    *)
(* into the target, however it was interrupted, refused and restarted on   *)
(* the way: when an MD5 was compared although the blob was overwritten or  *)
(* bytes were damaged, and without one if neither happened.  An error      *)
(* answer that is cut short breaks both (ResumesWhereLeftOff).             *)
RangeIntact ==
    outcome = "returned" /\ "cut" \notin mishaps /\ (mishaps = {} \/ md5_compared) => HoldsRange

(* A request asks for the byte that the target's position waits for, and   *)
(* what is in front of the position is one version's unless the blob was   *)
(* overwritten or bytes were damaged.                                      *)
ResumesInPlace ==
    pc = "headers" /\ "cut" \notin mishaps =>
        /\ cursor - Start = asked - First
        /\ mishaps = {} => \E v \in 1..Versions : Holds(cursor - Start, v)

(* A request that resumes goes to the location that sent the first part:   *)
(* the other one may hold another version.                                 *)
ResumesAtSameLocation ==
    pc = "headers" /\ "cut" \notin mishaps /\ asked > First => m_current_location = origin

(* Changelog: interrupted downloads "resume automatically from where the   *)
(* download left off when being retried": the next byte asked for is the   *)
(* one that the target's position waits for.                               *)
ResumesWhereLeftOff == pc = "headers" => cursor - Start = asked - First
=============================================================================
