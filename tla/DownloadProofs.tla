--------------------------- MODULE DownloadProofs ---------------------------
(***************************************************************************)
(* How a blob is read: the download of one range, for every blob, range    *)
(* and number of attempts and every sequence of lost connections, errors,  *)
(* damaged bodies and overwrites; and the input stream that reads a blob   *)
(* range by range, for every size of the blob and of the buffer and every  *)
(* sequence of reads and seeks.                                            *)
(***************************************************************************)
EXTENDS RangeDownload, InputStream, SequenceTheorems, TLAPS

-----------------------------------------------------------------------------
(* One range.                                                              *)

Content == (Nat \X Nat) \cup {"error", "text"}

(* The parts of the inductive invariant.                                   *)
Typed ==
    /\ First \in Nat /\ Last \in Nat /\ First <= Last
    /\ version \in [Locations -> 0..Versions]
    /\ target \in Seq(Content) /\ cursor \in Nat /\ cursor >= Start /\ Len(target) >= cursor
    /\ download_info \in [populated : BOOLEAN, total_written : Nat, md5 : SUBSET Seq(Content),
                          crc64 : SUBSET Seq(Content), reset_target : BOOLEAN]
    /\ m_total_downloaded \in Nat /\ written \in Nat /\ asked \in Nat
    /\ incoming \in Seq(Content)
    /\ m_current_location \in Locations /\ origin \in Locations
    /\ pc \in {"send", "headers", "body", "error_body", "final", "done"}
    /\ ex \in {"none", "retryable", "fatal"}
    /\ outcome = "returned" => pc = "done"

Uncut == "cut" \notin mishaps

(* The counter of the executor, the one of the blob_download_info, the     *)
(* request and the target's position agree, until an error answer or a     *)
(* complete one sets reset_target: the counter then is not 0, so the       *)
(* target is rewound.                                                      *)
Position ==
    LET tw == download_info.total_written IN
    /\ pc = "send" =>
          /\ ~download_info.reset_target /\ cursor = Start + tw
          /\ m_is_hashing_started => m_total_downloaded = tw /\ m_should_restart_hash_provider
          /\ ~m_is_hashing_started => tw = 0
    /\ pc \in {"headers", "body", "error_body"} =>
          /\ cursor = Start + tw /\ m_total_downloaded = tw /\ asked = First + tw /\ written = 0
          /\ m_is_hashing_started /\ m_hash_provider = <<>>
          /\ download_info.reset_target <=> pc = "error_body"
    /\ pc = "headers" => incoming = <<>>
    /\ pc = "body" => asked <= Last /\ Len(incoming) = Last - asked + 1
    /\ pc = "error_body" => Len(incoming) = 2
    /\ pc = "final" /\ ex = "retryable" =>
          \/ /\ download_info.reset_target /\ ~m_is_hashing_started
             /\ m_total_downloaded + written > 0
          \/ /\ ~download_info.reset_target /\ m_is_hashing_started
             /\ cursor = Start + m_total_downloaded + written

(* Once there are headers the location is locked, and without them nothing *)
(* has been written.                                                       *)
Located ==
    /\ download_info.populated => m_location_mode = LockedTo(origin)
    /\ pc = "headers" /\ download_info.populated => m_current_location = origin
    /\ pc = "body" => download_info.populated /\ m_current_location = origin
    /\ pc \in {"send", "headers"} /\ ~download_info.populated => download_info.total_written = 0
    /\ pc = "final" /\ ex = "retryable" /\ ~download_info.reset_target /\ ~download_info.populated
         => m_total_downloaded + written = 0

(* The version the target receives while nobody overwrites the blob.       *)
Received == IF setup.if_match THEN 1 ELSE version[origin]
Resumable ==
    \/ pc \in {"send", "headers", "body"}
    \/ pc = "final" /\ ex = "retryable" /\ ~download_info.reset_target
OneVersion ==
    /\ download_info.populated => Received \in 1..Versions
    /\ pc = "body" => incoming = Bytes(Received, asked, Last)
    /\ Resumable => Holds(cursor - Start, Received)

(* The MD5 that is compared is that of the whole range.                    *)
WholeMD5 == download_info.md5 = {} \/ \E v \in 1..Versions : download_info.md5 = {Bytes(v, First, Last)}

Arrived ==
    (pc = "final" /\ ex = "none") \/ outcome = "returned" =>
        (mishaps = {} \/ md5_compared => HoldsRange)

RInv ==
    /\ Typed
    /\ Uncut => Position /\ Located /\ WholeMD5 /\ Arrived
    /\ mishaps = {} => OneVersion
-----------------------------------------------------------------------------
(* The bytes of a range.                                                   *)
LEMMA BytesFacts ==
    ASSUME NEW v \in Nat, NEW from \in Nat, NEW to \in Nat, from <= to
    PROVE  /\ Bytes(v, from, to) \in Seq(Content)
           /\ Len(Bytes(v, from, to)) = to - from + 1
           /\ \A i \in 1..(to - from + 1) : Bytes(v, from, to)[i] = <<v, from + i - 1>>
<1> DEFINE n == to - from + 1
           b == Bytes(v, from, to)
<1>0. n \in Nat
  OBVIOUS
<1>1. b = [i \in 1..n |-> <<v, from + i - 1>>]
  BY Zenon DEF Bytes
<1>2. \A i \in 1..n : <<v, from + i - 1>> \in Content
  <2>1. \A i \in 1..n : from + i - 1 \in Nat
    OBVIOUS
  <2> QED
    BY <2>1 DEF Content
<1> HIDE DEF n, b
<1>3. b \in [1..n -> Content]
  BY <1>1, <1>2
<1>4. b \in Seq(Content) /\ Len(b) = n
  BY <1>0, <1>3
<1>5. \A i \in 1..n : b[i] = <<v, from + i - 1>>
  BY <1>1
<1> QED
  BY <1>4, <1>5 DEF n, b

(* Writing at the position.                                                *)
LEMMA WrittenFacts ==
    ASSUME Typed, Start \in Nat, NEW bytes \in Seq(Content), Written(bytes)
    PROVE  /\ target' \in Seq(Content) /\ cursor' = cursor + Len(bytes) /\ written' = Len(bytes)
           /\ Len(bytes) \in Nat /\ Len(target') >= cursor' /\ Len(target') >= Len(target)
           /\ \A i \in 1..cursor : target'[i] = target[i]
           /\ \A i \in 1..Len(bytes) : target'[cursor + i] = bytes[i]
<1> DEFINE k == Len(bytes)
           n == IF cursor + k > Len(target) THEN cursor + k ELSE Len(target)
           e(i) == IF i > cursor /\ i <= cursor + k THEN bytes[i - cursor] ELSE target[i]
<1>1. k \in Nat /\ cursor \in Nat /\ Len(target) \in Nat /\ Len(target) >= cursor
  BY LenProperties DEF Typed
<1>2. target' = [i \in 1..n |-> e(i)] /\ cursor' = cursor + k /\ written' = k
  BY DEF Written
<1>3. n \in Nat /\ n >= cursor + k /\ n >= Len(target)
  BY <1>1
<1>4. ASSUME NEW i \in 1..n PROVE e(i) \in Content
  <2>1. CASE i > cursor /\ i <= cursor + k
    <3>1. i - cursor \in 1..k
      BY <1>1, <2>1
    <3> QED
      BY <2>1, <3>1, ElementOfSeq
  <2>2. CASE ~(i > cursor /\ i <= cursor + k)
    <3>1. i \in 1..Len(target)
      BY <1>1, <2>2
    <3> QED
      BY <2>2, <3>1, ElementOfSeq DEF Typed
  <2> QED
    BY <2>1, <2>2
<1>5. \A i \in 1..cursor : i \in 1..n /\ e(i) = target[i]
  BY <1>1, <1>3
<1>6. ASSUME NEW i \in 1..k PROVE cursor + i \in 1..n /\ e(cursor + i) = bytes[i]
  <2>1. cursor + i > cursor /\ cursor + i <= cursor + k /\ (cursor + i) - cursor = i
    BY <1>1
  <2> QED
    BY <1>1, <1>3, <2>1
<1> HIDE DEF n, e, k
<1>7. target' \in [1..n -> Content]
  BY <1>2, <1>4
<1>8. target' \in Seq(Content) /\ Len(target') = n
  BY <1>3, <1>7
<1>9. \A i \in 1..n : target'[i] = e(i)
  BY <1>2
<1> QED
  BY <1>1, <1>2, <1>3, <1>5, <1>6, <1>8, <1>9 DEF k

(* What the caller brings does not change, and mishaps are not forgotten.  *)
LEMMA Fixed ==
    ASSUME [Next]_vars
    PROVE  /\ setup' = setup /\ First' = First /\ Last' = Last
           /\ mishaps \subseteq mishaps' /\ (mishaps' = {} => mishaps = {}) /\ (Uncut' => Uncut)
<1>1. setup' = setup /\ mishaps \subseteq mishaps'
  BY DEF Next, send, error_received, final, headers, error_headers, interrupted, received, overwrite, replicate, Changed,
    vars, service, history
<1>2. First' = First /\ Last' = Last
  BY <1>1 DEF First, Last
<1> QED
  BY <1>1, <1>2 DEF Uncut

LEMMA InitRInv == Init => RInv
<1> SUFFICES ASSUME Init PROVE RInv
  OBVIOUS
<1>1. /\ setup.length \in Nat /\ Start \in Nat /\ Versions \in Nat \ {0}
      /\ target = [i \in 1..Start |-> <<0, i>>] /\ cursor = Start
      /\ download_info = [populated |-> FALSE, total_written |-> 0, md5 |-> {}, crc64 |-> {}, reset_target |-> FALSE]
      /\ version \in [Locations -> 0..Versions]
      /\ pc = "send" /\ ex = "none" /\ outcome = "running" /\ incoming = <<>>
  <2>1. setup.length \in Lengths \cup {0}
    BY DEF Init
  <2>2. Lengths \subseteq Nat /\ Start \in Nat /\ Versions \in Nat \ {0}
    BY RangeDownloadAssumption
  <2>3. setup.length \in Nat
    <3>1. Lengths \cup {0} \subseteq Nat
      BY <2>2
    <3> QED
      BY ONLY <2>1, <3>1, Zenon
  <2> QED
    BY <2>2, <2>3 DEF Init
<1>2. First \in Nat /\ Last \in Nat /\ First <= Last
  <2>1. First \in 0..BlobLength - 1 /\ BlobLength \in Nat \ {0}
    BY RangeDownloadAssumption DEF First
  <2> HIDE DEF First
  <2> QED
    BY <1>1, <2>1 DEF Last
<1>3. target \in Seq(Content) /\ Len(target) = Start
  <2>1. target \in [1..Start -> Content]
    BY <1>1 DEF Content
  <2> QED
    BY <1>1, <2>1
<1>4. Typed
  <2>1. m_total_downloaded = 0 /\ written = 0 /\ asked = 0 /\ m_current_location = "primary" /\ origin = "primary"
    BY DEF Init
  <2>2. <<>> \in Seq(Content)
    OBVIOUS
  <2> QED
    BY <1>1, <1>2, <1>3, <2>1, <2>2 DEF Typed, Locations
<1>5. Position /\ Located /\ WholeMD5 /\ Arrived
  BY <1>1 DEF Init, Position, Located, WholeMD5, Arrived
<1>6. OneVersion
  BY <1>1, <1>3 DEF OneVersion, Holds
<1> QED
  BY <1>4, <1>5, <1>6 DEF RInv

LEMMA SendRInv == ASSUME RInv, send PROVE RInv'
<1> USE DEF RInv
<1>0. /\ setup' = setup /\ First' = First /\ Last' = Last /\ mishaps' = mishaps /\ Start \in Nat
      /\ UNCHANGED <<version, target, cursor, download_info, m_location_mode, ex, origin>> /\ pc = "send"
      /\ m_current_location' = NarrowedLocation(m_location_mode, m_current_location)
  BY RangeDownloadAssumption DEF send, service, stream, history, First, Last
<1>1. m_current_location' \in Locations /\ (m_location_mode = LockedTo(origin) => m_current_location' = origin)
  BY <1>0 DEF Typed, Locations, NarrowedLocation, LockedTo
<1>2. CASE everything_written
  <2>1. UNCHANGED <<asked, incoming, written, m_total_downloaded, m_hash_provider>> /\ pc' = "done" /\ outcome' = "faulted"
    BY <1>2 DEF send, End, answer, hashing
  <2>2. Typed'
    BY <1>0, <1>1, <2>1 DEF Typed
  <2> QED
    BY <1>0, <2>1, <2>2 DEF Uncut, Position, Located, WholeMD5, Arrived, OneVersion, Resumable, Received, Holds
<1>3. CASE ~everything_written
  <2>1. /\ pc' = "headers" /\ outcome' = outcome /\ asked' = First + download_info.total_written /\ incoming' = <<>> /\ written' = 0
        /\ m_total_downloaded' = IF m_is_hashing_started THEN m_total_downloaded ELSE 0
        /\ m_hash_provider' = IF m_is_hashing_started /\ ~m_should_restart_hash_provider THEN m_hash_provider ELSE <<>>
        /\ m_is_hashing_started'
    BY <1>3 DEF send, Step, current_offset
  <2>2. Typed'
    <3>1. <<>> \in Seq(Content) /\ asked' \in Nat
      BY <2>1 DEF Typed
    <3> QED
      BY <1>0, <1>1, <2>1, <3>1 DEF Typed
  <2>3. Uncut => Position'
    BY <1>0, <2>1 DEF Position
  <2>4. Uncut => Located' /\ WholeMD5' /\ Arrived'
    BY <1>0, <1>1, <2>1 DEF Located, WholeMD5, Arrived, Typed, Bytes
  <2>5. OneVersion => OneVersion'
    BY <1>0, <2>1 DEF OneVersion, Resumable, Received, Holds
  <2> QED
    BY <1>0, <2>2, <2>3, <2>4, <2>5 DEF Uncut
<1> QED
  BY <1>2, <1>3

(* What an answer with a body is.                                          *)
LEMMA ServedFacts ==
    ASSUME RInv, 200 \in statuses
    PROVE  /\ served \in 1..Versions /\ served \in Nat /\ asked <= Last
           /\ setup.if_match => served = 1
           /\ Bytes(served, asked, Last) \in Seq(Content)
           /\ Len(Bytes(served, asked, Last)) = Last - asked + 1
<1>1. served \in 0..Versions /\ Versions \in Nat \ {0} /\ asked \in Nat /\ Last \in Nat
  BY RangeDownloadAssumption DEF RInv, Typed, served
<1>2. served # 0 /\ served \in current_condition /\ ~(asked > Last)
  BY DEF statuses
<1>3. served \in 1..Versions /\ served \in Nat /\ asked <= Last /\ (setup.if_match => served = 1)
  BY <1>1, <1>2 DEF current_condition
<1> QED
  BY <1>1, <1>3, BytesFacts

LEMMA HeadersRInv ==
    ASSUME RInv, NEW md5 \in {{}, content_md5}, NEW crc64 \in {{}, content_crc64}, headers(md5, crc64)
    PROVE  RInv'
<1> USE DEF RInv
<1> DEFINE missing == /\ ~download_info.populated
                      /\ \/ setup.checksum = "transactional_md5" /\ md5 = {}
                         \/ setup.checksum = "transactional_crc64" /\ crc64 = {}
           tw == download_info.total_written
<1>0. /\ setup' = setup /\ First' = First /\ Last' = Last /\ mishaps' = mishaps /\ pc = "headers"
      /\ UNCHANGED <<version, target, cursor, m_total_downloaded, m_is_hashing_started, m_hash_provider,
                     m_current_location, asked, written>>
      /\ incoming' = Bytes(served, asked, Last)
      /\ origin' = (IF tw = 0 THEN m_current_location ELSE origin)
      /\ missing => pc' = "final" /\ ex' = "fatal"
      /\ ~missing => pc' = "body" /\ ex' = ex
      /\ outcome' = outcome
      /\ download_info.populated => UNCHANGED <<download_info, m_location_mode>>
      /\ ~download_info.populated =>
            /\ download_info' = [download_info EXCEPT !.md5 = md5, !.crc64 = crc64, !.populated = ~missing]
            /\ m_location_mode' = IF missing THEN m_location_mode ELSE LockedTo(m_current_location)
  BY DEF headers, service, stream, hashing, First, Last, Fail, Step, lock
<1>1. /\ served \in 1..Versions /\ asked <= Last /\ (setup.if_match => served = 1)
      /\ incoming' \in Seq(Content) /\ Len(incoming') = Last - asked + 1 /\ Bytes(served, asked, Last) \in Seq(Content)
  BY <1>0, ServedFacts DEF headers
<1>2. md5 \in SUBSET Seq(Content) /\ crc64 \in SUBSET Seq(Content) /\ (md5 = {} \/ md5 = {Bytes(served, asked, Last)})
  BY <1>1 DEF content_md5, content_crc64
<1>3. /\ download_info'.total_written = tw /\ download_info'.reset_target = download_info.reset_target
      /\ download_info'.populated = ~missing
      /\ download_info'.md5 = IF download_info.populated THEN download_info.md5 ELSE md5
      /\ download_info' \in [populated : BOOLEAN, total_written : Nat, md5 : SUBSET Seq(Content),
                             crc64 : SUBSET Seq(Content), reset_target : BOOLEAN]
  <2>1. CASE download_info.populated
    BY <1>0, <2>1 DEF Typed
  <2>2. CASE ~download_info.populated
    BY <1>0, <1>2, <2>2 DEF Typed
  <2> QED
    BY <2>1, <2>2
<1> HIDE DEF missing
<1>4. Typed'
  BY <1>0, <1>1, <1>3 DEF Typed
<1>5. ASSUME Uncut PROVE Position' /\ Located'
  <2>1. Position'
    BY <1>0, <1>1, <1>3, <1>5 DEF Position
  <2>2. CASE download_info.populated
    <3>1. m_current_location = origin /\ origin' = origin /\ m_location_mode = LockedTo(origin) /\ ~missing
      BY <1>0, <1>5, <2>2 DEF Located, missing
    <3> QED
      BY <1>0, <1>3, <2>1, <2>2, <3>1 DEF Located
  <2>3. CASE ~download_info.populated
    <3>1. origin' = m_current_location /\ tw = 0
      BY <1>0, <1>5, <2>3 DEF Located
    <3> QED
      BY <1>0, <1>3, <2>1, <2>3, <3>1 DEF Located
  <2> QED
    BY <2>2, <2>3
<1>6. ASSUME Uncut PROVE WholeMD5' /\ Arrived'
  <2>1. CASE download_info.populated
    <3>1. WholeMD5'
      BY <1>0, <1>3, <1>6, <2>1 DEF WholeMD5, Typed, Bytes
    <3>2. Arrived'
      BY <1>0, <1>3, <1>6, <2>1 DEF Arrived, Typed
    <3> QED
      BY <3>1, <3>2
  <2>2. CASE ~download_info.populated
    <3>1. asked = First
      BY <1>0, <1>6, <2>2 DEF Located, Position, Typed
    <3>2. download_info'.md5 = {} \/ download_info'.md5 = {Bytes(served, First, Last)}
      BY <1>2, <1>3, <2>2, <3>1
    <3>3. WholeMD5'
      BY <1>0, <1>1, <3>2 DEF WholeMD5, Bytes
    <3> QED
      BY <1>0, <3>3 DEF Arrived, Typed
  <2> QED
    BY <2>1, <2>2
<1>7. ASSUME mishaps = {} PROVE OneVersion'
  <2>1. Uncut /\ Located /\ Position /\ OneVersion
    BY <1>7 DEF Uncut
  <2>2. Received' = served
    <3>1. origin' = m_current_location
      BY <1>0, <2>1 DEF Located
    <3> QED
      BY <1>0, <1>1, <3>1 DEF Received, served
  <2>3. Holds(cursor - Start, Received')
    <3>1. CASE tw = 0
      <4>1. cursor - Start = 0 /\ Len(target) >= Start + 0
        BY <1>0, <2>1, <3>1, RangeDownloadAssumption, LenProperties DEF Position, Typed
      <4> QED
        BY <4>1 DEF Holds
    <3>2. CASE tw # 0
      <4>1. Received' = Received
        BY <1>0, <3>2 DEF Received
      <4> QED
        BY <1>0, <2>1, <4>1 DEF OneVersion, Resumable
    <3> QED
      BY <3>1, <3>2
  <2>4. Holds(cursor - Start, Received)'
    BY <1>0, <2>3 DEF Holds
  <2> QED
    BY <1>0, <1>1, <2>2, <2>4 DEF OneVersion, Bytes
<1> QED
  BY <1>0, <1>4, <1>5, <1>6, <1>7 DEF Uncut

LEMMA ErrorHeadersRInv ==
    ASSUME RInv, NEW status, error_headers(status)
    PROVE  RInv'
<1> USE DEF RInv
<1>0. /\ setup' = setup /\ First' = First /\ Last' = Last /\ mishaps' = mishaps /\ pc = "headers" /\ pc' = "error_body"
      /\ UNCHANGED <<version, target, cursor, m_total_downloaded, m_is_hashing_started, m_hash_provider,
                     m_current_location, asked, written, ex, origin, outcome>>
      /\ incoming' = <<"error", "text">>
      /\ download_info' = [download_info EXCEPT !.reset_target = TRUE, !.populated = FALSE]
  BY DEF error_headers, service, stream, hashing, history, First, Last, Step
<1>1. incoming' \in Seq(Content) /\ Len(incoming') = 2
  BY <1>0 DEF Content
<1>2. /\ download_info'.total_written = download_info.total_written /\ download_info'.reset_target
      /\ ~download_info'.populated /\ download_info'.md5 = download_info.md5
      /\ download_info' \in [populated : BOOLEAN, total_written : Nat, md5 : SUBSET Seq(Content),
                             crc64 : SUBSET Seq(Content), reset_target : BOOLEAN]
  BY <1>0 DEF Typed
<1>3. Typed'
  BY <1>0, <1>1, <1>2 DEF Typed
<1>4. ASSUME Uncut PROVE Position' /\ Located' /\ WholeMD5' /\ Arrived'
  <2>1. Position' /\ Located'
    BY <1>0, <1>1, <1>2, <1>4 DEF Position, Located
  <2>2. WholeMD5'
    BY <1>0, <1>2, <1>4 DEF WholeMD5, Bytes
  <2>3. Arrived'
    BY <1>0 DEF Arrived, Typed
  <2> QED
    BY <2>1, <2>2, <2>3
<1>5. OneVersion'
  BY <1>0, <1>2 DEF OneVersion, Resumable
<1> QED
  BY <1>0, <1>3, <1>4, <1>5 DEF Uncut

LEMMA ErrorReceivedRInv == ASSUME RInv, error_received PROVE RInv'
<1> USE DEF RInv
<1>0. /\ setup' = setup /\ First' = First /\ Last' = Last /\ mishaps' = mishaps /\ pc = "error_body"
      /\ pc' = "final" /\ ex' = "retryable" /\ ~m_is_hashing_started' /\ Written(incoming) /\ Start \in Nat
      /\ UNCHANGED <<version, download_info, m_total_downloaded, m_current_location, m_location_mode, asked, incoming,
                     origin, outcome>>
  BY RangeDownloadAssumption DEF error_received, service, place, history, First, Last, Fail, Step
<1>1. /\ target' \in Seq(Content) /\ cursor' = cursor + Len(incoming) /\ written' = Len(incoming) /\ Len(incoming) \in Nat
      /\ Len(target') >= cursor'
  BY <1>0, WrittenFacts DEF Typed
<1>2. Typed'
  <2>1. cursor' \in Nat /\ cursor' >= Start
    BY <1>0, <1>1 DEF Typed
  <2> QED
    BY <1>0, <1>1, <2>1 DEF Typed
<1>3. ASSUME Uncut PROVE Position' /\ Located' /\ WholeMD5' /\ Arrived'
  <2>1. Len(incoming) = 2 /\ download_info.reset_target /\ m_total_downloaded \in Nat
    BY <1>0, <1>3 DEF Position, Typed
  <2>2. Position'
    BY <1>0, <1>1, <2>1 DEF Position
  <2>3. Located'
    BY <1>0, <1>3, <2>1 DEF Located
  <2>4. WholeMD5' /\ Arrived'
    BY <1>0, <1>3 DEF WholeMD5, Arrived, Typed, Bytes
  <2> QED
    BY <2>2, <2>3, <2>4
<1>4. mishaps = {} => OneVersion'
  <2>1. mishaps = {} => download_info.reset_target /\ OneVersion
    BY <1>0 DEF Position, Uncut
  <2>2. Received' = Received
    BY <1>0 DEF Received
  <2> QED
    BY <1>0, <2>1, <2>2 DEF OneVersion, Resumable
<1> QED
  BY <1>0, <1>2, <1>3, <1>4 DEF Uncut

(* More bytes of the same version at the position.                         *)
LEMMA HoldsMore ==
    ASSUME Typed, Start \in Nat, First' = First, UNCHANGED Received,
           cursor - Start = asked - First, Holds(cursor - Start, Received),
           NEW bytes \in Seq(Content), Written(bytes),
           \A j \in 1..Len(bytes) : bytes[j] = <<Received, asked + j - 1>>
    PROVE  Holds(cursor - Start, Received)'
<1>1. /\ target' \in Seq(Content) /\ cursor' = cursor + Len(bytes) /\ Len(bytes) \in Nat /\ Len(target') >= cursor'
      /\ \A i \in 1..cursor : target'[i] = target[i]
      /\ \A i \in 1..Len(bytes) : target'[cursor + i] = bytes[i]
  BY WrittenFacts
<1>2. cursor \in Nat /\ cursor >= Start /\ asked \in Nat /\ First \in Nat /\ Len(target') \in Nat
  BY <1>1, LenProperties DEF Typed
<1>3. ASSUME NEW i \in 1..cursor' - Start PROVE target'[Start + i] = <<Received, First + i - 1>>
  <2>1. CASE i <= cursor - Start
    <3>1. i \in 1..cursor - Start /\ Start + i \in 1..cursor
      BY <1>1, <1>2, <2>1
    <3>2. target[Start + i] = <<Received, First + i - 1>>
      BY <3>1 DEF Holds
    <3> QED
      BY <1>1, <3>1, <3>2
  <2>2. CASE ~(i <= cursor - Start)
    <3> DEFINE j == i - (cursor - Start)
    <3>1. j \in 1..Len(bytes) /\ Start + i = cursor + j /\ asked + j - 1 = First + i - 1
      BY <1>1, <1>2, <2>2
    <3> HIDE DEF j
    <3> QED
      BY <1>1, <3>1
  <2> QED
    BY <2>1, <2>2
<1>4. Len(target') >= Start + (cursor' - Start)
  BY <1>1, <1>2
<1> QED
  BY <1>3, <1>4 DEF Holds

LEMMA InterruptedRInv ==
    ASSUME RInv, NEW k \in 0..BlobLength, interrupted(k)
    PROVE  RInv'
<1> USE DEF RInv
<1> DEFINE bytes == SubSeq(incoming, 1, k)
<1>0. /\ setup' = setup /\ First' = First /\ Last' = Last /\ pc \in {"headers", "body", "error_body"}
      /\ pc' = "final" /\ ex' = "retryable" /\ Written(bytes) /\ Start \in Nat /\ k <= Len(incoming)
      /\ mishaps' = (IF pc = "error_body" THEN mishaps \cup {"cut"} ELSE mishaps)
      /\ UNCHANGED <<version, download_info, m_total_downloaded, m_is_hashing_started, m_current_location,
                     m_location_mode, asked, incoming, origin, outcome>>
  BY RangeDownloadAssumption DEF interrupted, service, place, First, Last, Fail, Step
<1>1. bytes \in Seq(Content) /\ Len(bytes) = k /\ k \in Nat /\ \A j \in 1..k : bytes[j] = incoming[j]
  <2>1. incoming \in Seq(Content) /\ k \in Nat /\ Len(incoming) \in Nat /\ k <= Len(incoming)
    BY <1>0, LenProperties, RangeDownloadAssumption DEF Typed
  <2>2. \A i \in 1..k : incoming[i] \in Content
    BY <2>1, ElementOfSeq
  <2>3. /\ bytes \in Seq(Content) /\ Len(bytes) = (IF 1 <= k THEN k - 1 + 1 ELSE 0)
        /\ \A i \in 1..k - 1 + 1 : bytes[i] = incoming[1 + i - 1]
    BY <2>1, <2>2, SubSeqProperties
  <2>4. \A i \in 1..k : i \in 1..k - 1 + 1 /\ 1 + i - 1 = i
    BY <2>1
  <2> HIDE DEF bytes
  <2> QED
    BY <2>1, <2>3, <2>4
<1> HIDE DEF bytes
<1>2. /\ target' \in Seq(Content) /\ cursor' = cursor + k /\ written' = k /\ Len(target') >= cursor'
  BY <1>0, <1>1, WrittenFacts
<1>3. Typed'
  <2>1. cursor' \in Nat /\ cursor' >= Start
    BY <1>0, <1>1, <1>2 DEF Typed
  <2> QED
    BY <1>0, <1>1, <1>2, <2>1 DEF Typed
<1>4. CASE pc = "error_body"
  BY <1>0, <1>3, <1>4 DEF Uncut
<1>5. CASE pc # "error_body"
  <2>0. mishaps' = mishaps
    BY <1>0, <1>5
  <2>1. ASSUME Uncut PROVE Position'
    <3>1. /\ cursor = Start + download_info.total_written /\ m_total_downloaded = download_info.total_written
          /\ m_is_hashing_started /\ ~download_info.reset_target
      BY <1>0, <1>5, <2>1 DEF Position
    <3> QED
      BY <1>0, <1>1, <1>2, <3>1 DEF Position
  <2>2. ASSUME Uncut PROVE Located'
    <3>1. ASSUME ~download_info.populated PROVE m_total_downloaded + k = 0
      <4>1. pc = "headers"
        BY <1>0, <1>5, <2>2, <3>1 DEF Located
      <4>2. incoming = <<>> /\ m_total_downloaded = 0
        BY <2>2, <3>1, <4>1 DEF Located, Position
      <4> QED
        BY <1>0, <1>1, <4>2
    <3> QED
      BY <1>0, <1>2, <2>2, <3>1 DEF Located
  <2>3. ASSUME Uncut PROVE WholeMD5' /\ Arrived'
    BY <1>0, <2>3 DEF WholeMD5, Arrived, Typed, Bytes
  <2>4. ASSUME mishaps = {} PROVE OneVersion'
    <3>1. OneVersion /\ Position /\ Uncut /\ UNCHANGED Received
      BY <1>0, <2>4 DEF Uncut, Received
    <3>2. Holds(cursor - Start, Received) /\ cursor - Start = asked - First
      <4>1. Holds(cursor - Start, Received)
        BY <1>0, <1>5, <3>1 DEF OneVersion, Resumable
      <4>2. cursor - Start = asked - First
        BY <1>0, <1>5, <3>1 DEF Position, Typed
      <4> QED
        BY <4>1, <4>2
    <3>3. \A j \in 1..Len(bytes) : bytes[j] = <<Received, asked + j - 1>>
      <4>1. CASE pc = "headers"
        BY <1>0, <1>1, <3>1, <4>1 DEF Position
      <4>2. CASE pc = "body"
        <5>1. incoming = Bytes(Received, asked, Last) /\ Received \in Nat /\ asked \in Nat /\ Last \in Nat /\ asked <= Last
          BY <2>4, <3>1, <4>2 DEF OneVersion, Position, Located, Typed
        <5>2. Len(incoming) = Last - asked + 1 /\ \A i \in 1..Last - asked + 1 : incoming[i] = <<Received, asked + i - 1>>
          BY <5>1, BytesFacts
        <5>3. \A j \in 1..k : j \in 1..Last - asked + 1
          BY <1>0, <1>1, <5>1, <5>2
        <5> QED
          BY ONLY <1>1, <5>2, <5>3
      <4> QED
        BY <1>0, <1>5, <4>1, <4>2
    <3>4. Holds(cursor - Start, Received)'
      BY <1>0, <1>1, <3>1, <3>2, <3>3, HoldsMore
    <3> QED
      BY <1>0, <3>1, <3>4 DEF OneVersion
  <2> QED
    BY <1>3, <2>0, <2>1, <2>2, <2>3, <2>4 DEF Uncut
<1> QED
  BY <1>4, <1>5

(* A body from asked = a to Last = l takes the position to the end.        *)
LEMMA BodyLength ==
    ASSUME NEW s \in Nat, NEW t \in Nat, NEW f \in Nat, NEW l \in Nat,
           NEW c, NEW a, NEW n, NEW e, a = f + t, c = s + t, n = l - a + 1, e = c + n
    PROVE  /\ c - s = a - f /\ e - s = l - f + 1
           /\ n = l - f + 1 => a = f /\ c = s /\ e = s + (l - f + 1)
OBVIOUS

LEMMA ReceivedRInv ==
    ASSUME RInv, NEW corrupt \in BOOLEAN, NEW stray \in BOOLEAN, received(corrupt, stray)
    PROVE  RInv'
<1> USE DEF RInv
<1> DEFINE bytes == IF corrupt THEN [incoming EXCEPT ![1] = <<0, 0>>] ELSE incoming
           hash == m_hash_provider \o bytes
<1>0. /\ setup' = setup /\ First' = First /\ Last' = Last /\ pc = "body" /\ pc' = "final"
      /\ Written(bytes) /\ Start \in Nat /\ ~m_is_hashing_started'
      /\ ex' = (IF mismatch(hash, stray) THEN "retryable" ELSE "none")
      /\ mishaps' = (IF corrupt THEN mishaps \cup {"corrupted"} ELSE mishaps)
      /\ download_info' = [download_info EXCEPT !.reset_target = TRUE, !.populated = FALSE]
      /\ UNCHANGED <<version, m_total_downloaded, m_current_location, asked, incoming, origin, outcome>>
  BY RangeDownloadAssumption DEF received, service, First, Last, Fail, Step
<1>1. bytes \in Seq(Content) /\ Len(bytes) = Len(incoming) /\ Len(incoming) \in Nat
  <2>1. incoming \in Seq(Content)
    BY DEF Typed
  <2>2. CASE Len(incoming) = 0 \/ ~corrupt
    <3>1. incoming = <<>> \/ Len(incoming) # 0
      BY <2>1, EmptySeq
    <3>2. incoming = <<>> => [incoming EXCEPT ![1] = <<0, 0>>] = incoming
      OBVIOUS
    <3> QED
      BY <2>1, <2>2, <3>1, <3>2, LenProperties
  <2>3. CASE Len(incoming) # 0 /\ corrupt
    <3>1. 1 \in 1..Len(incoming) /\ <<0, 0>> \in Content
      BY <2>1, <2>3, LenProperties DEF Content
    <3> QED
      BY <2>1, <2>3, <3>1, ExceptSeq, LenProperties
  <2> QED
    BY <2>2, <2>3
<1> HIDE DEF bytes
<1>2. /\ target' \in Seq(Content) /\ cursor' = cursor + Len(incoming) /\ written' = Len(incoming) /\ Len(target') >= cursor'
      /\ \A i \in 1..Len(bytes) : target'[cursor + i] = bytes[i]
  BY <1>0, <1>1, WrittenFacts
<1>3. /\ download_info'.total_written = download_info.total_written /\ download_info'.reset_target
      /\ ~download_info'.populated /\ download_info'.md5 = download_info.md5
      /\ download_info' \in [populated : BOOLEAN, total_written : Nat, md5 : SUBSET Seq(Content),
                             crc64 : SUBSET Seq(Content), reset_target : BOOLEAN]
  BY <1>0 DEF Typed
<1>4. Typed'
  <2>1. cursor' \in Nat /\ cursor' >= Start
    BY <1>0, <1>1, <1>2 DEF Typed
  <2> QED
    BY <1>0, <1>1, <1>2, <1>3, <2>1 DEF Typed
<1>5. ASSUME Uncut
      PROVE  /\ asked = First + download_info.total_written /\ cursor = Start + download_info.total_written /\ asked <= Last
             /\ Len(incoming) = Last - asked + 1 /\ m_hash_provider = <<>>
             /\ asked \in Nat /\ First \in Nat /\ Last \in Nat /\ cursor \in Nat /\ download_info.total_written \in Nat
  BY <1>0, <1>5 DEF Position, Typed
<1>6. ASSUME Uncut PROVE Position' /\ Located' /\ WholeMD5'
  <2>1. Position'
    <3>1. m_total_downloaded \in Nat /\ m_total_downloaded + written' > 0
      BY <1>2, <1>5, <1>6 DEF Typed
    <3> QED
      BY <1>0, <1>3, <3>1 DEF Position
  <2>2. Located'
    BY <1>0, <1>3 DEF Located
  <2>3. WholeMD5'
    BY <1>0, <1>3, <1>6 DEF WholeMD5, Bytes
  <2> QED
    BY <2>1, <2>2, <2>3
<1>7. ASSUME mishaps' = {} PROVE Holds(Last - First + 1, Received)' /\ Received' \in 1..Versions
  <2>1. mishaps = {} /\ Uncut /\ ~corrupt /\ UNCHANGED Received
    BY <1>0, <1>7 DEF Uncut, Received
  <2>2. incoming = Bytes(Received, asked, Last) /\ Received \in 1..Versions /\ Holds(cursor - Start, Received)
    BY <1>0, <2>1 DEF OneVersion, Located, Resumable
  <2>3. \A j \in 1..Len(bytes) : bytes[j] = <<Received, asked + j - 1>>
    <3>1. Received \in Nat /\ asked \in Nat /\ Last \in Nat /\ asked <= Last /\ bytes = Bytes(Received, asked, Last)
      BY <1>5, <2>1, <2>2, RangeDownloadAssumption DEF bytes
    <3>2. /\ Len(Bytes(Received, asked, Last)) = Last - asked + 1
          /\ \A i \in 1..Last - asked + 1 : Bytes(Received, asked, Last)[i] = <<Received, asked + i - 1>>
      BY <3>1, BytesFacts
    <3> QED
      BY ONLY <3>1, <3>2
  <2>4. cursor - Start = asked - First /\ cursor' - Start = Last - First + 1
    <3>1. PICK t \in Nat : t = download_info.total_written
      BY <1>5, <2>1
    <3>2. /\ asked = First + t /\ cursor = Start + t
          /\ Len(incoming) = Last - asked + 1 /\ cursor' = cursor + Len(incoming)
          /\ First \in Nat /\ Last \in Nat /\ Start \in Nat
      BY <1>0, <1>2, <1>5, <2>1, <3>1
    <3> QED
      BY <3>2, BodyLength
  <2>5. Holds(cursor - Start, Received)'
    BY <1>0, <1>1, <2>1, <2>2, <2>3, <2>4, HoldsMore
  <2> QED
    BY <1>0, <2>1, <2>2, <2>4, <2>5 DEF Holds
<1>8. ASSUME Uncut, md5_compared, ~mismatch(hash, stray)
      PROVE  \E v \in 1..Versions : Holds(Last - First + 1, v)'
  <2>1. download_info.md5 = {hash} /\ download_info.md5 # {}
    BY <1>8 DEF mismatch, md5_compared
  <2>2. hash = bytes
    BY <1>1, <1>5, <1>8, ConcatEmptySeq
  <2>3. PICK v \in 1..Versions : bytes = Bytes(v, First, Last)
    BY <1>8, <2>1, <2>2 DEF WholeMD5
  <2>4. /\ Len(bytes) = Last - First + 1 /\ \A i \in 1..Last - First + 1 : bytes[i] = <<v, First + i - 1>>
    <3>1. v \in Nat /\ First \in Nat /\ Last \in Nat /\ First <= Last
      BY RangeDownloadAssumption DEF Typed
    <3>2. /\ Len(Bytes(v, First, Last)) = Last - First + 1
          /\ \A i \in 1..Last - First + 1 : Bytes(v, First, Last)[i] = <<v, First + i - 1>>
      BY <3>1, BytesFacts
    <3> QED
      BY ONLY <2>3, <3>2
  <2>5. asked = First /\ cursor = Start /\ cursor' = Start + (Last - First + 1)
    <3>1. PICK t \in Nat : t = download_info.total_written
      BY <1>5, <1>8
    <3>2. /\ asked = First + t /\ cursor = Start + t
          /\ Len(bytes) = Last - asked + 1 /\ Len(bytes) = Last - First + 1 /\ cursor' = cursor + Len(bytes)
          /\ First \in Nat /\ Last \in Nat /\ Start \in Nat
      BY <1>0, <1>1, <1>2, <1>5, <1>8, <2>4, <3>1
    <3> QED
      BY <3>2, BodyLength
  <2>6. Holds(Last - First + 1, v)'
    BY <1>0, <1>2, <2>4, <2>5 DEF Holds
  <2> QED
    BY <2>6
<1>9. ASSUME Uncut PROVE Arrived'
  <2>1. md5_compared' <=> md5_compared
    BY <1>0, <1>3 DEF md5_compared, calculated_md5
  <2>2. outcome' # "returned"
    BY <1>0 DEF Typed
  <2>3. HoldsRange' <=> \E v \in 1..Versions : Holds(Last - First + 1, v)'
    BY DEF HoldsRange
  <2> QED
    BY <1>0, <1>7, <1>8, <1>9, <2>1, <2>2, <2>3 DEF Arrived, HoldsRange
<1>10. OneVersion'
  BY <1>0, <1>3 DEF OneVersion, Resumable
<1>11. Uncut' => Uncut
  BY <1>0 DEF Uncut
<1> QED
  BY <1>4, <1>6, <1>9, <1>10, <1>11

LEMMA FinalRInv == ASSUME RInv, final PROVE RInv'
<1> USE DEF RInv
<1> DEFINE next == get_next_location(m_current_location_mode, m_current_location)
           info == evaluate(m_retry_count, m_max_attempts, m_request_result, next, m_current_location_mode)
           total == m_total_downloaded + written
           refused == download_info.reset_target /\ total > 0 /\ ~setup.can_seek
<1>0. /\ setup' = setup /\ First' = First /\ Last' = Last /\ mishaps' = mishaps /\ pc = "final" /\ ex' = "none" /\ Start \in Nat
      /\ UNCHANGED <<version, target, m_is_hashing_started, m_hash_provider, m_location_mode, asked, incoming, written, origin>>
      /\ outcome # "returned"
  BY RangeDownloadAssumption DEF final, service, answer, history, First, Last, Typed
<1>1. next \in Locations /\ (info.should_retry => info.target_location \in Locations)
  BY DEF get_next_location, Other, evaluate, retry_info, no_retry, Locations
<1>2. CASE ~(ex = "retryable" /\ info.should_retry)
  <2>1. /\ pc' = "done" /\ (outcome' = "returned" => ex = "none")
        /\ UNCHANGED <<m_current_location, m_total_downloaded, download_info, cursor>>
    BY <1>2 DEF final, End
  <2>2. Typed'
    BY <1>0, <2>1 DEF Typed
  <2>3. ASSUME Uncut PROVE Position' /\ Located' /\ WholeMD5' /\ Arrived'
    <3>1. Position' /\ Located' /\ WholeMD5'
      BY <1>0, <2>1, <2>3 DEF Position, Located, WholeMD5, Bytes
    <3>2. Arrived'
      BY <1>0, <2>1, <2>3 DEF Arrived, md5_compared, calculated_md5, HoldsRange, Holds
    <3> QED
      BY <3>1, <3>2
  <2>4. OneVersion => OneVersion'
    BY <1>0, <2>1 DEF OneVersion, Resumable, Received, Holds
  <2> QED
    BY <1>0, <2>2, <2>3, <2>4 DEF Uncut
<1>3. CASE ex = "retryable" /\ info.should_retry
  <2>0. /\ m_current_location' \in Locations /\ m_should_restart_hash_provider' /\ m_total_downloaded' = total
        /\ total \in Nat
        /\ IF refused
           THEN /\ download_info' = [download_info EXCEPT !.total_written = 0]
                /\ UNCHANGED cursor /\ End("faulted")
           ELSE recover_request(total) /\ Step("send")
    <3>1. total \in Nat
      BY DEF Typed
    <3> HIDE DEF total, refused, info, next
    <3> QED
      BY <1>1, <1>3, <3>1 DEF final, total, refused, info, next
  <2> HIDE DEF total, info, next
  <2>1. CASE refused
    <3>1. /\ pc' = "done" /\ outcome' = "faulted" /\ cursor' = cursor
          /\ download_info' = [download_info EXCEPT !.total_written = 0]
      BY <2>0, <2>1 DEF End
    <3>2. /\ download_info'.md5 = download_info.md5 /\ download_info'.populated = download_info.populated
          /\ download_info' \in [populated : BOOLEAN, total_written : Nat, md5 : SUBSET Seq(Content),
                                 crc64 : SUBSET Seq(Content), reset_target : BOOLEAN]
      BY <3>1 DEF Typed
    <3>3. Typed'
      BY <1>0, <2>0, <3>1, <3>2 DEF Typed
    <3>4. Uncut => Position' /\ Located' /\ WholeMD5' /\ Arrived'
      BY <1>0, <3>1, <3>2 DEF Position, Located, WholeMD5, Arrived, Bytes
    <3>5. OneVersion => OneVersion'
      BY <1>0, <3>1, <3>2 DEF OneVersion, Resumable, Received
    <3> QED
      BY <1>0, <3>3, <3>4, <3>5 DEF Uncut
  <2>2. CASE ~refused
    <3>0. pc' = "send" /\ outcome' = outcome /\ recover_request(total)
      BY <2>0, <2>2 DEF Step
    <3>1. CASE download_info.reset_target
      <4>1. /\ download_info' = [download_info EXCEPT !.total_written = 0, !.reset_target = FALSE]
            /\ cursor' = IF total > 0 THEN Start ELSE cursor
        BY <3>0, <3>1 DEF recover_request
      <4>2. /\ download_info'.md5 = download_info.md5 /\ download_info'.populated = download_info.populated
            /\ download_info'.total_written = 0 /\ ~download_info'.reset_target
            /\ download_info' \in [populated : BOOLEAN, total_written : Nat, md5 : SUBSET Seq(Content),
                                   crc64 : SUBSET Seq(Content), reset_target : BOOLEAN]
        BY <4>1 DEF Typed
      <4>3. Typed'
        <5>1. cursor' \in Nat /\ cursor' >= Start /\ Len(target) >= cursor'
          BY <1>0, <4>1, LenProperties DEF Typed
        <5> QED
          BY <1>0, <2>0, <3>0, <4>2, <5>1 DEF Typed
      <4>4. ASSUME Uncut PROVE cursor' = Start /\ ~m_is_hashing_started
        BY <1>0, <1>3, <3>1, <4>1, <4>4 DEF Position, total
      <4>5. ASSUME Uncut PROVE Position' /\ Located' /\ WholeMD5' /\ Arrived'
        <5>1. Position' /\ Located'
          BY <1>0, <2>0, <3>0, <4>2, <4>4, <4>5 DEF Position, Located
        <5>2. WholeMD5' /\ Arrived'
          BY <1>0, <3>0, <4>2, <4>5 DEF WholeMD5, Arrived, Bytes
        <5> QED
          BY <5>1, <5>2
      <4>6. ASSUME mishaps = {} PROVE OneVersion'
        <5>1. cursor' = Start /\ OneVersion
          BY <4>4, <4>6 DEF Uncut
        <5>2. Holds(cursor - Start, Received)'
          <6>1. cursor' - Start = 0 /\ Len(target) >= Start + 0
            BY <1>0, <5>1, LenProperties DEF Typed
          <6> QED
            BY <1>0, <6>1 DEF Holds
        <5> QED
          BY <1>0, <3>0, <4>2, <5>1, <5>2 DEF OneVersion, Received
      <4> QED
        BY <1>0, <4>3, <4>5, <4>6 DEF Uncut
    <3>2. CASE ~download_info.reset_target
      <4>1. download_info' = [download_info EXCEPT !.total_written = total] /\ UNCHANGED cursor
        BY <3>0, <3>2 DEF recover_request
      <4>2. /\ download_info'.md5 = download_info.md5 /\ download_info'.populated = download_info.populated
            /\ download_info'.total_written = total /\ ~download_info'.reset_target
            /\ download_info' \in [populated : BOOLEAN, total_written : Nat, md5 : SUBSET Seq(Content),
                                   crc64 : SUBSET Seq(Content), reset_target : BOOLEAN]
        BY <2>0, <3>2, <4>1 DEF Typed
      <4>3. Typed'
        BY <1>0, <2>0, <3>0, <4>1, <4>2 DEF Typed
      <4>4. ASSUME Uncut
            PROVE  cursor = Start + total /\ m_is_hashing_started /\ (~download_info.populated => total = 0)
        <5>1. cursor = Start + m_total_downloaded + written /\ m_is_hashing_started
          BY <1>0, <1>3, <3>2, <4>4 DEF Position
        <5>2. ~download_info.populated => total = 0
          BY <1>0, <1>3, <3>2, <4>4 DEF Located, total
        <5>3. Start + m_total_downloaded + written = Start + total
          BY <1>0 DEF Typed, total
        <5> QED
          BY <5>1, <5>2, <5>3
      <4>5. ASSUME Uncut PROVE Position' /\ Located' /\ WholeMD5' /\ Arrived'
        <5>1. Position'
          BY <1>0, <2>0, <3>0, <4>1, <4>2, <4>4, <4>5 DEF Position
        <5>2. Located'
          BY <1>0, <3>0, <4>2, <4>4, <4>5 DEF Located
        <5>3. WholeMD5' /\ Arrived'
          BY <1>0, <3>0, <4>2, <4>5 DEF WholeMD5, Arrived, Bytes
        <5> QED
          BY <5>1, <5>2, <5>3
      <4>6. ASSUME mishaps = {} PROVE OneVersion'
        <5>1. OneVersion /\ Resumable /\ Received' = Received
          BY <1>0, <1>3, <3>2, <4>6 DEF Resumable, Received
        <5> QED
          BY <1>0, <3>0, <4>1, <4>2, <5>1 DEF OneVersion, Holds
      <4> QED
        BY <1>0, <4>3, <4>5, <4>6 DEF Uncut
    <3> QED
      BY <3>1, <3>2
  <2> QED
    BY <2>1, <2>2
<1> QED
  BY <1>2, <1>3

LEMMA ServiceRInv == ASSUME RInv, overwrite \/ replicate \/ UNCHANGED vars PROVE RInv'
<1> USE DEF RInv
<1>0. /\ setup' = setup /\ First' = First /\ Last' = Last /\ mishaps \subseteq mishaps'
      /\ (mishaps' = {} => setup.if_match \/ version' = version)
      /\ UNCHANGED <<target, cursor, download_info, m_total_downloaded, m_is_hashing_started, m_should_restart_hash_provider,
                     m_hash_provider, m_current_location, m_location_mode, asked, incoming, written, pc, ex, outcome, origin>>
  BY DEF overwrite, replicate, Changed, vars, service, stream, hashing, place, answer, history, First, Last
<1>1. version' \in [Locations -> 0..Versions]
  <2>1. CASE overwrite
    <3>1. version["primary"] + 1 \in 0..Versions
      BY <2>1, RangeDownloadAssumption DEF overwrite, Typed, Locations
    <3> QED
      BY <2>1, <3>1 DEF overwrite, Typed
  <2>2. CASE replicate
    BY <2>2 DEF replicate, Typed, Locations
  <2>3. CASE UNCHANGED vars
    BY <2>3 DEF vars, service, Typed
  <2> QED
    BY <2>1, <2>2, <2>3
<1>2. Typed'
  BY <1>0, <1>1 DEF Typed
<1>3. ASSUME Uncut PROVE Position' /\ Located' /\ WholeMD5' /\ Arrived'
  <2>1. Position' /\ Located' /\ WholeMD5'
    BY <1>0, <1>3 DEF Position, Located, WholeMD5, Bytes
  <2>2. mishaps' = {} => mishaps = {}
    BY <1>0
  <2>3. Arrived'
    BY <1>0, <1>3, <2>2 DEF Arrived, md5_compared, calculated_md5, HoldsRange, Holds
  <2> QED
    BY <2>1, <2>3
<1>4. ASSUME mishaps' = {} PROVE OneVersion'
  <2>1. OneVersion /\ Received' = Received
    BY <1>0, <1>4 DEF Received
  <2> QED
    BY <1>0, <2>1 DEF OneVersion, Resumable, Holds, Bytes
<1> QED
  BY <1>0, <1>2, <1>3, <1>4 DEF Uncut
-----------------------------------------------------------------------------
(* The counters, the location and the bytes agree in every state.          *)
THEOREM RangeInvariant == Spec => []RInv
<1>1. RInv /\ [Next]_vars => RInv'
  BY SendRInv, HeadersRInv, ErrorHeadersRInv, ErrorReceivedRInv, InterruptedRInv, ReceivedRInv, FinalRInv, ServiceRInv
    DEF Next
<1> QED
  BY <1>1, InitRInv, PTL DEF Spec

(* A retried download asks for the byte its target waits for.              *)
THEOREM RetryResumesInPlace == Spec => []ResumesInPlace
<1>1. RInv => ResumesInPlace
  <2> SUFFICES ASSUME RInv, pc = "headers", Uncut
               PROVE  /\ cursor - Start = asked - First
                      /\ mishaps = {} => \E v \in 1..Versions : Holds(cursor - Start, v)
    BY DEF ResumesInPlace, Uncut
  <2>1. PICK t \in Nat : t = download_info.total_written
    BY DEF RInv, Typed
  <2>2. /\ cursor = Start + t /\ asked = First + t /\ First \in Nat /\ Start \in Nat /\ Versions \in Nat \ {0}
        /\ (~download_info.populated => t = 0) /\ Typed
    BY <2>1, RangeDownloadAssumption DEF RInv, Position, Located, Typed
  <2>3. cursor - Start = t /\ asked - First = t
    BY <2>2
  <2>4. ASSUME mishaps = {} PROVE \E v \in 1..Versions : Holds(cursor - Start, v)
    <3>1. CASE download_info.populated
      BY <2>4, <3>1 DEF RInv, OneVersion, Resumable
    <3>2. CASE ~download_info.populated
      <4>1. cursor - Start = 0 /\ Len(target) >= Start + 0
        BY <2>2, <2>3, <3>2, LenProperties DEF Typed
      <4>2. 1 \in 1..Versions /\ Holds(cursor - Start, 1)
        BY <2>2, <4>1 DEF Holds
      <4> QED
        BY <4>2
    <3> QED
      BY <3>1, <3>2
  <2> QED
    BY <2>3, <2>4
<1> QED
  BY <1>1, RangeInvariant, PTL

(* It asks the location that has sent the first part.                      *)
THEOREM RetryStaysAtLocation == Spec => []ResumesAtSameLocation
<1>1. RInv => ResumesAtSameLocation
  <2> SUFFICES ASSUME RInv, pc = "headers", Uncut, asked > First PROVE m_current_location = origin
    BY DEF ResumesAtSameLocation, Uncut
  <2>1. download_info.total_written # 0
    BY DEF RInv, Position, Typed
  <2> QED
    BY <2>1 DEF RInv, Located
<1> QED
  BY <1>1, RangeInvariant, PTL

(* A download that returns has put the range of one version into the       *)
(* target, for every interleaving of retries, overwrites and damage.       *)
THEOREM ReturnedRangeIsIntact == Spec => []RangeIntact
<1>1. RInv => RangeIntact
  BY DEF RInv, Arrived, RangeIntact, Uncut
<1> QED
  BY <1>1, RangeInvariant, PTL

-----------------------------------------------------------------------------
(* The input stream.                                                       *)

BlobBytes == {0, 1} \X Int

(* A hash that can still be compared covers the blob up to the next range, *)
(* ends with what the buffer holds, has in it whatever was damaged on the  *)
(* way to the reader, and after the last range has been compared.          *)
Covers(h, o) ==
    /\ h \in Seq(BlobBytes) /\ Len(h) = o.next /\ Len(o.data) <= Len(h)
    /\ \A i \in 1..Len(o.data) : o.data[i] = h[Len(h) - Len(o.data) + i]
    /\ damaged => \E i \in 1..Len(h) : h[i][1] = 0
    /\ o.next = size => \A i \in 1..size : h[i] = <<1, i - 1>>

(* What every outcome of download() satisfies ...                          *)
Fit(o) ==
    /\ o.data \in Seq(BlobBytes) /\ o.head \in 0..Len(o.data)
    /\ o.offset \in Nat /\ o.next \in 0..size
    /\ o.ex \/ \A h \in o.hash : Covers(h, o)

(* ... and one that leaves a reader in step: the buffer holds the blob     *)
(* from the stream's offset to the next range, and the reader is in it.    *)
Right(o) ==
    /\ o.next = o.offset + Len(o.data)
    /\ o.offset + o.head = at
    /\ \A i \in 1..Len(o.data) : o.data[i] \in {<<0, o.offset + i - 1>>, <<1, o.offset + i - 1>>}

(* The inductive invariant says so of the members as they are.             *)
Delivered == \A b \in last.bytes : b[2] \in {<<0, b[1]>>, <<1, b[1]>>}
SInv ==
    /\ size \in Nat /\ m_next_buffer_size \in Nat \ {0} /\ at \in Int
    /\ Fit(Unmoved)
    /\ trusted => Right(Unmoved) /\ Delivered
    /\ last.how = "end" => ~m_currentException

(* The stream is opened at the start of the blob with an empty buffer.     *)
LEMMA SInit == IInit => SInv
<1> SUFFICES ASSUME IInit PROVE SInv
  OBVIOUS
<1>1. /\ Unmoved.data = <<>> /\ Unmoved.head = 0 /\ Unmoved.offset = 0 /\ Unmoved.next = 0
      /\ Unmoved.hash \in {{}, {<<>>}} /\ size \in Nat
  BY InputAssumption DEF IInit, Unmoved
<1>2. ASSUME NEW h \in Unmoved.hash PROVE Covers(h, Unmoved)
  <2>1. h = <<>> /\ ~damaged
    BY <1>1, <1>2 DEF IInit
  <2> QED
    BY <1>1, <2>1 DEF Covers
<1>3. Fit(Unmoved)
  BY <1>1, <1>2 DEF Fit
<1>4. Right(Unmoved)
  BY <1>1 DEF Right, IInit
<1>5. last.bytes = {} /\ last.how = "none"
  BY DEF IInit, Result
<1> QED
  BY <1>1, <1>3, <1>4, <1>5, InputAssumption DEF SInv, Delivered, IInit

(* How much download() asks for.                                           *)
LEMMA ReadSize ==
    ASSUME SInv
    PROVE  /\ read_size \in Nat /\ m_next_blob_offset \in 0..size
           /\ m_next_blob_offset + read_size \in 0..size
           /\ read_size = 0 => m_next_blob_offset = size
  BY DEF SInv, Fit, Unmoved, read_size

(* A range that came extends the hash, and the last one lets it be         *)
(* compared.                                                               *)
LEMMA FetchedFits ==
    ASSUME SInv, NEW v \in {0, 1}
    PROVE  /\ Fit(Fetched(DownloadedRange(v)))
           /\ trusted /\ in_avail = 0 => Right(Fetched(DownloadedRange(v)))
<1> DEFINE o == Fetched(DownloadedRange(v))
           n == read_size
           from == m_next_blob_offset
<1>1. n \in Nat /\ from \in 0..size /\ from + n \in 0..size /\ size \in Nat
  BY ReadSize DEF SInv
<1>2. /\ DownloadedRange(v) \in Seq(BlobBytes) /\ Len(DownloadedRange(v)) = n
      /\ \A i \in 1..n : DownloadedRange(v)[i] = <<v, from + i - 1>>
  <2>1. DownloadedRange(v) = [i \in 1..n |-> <<v, from + i - 1>>]
    BY Zenon DEF DownloadedRange
  <2>2. \A i \in 1..n : <<v, from + i - 1>> \in BlobBytes
    BY <1>1 DEF BlobBytes
  <2> HIDE DEF n, from
  <2>3. DownloadedRange(v) \in [1..n -> BlobBytes]
    BY <2>1, <2>2
  <2>4. DownloadedRange(v) \in Seq(BlobBytes) /\ Len(DownloadedRange(v)) = n
    BY <1>1, <2>3
  <2> QED
    BY <2>1, <2>4
<1>3. /\ o.data = DownloadedRange(v) /\ o.head = 0 /\ o.offset = from /\ o.next = from + n
      /\ o.hash = {h \o DownloadedRange(v) : h \in m_blob_hash_provider}
      /\ o.ex = (m_currentException \/ md5_mismatch(o.hash, from + n))
  BY DEF Fetched
<1> HIDE DEF o, n
<1>4. ASSUME ~o.ex, NEW g \in o.hash PROVE Covers(g, o)
  <2>1. PICK h \in m_blob_hash_provider : g = h \o DownloadedRange(v)
    BY <1>3
  <2>2. Covers(h, Unmoved)
    BY <1>3, <1>4 DEF SInv, Fit, Unmoved
  <2>3. h \in Seq(BlobBytes) /\ Len(h) = from /\ (damaged => \E i \in 1..Len(h) : h[i][1] = 0)
    BY <2>2 DEF Covers, Unmoved
  <2>4. /\ g \in Seq(BlobBytes) /\ Len(g) = from + n
        /\ \A i \in 1..from : g[i] = h[i]
        /\ \A i \in 1..n : g[from + i] = DownloadedRange(v)[i]
    <3>1. /\ h \o DownloadedRange(v) \in Seq(BlobBytes) /\ Len(h \o DownloadedRange(v)) = from + n
          /\ \A i \in 1..from + n : (h \o DownloadedRange(v))[i] = IF i <= from THEN h[i] ELSE DownloadedRange(v)[i - from]
      BY <1>2, <2>3, ConcatProperties
    <3>2. from \in Nat /\ n \in Nat
      BY <1>1
    <3>3. \A i \in 1..from : i \in 1..from + n /\ i <= from
      BY <3>2
    <3>4. \A i \in 1..n : from + i \in 1..from + n /\ ~(from + i <= from) /\ (from + i) - from = i
      BY <3>2
    <3> HIDE DEF from
    <3> QED
      BY <2>1, <3>1, <3>3, <3>4
  <2>5. \A i \in 1..Len(o.data) : o.data[i] = g[Len(g) - Len(o.data) + i]
    <3>1. Len(g) - Len(o.data) = from /\ Len(o.data) = n
      BY <1>1, <1>2, <1>3, <2>4
    <3> QED
      BY <1>3, <2>4, <3>1
  <2>6. damaged => \E i \in 1..Len(g) : g[i][1] = 0
    BY <1>1, <2>3, <2>4
  <2>7. o.next = size => \A i \in 1..size : g[i] = <<1, i - 1>>
    BY <1>3, <1>4 DEF md5_mismatch
  <2> QED
    BY <1>1, <1>2, <1>3, <2>4, <2>5, <2>6, <2>7 DEF Covers
<1>5. Fit(o)
  <2>1. o.data \in Seq(BlobBytes) /\ Len(o.data) \in Nat /\ o.head \in 0..Len(o.data)
    BY <1>1, <1>2, <1>3
  <2>2. o.offset \in Nat /\ o.next \in 0..size
    BY <1>1, <1>3
  <2> QED
    BY <1>4, <2>1, <2>2 DEF Fit
<1>6. ASSUME trusted, in_avail = 0 PROVE Right(o)
  <2>1. from = at
    BY <1>6 DEF SInv, Right, Fit, Unmoved, in_avail
  <2>2. Len(o.data) = n /\ o.offset = at /\ o.next = from + n /\ o.head = 0 /\ from \in Int
    BY <1>1, <1>2, <1>3, <2>1
  <2>3. \A i \in 1..n : o.data[i] \in {<<0, from + i - 1>>, <<1, from + i - 1>>}
    BY <1>2, <1>3
  <2> QED
    BY <2>1, <2>2, <2>3 DEF Right
<1> QED
  BY <1>5, <1>6 DEF o

(* Every outcome of download_if_necessary fits, and the reader is in step  *)
(* with those that InStep admits.                                          *)
LEMMA OutcomesFit ==
    ASSUME SInv, NEW needed, NEW o \in download_if_necessary(needed)
    PROVE  Fit(o) /\ (trusted /\ InStep(o) => Right(o))
<1>1. CASE o = Unmoved
  BY <1>1 DEF SInv
<1>2. CASE read_size = 0 /\ o = [Unmoved EXCEPT !.offset = m_next_blob_offset]
  <2>1. /\ o.data = Unmoved.data /\ o.head = Unmoved.head /\ o.next = Unmoved.next
        /\ o.hash = Unmoved.hash /\ o.ex = Unmoved.ex /\ o.offset = m_next_blob_offset
    BY <1>2 DEF Unmoved
  <2>2. m_next_blob_offset = size /\ size \in Nat
    BY <1>2, ReadSize DEF SInv
  <2>3. Fit(o)
    <3>1. \A h : Covers(h, Unmoved) => Covers(h, o)
      BY <2>1 DEF Covers
    <3> QED
      BY <2>1, <2>2, <3>1 DEF SInv, Fit
  <2>4. InStep(o) => o = Unmoved
    BY <2>1, <2>2 DEF InStep
  <2> QED
    BY <1>1, <2>3, <2>4
<1>3. CASE o = Lost
  <2>1. /\ o.data = <<>> /\ o.head = 0 /\ o.offset = m_next_blob_offset
        /\ o.next = m_next_blob_offset + read_size /\ o.ex = TRUE
    BY <1>3 DEF Lost, Fetched
  <2>2. Fit(o)
    BY <2>1, ReadSize DEF Fit
  <2>3. InStep(o) => o = Unmoved
    BY <2>1 DEF InStep
  <2> QED
    BY <1>1, <2>2, <2>3
<1>4. CASE \E v \in {0, 1} : o = Fetched(DownloadedRange(v))
  <2>1. Fit(o)
    BY <1>4, FetchedFits
  <2>2. InStep(o) => in_avail = 0 \/ o = Unmoved
    BY DEF InStep
  <2> QED
    BY <1>1, <1>4, <2>1, <2>2, FetchedFits
<1> QED
  BY <1>1, <1>2, <1>3, <1>4 DEF download_if_necessary, download

(* What is then delivered from the buffer.                                 *)
LEMMA DeliverKeeps ==
    ASSUME SInv, NEW o, Fit(o), NEW from \in SUBSET (Nat \ {0}), NEW n \in Nat, Deliver(o, from, n),
           trusted' => Right(o)
    PROVE  SInv'
<1> DEFINE taken == {k \in from : o.head + k <= Len(o.data)}
           step == IF o.head + n <= Len(o.data) THEN n ELSE Len(o.data) - o.head
           bytes == {<<at + k - 1, o.data[o.head + k]>> : k \in taken}
<1>1. /\ m_current_blob_offset' = o.offset /\ m_next_blob_offset' = o.next
      /\ m_buffer' = o.data /\ head' = o.head + step
      /\ m_blob_hash_provider' = o.hash /\ m_currentException' = o.ex
      /\ at' = at + step
      /\ last' = Result(bytes, IF bytes # {} THEN "read" ELSE IF o.ex THEN "thrown" ELSE "end")
      /\ damaged' = (damaged \/ \E b \in bytes : b[2][1] = 0)
      /\ size' = size /\ m_next_buffer_size' = m_next_buffer_size
  BY DEF Deliver, blob
<1>2. /\ o.data \in Seq(BlobBytes) /\ o.head \in 0..Len(o.data) /\ Len(o.data) \in Nat
      /\ o.offset \in Nat /\ o.next \in 0..size /\ size \in Nat /\ at \in Int
  BY DEF Fit, SInv
<1>3. step \in Int /\ o.head + step \in 0..Len(o.data)
  BY <1>2
<1>4. \A k \in taken : o.head + k \in 1..Len(o.data)
  BY <1>2
<1>5. last'.bytes = bytes /\ (last'.how = "end" => ~o.ex)
  BY <1>1 DEF Result
<1> HIDE DEF step, taken
<1>6. /\ Unmoved'.data = o.data /\ Unmoved'.head = o.head + step /\ Unmoved'.offset = o.offset
      /\ Unmoved'.next = o.next /\ Unmoved'.hash = o.hash /\ Unmoved'.ex = o.ex
  BY <1>1 DEF Unmoved
<1>7. ASSUME NEW h \in o.hash, Covers(h, o) PROVE Covers(h, Unmoved)'
  <2>1. ASSUME damaged' PROVE \E i \in 1..Len(h) : h[i][1] = 0
    <3>1. CASE damaged
      BY <1>7, <3>1 DEF Covers
    <3>2. CASE \E b \in bytes : b[2][1] = 0
      <4>1. PICK k \in taken : o.data[o.head + k][1] = 0
        BY <3>2
      <4>2. h[Len(h) - Len(o.data) + (o.head + k)][1] = 0
        BY <1>4, <1>7, <4>1 DEF Covers
      <4>3. Len(h) - Len(o.data) + (o.head + k) \in 1..Len(h)
        BY <1>2, <1>4, <1>7 DEF Covers
      <4> QED
        BY <4>2, <4>3
    <3> QED
      BY <1>1, <2>1, <3>1, <3>2
  <2> QED
    BY <1>1, <1>6, <1>7, <2>1 DEF Covers
<1>8. Fit(Unmoved)'
  BY <1>1, <1>2, <1>3, <1>6, <1>7 DEF Fit
<1>9. ASSUME trusted' PROVE Right(Unmoved)' /\ Delivered'
  <2>1. Right(o)
    BY <1>9
  <2>2. Right(Unmoved)'
    <3>1. Unmoved'.next = Unmoved'.offset + Len(Unmoved'.data)
      BY <1>6, <2>1 DEF Right
    <3>2. Unmoved'.offset + Unmoved'.head = at'
      <4>1. o.offset + o.head = at
        BY <2>1 DEF Right
      <4>2. Unmoved'.offset = o.offset /\ Unmoved'.head = o.head + step /\ at' = at + step
        BY <1>1, <1>6
      <4>3. o.offset \in Int /\ o.head \in Int /\ step \in Int
        BY <1>2, <1>3
      <4>4. o.offset + (o.head + step) = (o.offset + o.head) + step
        BY <4>3
      <4> QED
        BY <4>1, <4>2, <4>4
    <3>3. \A i \in 1..Len(o.data) : o.data[i] \in {<<0, o.offset + i - 1>>, <<1, o.offset + i - 1>>}
      BY <2>1 DEF Right
    <3> QED
      BY <1>6, <3>1, <3>2, <3>3 DEF Right
  <2>3. ASSUME NEW b \in bytes PROVE b[2] \in {<<0, b[1]>>, <<1, b[1]>>}
    <3>1. PICK k \in taken : b = <<at + k - 1, o.data[o.head + k]>>
      BY <2>3
    <3>2. o.data[o.head + k] \in {<<0, o.offset + (o.head + k) - 1>>, <<1, o.offset + (o.head + k) - 1>>}
      BY <1>4, <2>1 DEF Right
    <3>3. o.offset + (o.head + k) - 1 = at + k - 1
      BY <1>2, <2>1 DEF Right, taken
    <3> QED
      BY <3>1, <3>2, <3>3
  <2> QED
    BY <1>5, <2>2, <2>3 DEF Delivered
<1> QED
  BY <1>1, <1>2, <1>3, <1>5, <1>8, <1>9 DEF SInv

(* A step that keeps what is buffered and hashed, and moves the reader and *)
(* the stream together.                                                    *)
LEMMA MoveKeeps ==
    ASSUME SInv, UNCHANGED <<size, m_current_blob_offset, m_next_blob_offset, m_buffer, checks>>,
           damaged' => damaged \/ \E i \in 1..Len(m_buffer) : m_buffer[i][1] = 0,
           m_next_buffer_size' \in Nat \ {0}, head' \in 0..Len(m_buffer), at' \in Int,
           trusted' => trusted /\ at' = m_current_blob_offset + head' /\ Delivered',
           last'.how # "end" \/ last' = last
    PROVE  SInv'
<1>1. /\ Unmoved'.data = Unmoved.data /\ Unmoved'.head = head' /\ Unmoved'.offset = Unmoved.offset
      /\ Unmoved'.next = Unmoved.next /\ Unmoved'.hash = Unmoved.hash /\ Unmoved'.ex = Unmoved.ex
      /\ Unmoved.data = m_buffer /\ Unmoved.offset = m_current_blob_offset
  BY DEF Unmoved, checks
<1>2. ASSUME NEW h, Covers(h, Unmoved) PROVE Covers(h, Unmoved)'
  <2>1. ASSUME NEW i \in 1..Len(m_buffer), m_buffer[i][1] = 0 PROVE \E j \in 1..Len(h) : h[j][1] = 0
    <3>1. h[Len(h) - Len(m_buffer) + i][1] = 0
      BY <1>1, <1>2, <2>1 DEF Covers
    <3>2. Len(h) - Len(m_buffer) + i \in 1..Len(h)
      BY <1>1, <1>2 DEF Covers, SInv, Fit
    <3> QED
      BY <3>1, <3>2
  <2>2. damaged' => \E i \in 1..Len(h) : h[i][1] = 0
    BY <1>2, <2>1 DEF Covers
  <2> QED
    BY <1>1, <1>2, <2>2 DEF Covers
<1>3. Fit(Unmoved)'
  BY <1>1, <1>2 DEF SInv, Fit
<1>4. trusted' => Right(Unmoved)'
  BY <1>1 DEF SInv, Right
<1> QED
  BY <1>3, <1>4 DEF SInv, checks

(* Every call of the reader, and the other client.                         *)
LEMMA SNext == SInv /\ [INext]_ivars => SInv'
<1> SUFFICES ASSUME SInv, [INext]_ivars PROVE SInv'
  OBVIOUS
<1>0. /\ size \in Nat /\ m_next_buffer_size \in Nat \ {0} /\ at \in Int
      /\ m_buffer \in Seq(BlobBytes) /\ Len(m_buffer) \in Nat /\ head \in 0..Len(m_buffer)
      /\ m_current_blob_offset \in Nat /\ m_next_blob_offset \in 0..size
      /\ Fit(Unmoved) /\ (trusted => at = m_current_blob_offset + head /\ Delivered)
  BY DEF SInv, Fit, Right, Unmoved
<1>1. ASSUME NEW needed, NEW from \in SUBSET (Nat \ {0}), NEW n \in Nat, Read(needed, from, n)
      PROVE  SInv'
  <2>1. PICK o \in download_if_necessary(needed) : Deliver(o, from, n) /\ trusted' = (trusted /\ InStep(o))
    BY <1>1 DEF Read
  <2> QED
    BY <2>1, OutcomesFit, DeliverKeeps
<1>2. ASSUME NEW from \in SUBSET (Nat \ {0}), NEW n \in Nat, ReadBuffered(from, n)
      PROVE  SInv'
  BY <1>2, DeliverKeeps DEF ReadBuffered, SInv
<1>3. CASE _bumpc \/ _getc \/ _nextc \/ \E count \in 1..3 : _getn(count)
  BY <1>1, <1>3 DEF _bumpc, _getc, _nextc, _getn
<1>4. CASE _sbumpc \/ _sgetc \/ \E count \in 1..3 : _scopy(count)
  BY <1>2, <1>4 DEF _sbumpc, _sgetc, _scopy
<1>5. CASE _ungetc
  <2>1. /\ head > 0 /\ head' = head - 1 /\ at' = at - 1
        /\ last' = Result({<<at - 1, m_buffer[head]>>}, "read")
        /\ damaged' = (damaged \/ m_buffer[head][1] = 0)
        /\ UNCHANGED <<size, m_current_blob_offset, m_next_blob_offset, m_buffer, checks, m_next_buffer_size, trusted>>
    BY <1>5 DEF _ungetc, blob, offsets
  <2>2. head \in 1..Len(m_buffer) /\ head' \in 0..Len(m_buffer) /\ at' \in Int
    BY <1>0, <2>1
  <2>3. last'.bytes = {<<at - 1, m_buffer[head]>>} /\ last'.how = "read"
    BY <2>1 DEF Result
  <2>4. ASSUME trusted PROVE at' = m_current_blob_offset + head' /\ Delivered'
    <3>1. m_buffer[head] \in {<<0, m_current_blob_offset + head - 1>>, <<1, m_current_blob_offset + head - 1>>}
      BY <2>2, <2>4 DEF SInv, Right, Unmoved
    <3>2. m_current_blob_offset + head - 1 = at - 1
      BY <1>0, <2>4
    <3>3. Delivered'
      BY <2>3, <3>1, <3>2 DEF Delivered
    <3>4. at' = m_current_blob_offset + head'
      BY <1>0, <2>1, <2>4
    <3> QED
      BY <3>3, <3>4
  <2> QED
    BY <1>0, <2>1, <2>2, <2>3, <2>4, MoveKeeps
<1>6. CASE overwrite_blob
  <2>1. UNCHANGED <<size, m_current_blob_offset, m_next_blob_offset, m_buffer, head, checks, m_next_buffer_size,
                    at, last, trusted, damaged>>
    BY <1>6 DEF overwrite_blob, offsets, buffer
  <2> QED
    BY <1>0, <2>1, MoveKeeps DEF Delivered
<1>7. ASSUME NEW n \in BufferSizes, set_buffer_size(n) PROVE SInv'
  <2>1. /\ m_next_buffer_size' = n /\ last'.how = "none" /\ last'.bytes = {}
        /\ UNCHANGED <<size, m_current_blob_offset, m_next_blob_offset, m_buffer, head, checks, at, trusted, damaged>>
    BY <1>7 DEF set_buffer_size, Result, blob, offsets, buffer
  <2> QED
    BY <1>0, <2>1, MoveKeeps, InputAssumption DEF Delivered
<1>8. ASSUME NEW pos \in Int, seekpos(pos) PROVE SInv'
  <2>1. /\ last'.how = "none" /\ last'.bytes = {}
        /\ UNCHANGED <<size, m_next_buffer_size, m_currentException, damaged>>
    BY <1>8 DEF seekpos, Result, blob
  <2>2. CASE /\ in_buffer_seek(pos) /\ head' = pos - m_current_blob_offset /\ at' = pos
             /\ UNCHANGED <<offsets, m_buffer, m_blob_hash_provider, trusted>>
    <3>1. head' \in 0..Len(m_buffer) /\ at' \in Int /\ at' = m_current_blob_offset + head'
      BY <1>0, <2>2 DEF in_buffer_seek
    <3> QED
      BY <1>0, <2>1, <2>2, <3>1, MoveKeeps DEF Delivered, offsets, checks
  <2>3. CASE pos \in 0..size /\ relocate(pos) /\ at' = pos
    <3>1. /\ Unmoved'.data = <<>> /\ Unmoved'.head = 0 /\ Unmoved'.offset = pos
          /\ Unmoved'.next = pos /\ Unmoved'.hash = {}
      BY <2>3 DEF relocate, Unmoved
    <3>2. Fit(Unmoved)'
      BY <1>0, <2>1, <2>3, <3>1 DEF Fit
    <3>3. Right(Unmoved)'
      BY <1>0, <2>3, <3>1 DEF Right
    <3> QED
      BY <1>0, <2>1, <2>3, <3>2, <3>3 DEF SInv, Delivered
  <2>4. CASE UNCHANGED <<offsets, m_buffer, head, m_blob_hash_provider, at, trusted>>
    BY <1>0, <2>1, <2>4, MoveKeeps DEF Delivered, offsets, checks
  <2> QED
    BY <1>8, <2>2, <2>3, <2>4 DEF seekpos
<1>9. ASSUME NEW offset \in -2..2, seekoff(offset) PROVE SInv'
  BY <1>0, <1>8, <1>9 DEF seekoff, getpos
<1>10. CASE UNCHANGED ivars
  <2>1. UNCHANGED <<size, m_current_blob_offset, m_next_blob_offset, m_buffer, head, checks, m_next_buffer_size,
                    at, last, trusted, damaged>>
    BY <1>10 DEF ivars, blob, offsets, buffer
  <2> QED
    BY <1>0, <2>1, MoveKeeps DEF Delivered
<1> QED
  BY <1>3, <1>4, <1>5, <1>6, <1>7, <1>9, <1>10 DEF INext

(* Reads, seeks and buffer sizes in any order deliver the bytes at the     *)
(* reader's position, and no end of the blob follows a damaged byte that   *)
(* the MD5 should have caught.                                             *)
THEOREM ReadsAreIntact == ISpec => []ReadsIntact
<1>1. SInv => ReadsIntact
  <2> SUFFICES ASSUME SInv PROVE ReadsIntact
    OBVIOUS
  <2>1. ASSUME trusted PROVE Delivered /\ getpos = at
    BY <2>1 DEF SInv, Right, Unmoved, getpos
  <2>2. ASSUME last.how = "end", m_next_blob_offset = size, m_blob_hash_provider # {} PROVE ~damaged
    <3>1. PICK h \in m_blob_hash_provider : TRUE
      BY <2>2
    <3>2. Covers(h, Unmoved) /\ Unmoved.next = size
      BY <2>2 DEF SInv, Fit, Unmoved
    <3>3. Len(h) = size /\ \A i \in 1..size : h[i][1] = 1
      BY <3>2 DEF Covers
    <3> QED
      BY <3>2, <3>3 DEF Covers
  <2> QED
    BY <2>1, <2>2 DEF ReadsIntact, Delivered
<1> QED
  BY <1>1, SInit, SNext, PTL DEF ISpec
=============================================================================
