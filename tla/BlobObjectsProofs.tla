-------------------------- MODULE BlobObjectsProofs --------------------------
(***************************************************************************)
(* What the blob service's objects promise, for any number of callers,     *)
(* calls, lost answers and changes by other clients.                       *)
(***************************************************************************)
EXTENDS BlobObjects, StorageCommandProofs

-----------------------------------------------------------------------------
(* What the builders put into a request.                                   *)

(* The headers of blob requests that are no condition's.                   *)
LEMMA BlobHeaders ==
  {"content", "public_access", "action", "proposed", "duration",
   "break_period", "delete_snapshots", "copy_source", "tier", "copy_id",
   "block_id", "blocks", "filter", "size", "seq", "seq_action", "range",
   "page_write", "prevsnapshot", "source_if_match", "source_if_none_match",
   "source_if_modified_since", "source_if_unmodified_since"}
  \cap Reserved = {}
  BY DEF Reserved, EtagHeaders, Special

(* A builder that threw builds nothing that could be wrong.                *)
LEMMA ThrownBuilt ==
  /\ Thrown(invalid_argument)
  /\ \A r, m, comp, cond, hs :
       Thrown(r) => /\ Unconditional(r, m, comp, hs)
                    /\ Built(r, m, comp, cond, hs)
                    /\ BuiltLease(r, m, comp, cond, hs)
  BY DEF Thrown, invalid_argument, base_request, Unconditional, Built, BuiltLease

SnapshotHeader(snapshot_time) == IF snapshot_time = Empty THEN {} ELSE {"snapshot"}

(* add_snapshot_time: the header is there if there is a time.              *)
LEMMA SnapshotTime ==
  ASSUME NEW m, NEW comp, NEW time, m # "throw"
  PROVE  LET r == add_snapshot_time(base_request(m, comp), time)
         IN /\ Unconditional(r, m, comp, SnapshotHeader(time))
            /\ time # Empty => Has(r, "snapshot")
  BY DEF add_snapshot_time, add_optional_header, add_optional_headers, base_request,
     Thrown, Over, Has, Unconditional, IsRequest, EtagHeaders, Special, SnapshotHeader

(* The requests on containers.                                             *)
LEMMA ContainerRequests ==
  ASSUME NEW access_type, NEW metadata, NEW cond
  PROVE  /\ Built(delete_blob_container(cond), "DEL", "container", cond, {})
         /\ Built(get_blob_container_properties(cond), "HEAD", "container", cond, {})
         /\ BuiltLease(get_blob_container_acl(cond), "GET", "acl", cond, {})
         /\ BuiltLease(set_blob_container_acl(access_type, cond), "PUT", "acl", cond, {})
         /\ Unconditional(create_blob_container(access_type, metadata), "PUT", "container", {})
         /\ Built(set_blob_container_metadata(metadata, cond), "PUT", "metadata", cond, {})
<1>1. Built(delete_blob_container(cond), "DEL", "container", cond, {})
  BY BaseRequest, AccessConditionBuilt DEF delete_blob_container
<1>2. Built(get_blob_container_properties(cond), "HEAD", "container", cond, {})
  BY BaseRequest, AccessConditionBuilt DEF get_blob_container_properties
<1>3. BuiltLease(get_blob_container_acl(cond), "GET", "acl", cond, {})
  BY BaseRequest, LeaseIdBuilt DEF get_blob_container_acl
<1>4. BuiltLease(set_blob_container_acl(access_type, cond), "PUT", "acl", cond, {})
  BY BaseRequest, LeaseIdBuilt, UnconditionalOption, BlobHeaders
  DEF set_blob_container_acl, add_blob_container_public_access_type
<1>5. Unconditional(create_blob_container(access_type, metadata), "PUT", "container", {})
  BY BaseRequest, UnconditionalOption, UnconditionalMetadata, BlobHeaders
  DEF create_blob_container, add_blob_container_public_access_type
<1>6. Built(set_blob_container_metadata(metadata, cond), "PUT", "metadata", cond, {})
  BY BaseRequest, UnconditionalMetadata, AccessConditionBuilt
  DEF set_blob_container_metadata, set_blob_metadata
<1> QED
  BY <1>1, <1>2, <1>3, <1>4, <1>5, <1>6


(* The lease builders name their action.                                   *)
LEMMA LeaseRequests ==
  ASSUME NEW action, NEW proposed, NEW duration, NEW period, NEW cond
  PROVE  LET r == lease_blob(action, proposed, duration, period, cond)
             q == lease_blob_container(action, proposed, duration, period, cond)
         IN /\ Built(r, "PUT", "lease", cond, {}) /\ Has(r, "action") /\ r["action"] = action
            /\ BuiltLease(q, "PUT", "lease", cond, {}) /\ Has(q, "action") /\ q["action"] = action
<1> DEFINE base == base_request("PUT", "lease")
           values == [proposed |-> proposed,
                      duration |-> IF action = "acquire" THEN duration ELSE Empty,
                      break_period |-> IF action = "break" THEN period ELSE Empty]
           named == add_header(base, "action", action)
           l == add_optional_headers(named, values)
           etags == [if_match |-> cond.if_match_etag,
                     if_none_match |-> cond.if_none_match_etag,
                     if_modified_since |-> cond.if_modified_since,
                     if_unmodified_since |-> cond.if_not_modified_since]
           id == [h \in {"lease_id"} |-> cond.lease_id]
<1>1. lease(action, proposed, duration, period) = l
  BY DEF lease
<1>2. DOMAIN values = {"proposed", "duration", "break_period"}
  OBVIOUS
<1>3. ~Thrown(base) /\ DOMAIN base = {"method", "comp"}
  BY DEF base_request, Thrown
<1> HIDE DEF values, base, etags, id
<1>4. /\ ~Thrown(named) /\ Has(named, "action") /\ named["action"] = action
      /\ "method" \in DOMAIN named
  BY <1>3, OneHeader DEF Has
<1>5. /\ ~Thrown(l) /\ Has(l, "action") /\ l["action"] = action
      /\ "method" \in DOMAIN l
  BY <1>4, OptionalHeaders DEF Has
<1>6. Unconditional(l, "PUT", "lease", {})
  BY <1>2, BaseRequest, UnconditionalHeader, UnconditionalHeaders, BlobHeaders DEF base
<1> HIDE DEF l
<1>7. /\ lease_blob_container(action, proposed, duration, period, cond) = add_lease_id(l, cond)
      /\ lease_blob(action, proposed, duration, period, cond) = add_access_condition(l, cond)
  BY <1>1 DEF lease_blob_container, lease_blob
<1>8. /\ add_lease_id(l, cond) = add_optional_headers(l, id)
      /\ add_access_condition(l, cond)
           = add_optional_headers(add_optional_headers(l, etags), id)
  BY DEF add_lease_id, add_access_condition, add_optional_header, etags, id
<1>9. \A v : LET a == add_optional_headers(l, v)
             IN Has(a, "action") /\ a["action"] = action
  BY <1>5, OptionalHeaders DEF Has
<1>10. LET a == add_optional_headers(add_optional_headers(l, etags), id)
       IN Has(a, "action") /\ a["action"] = action
  BY <1>9, OptionalHeaders DEF Has
<1> QED
  BY <1>6, <1>7, <1>8, <1>9, <1>10, LeaseIdBuilt, AccessConditionBuilt

(* add_sequence_number_condition: a header only where there is one.        *)
LEMMA SequenceNumberBuilt ==
  ASSUME NEW r, NEW comp, NEW cond, Unconditional(r, "PUT", comp, {})
  PROVE  LET a == add_sequence_number_condition(r, cond)
         IN /\ Unconditional(a, "PUT", comp, {"if_seq"})
            /\ cond.seq_operator = "none" => Unconditional(a, "PUT", comp, {})
<1> DEFINE one == add_header(r, "if_seq", cond.seq_operator)
           two == add_header(one, "if_seq_number", cond.seq_number)
<1>1. Unconditional(one, "PUT", comp, {"if_seq"})
  BY OneHeader DEF Unconditional, IsRequest, EtagHeaders, Special, Has
<1>2. Unconditional(two, "PUT", comp, {"if_seq"})
  <2>1. "if_seq_number" \notin Reserved
    BY DEF Reserved, EtagHeaders, Special
  <2> QED
    BY <1>1, <2>1, UnconditionalHeader
<1> HIDE DEF two
<1>3. add_sequence_number_condition(r, cond) = IF cond.seq_operator = "none" THEN r ELSE two
  BY DEF add_sequence_number_condition, two
<1> QED
  BY <1>2, <1>3 DEF Unconditional

(* add_append_condition: the headers of the conditions that are set.       *)
LEMMA AppendBuilt ==
  ASSUME NEW comp, NEW cond
  PROVE  LET a == add_append_condition(base_request("PUT", comp), cond)
         IN /\ Unconditional(a, "PUT", comp, {"max_size", "append_position"})
            /\ cond.max_size = -1 /\ cond.append_position = -1
                 => Unconditional(a, "PUT", comp, {})
  BY DEF add_append_condition, base_request, Over, Unconditional, IsRequest, EtagHeaders,
     Special, Has, Thrown

(* The requests on blobs of every type.                                    *)
LEMMA BlobRequestsBuilt ==
  ASSUME NEW time, NEW metadata, NEW content, NEW option, NEW tier, NEW id, NEW cond,
         NEW source, NEW source_condition
  PROVE  /\ Built(get_blob_properties(time, cond), "HEAD", "blob", cond, SnapshotHeader(time))
         /\ Built(set_blob_metadata(metadata, cond), "PUT", "metadata", cond, {})
         /\ Built(set_blob_properties(content, metadata, cond), "PUT", "properties", cond, {})
         /\ Built(delete_blob(option, time, cond), "DEL", "blob", cond, SnapshotHeader(time))
         /\ Built(copy_blob(source, tier, source_condition, metadata, cond),
                  "PUT", "copy", cond, {})
         /\ BuiltLease(abort_copy_blob(id, cond), "PUT", "abort", cond, {})
         /\ Built(snapshot_blob(metadata, cond), "PUT", "snapshot", cond, {})
         /\ Built(set_blob_tier(tier, cond), "PUT", "tier", cond, {})
<1>1. Built(get_blob_properties(time, cond), "HEAD", "blob", cond, SnapshotHeader(time))
  BY SnapshotTime, AccessConditionBuilt DEF get_blob_properties
<1>2. Built(set_blob_metadata(metadata, cond), "PUT", "metadata", cond, {})
  BY BaseRequest, UnconditionalMetadata, AccessConditionBuilt DEF set_blob_metadata
<1>3. Built(set_blob_properties(content, metadata, cond), "PUT", "properties", cond, {})
  BY BaseRequest, UnconditionalMetadata, UnconditionalOption, BlobHeaders,
     AccessConditionBuilt DEF set_blob_properties, add_properties
<1>4. Built(delete_blob(option, time, cond), "DEL", "blob", cond, SnapshotHeader(time))
  BY SnapshotTime, UnconditionalOption, BlobHeaders, AccessConditionBuilt, ThrownBuilt
  DEF delete_blob
<1>5. Built(copy_blob(source, tier, source_condition, metadata, cond), "PUT", "copy", cond, {})
  <2> DEFINE values == [source_if_match |-> source_condition.if_match_etag,
               source_if_none_match |-> source_condition.if_none_match_etag,
               source_if_modified_since |-> source_condition.if_modified_since,
               source_if_unmodified_since |-> source_condition.if_not_modified_since]
             base == add_optional_header(add_header(base_request("PUT", "copy"),
                                                    "copy_source", source), "tier", tier)
             r == add_source_access_condition(base, source_condition)
  <2>1. DOMAIN values = {"source_if_match", "source_if_none_match",
                         "source_if_modified_since", "source_if_unmodified_since"}
    OBVIOUS
  <2>2. r = IF source_condition.lease_id # Empty THEN invalid_argument
            ELSE add_optional_headers(base, values)
    BY DEF add_source_access_condition
  <2> HIDE DEF values
  <2>3. Unconditional(base, "PUT", "copy", {})
    BY BaseRequest, UnconditionalHeader, UnconditionalOption, BlobHeaders
  <2> HIDE DEF base
  <2>4. Unconditional(add_optional_headers(base, values), "PUT", "copy", {})
    <3>1. DOMAIN values \cap Reserved = {}
      BY <2>1, BlobHeaders
    <3> QED
      BY <2>3, <3>1, UnconditionalHeaders
  <2>5. Unconditional(r, "PUT", "copy", {})
    BY <2>2, <2>4, ThrownBuilt
  <2>6. copy_blob(source, tier, source_condition, metadata, cond)
          = add_metadata(add_access_condition(r, cond), metadata)
    BY DEF copy_blob, base
  <2> QED
    BY <2>5, <2>6, AccessConditionBuilt, MetadataBuilt
<1>6. BuiltLease(abort_copy_blob(id, cond), "PUT", "abort", cond, {})
  BY BaseRequest, UnconditionalHeader, BlobHeaders, LeaseIdBuilt DEF abort_copy_blob
<1>7. Built(snapshot_blob(metadata, cond), "PUT", "snapshot", cond, {})
  BY BaseRequest, UnconditionalMetadata, AccessConditionBuilt DEF snapshot_blob
<1>8. Built(set_blob_tier(tier, cond), "PUT", "tier", cond, {})
  BY BaseRequest, UnconditionalHeader, BlobHeaders, AccessConditionBuilt DEF set_blob_tier
<1> QED
  BY <1>1, <1>2, <1>3, <1>4, <1>5, <1>6, <1>7, <1>8


(* Deleting a snapshot names it.                                           *)
LEMMA DeleteNamesSnapshot ==
  ASSUME NEW option, NEW time, NEW cond, time # Empty,
         ~Thrown(delete_blob(option, time, cond))
  PROVE  Has(delete_blob(option, time, cond), "snapshot")
<1> DEFINE base == add_snapshot_time(base_request("DEL", "blob"), time)
           marked == add_optional_header(base, "delete_snapshots", option)
<1>1. "snapshot" \in DOMAIN base
  BY SnapshotTime DEF Has
<1>2. \A r, v : "snapshot" \in DOMAIN r => "snapshot" \in DOMAIN add_optional_headers(r, v)
  BY OptionalHeaders DEF Has
<1>3. "snapshot" \in DOMAIN marked
  BY <1>1, <1>2 DEF add_optional_header
<1> HIDE DEF base, marked
<1>4. "snapshot" \in DOMAIN add_access_condition(marked, cond)
  BY <1>2, <1>3 DEF add_access_condition, add_lease_id, add_optional_header
<1>5. delete_blob(option, time, cond) = add_access_condition(marked, cond)
  BY ThrownBuilt DEF delete_blob, base, marked
<1> QED
  BY <1>4, <1>5 DEF Has

(* The requests of block, page and append blobs.                           *)
LEMMA BlobTypeRequests ==
  ASSUME NEW time, NEW metadata, NEW content, NEW blocks, NEW tier, NEW id, NEW cond,
         NEW size, NEW seq, NEW action, NEW source, NEW write, NEW previous
  PROVE  /\ BuiltLease(put_block(id, cond), "PUT", "block", cond, {})
         /\ Built(put_block_list(blocks, content, metadata, cond), "PUT", "blocklist", cond, {})
         /\ Built(get_block_list(id, time, cond), "GET", "blocklist", cond, SnapshotHeader(time))
         /\ Built(put_block_blob(content, metadata, cond), "PUT", "block_blob", cond, {})
         /\ Built(put_page_blob(size, tier, seq, content, metadata, cond),
                  "PUT", "page_blob", cond, {})
         /\ Built(resize_page_blob(size, cond), "PUT", "properties", cond, {})
         /\ Built(set_page_blob_sequence_number(action, seq, cond), "PUT", "properties", cond, {})
         /\ Built(get_page_ranges(time, cond), "GET", "pagelist", cond, SnapshotHeader(time))
         /\ Built(get_page_ranges_diff(previous, time, cond), "GET", "pagelist", cond,
                  SnapshotHeader(time))
         /\ Built(put_page(id, write, cond), "PUT", "page", cond, {"if_seq"})
         /\ cond.seq_operator = "none" => Built(put_page(id, write, cond), "PUT", "page", cond, {})
         /\ Built(incremental_copy_blob(source, cond, metadata),
                  "PUT", "incrementalcopy", cond, {})
         /\ Built(put_append_blob(content, metadata, cond), "PUT", "append_blob", cond, {})
         /\ Built(append_block(cond), "PUT", "appendblock", cond, {"max_size", "append_position"})
         /\ cond.max_size = -1 /\ cond.append_position = -1
              => Built(append_block(cond), "PUT", "appendblock", cond, {})
<1>1. BuiltLease(put_block(id, cond), "PUT", "block", cond, {})
  BY BaseRequest, UnconditionalHeader, BlobHeaders, LeaseIdBuilt DEF put_block
<1>2. Built(put_block_list(blocks, content, metadata, cond), "PUT", "blocklist", cond, {})
  BY BaseRequest, UnconditionalHeader, UnconditionalOption, UnconditionalMetadata, BlobHeaders,
     AccessConditionBuilt DEF put_block_list, add_properties
<1>3. Built(get_block_list(id, time, cond), "GET", "blocklist", cond, SnapshotHeader(time))
  <2> DEFINE base == add_header(base_request("GET", "blocklist"), "filter", id)
             values == [h \in {"snapshot"} |-> time]
  <2>1. Unconditional(base, "GET", "blocklist", {})
    BY BaseRequest, UnconditionalHeader, BlobHeaders
  <2>2. DOMAIN values = {"snapshot"} /\ values["snapshot"] = time
    OBVIOUS
  <2> HIDE DEF base, values
  <2>3. Unconditional(add_optional_headers(base, values), "GET", "blocklist",
                      SnapshotHeader(time))
    BY <2>1, <2>2, OptionalHeaders
    DEF Unconditional, IsRequest, EtagHeaders, Special, SnapshotHeader, Has
  <2>4. get_block_list(id, time, cond)
          = add_access_condition(add_optional_headers(base, values), cond)
    BY DEF get_block_list, add_snapshot_time, add_optional_header, base, values
  <2> QED
    BY <2>3, <2>4, AccessConditionBuilt
<1>4. Built(put_block_blob(content, metadata, cond), "PUT", "block_blob", cond, {})
  BY BaseRequest, UnconditionalOption, UnconditionalMetadata, BlobHeaders, AccessConditionBuilt
  DEF put_block_blob, add_properties
<1>5. Built(put_page_blob(size, tier, seq, content, metadata, cond),
            "PUT", "page_blob", cond, {})
  BY BaseRequest, UnconditionalHeader, UnconditionalOption, UnconditionalMetadata, BlobHeaders,
     AccessConditionBuilt DEF put_page_blob, add_properties
<1>6. Built(resize_page_blob(size, cond), "PUT", "properties", cond, {})
  BY BaseRequest, UnconditionalHeader, BlobHeaders, AccessConditionBuilt DEF resize_page_blob
<1>7. Built(set_page_blob_sequence_number(action, seq, cond), "PUT", "properties", cond, {})
  <2> DEFINE base == add_header(base_request("PUT", "properties"), "seq_action", action)
  <2>1. Unconditional(base, "PUT", "properties", {})
    BY BaseRequest, UnconditionalHeader, BlobHeaders
  <2>2. Unconditional(add_header(base, "seq", seq), "PUT", "properties", {})
    BY <2>1, UnconditionalHeader, BlobHeaders
  <2> QED
    BY <2>1, <2>2, AccessConditionBuilt DEF set_page_blob_sequence_number
<1>8. Built(get_page_ranges(time, cond), "GET", "pagelist", cond, SnapshotHeader(time))
  BY SnapshotTime, AccessConditionBuilt DEF get_page_ranges
<1>9. Built(get_page_ranges_diff(previous, time, cond), "GET", "pagelist", cond,
            SnapshotHeader(time))
  BY SnapshotTime, UnconditionalOption, BlobHeaders, AccessConditionBuilt
  DEF get_page_ranges_diff
<1>10. /\ Built(put_page(id, write, cond), "PUT", "page", cond, {"if_seq"})
       /\ cond.seq_operator = "none" => Built(put_page(id, write, cond), "PUT", "page", cond, {})
  BY BaseRequest, UnconditionalHeader, BlobHeaders, SequenceNumberBuilt, AccessConditionBuilt
  DEF put_page
<1>11. Built(incremental_copy_blob(source, cond, metadata), "PUT", "incrementalcopy", cond, {})
  BY BaseRequest, UnconditionalHeader, BlobHeaders, AccessConditionBuilt, MetadataBuilt
  DEF incremental_copy_blob
<1>12. Built(put_append_blob(content, metadata, cond), "PUT", "append_blob", cond, {})
  BY BaseRequest, UnconditionalOption, UnconditionalMetadata, BlobHeaders, AccessConditionBuilt
  DEF put_append_blob, add_properties
<1>13. /\ Built(append_block(cond), "PUT", "appendblock", cond, {"max_size", "append_position"})
       /\ cond.max_size = -1 /\ cond.append_position = -1
            => Built(append_block(cond), "PUT", "appendblock", cond, {})
  BY AppendBuilt, AccessConditionBuilt DEF append_block
<1> QED
  BY <1>1, <1>2, <1>3, <1>4, <1>5, <1>6, <1>7, <1>8, <1>9, <1>10, <1>11, <1>12, <1>13


-----------------------------------------------------------------------------
(* What the service answers.                                               *)

BlobFields == {"there", "etag", "content", "size", "seq", "count", "tier",
               "lease", "type", "meta", "copy", "uncommitted", "blocks",
               "snap_meta"}

ContainerFields == {"there", "etag", "meta", "lease", "access"}

(* The requests that change a blob or a container.                         *)
BlobChanges == {"metadata", "properties", "snapshot", "tier", "copy", "abort",
                "block", "blocklist", "block_blob", "page_blob", "append_blob",
                "appendblock", "page", "incrementalcopy"}

IsLease(r) == r.comp = "lease" /\ r["action"] \in LeaseActions

BlobKnown(r) ==
  \/ Reads(r) /\ r.comp # "lease"
  \/ r.method = "DEL" /\ r.comp # "lease"
  \/ IsLease(r)
  \/ r.method = "PUT" /\ r.comp \in BlobChanges

ContainerKnown(r) ==
  \/ Reads(r) /\ r.comp # "lease"
  \/ r.method = "DEL" /\ r.comp # "lease"
  \/ IsLease(r)
  \/ r.method = "PUT" /\ r.comp \in {"metadata", "acl"}
  \/ /\ r.method = "PUT" /\ r.comp = "container"
     /\ \A h \in EtagHeaders : ~Has(r, h)

(* The requests that leave the version of a blob or container as it is.    *)
KeepsVersion(r) ==
  \/ Reads(r) \/ r.method = "DEL"
  \/ r.comp \in {"lease", "snapshot", "tier", "abort", "block"}

(* What every answer a to r satisfies, on a resource s.                    *)
Answered(a, r, s, fields) ==
  /\ Resource(a.state, fields) /\ a.code \in Codes /\ a.code # NoContent
  /\ a.code # OK => a.state = s
  /\ a.code = NotFound /\ ~Has(r, "snapshot") => ~s.there
  /\ a.code = OK /\ ~Reads(r) => Conditional(r, s)
  /\ a.code = PreconditionFailed /\ OurLeaseOnly(r) => s.lease # OurLease
  /\ KeepsVersion(r) => a.state.etag = s.etag

(* No two status codes are the same, and those below 300 are successes.    *)
LEMMA CodesDiffer ==
  /\ Codes \subseteq Nat /\ \A n \in Codes : Success(n) <=> n \in {OK, NoContent}
  /\ OK # NoContent /\ OK # NotFound /\ OK # Conflict /\ OK # PreconditionFailed
  /\ NotFound # Conflict /\ NotFound # PreconditionFailed /\ Conflict # PreconditionFailed
  /\ OK # BadRequest /\ BadRequest # NotFound /\ BadRequest # PreconditionFailed
  /\ NotFound # NoContent /\ Conflict # NoContent /\ PreconditionFailed # NoContent
  /\ BadRequest # NoContent
  BY DEF Codes, Success, OK, NoContent, NotFound, BadRequest, Conflict, PreconditionFailed

(* A blob put as a whole is a blob with the next version.                  *)
LEMMA PutBlobState ==
  ASSUME NEW r, NEW s, NEW type, s.etag \in Nat
  PROVE  LET p == PutBlob(r, s, type)
         IN Resource(p, BlobFields) /\ p.etag = s.etag + 1
<1> DEFINE base == StoredBlob(type)
<1>1. DOMAIN base = BlobFields /\ base.there = TRUE
  BY DEF StoredBlob, BlobFields
<1> HIDE DEF base
<1>2. DOMAIN PutBlob(r, s, type) = BlobFields
  BY <1>1 DEF PutBlob, base
<1>3. PutBlob(r, s, type).etag = s.etag + 1 /\ PutBlob(r, s, type).there = TRUE
  BY <1>1 DEF PutBlob, base, BlobFields
<1>4. s.etag + 1 \in Nat
  OBVIOUS
<1>5. PutBlob(r, s, type).there \in BOOLEAN
  BY <1>3
<1> QED
  BY <1>2, <1>3, <1>4, <1>5 DEF Resource

(* Deleting a blob, its snapshots, or one of them keeps the version.       *)
LEMMA DeleteAnswer ==
  ASSUME NEW r, NEW s, Resource(s, BlobFields)
  PROVE  LET a == DeleteBlob(r, s)
         IN /\ Resource(a.state, BlobFields) /\ a.state.etag = s.etag
            /\ a.code \in {OK, Conflict}
            /\ a.code = Conflict => a.state = s
            /\ Has(r, "snapshot") => a.state = [s EXCEPT !.snap_meta = Empty]
  BY CodesDiffer DEF DeleteBlob, Reply, Resource, BlobFields


(* Every change of a blob gives a resource, refused or not.                *)
LEMMA ChangeAnswer ==
  ASSUME NEW r, NEW s, Resource(s, BlobFields), r.comp \in BlobChanges
  PROVE  LET a == Change(r, s)
         IN /\ Resource(a.state, BlobFields)
            /\ a.code \in {OK, Conflict, BadRequest, PreconditionFailed}
            /\ a.code # OK => a.state = s
            /\ r.comp \in {"snapshot", "tier", "abort", "block"} => a.state.etag = s.etag
            /\ r.comp = "tier" => a = Reply(OK, [s EXCEPT !.tier = r["tier"]])
            /\ OurLeaseOnly(r) => a.code # PreconditionFailed
<1> DEFINE next == NewVersion(s)
           here == IF s.there THEN s ELSE [StoredBlob("block") EXCEPT
                      !.etag = s.etag, !.there = FALSE, !.size = 0,
                      !.uncommitted = s.uncommitted]
           Good(a, keeps) == /\ Resource(a.state, BlobFields)
                             /\ a.code \in {OK, Conflict, BadRequest, PreconditionFailed}
                             /\ a.code # OK => a.state = s
                             /\ keeps => a.state.etag = s.etag
                             /\ OurLeaseOnly(r) => a.code # PreconditionFailed
<1>1. Resource(next, BlobFields) /\ next.etag = s.etag + 1
  BY DEF NewVersion, Resource, BlobFields
<1>2. Resource(here, BlobFields) /\ here.etag = s.etag
  <2>1. DOMAIN StoredBlob("block") = BlobFields
    BY DEF StoredBlob, BlobFields
  <2>2. CASE s.there
    BY <2>2
  <2>3. CASE ~s.there
    BY <2>1, <2>3 DEF Resource, BlobFields
  <2> QED
    BY <2>2, <2>3
<1> HIDE DEF next, here
<1>3. ASSUME NEW t, Resource(t, BlobFields)
      PROVE  Good(Reply(OK, t), t.etag = s.etag)
  BY <1>3, CodesDiffer DEF Reply
<1>4. Good(Reply(Conflict, s), TRUE) /\ Good(Reply(BadRequest, s), TRUE)
  BY CodesDiffer DEF Reply
<1>5. ~OurLeaseOnly(r) => Good(Reply(PreconditionFailed, s), TRUE)
  BY CodesDiffer DEF Reply
<1>6. \A t, f, v : Resource(t, BlobFields) /\ f \in BlobFields \ {"etag", "there"}
        => Resource([t EXCEPT ![f] = v], BlobFields) /\ [t EXCEPT ![f] = v].etag = t.etag
  BY DEF Resource, BlobFields
<1> HIDE DEF Good
<1> DEFINE a == Change(r, s)
           Keeps == r.comp \in {"snapshot", "tier", "abort", "block"}
<1>0. ASSUME NEW t, NEW f \in BlobFields \ {"etag", "there"}, NEW v,
             Resource(t, BlobFields), t.etag = s.etag, a = Reply(OK, [t EXCEPT ![f] = v])
      PROVE  Good(a, Keeps)
  <2>1. Resource([t EXCEPT ![f] = v], BlobFields) /\ [t EXCEPT ![f] = v].etag = s.etag
    BY <1>0, <1>6
  <2>2. Good(a, [t EXCEPT ![f] = v].etag = s.etag)
    BY <1>0, <1>3, <2>1
  <2> QED
    BY <2>1, <2>2 DEF Good
<1>7. ASSUME r.comp = "metadata" PROVE Good(a, Keeps)
  <2>1. a = Reply(OK, [next EXCEPT !["meta"] = Get(r, "metadata")])
    BY <1>7 DEF Change, next
  <2> QED
    BY <1>1, <1>3, <1>6, <1>7, <2>1 DEF Good, BlobFields
<1>8. ASSUME r.comp = "properties" PROVE Good(a, Keeps)
  <2> DEFINE content == IF Has(r, "size") \/ Has(r, "seq_action") THEN next.content
                        ELSE Get(r, "content")
             size == IF Has(r, "size") THEN r["size"] ELSE next.size
             seq == IF Has(r, "seq_action") THEN SetSequenceNumber(r, s) ELSE next.seq
             t == [next EXCEPT !.content = content, !.size = size, !.seq = seq]
  <2>1. a = Reply(OK, t)
    BY <1>8, <1>1 DEF Change, next, Resource, BlobFields
  <2> HIDE DEF content, size, seq
  <2>2. Resource(t, BlobFields)
    BY <1>1 DEF Resource, BlobFields
  <2> QED
    BY <1>3, <1>8, <2>1, <2>2 DEF Good
<1>9. ASSUME r.comp = "snapshot" PROVE Good(a, Keeps)
  <2>1. a = Reply(OK, [s EXCEPT !["snap_meta"] =
                         IF Has(r, "metadata") THEN r["metadata"] ELSE s.meta])
    BY <1>9 DEF Change
  <2> QED
    BY <1>0, <2>1 DEF BlobFields
<1>10. ASSUME r.comp = "tier" PROVE Good(a, Keeps)
  <2>1. a = Reply(OK, [s EXCEPT !["tier"] = r["tier"]])
    BY <1>10 DEF Change
  <2> QED
    BY <1>0, <2>1 DEF BlobFields
<1>11. ASSUME r.comp \in {"copy", "incrementalcopy"} PROVE Good(a, Keeps)
  <2>1. PICK type : a = Reply(OK, [PutBlob(r, s, type) EXCEPT !["copy"] = s.etag + 1])
    BY <1>11 DEF Change
  <2>2. Resource(PutBlob(r, s, type), BlobFields)
    BY PutBlobState DEF Resource
  <2> QED
    BY <1>3, <1>6, <1>11, <2>1, <2>2 DEF Good, BlobFields
<1>12. ASSUME r.comp = "abort" PROVE Good(a, Keeps)
  <2>1. a = IF s.copy = r["copy_id"] THEN Reply(OK, [s EXCEPT !["copy"] = Empty])
            ELSE Reply(Conflict, s)
    BY <1>12 DEF Change
  <2>2. a = Reply(Conflict, s) => Good(a, Keeps)
    BY <1>4 DEF Good
  <2> QED
    BY <1>0, <2>1, <2>2 DEF BlobFields
<1>13. ASSUME r.comp = "block" PROVE Good(a, Keeps)
  <2>1. a = Reply(OK, [here EXCEPT !["uncommitted"] = here.uncommitted \cup {r["block_id"]}])
    BY <1>13 DEF Change, here
  <2> QED
    BY <1>0, <1>2, <2>1 DEF BlobFields
<1>14. ASSUME r.comp = "blocklist" PROVE Good(a, Keeps)
  <2> DEFINE put == PutBlob(r, here, "block")
             t == [put EXCEPT !.blocks = r["blocks"], !.size = Cardinality(r["blocks"])]
  <2>1. a \in {Reply(OK, t), Reply(BadRequest, s)}
    BY <1>14 DEF Change, here
  <2>2. Resource(put, BlobFields)
    BY <1>2, PutBlobState DEF Resource
  <2> HIDE DEF put
  <2>3. Resource(t, BlobFields)
    BY <2>2 DEF Resource, BlobFields
  <2> QED
    BY <1>3, <1>4, <1>14, <2>1, <2>3 DEF Good
<1>15. ASSUME r.comp \in {"block_blob", "page_blob", "append_blob"} PROVE Good(a, Keeps)
  <2>1. PICK type : a = Reply(OK, PutBlob(r, here, type))
    BY <1>15 DEF Change, here
  <2>2. Resource(PutBlob(r, here, type), BlobFields)
    BY <1>2, PutBlobState DEF Resource
  <2> QED
    BY <1>3, <1>15, <2>1, <2>2 DEF Good
<1>16. ASSUME r.comp = "appendblock" PROVE Good(a, Keeps)
  <2> DEFINE t == [next EXCEPT !.size = next.size + 1, !.count = next.count + 1]
  <2>1. a = IF AppendAllows(r, s) THEN Reply(OK, t) ELSE Reply(PreconditionFailed, s)
    BY <1>16, <1>1 DEF Change, next, Resource, BlobFields
  <2>2. Resource(t, BlobFields)
    BY <1>1 DEF Resource, BlobFields
  <2>3. OurLeaseOnly(r) => AppendAllows(r, s)
    BY DEF OurLeaseOnly, AppendAllows
  <2> QED
    BY <1>3, <1>5, <1>16, <2>1, <2>2, <2>3 DEF Good
<1>17. ASSUME r.comp = "page" PROVE Good(a, Keeps)
  <2>1. a \in {Reply(OK, next), Reply(PreconditionFailed, s)}
        /\ (SequenceNumberAllows(r, s) => a = Reply(OK, next))
    BY <1>17 DEF Change, next
  <2>2. OurLeaseOnly(r) => SequenceNumberAllows(r, s)
    BY DEF OurLeaseOnly, SequenceNumberAllows
  <2> QED
    BY <1>1, <1>3, <1>5, <1>17, <2>1, <2>2 DEF Good
<1>18. Good(a, Keeps)
  BY <1>7, <1>8, <1>9, <1>10, <1>11, <1>12, <1>13, <1>14, <1>15, <1>16, <1>17 DEF BlobChanges
<1>19. r.comp = "tier" => a = Reply(OK, [s EXCEPT !.tier = r["tier"]])
  BY DEF Change
<1> QED
  BY <1>18, <1>19 DEF Good


(* What a client may rely on in every answer of the blob service ...       *)
LEMMA BlobAnswer ==
  ASSUME NEW r, NEW s, Resource(s, BlobFields), BlobKnown(r)
  PROVE  Answered(BlobService(r, s), r, s, BlobFields)
<1> DEFINE a == BlobService(r, s)
<1>1. \A code \in Codes \ {OK, NoContent} :
        /\ Reply(code, s).code = code /\ Reply(code, s).state = s
        /\ code # OK /\ code \in Codes
  BY CodesDiffer DEF Reply
<1>2. /\ {NotFound, Conflict, PreconditionFailed, BadRequest} \subseteq Codes \ {OK, NoContent}
      /\ OK \in Codes
  BY CodesDiffer DEF Codes
<1>3. CASE Has(r, "snapshot") /\ Reads(r)
  <2>1. a \in {Reply(NotFound, s), Reply(OK, [s EXCEPT !.meta = s.snap_meta])}
    BY <1>3 DEF BlobService
  <2>2. LET t == [s EXCEPT !.meta = s.snap_meta] IN Resource(t, BlobFields) /\ t.etag = s.etag
    BY DEF Resource, BlobFields
  <2>3. Reply(OK, [s EXCEPT !.meta = s.snap_meta]).state = [s EXCEPT !.meta = s.snap_meta]
        /\ Reply(OK, [s EXCEPT !.meta = s.snap_meta]).code = OK
    BY DEF Reply
  <2> QED
    BY <1>1, <1>2, <1>3, <2>1, <2>2, <2>3, CodesDiffer DEF Answered
<1>4. CASE ~(Has(r, "snapshot") /\ Reads(r)) /\ ~s.there /\ r.comp \notin Creates
  <2>1. a = Reply(NotFound, s)
    BY <1>4 DEF BlobService
  <2> QED
    BY <1>1, <1>2, <1>4, <2>1, CodesDiffer DEF Answered
<1>5. ASSUME ~(Has(r, "snapshot") /\ Reads(r)), ~(~s.there /\ r.comp \notin Creates)
      PROVE  Answered(a, r, s, BlobFields)
  <2>1. CASE ~Conditional(r, s)
    <3>1. a = Reply(PreconditionFailed, s)
      BY <1>5, <2>1 DEF BlobService
    <3>2. ~OurLeaseOnly(r)
      BY <2>1 DEF OurLeaseOnly, Conditional, EtagHeaders
    <3> QED
      BY <1>1, <1>2, <3>1, <3>2, CodesDiffer DEF Answered
  <2>2. CASE Conditional(r, s) /\ r.comp = "lease"
    <3>1. a = Lease(r, s) /\ r["action"] \in LeaseActions
      BY <1>5, <2>2 DEF BlobService, BlobKnown, IsLease, BlobChanges
    <3> QED
      BY <1>2, <2>2, <3>1, LeaseAnswer, CodesDiffer DEF Answered, BlobFields
  <2>3. CASE Conditional(r, s) /\ r.comp # "lease" /\ ~LeaseAllows(r, s)
    <3>1. a = Reply(PreconditionFailed, s)
      BY <1>5, <2>3 DEF BlobService
    <3>2. OurLeaseOnly(r) => s.lease # OurLease
      BY <2>3 DEF OurLeaseOnly, LeaseAllows, Get, Empty, OurLease
    <3> QED
      BY <1>1, <1>2, <2>3, <3>1, <3>2, CodesDiffer DEF Answered
  <2>4. CASE Conditional(r, s) /\ r.comp # "lease" /\ LeaseAllows(r, s) /\ Reads(r)
    <3>1. a = Reply(OK, s)
      BY <1>5, <2>4 DEF BlobService
    <3>2. a.code = OK /\ a.state = s
      BY <3>1 DEF Reply
    <3> QED
      BY <1>2, <2>4, <3>2, CodesDiffer DEF Answered
  <2>5. CASE Conditional(r, s) /\ r.comp # "lease" /\ LeaseAllows(r, s) /\ ~Reads(r)
             /\ r.method = "DEL"
    <3>1. a = DeleteBlob(r, s)
      BY <1>5, <2>5 DEF BlobService
    <3> HIDE DEF a
    <3>2. /\ Resource(a.state, BlobFields) /\ a.state.etag = s.etag
          /\ a.code \in {OK, Conflict} /\ (a.code = Conflict => a.state = s)
      BY <3>1, DeleteAnswer
    <3> QED
      BY <1>2, <2>5, <3>2, CodesDiffer DEF Answered
  <2>6. CASE Conditional(r, s) /\ r.comp # "lease" /\ LeaseAllows(r, s) /\ ~Reads(r)
             /\ r.method # "DEL"
    <3>1. a = Change(r, s)
      BY <1>5, <2>6 DEF BlobService
    <3>2. r.comp \in BlobChanges
      BY <2>6 DEF BlobKnown, IsLease
    <3> HIDE DEF a
    <3>3. /\ Resource(a.state, BlobFields)
          /\ a.code \in {OK, Conflict, BadRequest, PreconditionFailed}
          /\ a.code # OK => a.state = s
          /\ r.comp \in {"snapshot", "tier", "abort", "block"} => a.state.etag = s.etag
          /\ OurLeaseOnly(r) => a.code # PreconditionFailed
      BY <3>1, <3>2, ChangeAnswer
    <3>4. KeepsVersion(r) => a.state.etag = s.etag
      BY <2>6, <3>3 DEF KeepsVersion
    <3>5. a.code \in Codes /\ a.code # NoContent /\ a.code # NotFound
      BY <1>2, <3>3, CodesDiffer
    <3> QED
      BY <2>6, <3>3, <3>4, <3>5 DEF Answered
  <2> QED
    BY <2>1, <2>2, <2>3, <2>4, <2>5, <2>6
<1> QED
  BY <1>3, <1>4, <1>5

(* ... and of the container's.                                             *)
LEMMA ContainerAnswer ==
  ASSUME NEW r, NEW s, Resource(s, ContainerFields), ContainerKnown(r)
  PROVE  /\ Answered(ContainerService(r, s), r, s, ContainerFields)
         /\ r.method = "PUT" /\ r.comp = "container" =>
              /\ ContainerService(r, s).code \in {OK, Conflict}
              /\ ContainerService(r, s).code = Conflict => s.there
              /\ ContainerService(r, s).code = OK => ~s.there
         /\ Reads(r) /\ ContainerService(r, s).code = OK => s.there
<1> DEFINE a == ContainerService(r, s)
           next == NewVersion(s)
           Creating == r.method = "PUT" /\ r.comp = "container"
<1>1. \A code \in Codes \ {OK, NoContent} :
        /\ Reply(code, s).code = code /\ Reply(code, s).state = s
        /\ code # OK /\ code \in Codes
  BY CodesDiffer DEF Reply
<1>2. /\ {NotFound, Conflict, PreconditionFailed, BadRequest} \subseteq Codes \ {OK, NoContent}
      /\ OK \in Codes
  BY CodesDiffer DEF Codes
<1>3. \A t : Reply(OK, t).code = OK /\ Reply(OK, t).state = t
  BY DEF Reply
<1>4. CASE Creating
  <2> DEFINE t == [next EXCEPT !.there = TRUE, !.lease = Empty, !.meta = Get(r, "metadata"),
                               !.access = Get(r, "public_access")]
  <2>1. a = IF s.there THEN Reply(Conflict, s) ELSE Reply(OK, t)
    BY <1>4 DEF ContainerService
  <2>2. Resource(t, ContainerFields)
    BY DEF Resource, ContainerFields, NewVersion
  <2>3. ~KeepsVersion(r)
    BY <1>4 DEF KeepsVersion, Reads
  <2>4. ~Reads(r)
    BY <1>4 DEF Reads
  <2>5. Conditional(r, s)
    BY <1>4 DEF ContainerKnown, IsLease, Reads, Conditional, EtagHeaders
  <2> HIDE DEF t
  <2>6. IF s.there THEN a.code = Conflict /\ a.state = s ELSE a.code = OK /\ a.state = t
    BY <1>1, <1>2, <1>3, <2>1
  <2> HIDE DEF a
  <2>7. Answered(a, r, s, ContainerFields)
    BY <1>2, <2>2, <2>3, <2>5, <2>6, CodesDiffer DEF Answered
  <2> QED
    BY <2>4, <2>6, <2>7, CodesDiffer DEF a
<1>5. CASE ~Creating /\ ~s.there
  <2>1. a = Reply(NotFound, s)
    BY <1>5 DEF ContainerService
  <2> QED
    BY <1>1, <1>2, <1>5, <2>1, CodesDiffer DEF Answered
<1>6. CASE ~Creating /\ s.there /\ ~Conditional(r, s)
  <2>1. a = Reply(PreconditionFailed, s)
    BY <1>6 DEF ContainerService
  <2>2. ~OurLeaseOnly(r)
    BY <1>6 DEF OurLeaseOnly, Conditional, EtagHeaders
  <2> QED
    BY <1>1, <1>2, <1>6, <2>1, <2>2, CodesDiffer DEF Answered
<1>7. CASE ~Creating /\ s.there /\ Conditional(r, s) /\ r.comp = "lease"
  <2>1. a = Lease(r, s) /\ r["action"] \in LeaseActions
    BY <1>7 DEF ContainerService, ContainerKnown, IsLease
  <2> QED
    BY <1>2, <1>7, <2>1, LeaseAnswer, CodesDiffer DEF Answered, ContainerFields
<1> DEFINE Served == ~Creating /\ s.there /\ Conditional(r, s) /\ r.comp # "lease"
           Wrong == Has(r, "lease_id") /\ r["lease_id"] # s.lease
<1>8. CASE Served /\ Wrong
  <2>1. a = Reply(PreconditionFailed, s)
    BY <1>8 DEF ContainerService
  <2>2. OurLeaseOnly(r) => s.lease # OurLease
    BY <1>8 DEF OurLeaseOnly
  <2> QED
    BY <1>1, <1>2, <1>8, <2>1, <2>2, CodesDiffer DEF Answered
<1>9. CASE Served /\ ~Wrong /\ Reads(r)
  <2>1. a = Reply(OK, s)
    BY <1>9 DEF ContainerService
  <2> QED
    BY <1>2, <1>3, <1>9, <2>1, CodesDiffer DEF Answered
<1>10. CASE Served /\ ~Wrong /\ ~Reads(r) /\ r.method = "DEL"
  <2> DEFINE t == [s EXCEPT !.there = FALSE, !.lease = Empty]
  <2>1. a = IF Get(r, "lease_id") # s.lease THEN Reply(PreconditionFailed, s)
            ELSE Reply(OK, t)
    BY <1>10 DEF ContainerService
  <2>2. Resource(t, ContainerFields) /\ t.etag = s.etag
    BY DEF Resource, ContainerFields
  <2>3. OurLeaseOnly(r) => Get(r, "lease_id") = OurLease
    BY <1>10 DEF OurLeaseOnly, Get
  <2> HIDE DEF t
  <2> QED
    BY <1>1, <1>2, <1>3, <1>10, <2>1, <2>2, <2>3, CodesDiffer DEF Answered
<1>11. CASE Served /\ ~Wrong /\ ~Reads(r) /\ r.method # "DEL"
  <2>1. r.comp \in {"metadata", "acl"}
    BY <1>11 DEF ContainerKnown, IsLease
  <2>2. PICK v : \/ a = Reply(OK, [next EXCEPT !.meta = v])
                 \/ a = Reply(OK, [next EXCEPT !.access = v])
    <3>1. CASE r.comp = "metadata"
      BY <1>11, <3>1 DEF ContainerService
    <3>2. CASE r.comp = "acl"
      BY <1>11, <3>2 DEF ContainerService
    <3> QED
      BY <2>1, <3>1, <3>2
  <2>3. /\ Resource([next EXCEPT !.meta = v], ContainerFields)
        /\ Resource([next EXCEPT !.access = v], ContainerFields)
    BY DEF Resource, ContainerFields, NewVersion
  <2>4. ~KeepsVersion(r)
    BY <1>11, <2>1 DEF KeepsVersion
  <2> HIDE DEF next
  <2> QED
    BY <1>2, <1>3, <1>11, <2>2, <2>3, <2>4, CodesDiffer DEF Answered
<1> QED
  BY <1>4, <1>5, <1>6, <1>7, <1>8, <1>9, <1>10, <1>11


-----------------------------------------------------------------------------
(* The inductive invariant.  k is the object's kind.                       *)

ContainerKinds == {"container", "container_lease"}

Fields(k) == IF k \in ContainerKinds THEN ContainerFields ELSE BlobFields

Known(k, r) == IF k \in ContainerKinds THEN ContainerKnown(r) ELSE BlobKnown(r)

ObjectFields(k) ==
  IF k \in ContainerKinds THEN {"etag", "meta", "lease_state", "public_access"}
  ELSE {"etag", "content", "size", "seq", "count", "standard_tier", "premium_tier",
        "lease_state", "type", "meta", "copy", "snapshot"}

(* The object: only a snapshot's has a snapshot time.                      *)
ObjectOf(k, o) ==
  /\ DOMAIN o = ObjectFields(k) /\ o.etag \in Nat
  /\ k \notin ContainerKinds => (o.snapshot = Empty <=> k # "snapshot")

(* What may be sent for a snapshot's object.                               *)
SparesBlob(r) ==
  \/ Reads(r)
  \/ r.method = "DEL" /\ r.comp # "lease" /\ Has(r, "snapshot")
  \/ r.method = "PUT" /\ r.comp = "tier"

(* The calls whose last handler may leave the object's etag as it is.      *)
MayKeepEtag ==
  DeleteIfExists \cup {"delete_blob", "delete_container", "abort_copy", "upload_block",
                      "set_standard_blob_tier", "set_premium_blob_tier",
                      "exists", "download_attributes"}

(* A call of two requests asks the primary, and then changes it.           *)
OfTwo == DeleteIfExists \cup {"create_if_not_exists"}

AsksThenActs(r) ==
  /\ r.both = FALSE /\ r.at = "primary" /\ r.step \in {1, 2}
  /\ r.step = 1 => Reads(r.req) /\ r.accepts = {NotFound}
  /\ r.step = 2 =>
       /\ ~Reads(r.req)
       /\ r.accepts = {IF r.op = "create_if_not_exists" THEN Conflict ELSE NotFound}

CreatesContainer(r) ==
  /\ r.time \in Nat /\ r.cond = access_condition /\ r.pre = Empty
  /\ r.step = 2 => r.req.method = "PUT" /\ r.req.comp = "container"

(* Whether a call passes the whole of its condition on.                    *)
PassesEtags(k, op) == op \notin LeaseIdOnly /\ k # "container_lease"

(* What is true of a call whose request has been built.                    *)
Underway(k, r) ==
  /\ ~Thrown(r.req) /\ Known(k, r.req)
  /\ PassesEtags(k, r.op) /\ ~Reads(r.req) => CarriesEtags(r.req, r.cond)
  /\ r.cond.if_not_modified_since \in Nat
  /\ r.cond = generate_lease_condition(OurLease) => OurLeaseOnly(r.req)
  /\ IF k = "snapshot" THEN SparesBlob(r.req) ELSE ~Has(r.req, "snapshot")
  /\ r.op \in MayKeepEtag => KeepsVersion(r.req)
  /\ r.op \in OfTwo => AsksThenActs(r)
  /\ r.op \notin OfTwo => r.step = 1
  /\ r.op = "create_if_not_exists" => k = "container" /\ CreatesContainer(r)

(* What its answer tells it.                                               *)
Informed(k, r) ==
  /\ Resource(r.resp.state, Fields(k))
  /\ r.resp.code \in Codes /\ r.resp.code # NoContent
  /\ r.resp.code = OK /\ ~Reads(r.req) => r.did
  /\ r.cond = generate_lease_condition(OurLease) /\ r.resp.code = PreconditionFailed
       => r.resp.state.lease # OurLease
  /\ r.op \in DeleteIfExists /\ k # "snapshot" /\ r.resp.code = NotFound
       => FALSE \in r.seen
  /\ r.op = "create_if_not_exists" /\ r.resp.code = (IF r.step = 1 THEN OK ELSE Conflict)
       => TRUE \in r.seen

(* IfExistsHonest, of one call with the result out.                        *)
Honest(r, out) ==
  /\ r.op \in DeleteIfExists => /\ out = 1 => r.did
                                /\ out = 0 => FALSE \in r.seen
  /\ r.op = "create_if_not_exists" => /\ out = 1 => r.did /\ r.pre = Empty
                                      /\ out = 0 => TRUE \in r.seen

CallOf(k, r) ==
  /\ r.did \in BOOLEAN
  /\ PassesEtags(k, r.op) => Protected(r)
  /\ r.st \in {"sent", "answered"} => Underway(k, r)
  /\ r.st = "answered" => Informed(k, r)
  /\ r.st = "returned" /\ k # "snapshot" => Honest(r, r.out)

BoundsLeft == DOMAIN left = {"calls", "lost", "foreign"} /\ left.foreign \in Nat

ObjectInv ==
  /\ CallsTyped /\ BoundsLeft
  /\ Resource(svc, Fields(kind)) /\ Resource(sec, Fields(kind))
  /\ ObjectOf(kind, obj)
  /\ \A c \in Callers : CallOf(kind, call[c])

(* While the calls run one at a time, the object's etag is the resource's  *)
(* but between the answer to a change and its handler.                     *)
Mirrored == obj.etag \in {Empty, svc.etag}

AtRest == \A c \in Callers : call[c].st # "answered"

CalmInv ==
  calm /\ kind \notin {"incremental", "snapshot"} =>
    /\ \A c, d \in Callers : Active(c) /\ Active(d) => c = d
    /\ AtRest => Mirrored
    /\ \A c \in Callers : call[c].st = "answered" =>
         /\ body(c).etag = svc.etag
         /\ Mirrored \/ (call[c].resp.code = OK /\ ~KeepsVersion(call[c].req))

-----------------------------------------------------------------------------
(* What the steps of a call do to it.                                      *)

(* No status code and no exception is mistaken for the results 0 and 1.    *)
LEMMA ResultsDiffer ==
  \A n \in Codes \cup {Threw, Failed, TimedOut, TypeMismatch} : n # 0 /\ n # 1
  BY DEF Codes, OK, NoContent, NotFound, BadRequest, Conflict, PreconditionFailed,
     Threw, Failed, TimedOut, TypeMismatch

(* Such a result says nothing.                                             *)
LEMMA SilentResult ==
  ASSUME NEW r, NEW out \in Codes \cup {Threw, Failed, TimedOut, TypeMismatch}
  PROVE  Honest(r, out)
  BY ResultsDiffer DEF Honest

(* A call that learns more stays what it is.                               *)
LEMMA WatchedCall ==
  ASSUME NEW k, NEW r, NEW q, NEW there, CallOf(k, q), Watched(r, q, there)
  PROVE  CallOf(k, r)
<1>1. /\ r.st = q.st /\ r.op = q.op /\ r.step = q.step /\ r.req = q.req /\ r.both = q.both
      /\ r.accepts = q.accepts /\ r.at = q.at /\ r.resp = q.resp /\ r.cond = q.cond
      /\ r.time = q.time /\ r.did = q.did /\ r.pre = q.pre /\ r.out = q.out
  BY DEF Watched, Agree, CallFields
<1>2. q.seen \subseteq r.seen
  BY DEF Watched
<1>3. Underway(k, q) => Underway(k, r)
  BY <1>1 DEF Underway, AsksThenActs, CreatesContainer
<1>4. Informed(k, q) => Informed(k, r)
  BY <1>1, <1>2 DEF Informed
<1>5. Protected(q) => Protected(r)
  BY <1>1 DEF Protected
<1>6. Honest(q, q.out) => Honest(r, r.out)
  BY <1>1, <1>2 DEF Honest
<1> QED
  BY <1>1, <1>3, <1>4, <1>5, <1>6 DEF CallOf

(* A call that returns keeps its promises if its result is honest.         *)
LEMMA DoneCall ==
  ASSUME NEW k, NEW r, NEW out, r.did \in BOOLEAN, PassesEtags(k, r.op) => Protected(r),
         k # "snapshot" => Honest(r, out)
  PROVE  CallOf(k, Done(r, out))
<1> DEFINE d == Done(r, out)
<1>1. /\ d.st = "returned" /\ d.op = r.op /\ d.seen = r.seen /\ d.did = r.did
      /\ d.pre = r.pre /\ d.out = out /\ (r.did => d.cond = r.cond)
  BY DoneFields
<1> HIDE DEF d
<1>2. Protected(r) => Protected(d)
  BY <1>1 DEF Protected
<1>3. Honest(r, out) => Honest(d, d.out)
  BY <1>1 DEF Honest
<1> QED
  BY <1>1, <1>2, <1>3 DEF CallOf, d

(* What a command satisfies that is handed to the executor.                *)
Command(k, cmd) ==
  /\ DOMAIN cmd = CallFields /\ cmd.did = FALSE /\ cmd.at = "primary"
  /\ ~Thrown(cmd.req) => Underway(k, cmd)

(* The executor's first step keeps the invariant.                          *)
LEMMA StartStep ==
  ASSUME ObjectInv, NEW c \in Callers, NEW cmd, execute_async(c, cmd), Command(kind, cmd)
  PROVE  ObjectInv'
<1>1. /\ CallsTyped' /\ \A d \in Callers \ {c} : call'[d] = call[d]
      /\ Thrown(cmd.req) => call'[c] = Done(cmd, Threw)
      /\ ~Thrown(cmd.req) =>
              /\ Agree(call'[c], cmd, {"st", "at", "seen"})
              /\ call'[c].st = "sent" /\ call'[c].at \in locations(cmd)
      /\ UNCHANGED <<kind, obj, svc, sec>>
  BY ExecuteCalls DEF ObjectInv, Command
<1>2. BoundsLeft'
  BY DEF execute_async, BoundsLeft, ObjectInv
<1>3. CallOf(kind, call'[c])
  <2>1. CASE Thrown(cmd.req)
    <3>1. cmd.did \in BOOLEAN /\ Protected(cmd) /\ Honest(cmd, Threw)
      BY SilentResult DEF Command, Protected
    <3>2. CallOf(kind, Done(cmd, Threw))
      BY <3>1, DoneCall
    <3> QED
      BY <1>1, <2>1, <3>2
  <2>2. CASE ~Thrown(cmd.req)
    <3> DEFINE r == call'[c]
    <3>1. /\ r.op = cmd.op /\ r.step = cmd.step /\ r.req = cmd.req /\ r.both = cmd.both
          /\ r.accepts = cmd.accepts /\ r.cond = cmd.cond
          /\ r.time = cmd.time /\ r.did = cmd.did /\ r.pre = cmd.pre /\ r.st = "sent"
      BY <1>1, <2>2 DEF Agree, CallFields
    <3>2. r.both = FALSE => r.at = "primary"
      BY <1>1, <2>2, <3>1 DEF locations, Command
    <3> HIDE DEF r
    <3>3. Underway(kind, r)
      BY <2>2, <3>1, <3>2 DEF Command, Underway, AsksThenActs, CreatesContainer
    <3>4. Protected(r)
      BY <3>1 DEF Protected, Command
    <3> QED
      BY <3>1, <3>3, <3>4 DEF CallOf, Command, r
  <2> QED
    BY <2>1, <2>2
<1> QED
  BY <1>1, <1>2, <1>3 DEF ObjectInv

(* So does a call's last step.                                             *)
LEMMA ReturnStep ==
  ASSUME ObjectInv, NEW c \in Callers, NEW out, Returns(c, out), UNCHANGED left,
         ObjectOf(kind, obj'), kind # "snapshot" => Honest(call[c], out)
  PROVE  ObjectInv'
<1>1. /\ CallsTyped' /\ \A d \in Callers \ {c} : call'[d] = call[d]
      /\ call'[c] = Done(call[c], out) /\ UNCHANGED <<kind, svc, sec>>
  BY ReturnCalls DEF ObjectInv
<1>2. CallOf(kind, call[c])
  BY DEF ObjectInv
<1>3. CallOf(kind, call'[c])
  BY <1>1, <1>2, DoneCall DEF CallOf
<1>4. BoundsLeft'
  BY DEF BoundsLeft, ObjectInv
<1> QED
  BY <1>1, <1>3, <1>4 DEF ObjectInv

(* And its second request.                                                 *)
LEMMA ContinueStep ==
  ASSUME ObjectInv, NEW c \in Callers, NEW o, NEW req, NEW accepts,
         call[c].st = "answered", Continue(c, o, req, accepts), ObjectOf(kind, o),
         ~Thrown(req) => \A r : /\ Agree(r, call[c], {"st", "step", "req", "both", "accepts",
                                                      "at", "resp", "did"})
                                /\ r.st = "sent" /\ r.step = 2 /\ r.req = req
                                /\ r.both = FALSE /\ r.accepts = accepts
                                /\ r.at = "primary" /\ r.did = FALSE
                                => Underway(kind, r)
  PROVE  ObjectInv'
<1>1. /\ obj' = o /\ UNCHANGED <<kind, svc, sec, left>>
      /\ Thrown(req) => Returns(c, Threw)
      /\ ~Thrown(req) =>
              /\ CallsTyped'
              /\ \A d \in Callers \ {c} : call'[d] = call[d]
              /\ Agree(call'[c], call[c], {"st", "step", "req", "both", "accepts",
                                           "at", "resp", "did"})
              /\ call'[c].st = "sent" /\ call'[c].step = 2 /\ call'[c].req = req
              /\ call'[c].both = FALSE /\ call'[c].accepts = accepts
              /\ call'[c].at = "primary" /\ call'[c].did = FALSE
  BY ContinueCalls DEF ObjectInv, Continue
<1>2. CASE Thrown(req)
  BY <1>1, <1>2, ReturnStep, SilentResult
<1>3. CASE ~Thrown(req)
  <2>1. Underway(kind, call'[c])
    BY <1>1, <1>3
  <2>2. CallOf(kind, call'[c])
    BY <1>1, <1>3, <2>1 DEF CallOf, Protected
  <2>3. BoundsLeft'
    BY <1>1 DEF BoundsLeft, ObjectInv
  <2> QED
    BY <1>1, <1>3, <2>2, <2>3 DEF ObjectInv
<1> QED
  BY <1>2, <1>3

(* A lost request or answer.                                               *)
LEMMA ResendStep ==
  ASSUME ObjectInv, NEW c \in Callers, Resend(c)
  PROVE  ObjectInv'
<1>1. /\ CallsTyped' /\ \A d \in Callers \ {c} : call'[d] = call[d]
      /\ Active(c)
      /\ Agree(call'[c], call[c], {"st", "resp", "at"})
      /\ call'[c].st = "sent"
      /\ call'[c].at = IF call[c].both THEN other(call[c].at) ELSE call[c].at
      /\ UNCHANGED <<kind, obj, svc, sec>>
  BY ResendCalls DEF ObjectInv
<1>2. BoundsLeft'
  BY DEF Resend, BoundsLeft, ObjectInv
<1>3. CallOf(kind, call'[c])
  <2> DEFINE r == call'[c]
             q == call[c]
  <2>1. CallOf(kind, q) /\ q.st \in {"sent", "answered"}
    BY <1>1 DEF ObjectInv, Active
  <2>2. /\ r.op = q.op /\ r.step = q.step /\ r.req = q.req /\ r.both = q.both
        /\ r.accepts = q.accepts /\ r.cond = q.cond /\ r.pre = q.pre
        /\ r.time = q.time /\ r.did = q.did /\ r.st = "sent"
    BY <1>1 DEF Agree, CallFields
  <2>3. q.both = FALSE => r.at = q.at
    BY <1>1
  <2> HIDE DEF r, q
  <2>4. Underway(kind, r)
    BY <2>1, <2>2, <2>3 DEF CallOf, Underway, AsksThenActs, CreatesContainer
  <2>5. Protected(q) => Protected(r)
    BY <2>2 DEF Protected
  <2> QED
    BY <2>1, <2>2, <2>4, <2>5 DEF CallOf, r
<1> QED
  BY <1>1, <1>2, <1>3 DEF ObjectInv

(* An answer that is not accepted.                                         *)
LEMMA RefusedStep ==
  ASSUME ObjectInv, NEW c \in Callers, Refused(c)
  PROVE  ObjectInv'
<1>1. /\ call[c].st = "answered" /\ CallOf(kind, call[c])
      /\ obj' = obj /\ UNCHANGED <<kind, svc, sec>>
      /\ \/ Returns(c, call[c].resp.code)
         \/ /\ call[c].at = "secondary"
            /\ CallsTyped' /\ \A d \in Callers \ {c} : call'[d] = call[d]
            /\ Agree(call'[c], call[c], {"st", "at", "both", "resp"})
            /\ call'[c].st = "sent" /\ call'[c].at = "primary" /\ call'[c].both = FALSE
  BY RefusedCalls DEF ObjectInv
<1>2. UNCHANGED left
  BY DEF Refused
<1>3. CASE Returns(c, call[c].resp.code)
  <2>1. call[c].resp.code \in Codes
    BY <1>1 DEF CallOf, Informed
  <2>2. ObjectOf(kind, obj')
    BY <1>1 DEF ObjectInv
  <2> QED
    BY <1>2, <1>3, <2>1, <2>2, ReturnStep, SilentResult
<1>4. CASE ~Returns(c, call[c].resp.code)
  <2> DEFINE r == call'[c]
             q == call[c]
  <2>2. /\ r.op = q.op /\ r.step = q.step /\ r.req = q.req
        /\ r.accepts = q.accepts /\ r.cond = q.cond /\ r.pre = q.pre
        /\ r.time = q.time /\ r.did = q.did /\ r.st = "sent"
        /\ r.at = "primary" /\ r.both = FALSE
    BY <1>1, <1>4 DEF Agree, CallFields
  <2> HIDE DEF r, q
  <2>4. Underway(kind, r)
    BY <1>1, <2>2 DEF CallOf, Underway, AsksThenActs, CreatesContainer, q
  <2>5. Protected(q) => Protected(r)
    BY <2>2 DEF Protected
  <2>6. CallOf(kind, call'[c])
    BY <1>1, <2>2, <2>4, <2>5 DEF CallOf, r, q
  <2>7. BoundsLeft'
    BY <1>2 DEF BoundsLeft, ObjectInv
  <2> QED
    BY <1>1, <1>4, <2>6, <2>7 DEF ObjectInv
<1> QED
  BY <1>3, <1>4

(* Another client's change.                                                *)
LEMMA ForeignStep ==
  ASSUME ObjectInv, NEW state, Foreign(state), Resource(state, Fields(kind))
  PROVE  ObjectInv'
<1>1. /\ CallsTyped' /\ \A d \in Callers : Watched(call'[d], call[d], state.there)
      /\ svc' = state /\ UNCHANGED <<kind, obj, sec>>
  BY ForeignCalls DEF ObjectInv
<1>2. BoundsLeft'
  BY DEF Foreign, BoundsLeft, ObjectInv
<1>3. \A d \in Callers : CallOf(kind, call'[d])
  BY <1>1, WatchedCall DEF ObjectInv
<1> QED
  BY <1>1, <1>2, <1>3 DEF ObjectInv

(* A change of the object alone.                                           *)
LEMMA LocalStep ==
  ASSUME ObjectInv, NEW o, Local(o), ObjectOf(kind, o)
  PROVE  ObjectInv'
<1>1. obj' = o /\ UNCHANGED <<kind, svc, sec, call>>
  BY DEF Local
<1>2. BoundsLeft'
  BY DEF Local, BoundsLeft, ObjectInv
<1>3. CallsTyped'
  BY <1>1 DEF CallsTyped, ObjectInv
<1> QED
  BY <1>1, <1>2, <1>3 DEF ObjectInv


-----------------------------------------------------------------------------
(* The service's step.                                                     *)

ServiceAnswer(c) ==
  IF Container THEN ContainerService(call[c].req, located(c))
  ELSE BlobService(call[c].req, located(c))

(* What the service of the object's kind answers to a request that is on   *)
(* its way.                                                                *)
LEMMA SentAnswer ==
  ASSUME ObjectInv, NEW c \in Callers, Active(c)
  PROVE  LET r == call[c].req
             a == ServiceAnswer(c)
         IN /\ Answered(a, r, located(c), Fields(kind)) /\ Resource(located(c), Fields(kind))
            /\ kind = "container" /\ r.method = "PUT" /\ r.comp = "container" =>
                 /\ a.code = Conflict => located(c).there
                 /\ a.code = OK => ~located(c).there
            /\ kind = "container" /\ Reads(r) /\ a.code = OK => located(c).there
<1>1. Resource(located(c), Fields(kind))
  BY DEF ObjectInv, located
<1>2. Known(kind, call[c].req)
  BY DEF ObjectInv, CallOf, Underway, Active
<1>3. CASE kind \in ContainerKinds
  <2>1. /\ ServiceAnswer(c) = ContainerService(call[c].req, located(c))
        /\ Fields(kind) = ContainerFields /\ ContainerKnown(call[c].req)
    BY <1>2, <1>3 DEF ServiceAnswer, Container, Fields, ContainerKinds, Known
  <2> QED
    BY <1>1, <2>1, ContainerAnswer
<1>4. CASE kind \notin ContainerKinds
  <2>1. /\ ServiceAnswer(c) = BlobService(call[c].req, located(c))
        /\ Fields(kind) = BlobFields /\ BlobKnown(call[c].req) /\ kind # "container"
    BY <1>2, <1>4 DEF ServiceAnswer, Container, Fields, ContainerKinds, Known
  <2> QED
    BY <1>1, <2>1, BlobAnswer
<1> QED
  BY <1>3, <1>4

(* A condition the service checked protects the call from then on.         *)
LEMMA CheckedCondition ==
  ASSUME NEW r, NEW s, NEW fields, NEW cond, Resource(s, fields), Conditional(r, s),
         CarriesEtags(r, cond), cond.if_not_modified_since \in Nat
  PROVE  /\ cond.if_match_etag \in {Empty, AnyETag, version(s)}
         /\ \/ cond.if_not_modified_since = Empty
            \/ version(s) <= cond.if_not_modified_since
<1>1. cond.if_match_etag \in {Empty, AnyETag, version(s)}
  BY DEF Conditional, CarriesEtags, version
<1>2. cond.if_not_modified_since # Empty => s.etag <= cond.if_not_modified_since
  BY DEF Conditional, CarriesEtags
<1>3. version(s) = s.etag \/ version(s) = 0
  BY DEF version, Empty
<1>4. 0 <= cond.if_not_modified_since
  OBVIOUS
<1> QED
  BY <1>1, <1>2, <1>3, <1>4

(* The service's step keeps the invariant.                                 *)
LEMMA ServeStep ==
  ASSUME ObjectInv, NEW c \in Callers, ServeObject(c)
  PROVE  ObjectInv'
<1> DEFINE a == ServiceAnswer(c)
           s == located(c)
           q == call[c]
           r == call'[c]
           done == Success(a.code) /\ a.code # NoContent /\ ~Reads(q.req)
<1>0. Serve(c, a)
  BY DEF ServeObject, ServiceAnswer
<1>1. /\ CallsTyped' /\ \A d \in Callers \ {c} : Watched(call'[d], call[d], svc'.there)
      /\ q.st = "sent"
      /\ Agree(r, q, {"st", "resp", "did", "pre", "seen"})
      /\ r.st = "answered" /\ r.resp = a
      /\ r.did = (q.did \/ done)
      /\ r.pre = IF done THEN version(s) ELSE q.pre
      /\ r.seen = q.seen \cup {svc'.there}
      /\ svc' = IF q.at = "primary" /\ ~Reads(q.req) THEN a.state ELSE svc
      /\ UNCHANGED <<kind, obj, sec>>
  BY <1>0, ServeCalls DEF ObjectInv
<1>2. CallOf(kind, q) /\ Underway(kind, q) /\ Active(c)
  BY <1>1 DEF ObjectInv, CallOf, Active
<1>3. /\ Answered(a, q.req, s, Fields(kind)) /\ Resource(s, Fields(kind))
      /\ kind = "container" /\ q.req.method = "PUT" /\ q.req.comp = "container" =>
           (a.code = Conflict => s.there) /\ (a.code = OK => ~s.there)
      /\ kind = "container" /\ Reads(q.req) /\ a.code = OK => s.there
  BY <1>2, SentAnswer
<1>4. q.at = "primary" => s = svc
  BY DEF located
<1>5. BoundsLeft'
  BY <1>0 DEF Serve, BoundsLeft, ObjectInv
<1> HIDE DEF a, s
<1>6. Resource(svc', Fields(kind))
  BY <1>1, <1>3 DEF Answered, ObjectInv
<1>7. done <=> a.code = OK /\ ~Reads(q.req)
  BY <1>3, CodesDiffer DEF Answered
<1>8. /\ r.op = q.op /\ r.step = q.step /\ r.req = q.req /\ r.both = q.both
      /\ r.accepts = q.accepts /\ r.at = q.at /\ r.cond = q.cond /\ r.time = q.time
  BY <1>1 DEF Agree, CallFields
<1> HIDE DEF r, q, done
<1>9. Underway(kind, r)
  <2>1. r.op = "create_if_not_exists" => r.pre = Empty
    <3> SUFFICES ASSUME r.op = "create_if_not_exists"
                 PROVE  r.pre = Empty
      OBVIOUS
    <3>1. /\ kind = "container" /\ q.pre = Empty /\ q.step \in {1, 2}
          /\ q.step = 1 => Reads(q.req)
          /\ q.step = 2 => q.req.method = "PUT" /\ q.req.comp = "container"
      BY <1>2, <1>8 DEF Underway, AsksThenActs, OfTwo, CreatesContainer
    <3>2. done => ~s.there
      BY <1>3, <1>7, <3>1
    <3> QED
      BY <1>1, <3>1, <3>2 DEF version
  <2> QED
    BY <1>2, <1>8, <2>1 DEF Underway, AsksThenActs, CreatesContainer
<1>10. PassesEtags(kind, r.op) => Protected(r)
  <2>1. CASE done
    <3>1. Conditional(q.req, s)
      BY <1>3, <1>7, <2>1 DEF Answered
    <3>2. PassesEtags(kind, r.op) => CarriesEtags(q.req, q.cond)
      BY <1>2, <1>7, <1>8, <2>1 DEF Underway
    <3>3. q.cond.if_not_modified_since \in Nat
      BY <1>2 DEF Underway
    <3> QED
      BY <1>1, <1>3, <1>8, <2>1, <3>1, <3>2, <3>3, CheckedCondition DEF Protected
  <2>2. CASE ~done
    BY <1>1, <1>2, <1>8, <2>2 DEF Protected, CallOf
  <2> QED
    BY <2>1, <2>2
<1>11. Informed(kind, r)
  <2>1. Resource(r.resp.state, Fields(kind)) /\ r.resp.code \in Codes /\ r.resp.code # NoContent
    BY <1>1, <1>3 DEF Answered
  <2>2. r.resp.code = OK /\ ~Reads(r.req) => r.did
    BY <1>1, <1>7, <1>8
  <2>3. r.cond = generate_lease_condition(OurLease) /\ r.resp.code = PreconditionFailed
          => r.resp.state.lease # OurLease
    BY <1>1, <1>2, <1>3, <1>8, CodesDiffer DEF Answered, Underway
  <2>4. r.op \in DeleteIfExists /\ kind # "snapshot" /\ r.resp.code = NotFound
          => FALSE \in r.seen
    <3> SUFFICES ASSUME r.op \in DeleteIfExists, kind # "snapshot", a.code = NotFound
                 PROVE  FALSE \in r.seen
      BY <1>1
    <3>1. q.at = "primary" /\ ~Has(q.req, "snapshot")
      BY <1>2, <1>8 DEF Underway, AsksThenActs, OfTwo
    <3>2. ~s.there /\ a.state = s
      BY <1>3, <3>1, CodesDiffer DEF Answered
    <3>3. svc' = svc /\ svc'.there = FALSE
      BY <1>1, <1>3, <1>4, <3>1, <3>2 DEF Resource
    <3> QED
      BY <1>1, <3>3
  <2>5. r.op = "create_if_not_exists" /\ r.resp.code = (IF r.step = 1 THEN OK ELSE Conflict)
          => TRUE \in r.seen
    <3> SUFFICES ASSUME r.op = "create_if_not_exists",
                        a.code = (IF r.step = 1 THEN OK ELSE Conflict)
                 PROVE  TRUE \in r.seen
      BY <1>1
    <3>1. /\ q.at = "primary" /\ kind = "container" /\ q.step \in {1, 2}
          /\ q.step = 1 => Reads(q.req)
          /\ q.step = 2 => q.req.method = "PUT" /\ q.req.comp = "container"
      BY <1>2, <1>8 DEF Underway, AsksThenActs, OfTwo, CreatesContainer
    <3>2. s.there /\ (q.step = 1 \/ a.state = s)
      BY <1>3, <1>8, <3>1, CodesDiffer DEF Answered
    <3>3. svc' = svc /\ svc'.there = TRUE
      BY <1>1, <1>3, <1>4, <3>1, <3>2 DEF Resource
    <3> QED
      BY <1>1, <3>3
  <2> QED
    BY <2>1, <2>2, <2>3, <2>4, <2>5 DEF Informed
<1>12. CallOf(kind, r)
  <2>1. r.did \in BOOLEAN
    BY <1>1, <1>2 DEF CallOf
  <2> QED
    BY <1>1, <1>9, <1>10, <1>11, <2>1 DEF CallOf
<1>13. \A d \in Callers : CallOf(kind, call'[d])
  BY <1>1, <1>12, WatchedCall DEF ObjectInv, r
<1> QED
  BY <1>1, <1>5, <1>6, <1>13 DEF ObjectInv


-----------------------------------------------------------------------------
(* What the steps do while the calls run one at a time.                    *)

(* A handler that makes the object o takes the etag of a new version.      *)
Settled(c, o) ==
  IF call[c].st = "answered"
  THEN /\ o.etag \in {obj.etag, body(c).etag}
       /\ call[c].resp.code = OK /\ ~KeepsVersion(call[c].req) => o.etag = body(c).etag
  ELSE o.etag = obj.etag

(* A call that begins while another one runs ends the calm.                *)
LEMMA CalmStart ==
  ASSUME ObjectInv, CalmInv, NEW c \in Callers, NEW cmd, execute_async(c, cmd),
         Command(kind, cmd)
  PROVE  CalmInv'
<1>1. /\ \A d \in Callers \ {c} : call'[d] = call[d]
      /\ Thrown(cmd.req) => call'[c] = Done(cmd, Threw)
      /\ ~Thrown(cmd.req) => call'[c].st = "sent"
      /\ UNCHANGED <<kind, obj, svc, sec>>
  BY ExecuteCalls DEF ObjectInv, Command
<1>2. call'[c].st \in {"sent", "returned"}
  BY <1>1, DoneFields
<1>3. calm' = (calm /\ Quiet)
  BY DEF execute_async
<1> SUFFICES ASSUME calm /\ Quiet, kind \notin {"incremental", "snapshot"}
             PROVE  /\ \A x, y \in Callers : Active(x)' /\ Active(y)' => x = y
                    /\ AtRest' /\ Mirrored'
  BY <1>1, <1>3 DEF CalmInv, AtRest
<1>4. \A d \in Callers \ {c} : ~Active(d)'
  BY <1>1 DEF Quiet, Active
<1>5. AtRest /\ AtRest'
  BY <1>1, <1>2 DEF Quiet, Active, AtRest
<1>6. Mirrored'
  BY <1>1, <1>5 DEF CalmInv, Mirrored
<1> QED
  BY <1>4, <1>5, <1>6

(* A call that returns or goes on leaves the object with the etag of the   *)
(* resource.                                                               *)
LEMMA CalmHandled ==
  ASSUME CalmInv, NEW c \in Callers, Active(c), Settled(c, obj'),
         \A d \in Callers \ {c} : call'[d] = call[d], call'[c].st \in {"sent", "returned"},
         svc' = svc, kind' = kind, calm' = calm
  PROVE  CalmInv'
<1> SUFFICES ASSUME calm, kind \notin {"incremental", "snapshot"}
             PROVE  /\ \A x, y \in Callers : Active(x)' /\ Active(y)' => x = y
                    /\ AtRest' /\ Mirrored'
  BY DEF CalmInv, AtRest
<1>1. \A d \in Callers \ {c} : ~Active(d)
  BY DEF CalmInv
<1>2. \A d \in Callers \ {c} : ~Active(d)'
  BY <1>1 DEF Active
<1>3. AtRest'
  BY <1>1 DEF Active, AtRest
<1>4. CASE call[c].st = "answered"
  <2>1. body(c).etag = svc.etag
        /\ (Mirrored \/ (call[c].resp.code = OK /\ ~KeepsVersion(call[c].req)))
    BY <1>4 DEF CalmInv
  <2> QED
    BY <1>2, <1>3, <1>4, <2>1 DEF Settled, Mirrored
<1>5. CASE call[c].st # "answered"
  <2>1. AtRest
    BY <1>1, <1>5 DEF AtRest, Active
  <2>2. Mirrored
    BY <2>1 DEF CalmInv
  <2> QED
    BY <1>2, <1>3, <1>5, <2>2 DEF Settled, Mirrored
<1> QED
  BY <1>4, <1>5

(* The service's step.                                                     *)
LEMMA CalmServe ==
  ASSUME ObjectInv, CalmInv, NEW c \in Callers, ServeObject(c)
  PROVE  CalmInv'
<1> DEFINE a == ServiceAnswer(c)
<1>0. Serve(c, a)
  BY DEF ServeObject, ServiceAnswer
<1>1. /\ CallsTyped' /\ \A d \in Callers \ {c} : Watched(call'[d], call[d], svc'.there)
      /\ call[c].st = "sent" /\ call'[c].st = "answered" /\ call'[c].resp = a
      /\ Agree(call'[c], call[c], {"st", "resp", "did", "pre", "seen"})
      /\ svc' = IF call[c].at = "primary" /\ ~Reads(call[c].req) THEN a.state ELSE svc
      /\ UNCHANGED <<kind, obj, sec>>
  BY <1>0, ServeCalls DEF ObjectInv
<1>2. calm' = (calm /\ call[c].at = "primary")
  BY <1>0 DEF Serve
<1>3. Answered(a, call[c].req, located(c), Fields(kind))
  BY <1>1, SentAnswer DEF Active
<1> SUFFICES ASSUME calm, call[c].at = "primary", kind \notin {"incremental", "snapshot"}
             PROVE  /\ \A x, y \in Callers : Active(x)' /\ Active(y)' => x = y
                    /\ ~AtRest'
                    /\ body(c)'.etag = svc'.etag
                    /\ Mirrored' \/ (call'[c].resp.code = OK /\ ~KeepsVersion(call'[c].req))
  <2>1. \A x \in Callers : call'[x].st = "answered" => Active(x)'
    BY DEF Active
  <2>2. Active(c)'
    BY <1>1 DEF Active
  <2> QED
    BY <1>1, <1>2, <2>1, <2>2 DEF CalmInv
<1> HIDE DEF a
<1>4. located(c) = svc
  BY DEF located
<1>5. \A d \in Callers \ {c} : ~Active(d)
  BY <1>1 DEF CalmInv, Active
<1>6. \A d \in Callers \ {c} : ~Active(d)'
  BY <1>1, <1>5 DEF Active, Watched, Agree, CallFields
<1>7. AtRest /\ ~AtRest'
  BY <1>1, <1>5 DEF AtRest, Active
<1>8. Mirrored
  BY <1>7 DEF CalmInv
<1>9. call'[c].req = call[c].req
  BY <1>1 DEF Agree, CallFields
<1>10. Reads(call[c].req) => KeepsVersion(call[c].req)
  BY DEF KeepsVersion
<1>11. a.state.etag = svc'.etag
  BY <1>1, <1>3, <1>4, <1>10 DEF Answered
<1>12. a.code # OK \/ KeepsVersion(call[c].req) => svc'.etag = svc.etag
  BY <1>1, <1>3, <1>4, <1>10 DEF Answered
<1> QED
  BY <1>1, <1>6, <1>7, <1>8, <1>9, <1>11, <1>12 DEF Mirrored, body

(* Losses, refusals, timeouts and the changes of others.                   *)
LEMMA CalmNetwork ==
  ASSUME ObjectInv, CalmInv, NEW c \in Callers, Network(c)
  PROVE  CalmInv'
<1>1. CASE Resend(c) \/ GiveUp(c)
  BY <1>1 DEF Resend, GiveUp, CalmInv
<1>2. CASE Refused(c)
  <2>1. /\ call[c].st = "answered" /\ CallOf(kind, call[c]) /\ ~Success(call[c].resp.code)
        /\ obj' = obj /\ calm' = calm /\ UNCHANGED <<kind, svc, sec>>
        /\ \/ Returns(c, call[c].resp.code)
           \/ /\ \A d \in Callers \ {c} : call'[d] = call[d]
              /\ call'[c].st = "sent"
    BY <1>2, RefusedCalls DEF ObjectInv
  <2>2. /\ \A d \in Callers \ {c} : call'[d] = call[d]
        /\ call'[c].st \in {"sent", "returned"}
    BY <2>1, ReturnCalls, DoneFields DEF ObjectInv
  <2>3. call[c].resp.code \in Codes
    BY <2>1 DEF CallOf, Informed
  <2>4. call[c].resp.code # OK
    BY <2>1, <2>3, CodesDiffer
  <2>5. Settled(c, obj')
    BY <2>1, <2>4 DEF Settled
  <2> QED
    BY <2>1, <2>2, <2>5, CalmHandled DEF Active
<1>3. CASE timer_fires(c)
  <2>1. /\ Returns(c, TimedOut) /\ obj' = obj /\ call[c].step = 2 /\ call[c].time < 0
        /\ calm' = calm
    BY <1>3, ReturningSteps
  <2>2. /\ Active(c) /\ UNCHANGED <<kind, svc, sec>>
        /\ \A d \in Callers \ {c} : call'[d] = call[d]
        /\ call'[c].st = "returned"
    BY <2>1, ReturnCalls, DoneFields DEF ObjectInv
  <2>3. Underway(kind, call[c])
    BY <2>2 DEF ObjectInv, CallOf, Active
  <2>4. call[c].op # "create_if_not_exists"
    BY <2>1, <2>3 DEF Underway, CreatesContainer
  <2>5. KeepsVersion(call[c].req)
    BY <2>1, <2>3, <2>4 DEF Underway, OfTwo, DeleteIfExists, MayKeepEtag
  <2>6. Settled(c, obj')
    BY <2>1, <2>5 DEF Settled
  <2> QED
    BY <2>1, <2>2, <2>6, CalmHandled
<1> QED
  BY <1>1, <1>2, <1>3 DEF Network


-----------------------------------------------------------------------------
(* The commands the calls hand to the executor.                            *)

(* The conditions callers give.                                            *)
LEMMA GivenConditions ==
  ASSUME ObjectInv
  PROVE  /\ \A cond \in Conditions \cup TimeConditions \cup ReadConditions :
              cond.if_not_modified_since \in Nat
         /\ access_condition.if_not_modified_since \in Nat
         /\ generate_if_not_exists_condition.if_not_modified_since \in Nat
         /\ \A id : generate_lease_condition(id).if_not_modified_since \in Nat
<1>1. obj.etag \in Nat
  BY DEF ObjectInv, ObjectOf
<1> QED
  BY <1>1 DEF Conditions, TimeConditions, ReadConditions, access_condition, Empty,
     generate_if_match_condition, generate_lease_condition, set_lease_id,
     generate_if_not_modified_since_condition, generate_if_none_match_condition,
     generate_if_modified_since_condition, generate_if_not_exists_condition

(* A request with nothing but our lease id can be refused for that alone.  *)
LEMMA LeaseHolder ==
  ASSUME NEW r, NEW m, NEW comp,
         ~Thrown(r),
         \/ Built(r, m, comp, generate_lease_condition(OurLease), {"snapshot"})
         \/ BuiltLease(r, m, comp, generate_lease_condition(OurLease), {"snapshot"})
  PROVE  OurLeaseOnly(r)
<1> DEFINE cond == generate_lease_condition(OurLease)
<1>1. /\ cond.lease_id = OurLease /\ cond.lease_id # Empty
      /\ cond.if_match_etag = Empty /\ cond.if_none_match_etag = Empty
      /\ cond.if_modified_since = Empty /\ cond.if_not_modified_since = Empty
  BY DEF generate_lease_condition, access_condition, OurLease, Empty
<1> HIDE DEF cond
<1>2. CarriesLease(r, cond) /\ \A h \in Special \ {"snapshot"} : ~Has(r, h)
  BY DEF Built, BuiltLease, cond
<1>3. CarriesEtags(r, cond) \/ \A h \in EtagHeaders : ~Has(r, h)
  BY DEF Built, BuiltLease, cond
<1>4. \A h \in EtagHeaders : ~Has(r, h)
  BY <1>1, <1>3 DEF CarriesEtags, EtagHeaders
<1> QED
  BY <1>1, <1>2, <1>4 DEF CarriesLease, Special, OurLeaseOnly

(* The command of a call of one request.                                   *)
LEMMA PlainCommand ==
  ASSUME NEW k, NEW op, NEW req, NEW both, NEW accepts, NEW arg, NEW cond,
         NEW m, NEW comp, NEW hs, cond.if_not_modified_since \in Nat, op \notin OfTwo,
         \/ Built(req, m, comp, cond, hs)
         \/ BuiltLease(req, m, comp, cond, hs) /\ (~PassesEtags(k, op) \/ Reads(req)),
         cond = generate_lease_condition(OurLease) =>
           \/ Built(req, m, comp, cond, {"snapshot"})
           \/ BuiltLease(req, m, comp, cond, {"snapshot"}),
         ~Thrown(req) =>
           /\ Known(k, req)
           /\ IF k = "snapshot" THEN SparesBlob(req) ELSE ~Has(req, "snapshot")
           /\ op \in MayKeepEtag => KeepsVersion(req)
  PROVE  Command(k, command(op, req, both, accepts, arg, cond))
<1> DEFINE cmd == command(op, req, both, accepts, arg, cond)
<1>1. /\ DOMAIN cmd = CallFields /\ cmd.op = op /\ cmd.req = req /\ cmd.cond = cond
      /\ cmd.step = 1 /\ cmd.did = FALSE /\ cmd.at = "primary"
  BY DEF command, Idle, CallFields
<1> HIDE DEF cmd
<1> SUFFICES ASSUME ~Thrown(req)
             PROVE  Underway(k, cmd)
  BY <1>1 DEF Command, cmd
<1>2. PassesEtags(k, op) /\ ~Reads(req) => CarriesEtags(req, cond)
  BY DEF Built
<1>3. cond = generate_lease_condition(OurLease) => OurLeaseOnly(req)
  BY LeaseHolder
<1>4. op # "create_if_not_exists"
  BY DEF OfTwo
<1> QED
  BY <1>1, <1>2, <1>3, <1>4 DEF Underway

(* The members of a blob's object.                                         *)
LEMMA ObjectKind ==
  ASSUME ObjectInv, kind \notin ContainerKinds
  PROVE  /\ obj.snapshot = Empty <=> kind # "snapshot"
         /\ \A r : Known(kind, r) <=> BlobKnown(r)
         /\ kind # "container_lease"
  BY DEF ObjectInv, ObjectOf, Known, ContainerKinds

(* The command of a call that changes a blob: it is never sent for a       *)
(* snapshot.                                                               *)
LEMMA ChangeCommand ==
  ASSUME ObjectInv, kind \notin ContainerKinds,
         NEW op, NEW req, NEW arg, NEW cond, NEW comp, NEW hs,
         cond.if_not_modified_since \in Nat, op \notin OfTwo,
         \/ Built(req, "PUT", comp, cond, hs)
         \/ BuiltLease(req, "PUT", comp, cond, hs) /\ op \in LeaseIdOnly,
         cond = generate_lease_condition(OurLease) \/ "snapshot" \in hs => hs = {},
         comp \in BlobChanges \/ (comp = "lease" /\ req["action"] \in LeaseActions),
         op \in MayKeepEtag => comp \in {"abort", "block"}
  PROVE  Command(kind, command(op, assert_no_snapshot(req), PrimaryOnly, {}, arg, cond))
<1> DEFINE r == assert_no_snapshot(req)
<1>1. /\ Thrown(invalid_argument)
      /\ ~Thrown(r) => r = req /\ obj.snapshot = Empty
      /\ r = req \/ Thrown(r)
  BY ThrownBuilt DEF assert_no_snapshot
<1> HIDE DEF r
<1>2. \/ Built(r, "PUT", comp, cond, hs)
      \/ BuiltLease(r, "PUT", comp, cond, hs) /\ ~PassesEtags(kind, op)
  BY <1>1, ThrownBuilt DEF PassesEtags
<1>3. cond = generate_lease_condition(OurLease) =>
           \/ Built(r, "PUT", comp, cond, {"snapshot"})
           \/ BuiltLease(r, "PUT", comp, cond, {"snapshot"})
  BY <1>2 DEF Built, BuiltLease
<1>4. ASSUME ~Thrown(r)
      PROVE  /\ Known(kind, r) /\ kind # "snapshot" /\ ~Has(r, "snapshot")
             /\ op \in MayKeepEtag => KeepsVersion(r)
  <2>1. IsRequest(r, "PUT", comp) /\ ~Has(r, "snapshot")
    BY <1>2, <1>4 DEF Built, BuiltLease, Special
  <2>2. BlobKnown(r)
    BY <1>1, <1>4, <2>1 DEF IsRequest, BlobKnown, IsLease
  <2>3. op \in MayKeepEtag => KeepsVersion(r)
    BY <2>1 DEF IsRequest, KeepsVersion
  <2> QED
    BY <1>1, <1>4, <2>1, <2>2, <2>3, ObjectKind
<1>5. Command(kind, command(op, r, PrimaryOnly, {}, arg, cond))
  BY <1>2, <1>3, <1>4, PlainCommand
<1> QED
  BY <1>5 DEF r

(* The command of a call that reads a blob or its snapshot.                *)
LEMMA ReadCommand ==
  ASSUME ObjectInv, kind \notin ContainerKinds,
         NEW op, NEW req, NEW both, NEW accepts, NEW arg, NEW cond,
         NEW m \in {"GET", "HEAD"}, NEW comp \in {"blob", "blocklist", "pagelist"},
         cond.if_not_modified_since \in Nat, op \notin OfTwo,
         Built(req, m, comp, cond, SnapshotHeader(obj.snapshot))
  PROVE  Command(kind, command(op, req, both, accepts, arg, cond))
<1> DEFINE hs == SnapshotHeader(obj.snapshot)
<1>1. hs \subseteq {"snapshot"}
  BY DEF SnapshotHeader
<1> HIDE DEF hs
<1>2. Built(req, m, comp, cond, {"snapshot"})
  BY <1>1 DEF Built, hs
<1>3. ASSUME ~Thrown(req)
      PROVE  /\ Known(kind, req) /\ KeepsVersion(req)
             /\ IF kind = "snapshot" THEN SparesBlob(req) ELSE ~Has(req, "snapshot")
  <2>1. IsRequest(req, m, comp) /\ \A h \in Special \ hs : ~Has(req, h)
    BY <1>3 DEF Built, hs
  <2>2. Reads(req) /\ req.comp # "lease"
    BY <2>1 DEF IsRequest, Reads
  <2>3. kind # "snapshot" => ~Has(req, "snapshot")
    BY <2>1, ObjectKind DEF hs, SnapshotHeader, Special
  <2> QED
    BY <2>2, <2>3, ObjectKind DEF BlobKnown, SparesBlob, KeepsVersion
<1> QED
  BY <1>2, <1>3, PlainCommand

(* A builder that threw.                                                   *)
LEMMA ThrownCommand ==
  ASSUME NEW k, NEW op, NEW req, NEW both, NEW accepts, NEW arg, NEW cond, Thrown(req)
  PROVE  Command(k, command(op, req, both, accepts, arg, cond))
<1> DEFINE cmd == command(op, req, both, accepts, arg, cond)
<1>1. /\ DOMAIN cmd = CallFields /\ cmd.req = req /\ cmd.did = FALSE /\ cmd.at = "primary"
  BY DEF command, Idle, CallFields
<1> QED
  BY <1>1 DEF Command

(* The command that asks whether the resource exists, of a call of two.    *)
LEMMA AskCommand ==
  ASSUME NEW k, NEW op \in OfTwo, NEW req, NEW arg, NEW cond, NEW time,
         NEW comp \in {"blob", "container"}, NEW hs \in SUBSET {"snapshot"},
         cond.if_not_modified_since \in Nat,
         Built(req, "HEAD", comp, access_condition, hs),
         k # "snapshot" => hs = {},
         op = "create_if_not_exists" =>
           k = "container" /\ time \in Nat /\ cond = access_condition
  PROVE  Command(k, [command(op, req, PrimaryOnly, {NotFound}, arg, cond)
                       EXCEPT !.time = time])
<1> DEFINE cmd == [command(op, req, PrimaryOnly, {NotFound}, arg, cond) EXCEPT !.time = time]
<1>1. /\ DOMAIN cmd = CallFields /\ cmd.op = op /\ cmd.req = req /\ cmd.cond = cond
      /\ cmd.step = 1 /\ cmd.did = FALSE /\ cmd.at = "primary" /\ cmd.both = FALSE
      /\ cmd.accepts = {NotFound} /\ cmd.time = time /\ cmd.pre = Empty
  BY DEF command, Idle, CallFields, PrimaryOnly
<1> HIDE DEF cmd
<1> SUFFICES ASSUME ~Thrown(req)
             PROVE  Underway(k, cmd)
  BY <1>1 DEF Command, cmd
<1>2. /\ IsRequest(req, "HEAD", comp) /\ CarriesLease(req, access_condition)
      /\ CarriesEtags(req, access_condition) /\ \A h \in Special \ hs : ~Has(req, h)
  BY DEF Built
<1>3. Reads(req) /\ req.comp # "lease"
  BY <1>2 DEF IsRequest, Reads
<1>4. Known(k, req) /\ KeepsVersion(req) /\ SparesBlob(req)
  BY <1>3 DEF Known, BlobKnown, ContainerKnown, KeepsVersion, SparesBlob
<1>5. OurLeaseOnly(req)
  <2>1. ~Has(req, "lease_id") /\ \A h \in EtagHeaders : ~Has(req, h)
    BY <1>2 DEF access_condition, CarriesLease, CarriesEtags, EtagHeaders
  <2> QED
    BY <1>2, <1>3, <2>1 DEF OurLeaseOnly, Special
<1>6. k # "snapshot" => ~Has(req, "snapshot")
  BY <1>2 DEF Special
<1>7. AsksThenActs(cmd) /\ (op = "create_if_not_exists" => CreatesContainer(cmd))
  BY <1>1, <1>3 DEF AsksThenActs, CreatesContainer
<1> QED
  BY <1>1, <1>3, <1>4, <1>5, <1>6, <1>7 DEF Underway

Starts(c) == \E cmd : execute_async(c, cmd) /\ Command(kind, cmd)

(* Attributes and deletion of blobs.                                       *)
LEMMA AttributeStarts ==
  ASSUME ObjectInv, kind \notin ContainerKinds, NEW c \in Callers,
         \/ exists(c) \/ download_attributes(c) \/ upload_metadata(c) \/ upload_properties(c)
         \/ delete_blob_call(c) \/ delete_blob_if_exists(c)
  PROVE  Starts(c)
<1>1. CASE exists(c)
  <2>1. Command(kind, command("exists", get_blob_properties(obj.snapshot, access_condition),
                              Both, {NotFound}, Empty, access_condition))
    BY ReadCommand, BlobRequestsBuilt, GivenConditions
    DEF OfTwo, DeleteIfExists
  <2> QED
    BY <1>1, <2>1 DEF exists, exists_async_impl, Starts
<1>2. CASE download_attributes(c)
  <2>1. PICK condition \in ReadConditions : download_attributes_async(c, condition)
    BY <1>2 DEF download_attributes
  <2>2. Command(kind, command("download_attributes",
          get_blob_properties(obj.snapshot, condition), Both, {}, Empty, condition))
    BY ReadCommand, BlobRequestsBuilt, GivenConditions
    DEF OfTwo, DeleteIfExists
  <2> QED
    BY <2>1, <2>2 DEF download_attributes_async, Starts
<1>3. CASE upload_metadata(c)
  <2>1. PICK condition \in Conditions \cup TimeConditions : upload_metadata_async(c, condition)
    BY <1>3 DEF upload_metadata
  <2>2. Command(kind, command("upload_metadata",
          assert_no_snapshot(set_blob_metadata(obj.meta, condition)),
          PrimaryOnly, {}, Empty, condition))
    BY ChangeCommand, BlobRequestsBuilt, GivenConditions
    DEF OfTwo, MayKeepEtag, DeleteIfExists, BlobChanges
  <2> QED
    BY <2>1, <2>2 DEF upload_metadata_async, Send, Starts
<1>4. CASE upload_properties(c)
  <2>1. PICK condition \in Conditions : upload_properties_async_impl(c, condition)
    BY <1>4 DEF upload_properties
  <2>2. Command(kind, command("upload_properties",
          assert_no_snapshot(set_blob_properties(obj.content, obj.meta, condition)),
          PrimaryOnly, {}, Empty, condition))
    BY ChangeCommand, BlobRequestsBuilt, GivenConditions
    DEF OfTwo, MayKeepEtag, DeleteIfExists, BlobChanges
  <2> QED
    BY <2>1, <2>2 DEF upload_properties_async_impl, Send, Starts
<1>5. CASE delete_blob_call(c)
  <2>1. PICK condition \in Conditions, option \in {Empty, 1, 2} :
          delete_blob_async(c, option, condition)
    BY <1>5 DEF delete_blob_call
  <2> DEFINE req == delete_blob(option, obj.snapshot, condition)
             hs == SnapshotHeader(obj.snapshot)
  <2>2. Built(req, "DEL", "blob", condition, hs)
    BY BlobRequestsBuilt
  <2>3. hs \subseteq {"snapshot"} /\ (kind # "snapshot" => hs = {})
    BY ObjectKind DEF SnapshotHeader
  <2>4. ~Thrown(req) /\ kind = "snapshot" => Has(req, "snapshot")
    BY DeleteNamesSnapshot, ObjectKind
  <2> HIDE DEF req, hs
  <2>5. ASSUME ~Thrown(req)
        PROVE  /\ Known(kind, req) /\ KeepsVersion(req)
               /\ IF kind = "snapshot" THEN SparesBlob(req) ELSE ~Has(req, "snapshot")
    <3>1. IsRequest(req, "DEL", "blob") /\ \A h \in Special \ hs : ~Has(req, h)
      BY <2>2, <2>5 DEF Built
    <3> QED
      BY <2>3, <2>4, <2>5, <3>1, ObjectKind
      DEF IsRequest, BlobKnown, KeepsVersion, SparesBlob, Special
  <2>6. Built(req, "DEL", "blob", condition, {"snapshot"})
    BY <2>2, <2>3 DEF Built
  <2>7. Command(kind, command("delete_blob", req, PrimaryOnly, {}, Empty, condition))
    BY <2>5, <2>6, PlainCommand, GivenConditions DEF OfTwo, DeleteIfExists
  <2> QED
    BY <2>1, <2>7 DEF delete_blob_async, Send, Starts, req
<1>6. CASE delete_blob_if_exists(c)
  <2>1. PICK condition \in {access_condition, generate_lease_condition(OurLease)},
             option \in {Empty, 1}, options \in CallMaxTime :
          delete_blob_if_exists_async(c, option, options, condition)
    BY <1>6 DEF delete_blob_if_exists
  <2> DEFINE time == new_max_execution_time(options, first_time_point(options))
             req == get_blob_properties(obj.snapshot, access_condition)
             hs == SnapshotHeader(obj.snapshot)
  <2>2. Built(req, "HEAD", "blob", access_condition, hs)
    BY BlobRequestsBuilt
  <2>3. hs \in SUBSET {"snapshot"} /\ (kind # "snapshot" => hs = {})
    BY ObjectKind DEF SnapshotHeader
  <2> HIDE DEF time, req, hs
  <2>4. condition.if_not_modified_since \in Nat
    BY GivenConditions
  <2>5. Command(kind, [command("delete_blob_if_exists", req, PrimaryOnly, {NotFound},
                               option, condition) EXCEPT !.time = time])
    BY <2>2, <2>3, <2>4, AskCommand DEF OfTwo, DeleteIfExists
  <2> QED
    BY <2>1, <2>5 DEF delete_blob_if_exists_async, Starts, time, req
<1> QED
  BY <1>1, <1>2, <1>3, <1>4, <1>5, <1>6


(* Leases of blobs.                                                        *)
LEMMA LeaseStarts ==
  ASSUME ObjectInv, kind \notin ContainerKinds, NEW c \in Callers,
         \/ acquire_lease(c) \/ renew_lease(c) \/ change_lease(c) \/ release_lease(c)
         \/ break_lease(c)
  PROVE  Starts(c)
<1>1. CASE acquire_lease(c)
  <2>1. PICK duration \in Durations, proposed \in {Empty, OurLease}, condition \in Conditions :
          acquire_lease_async(c, duration, proposed, condition)
    BY <1>1 DEF acquire_lease
  <2>2. Command(kind, command("acquire_lease",
          assert_no_snapshot(lease_blob("acquire", proposed, duration, Empty, condition)),
          PrimaryOnly, {}, Empty, condition))
    BY ChangeCommand, LeaseRequests, GivenConditions
    DEF OfTwo, MayKeepEtag, DeleteIfExists, BlobChanges, LeaseActions
  <2> QED
    BY <2>1, <2>2 DEF acquire_lease_async, Send, Starts
<1>2. CASE renew_lease(c)
  <2>1. PICK condition \in Conditions :
          renew_lease_async(c, condition)
    BY <1>2 DEF renew_lease
  <2> DEFINE req == assert_no_snapshot(lease_blob("renew", Empty, Empty, Empty, condition))
             cmd(r) == command("renew_lease", r, PrimaryOnly, {}, Empty, condition)
  <2>2. Command(kind, cmd(req)) /\ Command(kind, cmd(invalid_argument))
    BY ChangeCommand, LeaseRequests, ThrownBuilt, ThrownCommand, GivenConditions
    DEF OfTwo, MayKeepEtag, DeleteIfExists, LeaseActions
  <2>3. Command(kind, cmd(assert_lease_id(condition, req)))
    BY <2>2 DEF assert_lease_id
  <2> HIDE DEF cmd
  <2> QED
    BY <2>1, <2>3 DEF renew_lease_async, Send, Starts, cmd
<1>3. CASE change_lease(c)
  <2>1. PICK condition \in {access_condition, generate_lease_condition(TheirLease)} :
          change_lease_async(c, OurLease, condition)
    BY <1>3 DEF change_lease
  <2> DEFINE req == assert_no_snapshot(lease_blob("change", OurLease, Empty, Empty, condition))
             cmd(r) == command("change_lease", r, PrimaryOnly, {}, Empty, condition)
  <2>2. Command(kind, cmd(req)) /\ Command(kind, cmd(invalid_argument))
    BY ChangeCommand, LeaseRequests, ThrownBuilt, ThrownCommand, GivenConditions
    DEF OfTwo, MayKeepEtag, DeleteIfExists, LeaseActions
  <2>3. Command(kind, cmd(assert_lease_id(condition, req)))
    BY <2>2 DEF assert_lease_id
  <2> HIDE DEF cmd
  <2> QED
    BY <2>1, <2>3 DEF change_lease_async, Send, Starts, cmd
<1>4. CASE release_lease(c)
  <2>1. PICK condition \in Conditions :
          release_lease_async(c, condition)
    BY <1>4 DEF release_lease
  <2> DEFINE req == assert_no_snapshot(lease_blob("release", Empty, Empty, Empty, condition))
             cmd(r) == command("release_lease", r, PrimaryOnly, {}, Empty, condition)
  <2>2. Command(kind, cmd(req)) /\ Command(kind, cmd(invalid_argument))
    BY ChangeCommand, LeaseRequests, ThrownBuilt, ThrownCommand, GivenConditions
    DEF OfTwo, MayKeepEtag, DeleteIfExists, LeaseActions
  <2>3. Command(kind, cmd(assert_lease_id(condition, req)))
    BY <2>2 DEF assert_lease_id
  <2> HIDE DEF cmd
  <2> QED
    BY <2>1, <2>3 DEF release_lease_async, Send, Starts, cmd
<1>5. CASE break_lease(c)
  <2>1. PICK break_period \in {Empty, 1}, condition \in Conditions :
          break_lease_async(c, break_period, condition)
    BY <1>5 DEF break_lease
  <2>2. Command(kind, command("break_lease",
          assert_no_snapshot(lease_blob("break", Empty, Empty, break_period, condition)),
          PrimaryOnly, {}, Empty, condition))
    BY ChangeCommand, LeaseRequests, GivenConditions
    DEF OfTwo, MayKeepEtag, DeleteIfExists, BlobChanges, LeaseActions
  <2> QED
    BY <2>1, <2>2 DEF break_lease_async, Send, Starts
<1> QED
  BY <1>1, <1>2, <1>3, <1>4, <1>5

(* Copies and snapshots.                                                   *)
LEMMA CopyStarts ==
  ASSUME ObjectInv, kind \notin ContainerKinds, NEW c \in Callers,
         \/ start_copy(c) \/ page_start_copy(c) \/ abort_copy(c) \/ create_snapshot(c)
         \/ start_incremental_copy(c)
  PROVE  Starts(c)
<1>1. CASE start_copy(c)
  <2>1. PICK condition \in Conditions,
             source_condition \in {access_condition, generate_lease_condition(TheirLease)} :
          start_copy_async_impl(c, Empty, Empty, source_condition, condition)
    BY <1>1 DEF start_copy
  <2>2. Command(kind, command("start_copy",
          assert_no_snapshot(copy_blob(Source, Empty, source_condition, Empty, condition)),
          PrimaryOnly, {}, Empty, condition))
    BY ChangeCommand, BlobRequestsBuilt, GivenConditions
    DEF OfTwo, MayKeepEtag, DeleteIfExists, BlobChanges
  <2> QED
    BY <2>1, <2>2 DEF start_copy_async_impl, Starts
<1>2. CASE page_start_copy(c)
  <2>1. PICK tier \in {Empty, P4}, condition \in Conditions :
          start_copy_async_impl(c, tier, Empty, access_condition, condition)
    BY <1>2 DEF page_start_copy
  <2>2. Command(kind, command("start_copy",
          assert_no_snapshot(copy_blob(Source, tier, access_condition, Empty, condition)),
          PrimaryOnly, {}, tier, condition))
    BY ChangeCommand, BlobRequestsBuilt, GivenConditions
    DEF OfTwo, MayKeepEtag, DeleteIfExists, BlobChanges
  <2> QED
    BY <2>1, <2>2 DEF start_copy_async_impl, Starts
<1>3. CASE abort_copy(c)
  <2>1. PICK copy_id \in {NotedCopy} \cup ({obj.copy} \ {Empty}),
             condition \in {access_condition, generate_lease_condition(OurLease)} :
          abort_copy_async(c, copy_id, condition)
    BY <1>3 DEF abort_copy
  <2>2. Command(kind, command("abort_copy",
          assert_no_snapshot(abort_copy_blob(copy_id, condition)),
          PrimaryOnly, {}, Empty, condition))
    BY ChangeCommand, BlobRequestsBuilt, GivenConditions
    DEF OfTwo, MayKeepEtag, DeleteIfExists, BlobChanges, LeaseIdOnly
  <2> QED
    BY <2>1, <2>2 DEF abort_copy_async, Send, Starts
<1>4. CASE create_snapshot(c)
  <2>1. PICK metadata \in {Empty, 2}, condition \in Conditions :
          create_snapshot_async(c, metadata, condition)
    BY <1>4 DEF create_snapshot
  <2>2. Command(kind, command("create_snapshot",
          assert_no_snapshot(snapshot_blob(metadata, condition)),
          PrimaryOnly, {}, metadata, condition))
    BY ChangeCommand, BlobRequestsBuilt, GivenConditions
    DEF OfTwo, MayKeepEtag, DeleteIfExists, BlobChanges
  <2> QED
    BY <2>1, <2>2 DEF create_snapshot_async, Starts
<1>5. CASE start_incremental_copy(c)
  <2>1. PICK condition \in Conditions :
          start_incremental_copy_async(c, condition)
    BY <1>5 DEF start_incremental_copy
  <2>2. Command(kind, command("start_incremental_copy",
          assert_no_snapshot(incremental_copy_blob(Source, condition, obj.meta)),
          PrimaryOnly, {}, Empty, condition))
    BY ChangeCommand, BlobTypeRequests, GivenConditions
    DEF OfTwo, MayKeepEtag, DeleteIfExists, BlobChanges
  <2> QED
    BY <2>1, <2>2 DEF start_incremental_copy_async, Send, Starts
<1> QED
  BY <1>1, <1>2, <1>3, <1>4, <1>5

(* The tier of a blob is set through its snapshots' objects as well.       *)
LEMMA TierCommand ==
  ASSUME ObjectInv, kind \notin ContainerKinds, NEW tier, NEW cond,
         cond.if_not_modified_since \in Nat,
         NEW op \in {"set_standard_blob_tier", "set_premium_blob_tier"}
  PROVE  Command(kind, command(op, set_blob_tier(tier, cond), PrimaryOnly, {}, tier, cond))
<1> DEFINE req == set_blob_tier(tier, cond)
<1>1. Built(req, "PUT", "tier", cond, {})
  BY BlobRequestsBuilt
<1> HIDE DEF req
<1>2. Built(req, "PUT", "tier", cond, {"snapshot"})
  BY <1>1 DEF Built
<1>3. ~Thrown(req) =>
        /\ Known(kind, req) /\ KeepsVersion(req)
        /\ IF kind = "snapshot" THEN SparesBlob(req) ELSE ~Has(req, "snapshot")
  BY <1>1, ObjectKind
  DEF Built, IsRequest, BlobKnown, BlobChanges, KeepsVersion, SparesBlob, Special
<1>4. op \notin OfTwo
  BY DEF OfTwo, DeleteIfExists
<1>5. Command(kind, command(op, req, PrimaryOnly, {}, tier, cond))
  BY <1>2, <1>3, <1>4, PlainCommand
<1> QED
  BY <1>5 DEF req

(* Block blobs.                                                            *)
LEMMA BlockStarts ==
  ASSUME ObjectInv, kind \notin ContainerKinds, NEW c \in Callers,
         \/ upload_block(c) \/ upload_block_list(c) \/ download_block_list(c)
         \/ upload_from_stream(c) \/ set_standard_blob_tier(c)
  PROVE  Starts(c)
<1>1. CASE upload_block(c)
  <2>1. PICK block_id \in BlockIds,
             condition \in {access_condition, generate_lease_condition(OurLease)} :
          upload_block_async_impl(c, block_id, condition)
    BY <1>1 DEF upload_block
  <2>2. Command(kind, command("upload_block",
          assert_no_snapshot(put_block(block_id, condition)),
          PrimaryOnly, {}, Empty, condition))
    BY ChangeCommand, BlobTypeRequests, GivenConditions
    DEF OfTwo, MayKeepEtag, DeleteIfExists, BlobChanges, LeaseIdOnly
  <2> QED
    BY <2>1, <2>2 DEF upload_block_async_impl, Send, Starts
<1>2. CASE upload_block_list(c)
  <2>1. PICK blocks \in {{1}, BlockIds}, condition \in Conditions :
          upload_block_list_async_impl(c, blocks, condition)
    BY <1>2 DEF upload_block_list
  <2>2. Command(kind, command("upload_block_list",
          assert_no_snapshot(put_block_list(blocks, obj.content, obj.meta, condition)),
          PrimaryOnly, {}, Empty, condition))
    BY ChangeCommand, BlobTypeRequests, GivenConditions
    DEF OfTwo, MayKeepEtag, DeleteIfExists, BlobChanges
  <2> QED
    BY <2>1, <2>2 DEF upload_block_list_async_impl, Send, Starts
<1>3. CASE download_block_list(c)
  <2>1. PICK filter \in Filters, condition \in ReadConditions :
          download_block_list_async(c, filter, condition)
    BY <1>3 DEF download_block_list
  <2>2. Command(kind, command("download_block_list",
          get_block_list(filter, obj.snapshot, condition),
          Both, {}, Empty, condition))
    BY ReadCommand, BlobTypeRequests, GivenConditions
    DEF OfTwo, DeleteIfExists
  <2> QED
    BY <2>1, <2>2 DEF download_block_list_async, Starts
<1>4. CASE upload_from_stream(c)
  <2>1. PICK condition \in Conditions \cup {generate_if_not_exists_condition} :
          upload_single_async(c, condition)
    BY <1>4 DEF upload_from_stream
  <2>2. Command(kind, command("upload_from_stream",
          assert_no_snapshot(put_block_blob(obj.content, obj.meta, condition)),
          PrimaryOnly, {}, Empty, condition))
    BY ChangeCommand, BlobTypeRequests, GivenConditions
    DEF OfTwo, MayKeepEtag, DeleteIfExists, BlobChanges
  <2> QED
    BY <2>1, <2>2 DEF upload_single_async, Send, Starts
<1>5. CASE set_standard_blob_tier(c)
  <2>1. PICK condition \in {access_condition, generate_lease_condition(OurLease)} :
          set_standard_blob_tier_async(c, Hot, condition)
    BY <1>5 DEF set_standard_blob_tier
  <2>2. Command(kind, command("set_standard_blob_tier", set_blob_tier(Hot, condition),
                              PrimaryOnly, {}, Hot, condition))
    BY TierCommand, GivenConditions
  <2> QED
    BY <2>1, <2>2 DEF set_standard_blob_tier_async, Starts
<1> QED
  BY <1>1, <1>2, <1>3, <1>4, <1>5

(* clear_pages and upload_pages, with a condition on the sequence number.  *)
LEMMA PageCommand ==
  ASSUME ObjectInv, kind \notin ContainerKinds, NEW write, NEW cond \in PageConditions,
         NEW op, op \notin OfTwo \cup MayKeepEtag
  PROVE  Command(kind, command(op, assert_no_snapshot(put_page(1, write, cond)),
                               PrimaryOnly, {}, Empty, cond))
<1>1. cond.if_not_modified_since \in Nat
  <2>1. cond \notin Conditions => cond.if_not_modified_since = 0
    BY DEF PageConditions, Conditions, generate_sequence_number_condition, access_condition, Empty
  <2> QED
    BY <2>1, GivenConditions
<1>2. cond = generate_lease_condition(OurLease) => cond.seq_operator = "none"
  BY DEF generate_lease_condition, access_condition
<1>3. "page" \in BlobChanges
  BY DEF BlobChanges
<1>4. CASE cond = generate_lease_condition(OurLease)
  <2>1. Built(put_page(1, write, cond), "PUT", "page", cond, {})
    BY <1>2, <1>4, BlobTypeRequests
  <2> QED
    BY <1>1, <1>3, <2>1, ChangeCommand
<1>5. CASE cond # generate_lease_condition(OurLease)
  <2>1. Built(put_page(1, write, cond), "PUT", "page", cond, {"if_seq"})
    BY BlobTypeRequests
  <2> QED
    BY <1>1, <1>3, <1>5, <2>1, ChangeCommand
<1> QED
  BY <1>4, <1>5

(* Page blobs.                                                             *)
LEMMA PageStarts ==
  ASSUME ObjectInv, kind \notin ContainerKinds, NEW c \in Callers,
         \/ create(c) \/ resize(c) \/ set_sequence_number(c) \/ clear_pages(c)
         \/ upload_pages(c) \/ download_page_ranges(c) \/ download_page_ranges_diff(c)
         \/ download_page_ranges_diff_md(c) \/ set_premium_blob_tier(c)
  PROVE  Starts(c)
<1>1. CASE create(c)
  <2>1. PICK tier \in {Empty, P4},
             condition \in Conditions \cup {generate_if_not_exists_condition} :
          create_async(c, 2, tier, 1, condition)
    BY <1>1 DEF create
  <2>2. Command(kind, command("create",
          assert_no_snapshot(put_page_blob(2, tier, 1, obj.content, obj.meta, condition)),
          PrimaryOnly, {}, Empty, condition))
    BY ChangeCommand, BlobTypeRequests, GivenConditions
    DEF OfTwo, MayKeepEtag, DeleteIfExists, BlobChanges
  <2> QED
    BY <2>1, <2>2 DEF create_async, Send, Starts
<1>2. CASE resize(c)
  <2>1. PICK condition \in Conditions :
          resize_async(c, 3, condition)
    BY <1>2 DEF resize
  <2>2. Command(kind, command("resize",
          assert_no_snapshot(resize_page_blob(3, condition)),
          PrimaryOnly, {}, 3, condition))
    BY ChangeCommand, BlobTypeRequests, GivenConditions
    DEF OfTwo, MayKeepEtag, DeleteIfExists, BlobChanges
  <2> QED
    BY <2>1, <2>2 DEF resize_async, Starts
<1>3. CASE set_sequence_number(c)
  <2>1. PICK action \in {"increment", "update", "max"},
             condition \in {access_condition, generate_if_match_condition(obj.etag)} :
          set_sequence_number_async(c, action, 1, condition)
    BY <1>3 DEF set_sequence_number
  <2>2. Command(kind, command("set_sequence_number",
          assert_no_snapshot(set_page_blob_sequence_number(action, 1, condition)),
          PrimaryOnly, {}, Empty, condition))
    BY ChangeCommand, BlobTypeRequests, GivenConditions
    DEF OfTwo, MayKeepEtag, DeleteIfExists, BlobChanges, Conditions
  <2> QED
    BY <2>1, <2>2 DEF set_sequence_number_async, Send, Starts
<1>4. CASE clear_pages(c)
  <2>1. PICK condition \in PageConditions : clear_pages_async(c, condition)
    BY <1>4 DEF clear_pages
  <2>2. Command(kind, command("clear_pages",
          assert_no_snapshot(put_page(1, "clear", condition)),
          PrimaryOnly, {}, Empty, condition))
    BY PageCommand DEF OfTwo, MayKeepEtag, DeleteIfExists
  <2> QED
    BY <2>1, <2>2 DEF clear_pages_async, Send, Starts
<1>5. CASE upload_pages(c)
  <2>1. PICK condition \in PageConditions : upload_pages_async_impl(c, condition)
    BY <1>5 DEF upload_pages
  <2>2. Command(kind, command("upload_pages",
          assert_no_snapshot(put_page(1, "update", condition)),
          PrimaryOnly, {}, Empty, condition))
    BY PageCommand DEF OfTwo, MayKeepEtag, DeleteIfExists
  <2> QED
    BY <2>1, <2>2 DEF upload_pages_async_impl, Send, Starts
<1>6. CASE download_page_ranges(c)
  <2>1. PICK condition \in ReadConditions :
          download_page_ranges_async(c, condition)
    BY <1>6 DEF download_page_ranges
  <2>2. Command(kind, command("download_page_ranges",
          get_page_ranges(obj.snapshot, condition),
          Both, {}, Empty, condition))
    BY ReadCommand, BlobTypeRequests, GivenConditions
    DEF OfTwo, DeleteIfExists
  <2> QED
    BY <2>1, <2>2 DEF download_page_ranges_async, Starts
<1>7. CASE download_page_ranges_diff(c)
  <2>1. PICK condition \in ReadConditions :
          download_page_ranges_diff_async_impl(c, 1, condition)
    BY <1>7 DEF download_page_ranges_diff
  <2>2. Command(kind, command("download_page_ranges_diff",
          get_page_ranges_diff(1, obj.snapshot, condition),
          Both, {}, Empty, condition))
    BY ReadCommand, BlobTypeRequests, GivenConditions
    DEF OfTwo, DeleteIfExists
  <2> QED
    BY <2>1, <2>2 DEF download_page_ranges_diff_async_impl, Starts
<1>8. CASE download_page_ranges_diff_md(c)
  <2>1. PICK condition \in ReadConditions :
          download_page_ranges_diff_async_impl(c, Empty, condition)
    BY <1>8 DEF download_page_ranges_diff_md
  <2>2. Command(kind, command("download_page_ranges_diff",
          get_page_ranges_diff(Empty, obj.snapshot, condition),
          Both, {}, Empty, condition))
    BY ReadCommand, BlobTypeRequests, GivenConditions
    DEF OfTwo, DeleteIfExists
  <2> QED
    BY <2>1, <2>2 DEF download_page_ranges_diff_async_impl, Starts
<1>9. CASE set_premium_blob_tier(c)
  <2>1. PICK condition \in {access_condition, generate_lease_condition(OurLease)} :
          set_premium_blob_tier_async(c, P4, condition)
    BY <1>9 DEF set_premium_blob_tier
  <2>2. Command(kind, command("set_premium_blob_tier", set_blob_tier(P4, condition),
                              PrimaryOnly, {}, P4, condition))
    BY TierCommand, GivenConditions
  <2> QED
    BY <2>1, <2>2 DEF set_premium_blob_tier_async, Starts
<1> QED
  BY <1>1, <1>2, <1>3, <1>4, <1>5, <1>6, <1>7, <1>8, <1>9

(* Append blobs.                                                           *)
LEMMA AppendStarts ==
  ASSUME ObjectInv, kind \notin ContainerKinds, NEW c \in Callers,
         \/ create_or_replace(c) \/ append_block_call(c)
  PROVE  Starts(c)
<1>1. CASE create_or_replace(c)
  <2>1. PICK condition \in Conditions \cup {generate_if_not_exists_condition} :
          create_or_replace_async_impl(c, condition)
    BY <1>1 DEF create_or_replace
  <2>2. Command(kind, command("create_or_replace",
          assert_no_snapshot(put_append_blob(obj.content, obj.meta, condition)),
          PrimaryOnly, {}, Empty, condition))
    BY ChangeCommand, BlobTypeRequests, GivenConditions
    DEF OfTwo, MayKeepEtag, DeleteIfExists, BlobChanges
  <2> QED
    BY <2>1, <2>2 DEF create_or_replace_async_impl, Send, Starts
<1>2. CASE append_block_call(c)
  <2>1. PICK condition \in
              {access_condition, generate_if_match_condition(obj.etag),
               generate_lease_condition(OurLease),
               [access_condition EXCEPT !.append_position = obj.size],
               [access_condition EXCEPT !.max_size = 1]} : append_block_async_impl(c, condition)
    BY <1>2 DEF append_block_call
  <2>2. condition.if_not_modified_since \in Nat
    <3>1. condition \notin Conditions => condition.if_not_modified_since = 0
      BY DEF Conditions, access_condition, Empty
    <3> QED
      BY <3>1, GivenConditions
  <2> DEFINE cmd == command("append_block", assert_no_snapshot(append_block(condition)),
                            PrimaryOnly, {}, Empty, condition)
  <2>3. "append_block" \notin OfTwo \cup MayKeepEtag /\ "appendblock" \in BlobChanges
    BY DEF OfTwo, MayKeepEtag, DeleteIfExists, BlobChanges
  <2>4. CASE condition = generate_lease_condition(OurLease)
    <3>1. condition.max_size = -1 /\ condition.append_position = -1
      BY <2>4 DEF generate_lease_condition, access_condition
    <3>2. Built(append_block(condition), "PUT", "appendblock", condition, {})
      BY <3>1, BlobTypeRequests
    <3>3. Command(kind, cmd)
      BY <2>2, <2>3, <3>2, ChangeCommand
    <3> QED
      BY <2>1, <3>3 DEF append_block_async_impl, Send, Starts
  <2>5. CASE condition # generate_lease_condition(OurLease)
    <3>1. Built(append_block(condition), "PUT", "appendblock", condition,
                {"max_size", "append_position"})
      BY BlobTypeRequests
    <3>2. Command(kind, cmd)
      BY <2>2, <2>3, <2>5, <3>1, ChangeCommand
    <3> QED
      BY <2>1, <3>2 DEF append_block_async_impl, Send, Starts
  <2> QED
    BY <2>4, <2>5
<1> QED
  BY <1>1, <1>2


(* The command of a call of one request on a container.                    *)
LEMMA ContainerCommand ==
  ASSUME NEW op, NEW req, NEW both, NEW accepts, NEW arg, NEW cond,
         NEW m, NEW comp, kind = "container",
         cond.if_not_modified_since \in Nat, op \notin OfTwo,
         \/ m \in {"HEAD", "DEL"} /\ comp = "container"
         \/ m = "GET" /\ comp = "acl"
         \/ m = "PUT" /\ comp \in {"metadata", "acl"},
         \/ Built(req, m, comp, cond, {})
         \/ BuiltLease(req, m, comp, cond, {}) /\ op \in LeaseIdOnly,
         op \in MayKeepEtag => m \in {"DEL", "HEAD"}
  PROVE  Command(kind, command(op, req, both, accepts, arg, cond))
<1>1. \/ Built(req, m, comp, cond, {"snapshot"})
      \/ BuiltLease(req, m, comp, cond, {"snapshot"}) /\ ~PassesEtags(kind, op)
  BY DEF Built, BuiltLease, PassesEtags
<1>2. ASSUME ~Thrown(req)
      PROVE  /\ Known(kind, req) /\ ~Has(req, "snapshot")
             /\ op \in MayKeepEtag => KeepsVersion(req)
  <2>1. IsRequest(req, m, comp) /\ ~Has(req, "snapshot")
    BY <1>2 DEF Built, BuiltLease, Special
  <2> QED
    BY <2>1 DEF IsRequest, Known, ContainerKinds, ContainerKnown, Reads, KeepsVersion
<1> QED
  BY <1>1, <1>2, PlainCommand

(* Creating a container carries no condition.                              *)
LEMMA CreateCommand ==
  ASSUME NEW access, NEW metadata, ~Thrown(create_blob_container(access, metadata))
  PROVE  LET req == create_blob_container(access, metadata)
         IN /\ IsRequest(req, "PUT", "container") /\ ~Has(req, "snapshot")
            /\ \A h \in EtagHeaders : ~Has(req, h)
            /\ Known("container", req) /\ ~Reads(req)
            /\ CarriesEtags(req, access_condition)
            /\ Built(req, "PUT", "container", access_condition, {})
<1> DEFINE req == create_blob_container(access, metadata)
<1>1. Unconditional(req, "PUT", "container", {})
  BY ContainerRequests
<1> HIDE DEF req
<1>2. /\ IsRequest(req, "PUT", "container") /\ ~Has(req, "snapshot") /\ ~Has(req, "lease_id")
      /\ \A h \in EtagHeaders \cup Special : ~Has(req, h)
  BY <1>1 DEF Unconditional, Special, req
<1>3. CarriesEtags(req, access_condition) /\ CarriesLease(req, access_condition)
  BY <1>2 DEF CarriesEtags, CarriesLease, EtagHeaders, access_condition
<1>4. Known("container", req) /\ ~Reads(req)
  BY <1>2 DEF IsRequest, Known, ContainerKinds, ContainerKnown, Reads
<1>5. Built(req, "PUT", "container", access_condition, {})
  BY <1>2, <1>3 DEF Built
<1> QED
  BY <1>2, <1>3, <1>4, <1>5 DEF req

(* Containers.                                                             *)
LEMMA ContainerStarts ==
  ASSUME ObjectInv, kind = "container", NEW c \in Callers,
         \/ container_download_attributes(c) \/ container_upload_metadata(c)
         \/ container_exists(c) \/ container_create(c) \/ container_create_if_not_exists(c)
         \/ delete_container(c) \/ delete_container_if_exists(c)
         \/ upload_permissions(c) \/ download_permissions(c)
  PROVE  Starts(c)
<1>1. CASE container_download_attributes(c)
  <2>1. PICK condition \in ReadConditions :
          container_download_attributes_async(c, condition)
    BY <1>1 DEF container_download_attributes
  <2>2. Command(kind, command("download_attributes",
          get_blob_container_properties(condition),
          Both, {}, Empty, condition))
    BY ContainerCommand, ContainerRequests, GivenConditions
    DEF OfTwo, MayKeepEtag, DeleteIfExists
  <2> QED
    BY <2>1, <2>2 DEF container_download_attributes_async, Starts
<1>2. CASE container_upload_metadata(c)
  <2>1. PICK condition \in Conditions :
          container_upload_metadata_async(c, condition)
    BY <1>2 DEF container_upload_metadata
  <2>2. Command(kind, command("upload_metadata",
          set_blob_container_metadata(obj.meta, condition),
          PrimaryOnly, {}, Empty, condition))
    BY ContainerCommand, ContainerRequests, GivenConditions
    DEF OfTwo, MayKeepEtag, DeleteIfExists
  <2> QED
    BY <2>1, <2>2 DEF container_upload_metadata_async, Send, Starts
<1>3. CASE container_exists(c)
  <2>1. Command(kind, command("exists", get_blob_container_properties(access_condition),
                              Both, {NotFound}, Empty, access_condition))
    BY ContainerCommand, ContainerRequests, GivenConditions
    DEF OfTwo, MayKeepEtag, DeleteIfExists
  <2> QED
    BY <1>3, <2>1 DEF container_exists, container_exists_async_impl, Starts
<1>4. CASE container_create(c)
  <2>1. PICK public_access \in PublicAccess : container_create_async(c, public_access)
    BY <1>4 DEF container_create
  <2> DEFINE req == create_blob_container(public_access, obj.meta)
  <2>2. ~Thrown(req) => /\ Known("container", req) /\ ~Has(req, "snapshot")
                        /\ Built(req, "PUT", "container", access_condition, {})
    BY CreateCommand
  <2> HIDE DEF req
  <2>3. Built(req, "PUT", "container", access_condition, {})
        /\ access_condition # generate_lease_condition(OurLease)
    BY <2>2, ThrownBuilt DEF access_condition, generate_lease_condition, OurLease, Empty
  <2>4. Command(kind, command("create", req, PrimaryOnly, {}, public_access, access_condition))
    BY <2>2, <2>3, PlainCommand, GivenConditions DEF OfTwo, MayKeepEtag, DeleteIfExists
  <2> QED
    BY <2>1, <2>4 DEF container_create_async, Starts, req
<1>5. CASE container_create_if_not_exists(c)
  <2>1. PICK public_access \in PublicAccess, options \in CallMaxTime :
          container_create_if_not_exists_async(c, public_access, options)
    BY <1>5 DEF container_create_if_not_exists
  <2> DEFINE time == new_max_execution_time(options,
                       first_time_point(merge(options, client_default)))
             req == get_blob_container_properties(access_condition)
  <2>2. time \in Nat
    <3> DEFINE m == merge(options, client_default)
    <3>1. m \in {client_default, [value |-> 2, has_value |-> TRUE]}
      BY DEF merge, CallMaxTime, NotSet
    <3>2. m.has_value => m.value \in Nat /\ m.value # 0
      <4>1. client_default.value = ClientMaxTime
        BY DEF client_default
      <4>2. client_default.has_value => ClientMaxTime # Empty
        BY DEF client_default
      <4>3. CASE m = client_default
        BY <4>1, <4>2, <4>3, TimeAssumption DEF Empty
      <4>4. CASE m = [value |-> 2, has_value |-> TRUE]
        BY <4>4
      <4> QED
        BY <3>1, <4>3, <4>4
    <3>3. time = IF m.has_value THEN m.value - 1 ELSE 5
      BY DEF new_max_execution_time, first_time_point, Uptime
    <3> HIDE DEF m, time
    <3> QED
      BY <3>2, <3>3
  <2>3. Built(req, "HEAD", "container", access_condition, {})
    BY ContainerRequests
  <2> HIDE DEF time, req
  <2>4. Command(kind, [command("create_if_not_exists", req, PrimaryOnly, {NotFound},
                               public_access, access_condition) EXCEPT !.time = time])
    <3>1. /\ "create_if_not_exists" \in OfTwo /\ "container" \in {"blob", "container"}
          /\ {} \in SUBSET {"snapshot"} /\ access_condition.if_not_modified_since \in Nat
      BY GivenConditions DEF OfTwo
    <3> QED
      BY <2>2, <2>3, <3>1, AskCommand
  <2> QED
    BY <2>1, <2>4 DEF container_create_if_not_exists_async, Starts, time, req
<1>6. CASE delete_container(c)
  <2>1. PICK condition \in Conditions :
          delete_container_async(c, condition)
    BY <1>6 DEF delete_container
  <2>2. Command(kind, command("delete_container",
          delete_blob_container(condition),
          PrimaryOnly, {}, Empty, condition))
    BY ContainerCommand, ContainerRequests, GivenConditions
    DEF OfTwo, MayKeepEtag, DeleteIfExists
  <2> QED
    BY <2>1, <2>2 DEF delete_container_async, Send, Starts
<1>7. CASE delete_container_if_exists(c)
  <2>1. PICK condition \in {access_condition, generate_lease_condition(OurLease)},
             options \in CallMaxTime : delete_container_if_exists_async(c, options, condition)
    BY <1>7 DEF delete_container_if_exists
  <2> DEFINE time == new_max_execution_time(options, first_time_point(options))
             req == get_blob_container_properties(access_condition)
  <2>2. Built(req, "HEAD", "container", access_condition, {})
    BY ContainerRequests
  <2> HIDE DEF time, req
  <2>3. condition.if_not_modified_since \in Nat
    BY GivenConditions
  <2>4. Command(kind, [command("delete_container_if_exists", req, PrimaryOnly, {NotFound},
                               Empty, condition) EXCEPT !.time = time])
    <3>1. /\ "delete_container_if_exists" \in OfTwo /\ "container" \in {"blob", "container"}
          /\ {} \in SUBSET {"snapshot"}
      BY DEF OfTwo, DeleteIfExists
    <3> QED
      BY <2>2, <2>3, <3>1, AskCommand
  <2> QED
    BY <2>1, <2>4 DEF delete_container_if_exists_async, Starts, time, req
<1>8. CASE upload_permissions(c)
  <2>1. PICK public_access \in PublicAccess, condition \in Conditions :
          upload_permissions_async(c, public_access, condition)
    BY <1>8 DEF upload_permissions
  <2>2. Command(kind, command("upload_permissions",
          set_blob_container_acl(public_access, condition),
          PrimaryOnly, {}, Empty, condition))
    BY ContainerCommand, ContainerRequests, GivenConditions
    DEF OfTwo, MayKeepEtag, DeleteIfExists, LeaseIdOnly
  <2> QED
    BY <2>1, <2>2 DEF upload_permissions_async, Send, Starts
<1>9. CASE download_permissions(c)
  <2>1. PICK condition \in {access_condition, generate_lease_condition(OurLease)} :
          download_permissions_async(c, condition)
    BY <1>9 DEF download_permissions
  <2>2. Command(kind, command("download_permissions",
          get_blob_container_acl(condition),
          Both, {}, Empty, condition))
    BY ContainerCommand, ContainerRequests, GivenConditions
    DEF OfTwo, MayKeepEtag, DeleteIfExists, LeaseIdOnly
  <2> QED
    BY <2>1, <2>2 DEF download_permissions_async, Starts
<1> QED
  BY <1>1, <1>2, <1>3, <1>4, <1>5, <1>6, <1>7, <1>8, <1>9

(* A lease request of a container.                                         *)
LEMMA ContainerLeaseCommand ==
  ASSUME NEW op, NEW action \in LeaseActions, NEW proposed, NEW duration, NEW period, NEW cond,
         kind = "container_lease", op \notin OfTwo \cup MayKeepEtag,
         cond.if_not_modified_since \in Nat
  PROVE  Command(kind, command(op,
                   lease_blob_container(action, proposed, duration, period, cond),
                   PrimaryOnly, {}, Empty, cond))
<1> DEFINE req == lease_blob_container(action, proposed, duration, period, cond)
<1>1. BuiltLease(req, "PUT", "lease", cond, {}) /\ req["action"] = action
  BY LeaseRequests
<1> HIDE DEF req
<1>2. BuiltLease(req, "PUT", "lease", cond, {"snapshot"}) /\ ~PassesEtags(kind, op)
  BY <1>1 DEF BuiltLease, PassesEtags
<1>3. ~Thrown(req) => Known(kind, req) /\ ~Has(req, "snapshot")
  BY <1>1 DEF BuiltLease, IsRequest, Known, ContainerKinds, ContainerKnown, IsLease, Special
<1>4. Command(kind, command(op, req, PrimaryOnly, {}, Empty, cond))
  BY <1>2, <1>3, PlainCommand
<1> QED
  BY <1>4 DEF req

(* Leases of containers.                                                   *)
LEMMA ContainerLeaseStarts ==
  ASSUME ObjectInv, kind = "container_lease", NEW c \in Callers,
         \/ container_acquire_lease(c) \/ container_renew_lease(c) \/ container_change_lease(c)
         \/ container_release_lease(c) \/ container_break_lease(c)
  PROVE  Starts(c)
<1>0. {"acquire_lease", "renew_lease", "change_lease", "release_lease", "break_lease"}
        \cap (OfTwo \cup MayKeepEtag) = {}
  BY DEF OfTwo, MayKeepEtag, DeleteIfExists
<1>1. CASE container_acquire_lease(c)
  <2>1. PICK duration \in Durations, proposed \in {Empty, OurLease}, condition \in Conditions :
          container_acquire_lease_async(c, duration, proposed, condition)
    BY <1>1 DEF container_acquire_lease
  <2>2. Command(kind, command("acquire_lease",
          lease_blob_container("acquire", proposed, duration, Empty, condition),
          PrimaryOnly, {}, Empty, condition))
    BY <1>0, ContainerLeaseCommand, GivenConditions DEF LeaseActions
  <2> QED
    BY <2>1, <2>2 DEF container_acquire_lease_async, Send, Starts
<1>2. CASE container_renew_lease(c)
  <2>1. PICK condition \in Conditions :
          container_renew_lease_async(c, condition)
    BY <1>2 DEF container_renew_lease
  <2> DEFINE req == lease_blob_container("renew", Empty, Empty, Empty, condition)
             cmd(r) == command("renew_lease", r, PrimaryOnly, {}, Empty, condition)
  <2>2. Command(kind, cmd(req)) /\ Command(kind, cmd(invalid_argument))
    BY <1>0, ContainerLeaseCommand, ThrownBuilt, ThrownCommand, GivenConditions
    DEF LeaseActions
  <2>3. Command(kind, cmd(assert_lease_id(condition, req)))
    BY <2>2 DEF assert_lease_id
  <2> HIDE DEF cmd
  <2> QED
    BY <2>1, <2>3 DEF container_renew_lease_async, Send, Starts, cmd
<1>3. CASE container_change_lease(c)
  <2>1. PICK condition \in {access_condition, generate_lease_condition(TheirLease)} :
          container_change_lease_async(c, OurLease, condition)
    BY <1>3 DEF container_change_lease
  <2> DEFINE req == lease_blob_container("change", OurLease, Empty, Empty, condition)
             cmd(r) == command("change_lease", r, PrimaryOnly, {}, Empty, condition)
  <2>2. Command(kind, cmd(req)) /\ Command(kind, cmd(invalid_argument))
    BY <1>0, ContainerLeaseCommand, ThrownBuilt, ThrownCommand, GivenConditions
    DEF LeaseActions
  <2>3. Command(kind, cmd(assert_lease_id(condition, req)))
    BY <2>2 DEF assert_lease_id
  <2> HIDE DEF cmd
  <2> QED
    BY <2>1, <2>3 DEF container_change_lease_async, Send, Starts, cmd
<1>4. CASE container_release_lease(c)
  <2>1. PICK condition \in Conditions :
          container_release_lease_async(c, condition)
    BY <1>4 DEF container_release_lease
  <2> DEFINE req == lease_blob_container("release", Empty, Empty, Empty, condition)
             cmd(r) == command("release_lease", r, PrimaryOnly, {}, Empty, condition)
  <2>2. Command(kind, cmd(req)) /\ Command(kind, cmd(invalid_argument))
    BY <1>0, ContainerLeaseCommand, ThrownBuilt, ThrownCommand, GivenConditions
    DEF LeaseActions
  <2>3. Command(kind, cmd(assert_lease_id(condition, req)))
    BY <2>2 DEF assert_lease_id
  <2> HIDE DEF cmd
  <2> QED
    BY <2>1, <2>3 DEF container_release_lease_async, Send, Starts, cmd
<1>5. CASE container_break_lease(c)
  <2>1. PICK break_period \in {Empty, 1}, condition \in Conditions :
          container_break_lease_async(c, break_period, condition)
    BY <1>5 DEF container_break_lease
  <2>2. Command(kind, command("break_lease",
          lease_blob_container("break", Empty, Empty, break_period, condition),
          PrimaryOnly, {}, Empty, condition))
    BY <1>0, ContainerLeaseCommand, GivenConditions DEF LeaseActions
  <2> QED
    BY <2>1, <2>2 DEF container_break_lease_async, Send, Starts
<1> QED
  BY <1>1, <1>2, <1>3, <1>4, <1>5


-----------------------------------------------------------------------------
(* The handlers.                                                           *)

(* A handler ends its call ...                                             *)
Ends(c) ==
  \E o, out : /\ call[c].st = "answered" /\ Return(c, o, out) /\ ObjectOf(kind, o)
              /\ kind \notin {"incremental", "snapshot"} => Settled(c, o)
              /\ kind # "snapshot" => Honest(call[c], out)

(* ... or goes on with the second request.                                 *)
GoesOn(c) ==
  \E o, req, accepts :
    /\ call[c].st = "answered" /\ Continue(c, o, req, accepts) /\ ObjectOf(kind, o)
    /\ kind \notin {"incremental", "snapshot"} => Settled(c, o)
    /\ ~Thrown(req) =>
         \A r : /\ Agree(r, call[c], {"st", "step", "req", "both", "accepts", "at", "resp", "did"})
               /\ r.st = "sent" /\ r.step = 2 /\ r.req = req /\ r.both = FALSE
               /\ r.accepts = accepts /\ r.at = "primary" /\ r.did = FALSE
               => Underway(kind, r)

(* Both keep the invariants.                                               *)
LEMMA HandledStep ==
  ASSUME ObjectInv, CalmInv, NEW c \in Callers, Ends(c) \/ GoesOn(c)
  PROVE  ObjectInv' /\ CalmInv'
<1>1. CASE Ends(c)
  <2>1. PICK o, out : /\ call[c].st = "answered" /\ Return(c, o, out) /\ ObjectOf(kind, o)
                      /\ kind \notin {"incremental", "snapshot"} => Settled(c, o)
                      /\ kind # "snapshot" => Honest(call[c], out)
    BY <1>1 DEF Ends
  <2>2. Returns(c, out) /\ obj' = o /\ calm' = calm /\ UNCHANGED left
    BY <2>1, ReturningSteps DEF Return
  <2>3. /\ Active(c) /\ UNCHANGED <<kind, svc, sec>>
        /\ \A d \in Callers \ {c} : call'[d] = call[d]
        /\ call'[c].st = "returned"
    BY <2>2, ReturnCalls, DoneFields DEF ObjectInv
  <2>4. ObjectInv'
    BY <2>1, <2>2, ReturnStep
  <2>5. CalmInv'
    <3>1. CASE kind \in {"incremental", "snapshot"}
      BY <2>3, <3>1 DEF CalmInv
    <3>2. CASE kind \notin {"incremental", "snapshot"}
      BY <2>1, <2>2, <2>3, <3>2, CalmHandled
    <3> QED
      BY <3>1, <3>2
  <2> QED
    BY <2>4, <2>5
<1>2. CASE GoesOn(c)
  <2>1. PICK o, req, accepts :
          /\ call[c].st = "answered" /\ Continue(c, o, req, accepts) /\ ObjectOf(kind, o)
          /\ kind \notin {"incremental", "snapshot"} => Settled(c, o)
          /\ ~Thrown(req) =>
               \A r : /\ Agree(r, call[c], {"st", "step", "req", "both", "accepts", "at",
                                             "resp", "did"})
                     /\ r.st = "sent" /\ r.step = 2 /\ r.req = req /\ r.both = FALSE
                     /\ r.accepts = accepts /\ r.at = "primary" /\ r.did = FALSE
                     => Underway(kind, r)
    BY <1>2 DEF GoesOn
  <2>2. /\ obj' = o /\ calm' = calm /\ UNCHANGED <<kind, svc, sec>>
        /\ Thrown(req) => Returns(c, Threw)
        /\ ~Thrown(req) => /\ \A d \in Callers \ {c} : call'[d] = call[d]
                           /\ call'[c].st = "sent"
    BY <2>1, ContinueCalls DEF ObjectInv
  <2>3. /\ \A d \in Callers \ {c} : call'[d] = call[d]
        /\ call'[c].st \in {"sent", "returned"}
    BY <2>2, ReturnCalls, DoneFields DEF ObjectInv
  <2>4. ObjectInv'
    BY <2>1, ContinueStep
  <2>5. CalmInv'
    <3>1. CASE kind \in {"incremental", "snapshot"}
      BY <2>2, <3>1 DEF CalmInv
    <3>2. CASE kind \notin {"incremental", "snapshot"}
      BY <2>1, <2>2, <2>3, <3>2, CalmHandled DEF Active
    <3> QED
      BY <3>1, <3>2
  <2> QED
    BY <2>4, <2>5
<1> QED
  BY <1>1, <1>2

(* An object with the members and the snapshot time of the call's object.  *)
Like(o) ==
  /\ DOMAIN o = ObjectFields(kind)
  /\ kind \notin ContainerKinds => o.snapshot = obj.snapshot

(* What every handler finds.                                               *)
LEMMA AnsweredFacts ==
  ASSUME ObjectInv, NEW c \in Callers, call[c].st = "answered"
  PROVE  /\ body(c).etag \in Nat /\ obj.etag \in Nat /\ Like(obj)
         /\ Underway(kind, call[c]) /\ Informed(kind, call[c])
         /\ \A o : Like(o) /\ o.etag \in Nat => ObjectOf(kind, o)
  BY DEF ObjectInv, CallOf, Informed, Resource, ObjectOf, Like, body

(* The handler of a call of one request, which takes the etag it is        *)
(* answered unless its request keeps the version.                          *)
LEMMA PlainAnswer ==
  ASSUME ObjectInv, NEW c \in Callers, NEW op, NEW o, NEW out, Answer(c, op, o, out),
         op \notin OfTwo, Like(o),
         \/ o.etag = body(c).etag
         \/ o.etag = obj.etag /\ (op \in MayKeepEtag \/ kind \in {"incremental", "snapshot"})
  PROVE  Ends(c)
<1>1. call[c].st = "answered" /\ call[c].op = op /\ Return(c, o, out)
  BY DEF Answer, Accepted
<1>2. ObjectOf(kind, o)
  BY <1>1, AnsweredFacts
<1>3. op \in MayKeepEtag => KeepsVersion(call[c].req)
  BY <1>1, AnsweredFacts DEF Underway
<1>4. kind \notin {"incremental", "snapshot"} => Settled(c, o)
  BY <1>1, <1>3 DEF Settled
<1>5. Honest(call[c], out)
  BY <1>1 DEF Honest, OfTwo
<1> QED
  BY <1>1, <1>2, <1>4, <1>5 DEF Ends

(* A handler that ends a call on which nothing but its result depends.     *)
LEMMA UnchangedAnswer ==
  ASSUME ObjectInv, NEW c \in Callers, NEW out, call[c].st = "answered", Return(c, obj, out),
         KeepsVersion(call[c].req) \/ call[c].resp.code # OK,
         kind # "snapshot" => Honest(call[c], out)
  PROVE  Ends(c)
<1>1. ObjectOf(kind, obj)
  BY DEF ObjectInv
<1>2. Settled(c, obj)
  BY DEF Settled
<1> QED
  BY <1>1, <1>2 DEF Ends

(* What the handlers make of the object.                                   *)
LEMMA ObjectUpdates ==
  ASSUME ObjectInv, NEW c \in Callers, call[c].st = "answered"
  PROVE  LET o == update_etag_and_last_modified(obj, body(c))
         IN /\ Like(o) /\ o.etag = body(c).etag
            /\ Like(initialization(obj)) /\ initialization(obj).etag = obj.etag
<1>1. Like(obj) /\ "etag" \in ObjectFields(kind) /\ "lease_state" \in ObjectFields(kind)
  BY AnsweredFacts DEF ObjectFields
<1>2. Like(update_etag_and_last_modified(obj, body(c)))
  BY <1>1 DEF Like, update_etag_and_last_modified
<1>3. update_etag_and_last_modified(obj, body(c)).etag = body(c).etag
  BY <1>1 DEF Like, update_etag_and_last_modified
<1>4. Like(initialization(obj)) /\ initialization(obj).etag = obj.etag
  BY <1>1 DEF Like, initialization
<1> QED
  BY <1>2, <1>3, <1>4

(* All that a blob's object knows.                                         *)
LEMMA AttributesTaken ==
  ASSUME ObjectInv, kind \notin ContainerKinds, NEW c \in Callers, call[c].st = "answered"
  PROVE  Like(attributes(obj, body(c))) /\ attributes(obj, body(c)).etag = body(c).etag
<1> DEFINE p == parse_blob_properties(body(c))
           all == update_all(obj, body(c))
<1>1. DOMAIN p = {"etag", "content", "size", "seq", "count", "standard_tier", "premium_tier",
                  "lease_state", "type"} /\ p.etag = body(c).etag
  BY DEF parse_blob_properties
<1>2. Like(obj) /\ ObjectFields(kind) = {"etag", "content", "size", "seq", "count", "standard_tier",
        "premium_tier", "lease_state", "type", "meta", "copy", "snapshot"}
  BY AnsweredFacts DEF ObjectFields
<1> HIDE DEF p
<1>3. DOMAIN all = ObjectFields(kind)
  BY <1>1, <1>2 DEF update_all, Over, Like, p
<1>4. all.etag = body(c).etag /\ all.snapshot = obj.snapshot
  BY <1>1, <1>2 DEF update_all, Over, Like, p
<1> HIDE DEF all
<1>5. attributes(obj, body(c)) = [all EXCEPT !.meta = parse_metadata(body(c)),
                                             !.copy = parse_copy_state(body(c))]
  BY DEF attributes, all
<1> QED
  BY <1>2, <1>3, <1>4, <1>5 DEF Like

(* All that a container's object knows.                                    *)
LEMMA ContainerAttributesTaken ==
  ASSUME ObjectInv, kind \in ContainerKinds, NEW c \in Callers, call[c].st = "answered"
  PROVE  /\ Like(container_attributes(obj, body(c)))
         /\ container_attributes(obj, body(c)).etag = body(c).etag
<1> DEFINE p == parse_blob_container_properties(body(c))
           all == Over(p, obj)
<1>1. DOMAIN p = {"etag", "lease_state", "public_access"} /\ p.etag = body(c).etag
  BY DEF parse_blob_container_properties
<1>2. Like(obj) /\ ObjectFields(kind) = {"etag", "meta", "lease_state", "public_access"}
  BY AnsweredFacts DEF ObjectFields
<1> HIDE DEF p
<1>3. DOMAIN all = ObjectFields(kind) /\ all.etag = body(c).etag
  BY <1>1, <1>2 DEF Over, Like
<1> HIDE DEF all
<1>4. container_attributes(obj, body(c)) = [all EXCEPT !.meta = parse_metadata(body(c))]
  BY DEF container_attributes, all, p
<1> QED
  BY <1>2, <1>3, <1>4 DEF Like


(* The handlers of the lease calls, of blobs and containers.               *)
LEMMA LeaseHandlers ==
  ASSUME ObjectInv, NEW c \in Callers,
         \/ acquire_lease_response(c) \/ renew_lease_response(c)
         \/ change_lease_response(c) \/ release_lease_response(c)
         \/ break_lease_response(c)
  PROVE  Ends(c)
<1> DEFINE o == update_etag_and_last_modified(obj, body(c))
<1>0. /\ call[c].st = "answered" => Like(o) /\ o.etag = body(c).etag
      /\ call[c].st = "answered" => Like(obj)
      /\ call[c].st = "answered" => Like(initialization(obj)) /\ initialization(obj).etag = obj.etag
  BY ObjectUpdates, AnsweredFacts
<1> HIDE DEF o
<1>1. CASE acquire_lease_response(c)
  <2>1. Answer(c, "acquire_lease", o, parse_lease_id(body(c)))
    BY <1>1 DEF acquire_lease_response, o
  <2> QED
    BY <1>0, <2>1, PlainAnswer DEF Answer, Accepted, OfTwo, DeleteIfExists
<1>2. CASE renew_lease_response(c)
  <2>1. Answer(c, "renew_lease", o, OK)
    BY <1>2 DEF renew_lease_response, o
  <2> QED
    BY <1>0, <2>1, PlainAnswer DEF Answer, Accepted, OfTwo, DeleteIfExists
<1>3. CASE change_lease_response(c)
  <2>1. Answer(c, "change_lease", o, parse_lease_id(body(c)))
    BY <1>3 DEF change_lease_response, o
  <2> QED
    BY <1>0, <2>1, PlainAnswer DEF Answer, Accepted, OfTwo, DeleteIfExists
<1>4. CASE release_lease_response(c)
  <2>1. Answer(c, "release_lease", o, OK)
    BY <1>4 DEF release_lease_response, o
  <2> QED
    BY <1>0, <2>1, PlainAnswer DEF Answer, Accepted, OfTwo, DeleteIfExists
<1>5. CASE break_lease_response(c)
  <2>1. Answer(c, "break_lease", o, parse_lease_time(body(c)))
    BY <1>5 DEF break_lease_response, o
  <2> QED
    BY <1>0, <2>1, PlainAnswer DEF Answer, Accepted, OfTwo, DeleteIfExists
<1> QED
  BY <1>1, <1>2, <1>3, <1>4, <1>5

(* The handlers of the calls of one request on a blob.                     *)
LEMMA BlobHandlers ==
  ASSUME ObjectInv, NEW c \in Callers, kind \notin ContainerKinds,
         \/ upload_metadata_response(c) \/ upload_properties_response(c)
         \/ delete_blob_response(c) \/ start_copy_response(c) \/ abort_copy_response(c)
         \/ create_snapshot_response(c) \/ upload_block_response(c)
         \/ upload_block_list_response(c) \/ download_block_list_response(c)
         \/ upload_single_response(c) \/ set_standard_blob_tier_response(c)
  PROVE  Ends(c)
<1> DEFINE o == update_etag_and_last_modified(obj, body(c))
<1>0. /\ call[c].st = "answered" => Like(o) /\ o.etag = body(c).etag
      /\ call[c].st = "answered" => Like(obj)
      /\ call[c].st = "answered" => Like(initialization(obj)) /\ initialization(obj).etag = obj.etag
  BY ObjectUpdates, AnsweredFacts
<1> HIDE DEF o
<1>1. CASE upload_metadata_response(c)
  <2>1. Answer(c, "upload_metadata", o, OK)
    BY <1>1 DEF upload_metadata_response, o
  <2> QED
    BY <1>0, <2>1, PlainAnswer DEF Answer, Accepted, OfTwo, DeleteIfExists
<1>2. CASE upload_properties_response(c)
  <2> DEFINE new == [o EXCEPT !.seq = body(c).seq]
  <2>1. Answer(c, "upload_properties", new, OK)
    BY <1>2 DEF upload_properties_response, o, update_page_blob_sequence_number
  <2>2. call[c].st = "answered"
    BY <2>1 DEF Answer, Accepted
  <2>3. Like(new) /\ new.etag = o.etag
    BY <1>0, <2>2 DEF Like, ObjectFields
  <2> HIDE DEF new
  <2> QED
    BY <1>0, <2>1, <2>2, <2>3, PlainAnswer DEF OfTwo, DeleteIfExists
<1>3. CASE delete_blob_response(c)
  <2>1. Answer(c, "delete_blob", initialization(obj), OK)
    BY <1>3 DEF delete_blob_response
  <2> QED
    BY <1>0, <2>1, PlainAnswer DEF Answer, Accepted, OfTwo, DeleteIfExists, MayKeepEtag
<1>4. CASE start_copy_response(c)
  <2> DEFINE new == [o EXCEPT !.premium_tier = call[c].arg, !.copy = parse_copy_state(body(c))]
  <2>1. Answer(c, "start_copy", new, parse_copy_state(body(c)))
    BY <1>4 DEF start_copy_response, o
  <2>2. call[c].st = "answered"
    BY <2>1 DEF Answer, Accepted
  <2>3. Like(new) /\ new.etag = o.etag
    BY <1>0, <2>2 DEF Like, ObjectFields
  <2> HIDE DEF new
  <2> QED
    BY <1>0, <2>1, <2>2, <2>3, PlainAnswer DEF OfTwo, DeleteIfExists
<1>5. CASE abort_copy_response(c)
  <2>1. Answer(c, "abort_copy", obj, OK)
    BY <1>5 DEF abort_copy_response
  <2> QED
    BY <1>0, <2>1, PlainAnswer DEF Answer, Accepted, OfTwo, DeleteIfExists, MayKeepEtag
<1>6. CASE create_snapshot_response(c)
  <2>1. Answer(c, "create_snapshot", o, snapshot_of(c).meta)
    BY <1>6 DEF create_snapshot_response, o
  <2> QED
    BY <1>0, <2>1, PlainAnswer DEF Answer, Accepted, OfTwo, DeleteIfExists
<1>7. CASE upload_block_response(c)
  <2>1. Answer(c, "upload_block", obj, OK)
    BY <1>7 DEF upload_block_response
  <2> QED
    BY <1>0, <2>1, PlainAnswer DEF Answer, Accepted, OfTwo, DeleteIfExists, MayKeepEtag
<1>8. CASE upload_block_list_response(c)
  <2>1. Answer(c, "upload_block_list", o, OK)
    BY <1>8 DEF upload_block_list_response, o
  <2> QED
    BY <1>0, <2>1, PlainAnswer DEF Answer, Accepted, OfTwo, DeleteIfExists
<1>9. CASE download_block_list_response(c)
  <2>1. Answer(c, "download_block_list", o, OK)
    BY <1>9 DEF download_block_list_response, o
  <2> QED
    BY <1>0, <2>1, PlainAnswer DEF Answer, Accepted, OfTwo, DeleteIfExists
<1>10. CASE upload_single_response(c)
  <2>1. Answer(c, "upload_from_stream", o, OK)
    BY <1>10 DEF upload_single_response, o
  <2> QED
    BY <1>0, <2>1, PlainAnswer DEF Answer, Accepted, OfTwo, DeleteIfExists
<1>11. CASE set_standard_blob_tier_response(c)
  <2> DEFINE new == [obj EXCEPT !.standard_tier = call[c].arg]
  <2>1. Answer(c, "set_standard_blob_tier", new, OK)
    BY <1>11 DEF set_standard_blob_tier_response
  <2>2. call[c].st = "answered"
    BY <2>1 DEF Answer, Accepted
  <2>3. Like(new) /\ new.etag = obj.etag
    BY <1>0, <2>2 DEF Like, ObjectFields
  <2> HIDE DEF new
  <2> QED
    BY <1>0, <2>1, <2>2, <2>3, PlainAnswer DEF OfTwo, DeleteIfExists, MayKeepEtag
<1> QED
  BY <1>1, <1>2, <1>3, <1>4, <1>5, <1>6, <1>7, <1>8, <1>9, <1>10, <1>11

(* The handlers of page and append blobs.                                  *)
LEMMA TypeHandlers ==
  ASSUME ObjectInv, NEW c \in Callers, kind \notin ContainerKinds,
         \/ create_response(c) \/ resize_response(c) \/ set_sequence_number_response(c)
         \/ clear_pages_response(c) \/ upload_pages_response(c)
         \/ download_page_ranges_response(c) \/ download_page_ranges_diff_response(c)
         \/ set_premium_blob_tier_response(c) \/ create_or_replace_response(c)
         \/ append_block_response(c)
  PROVE  Ends(c)
<1> DEFINE o == update_etag_and_last_modified(obj, body(c))
<1>0. /\ call[c].st = "answered" => Like(o) /\ o.etag = body(c).etag
      /\ call[c].st = "answered" => Like(obj)
      /\ call[c].st = "answered" => Like(initialization(obj)) /\ initialization(obj).etag = obj.etag
  BY ObjectUpdates, AnsweredFacts
<1> HIDE DEF o
<1>1. CASE create_response(c)
  <2> DEFINE new == [o EXCEPT !.size = Get(call[c].req, "size"),
                             !.premium_tier = Get(call[c].req, "tier")]
  <2>1. Answer(c, "create", new, OK)
    BY <1>1 DEF create_response, o
  <2>2. call[c].st = "answered"
    BY <2>1 DEF Answer, Accepted
  <2>3. Like(new) /\ new.etag = o.etag
    BY <1>0, <2>2 DEF Like, ObjectFields
  <2> HIDE DEF new
  <2> QED
    BY <1>0, <2>1, <2>2, <2>3, PlainAnswer DEF OfTwo, DeleteIfExists
<1>2. CASE resize_response(c)
  <2> DEFINE new == [[o EXCEPT !.seq = body(c).seq] EXCEPT !.size = call[c].arg]
  <2>1. Answer(c, "resize", new, OK)
    BY <1>2 DEF resize_response, o, update_page_blob_sequence_number
  <2>2. call[c].st = "answered"
    BY <2>1 DEF Answer, Accepted
  <2>3. Like(new) /\ new.etag = o.etag
    BY <1>0, <2>2 DEF Like, ObjectFields
  <2> HIDE DEF new
  <2> QED
    BY <1>0, <2>1, <2>2, <2>3, PlainAnswer DEF OfTwo, DeleteIfExists
<1>3. CASE set_sequence_number_response(c)
  <2> DEFINE new == [o EXCEPT !.seq = body(c).seq]
  <2>1. Answer(c, "set_sequence_number", new, OK)
    BY <1>3 DEF set_sequence_number_response, o, page_response, update_page_blob_sequence_number
  <2>2. call[c].st = "answered"
    BY <2>1 DEF Answer, Accepted
  <2>3. Like(new) /\ new.etag = o.etag
    BY <1>0, <2>2 DEF Like, ObjectFields
  <2> HIDE DEF new
  <2> QED
    BY <1>0, <2>1, <2>2, <2>3, PlainAnswer DEF OfTwo, DeleteIfExists
<1>4. CASE clear_pages_response(c)
  <2> DEFINE new == [o EXCEPT !.seq = body(c).seq]
  <2>1. Answer(c, "clear_pages", new, OK)
    BY <1>4 DEF clear_pages_response, o, page_response, update_page_blob_sequence_number
  <2>2. call[c].st = "answered"
    BY <2>1 DEF Answer, Accepted
  <2>3. Like(new) /\ new.etag = o.etag
    BY <1>0, <2>2 DEF Like, ObjectFields
  <2> HIDE DEF new
  <2> QED
    BY <1>0, <2>1, <2>2, <2>3, PlainAnswer DEF OfTwo, DeleteIfExists
<1>5. CASE upload_pages_response(c)
  <2> DEFINE new == [o EXCEPT !.seq = body(c).seq]
  <2>1. Answer(c, "upload_pages", new, OK)
    BY <1>5 DEF upload_pages_response, o, page_response, update_page_blob_sequence_number
  <2>2. call[c].st = "answered"
    BY <2>1 DEF Answer, Accepted
  <2>3. Like(new) /\ new.etag = o.etag
    BY <1>0, <2>2 DEF Like, ObjectFields
  <2> HIDE DEF new
  <2> QED
    BY <1>0, <2>1, <2>2, <2>3, PlainAnswer DEF OfTwo, DeleteIfExists
<1>6. CASE download_page_ranges_response(c)
  <2> DEFINE new == [o EXCEPT !.size = body(c).size]
  <2>1. Answer(c, "download_page_ranges", new, OK)
    BY <1>6 DEF download_page_ranges_response, o, update_size
  <2>2. call[c].st = "answered"
    BY <2>1 DEF Answer, Accepted
  <2>3. Like(new) /\ new.etag = o.etag
    BY <1>0, <2>2 DEF Like, ObjectFields
  <2> HIDE DEF new
  <2> QED
    BY <1>0, <2>1, <2>2, <2>3, PlainAnswer DEF OfTwo, DeleteIfExists
<1>7. CASE download_page_ranges_diff_response(c)
  <2> DEFINE new == [o EXCEPT !.size = body(c).size]
  <2>1. Answer(c, "download_page_ranges_diff", new, OK)
    BY <1>7 DEF download_page_ranges_diff_response, o, update_size
  <2>2. call[c].st = "answered"
    BY <2>1 DEF Answer, Accepted
  <2>3. Like(new) /\ new.etag = o.etag
    BY <1>0, <2>2 DEF Like, ObjectFields
  <2> HIDE DEF new
  <2> QED
    BY <1>0, <2>1, <2>2, <2>3, PlainAnswer DEF OfTwo, DeleteIfExists
<1>8. CASE set_premium_blob_tier_response(c)
  <2> DEFINE new == [obj EXCEPT !.premium_tier = call[c].arg]
  <2>1. Answer(c, "set_premium_blob_tier", new, OK)
    BY <1>8 DEF set_premium_blob_tier_response
  <2>2. call[c].st = "answered"
    BY <2>1 DEF Answer, Accepted
  <2>3. Like(new) /\ new.etag = obj.etag
    BY <1>0, <2>2 DEF Like, ObjectFields
  <2> HIDE DEF new
  <2> QED
    BY <1>0, <2>1, <2>2, <2>3, PlainAnswer DEF OfTwo, DeleteIfExists, MayKeepEtag
<1>9. CASE create_or_replace_response(c)
  <2> DEFINE new == [o EXCEPT !.size = 0]
  <2>1. Answer(c, "create_or_replace", new, OK)
    BY <1>9 DEF create_or_replace_response, o
  <2>2. call[c].st = "answered"
    BY <2>1 DEF Answer, Accepted
  <2>3. Like(new) /\ new.etag = o.etag
    BY <1>0, <2>2 DEF Like, ObjectFields
  <2> HIDE DEF new
  <2> QED
    BY <1>0, <2>1, <2>2, <2>3, PlainAnswer DEF OfTwo, DeleteIfExists
<1>10. CASE append_block_response(c)
  <2> DEFINE new == [o EXCEPT !.count = body(c).count]
  <2>1. Answer(c, "append_block", new, body(c).size - 1)
    BY <1>10 DEF append_block_response, o, update_append_blob_committed_block_count
  <2>2. call[c].st = "answered"
    BY <2>1 DEF Answer, Accepted
  <2>3. Like(new) /\ new.etag = o.etag
    BY <1>0, <2>2 DEF Like, ObjectFields
  <2> HIDE DEF new
  <2> QED
    BY <1>0, <2>1, <2>2, <2>3, PlainAnswer DEF OfTwo, DeleteIfExists
<1> QED
  BY <1>1, <1>2, <1>3, <1>4, <1>5, <1>6, <1>7, <1>8, <1>9, <1>10

(* The handlers of the calls of one request on a container.                *)
LEMMA ContainerHandlers ==
  ASSUME ObjectInv, NEW c \in Callers, kind = "container",
         \/ container_download_attributes_response(c)
         \/ container_upload_metadata_response(c) \/ container_exists_response(c)
         \/ container_create_response(c) \/ delete_container_response(c)
         \/ upload_permissions_response(c) \/ download_permissions_response(c)
  PROVE  Ends(c)
<1> DEFINE o == update_etag_and_last_modified(obj, body(c))
<1>0. /\ call[c].st = "answered" => Like(o) /\ o.etag = body(c).etag
      /\ call[c].st = "answered" => Like(obj)
      /\ call[c].st = "answered" => Like(initialization(obj)) /\ initialization(obj).etag = obj.etag
  BY ObjectUpdates, AnsweredFacts
<1> HIDE DEF o
<1>1. CASE container_download_attributes_response(c)
  <2>1. Answer(c, "download_attributes", container_attributes(obj, body(c)), OK)
    BY <1>1 DEF container_download_attributes_response
  <2>2. call[c].st = "answered" /\ kind \in ContainerKinds
    BY <2>1 DEF Answer, Accepted, ContainerKinds
  <2> QED
    BY <2>1, <2>2, ContainerAttributesTaken, PlainAnswer DEF OfTwo, DeleteIfExists
<1>2. CASE container_upload_metadata_response(c)
  <2>1. Answer(c, "upload_metadata", o, OK)
    BY <1>2 DEF container_upload_metadata_response, o
  <2> QED
    BY <1>0, <2>1, PlainAnswer DEF Answer, Accepted, OfTwo, DeleteIfExists
<1>3. CASE container_exists_response(c)
  <2> DEFINE new == container_attributes(obj, body(c))
  <2>1. call[c].st = "answered" /\ call[c].op = "exists" /\ kind \in ContainerKinds
    BY <1>3 DEF container_exists_response, Accepted, ContainerKinds
  <2>2. CASE call[c].resp.code = NotFound
    <3>1. Return(c, obj, 0)
      BY <1>3, <2>2 DEF container_exists_response
    <3>2. Honest(call[c], 0)
      BY <2>1 DEF Honest, DeleteIfExists
    <3> QED
      BY <2>1, <2>2, <3>1, <3>2, UnchangedAnswer, CodesDiffer
  <2>3. CASE call[c].resp.code # NotFound
    <3>1. Answer(c, "exists", new, 1)
      BY <1>3, <2>3 DEF container_exists_response, Answer
    <3> QED
      BY <2>1, <3>1, ContainerAttributesTaken, PlainAnswer DEF OfTwo, DeleteIfExists
  <2> QED
    BY <2>2, <2>3
<1>4. CASE container_create_response(c)
  <2> DEFINE new == [o EXCEPT !.public_access = call[c].arg]
  <2>1. Answer(c, "create", new, OK)
    BY <1>4 DEF container_create_response, o, created
  <2>2. call[c].st = "answered"
    BY <2>1 DEF Answer, Accepted
  <2>3. Like(new) /\ new.etag = o.etag
    BY <1>0, <2>2 DEF Like, ObjectFields, ContainerKinds
  <2> HIDE DEF new
  <2> QED
    BY <1>0, <2>1, <2>2, <2>3, PlainAnswer DEF OfTwo, DeleteIfExists
<1>5. CASE delete_container_response(c)
  <2>1. Answer(c, "delete_container", initialization(obj), OK)
    BY <1>5 DEF delete_container_response
  <2> QED
    BY <1>0, <2>1, PlainAnswer DEF Answer, Accepted, OfTwo, DeleteIfExists, MayKeepEtag
<1>6. CASE upload_permissions_response(c)
  <2>1. Answer(c, "upload_permissions", o, OK)
    BY <1>6 DEF upload_permissions_response, o
  <2> QED
    BY <1>0, <2>1, PlainAnswer DEF Answer, Accepted, OfTwo, DeleteIfExists
<1>7. CASE download_permissions_response(c)
  <2> DEFINE new == [o EXCEPT !.public_access = parse_public_access_type(body(c))]
  <2>1. Answer(c, "download_permissions", new, parse_public_access_type(body(c)))
    BY <1>7 DEF download_permissions_response, o
  <2>2. call[c].st = "answered"
    BY <2>1 DEF Answer, Accepted
  <2>3. Like(new) /\ new.etag = o.etag
    BY <1>0, <2>2 DEF Like, ObjectFields, ContainerKinds
  <2> HIDE DEF new
  <2> QED
    BY <1>0, <2>1, <2>2, <2>3, PlainAnswer DEF OfTwo, DeleteIfExists
<1> QED
  BY <1>1, <1>2, <1>3, <1>4, <1>5, <1>6, <1>7


(* The handlers that may find a blob of another type, and that of          *)
(* start_incremental_copy.                                                 *)
LEMMA AttributeHandlers ==
  ASSUME ObjectInv, NEW c \in Callers, kind \notin ContainerKinds,
         \/ exists_response(c) \/ download_attributes_response(c)
         \/ start_incremental_copy_response(c) /\ kind = "incremental"
  PROVE  Ends(c)
<1> DEFINE new == attributes(obj, body(c))
<1>1. ASSUME call[c].st = "answered", NEW op \in {"exists", "download_attributes"}, NEW out,
             Answer(c, op, obj, out) \/ Answer(c, op, new, out)
      PROVE  Ends(c)
  <2>1. /\ Like(obj) /\ Like(new) /\ new.etag = body(c).etag
        /\ op \notin OfTwo /\ op \in MayKeepEtag
    BY <1>1, AnsweredFacts, AttributesTaken DEF OfTwo, MayKeepEtag, DeleteIfExists
  <2> HIDE DEF new
  <2> QED
    BY <1>1, <2>1, PlainAnswer
<1>2. CASE exists_response(c)
  <2>1. call[c].st = "answered"
    BY <1>2 DEF exists_response, Accepted
  <2>2. PICK out : Answer(c, "exists", obj, out) \/ Answer(c, "exists", new, out)
    BY <1>2 DEF exists_response, Answer
  <2> HIDE DEF new
  <2> QED
    BY <1>1, <2>1, <2>2
<1>3. CASE download_attributes_response(c)
  <2>1. call[c].st = "answered"
    BY <1>3 DEF download_attributes_response, Accepted
  <2>2. PICK out : Answer(c, "download_attributes", obj, out) \/ Answer(c, "download_attributes", new, out)
    BY <1>3 DEF download_attributes_response, Answer
  <2> HIDE DEF new
  <2> QED
    BY <1>1, <2>1, <2>2
<1>4. CASE start_incremental_copy_response(c) /\ kind = "incremental"
  <2> DEFINE o == [obj EXCEPT !.copy = parse_copy_state(body(c))]
  <2>1. Answer(c, "start_incremental_copy", o, parse_copy_state(body(c)))
    BY <1>4 DEF start_incremental_copy_response
  <2>2. call[c].st = "answered"
    BY <2>1 DEF Answer, Accepted
  <2>3. Like(obj)
    BY <2>2, AnsweredFacts
  <2>4. Like(o) /\ o.etag = obj.etag
    BY <2>3 DEF Like, ObjectFields
  <2> HIDE DEF o
  <2> QED
    BY <1>4, <2>1, <2>2, <2>4, PlainAnswer DEF OfTwo, DeleteIfExists
<1> QED
  BY <1>2, <1>3, <1>4

(* What a call of two requests has learned.                                *)
LEMMA TwoRequests ==
  ASSUME ObjectInv, NEW c \in Callers, NEW op \in OfTwo, Accepted(c, op)
  PROVE  LET r == call[c]
         IN /\ r.st = "answered" /\ r.op = op /\ r.step \in {1, 2}
            /\ Underway(kind, r) /\ Informed(kind, r) /\ AsksThenActs(r)
            /\ r.step = 1 => KeepsVersion(r.req) /\ r.resp.code \in {OK, NotFound}
            /\ r.step = 2 /\ op # "create_if_not_exists" => r.resp.code \in {OK, NotFound}
            /\ r.step = 2 /\ op = "create_if_not_exists" => r.resp.code \in {OK, Conflict}
            /\ r.step = 2 /\ r.resp.code = OK => r.did
<1> DEFINE r == call[c]
<1>1. /\ r.st = "answered" /\ r.op = op
      /\ Success(r.resp.code) \/ r.resp.code \in r.accepts
  BY DEF Accepted
<1>2. Underway(kind, r) /\ Informed(kind, r)
  BY <1>1, AnsweredFacts
<1> HIDE DEF r
<1>3. AsksThenActs(r)
  BY <1>1, <1>2 DEF Underway
<1>4. r.resp.code \in Codes /\ r.resp.code # NoContent
  BY <1>2 DEF Informed
<1>5. r.resp.code = OK \/ r.resp.code \in r.accepts
  BY <1>1, <1>4, CodesDiffer
<1>6. r.step = 2 /\ r.resp.code = OK => r.did
  BY <1>2, <1>3 DEF Informed, AsksThenActs
<1> QED
  BY <1>1, <1>2, <1>3, <1>5, <1>6 DEF AsksThenActs, KeepsVersion, r

(* The request that deletes what was found.                                *)
LEMMA DeleteFollows ==
  ASSUME ObjectInv, NEW c \in Callers, NEW op \in DeleteIfExists, Accepted(c, op),
         NEW req, NEW comp, ~Thrown(req), comp # "lease",
         Built(req, "DEL", comp, call[c].cond, {"snapshot"}),
         IF kind = "snapshot" THEN Has(req, "snapshot") ELSE ~Has(req, "snapshot"),
         NEW r, Agree(r, call[c], {"st", "step", "req", "both", "accepts", "at", "resp", "did"}),
         r.step = 2, r.req = req, r.both = FALSE, r.accepts = {NotFound}, r.at = "primary"
  PROVE  Underway(kind, r)
<1>1. r.op = op /\ r.cond = call[c].cond
  BY DEF Agree, CallFields, Accepted
<1>2. op # "create_if_not_exists" /\ op \in OfTwo
  BY DEF DeleteIfExists, OfTwo
<1>3. Underway(kind, call[c])
  BY <1>2, TwoRequests
<1>4. /\ IsRequest(req, "DEL", comp) /\ CarriesEtags(req, r.cond)
  BY <1>1 DEF Built
<1>5. ~Reads(req) /\ Known(kind, req) /\ KeepsVersion(req)
  BY <1>4 DEF IsRequest, Reads, Known, BlobKnown, ContainerKnown, KeepsVersion
<1>6. r.cond = generate_lease_condition(OurLease) => OurLeaseOnly(req)
  BY <1>1, LeaseHolder
<1>7. AsksThenActs(r)
  BY <1>1, <1>2, <1>5 DEF AsksThenActs
<1>8. IF kind = "snapshot" THEN SparesBlob(req) ELSE ~Has(req, "snapshot")
  BY <1>4 DEF IsRequest, SparesBlob
<1>9. r.cond.if_not_modified_since \in Nat
  BY <1>1, <1>3 DEF Underway
<1> QED
  BY <1>1, <1>2, <1>4, <1>5, <1>6, <1>7, <1>8, <1>9 DEF Underway

(* A call that finds nothing to do says so honestly if it saw that.        *)
LEMMA NothingDone ==
  ASSUME NEW r, NEW out, out # 1,
         \/ r.op \in DeleteIfExists /\ FALSE \in r.seen
         \/ r.op = "create_if_not_exists" /\ TRUE \in r.seen
  PROVE  Honest(r, out)
<1>1. CASE r.op \in DeleteIfExists /\ FALSE \in r.seen
  <2>1. r.op # "create_if_not_exists"
    BY <1>1 DEF DeleteIfExists
  <2> QED
    BY <1>1, <2>1, Zenon DEF Honest
<1>2. CASE r.op = "create_if_not_exists" /\ TRUE \in r.seen
  <2>1. r.op \notin DeleteIfExists
    BY <1>2 DEF DeleteIfExists
  <2> QED
    BY <1>2, <2>1, Zenon DEF Honest
<1> QED
  BY <1>1, <1>2

(* delete_blob_if_exists.                                                  *)
LEMMA DeleteBlobHandlers ==
  ASSUME ObjectInv, NEW c \in Callers, kind \notin ContainerKinds,
         delete_blob_if_exists_exists(c) \/ delete_blob_if_exists_response(c)
  PROVE  Ends(c) \/ GoesOn(c)
<1> DEFINE op == "delete_blob_if_exists"
<1>1. Accepted(c, op)
  BY DEF delete_blob_if_exists_exists, delete_blob_if_exists_response
<1>2. op \in OfTwo /\ op \in DeleteIfExists /\ op # "create_if_not_exists"
  BY DEF OfTwo, DeleteIfExists
<1>3. /\ call[c].st = "answered" /\ call[c].op = op
      /\ Underway(kind, call[c]) /\ Informed(kind, call[c])
      /\ call[c].resp.code \in {OK, NotFound}
      /\ call[c].step = 2 /\ call[c].resp.code = OK => call[c].did
      /\ KeepsVersion(call[c].req)
  BY <1>1, <1>2, TwoRequests DEF Underway, MayKeepEtag
<1> HIDE DEF op
<1>4. kind # "snapshot" /\ call[c].resp.code = NotFound => Honest(call[c], 0)
  <2>1. kind # "snapshot" /\ call[c].resp.code = NotFound => FALSE \in call[c].seen
    BY <1>2, <1>3 DEF Informed
  <2>2. call[c].op \in DeleteIfExists /\ 0 # 1
    BY <1>2, <1>3
  <2> QED
    BY <2>1, <2>2, NothingDone
<1>5. CASE call[c].resp.code = NotFound
  <2>1. Return(c, obj, 0)
    BY <1>5 DEF delete_blob_if_exists_exists, delete_blob_if_exists_response
  <2> QED
    BY <1>3, <1>4, <1>5, <2>1, UnchangedAnswer
<1>6. CASE call[c].resp.code # NotFound /\ delete_blob_if_exists_response(c)
  <2>1. Return(c, initialization(obj), 1) /\ call[c].step = 2
    BY <1>6 DEF delete_blob_if_exists_response
  <2>2. Like(initialization(obj)) /\ initialization(obj).etag = obj.etag
    BY <1>3, ObjectUpdates
  <2>3. ObjectOf(kind, initialization(obj))
    BY <1>3, <2>2, AnsweredFacts
  <2>4. Settled(c, initialization(obj))
    BY <1>3, <2>2 DEF Settled
  <2>5. Honest(call[c], 1)
    BY <1>2, <1>3, <1>6, <2>1 DEF Honest
  <2> QED
    BY <1>3, <2>1, <2>3, <2>4, <2>5 DEF Ends
<1>7. CASE call[c].resp.code # NotFound /\ delete_blob_if_exists_exists(c)
           /\ type_mismatch(obj, body(c))
  <2>1. Return(c, obj, TypeMismatch)
    BY <1>7 DEF delete_blob_if_exists_exists
  <2> QED
    BY <1>3, <2>1, UnchangedAnswer, SilentResult
<1>8. CASE call[c].resp.code # NotFound /\ delete_blob_if_exists_exists(c)
           /\ ~type_mismatch(obj, body(c))
  <2> DEFINE new == attributes(obj, body(c))
             req == delete_blob(call[c].arg, obj.snapshot, call[c].cond)
  <2>1. Continue(c, new, req, {NotFound})
    BY <1>8 DEF delete_blob_if_exists_exists
  <2>2. Like(new) /\ new.etag = body(c).etag
    BY <1>3, AttributesTaken
  <2>3. Built(req, "DEL", "blob", call[c].cond, SnapshotHeader(obj.snapshot))
    BY BlobRequestsBuilt
  <2>4. kind = "snapshot" /\ ~Thrown(req) => Has(req, "snapshot")
    BY DeleteNamesSnapshot, ObjectKind
  <2> HIDE DEF new, req
  <2>5. ~Thrown(req) =>
          /\ Built(req, "DEL", "blob", call[c].cond, {"snapshot"})
          /\ IF kind = "snapshot" THEN Has(req, "snapshot") ELSE ~Has(req, "snapshot")
    BY <2>3, <2>4, ObjectKind DEF Built, SnapshotHeader, Special
  <2>6. ObjectOf(kind, new) /\ Settled(c, new)
    BY <1>3, <2>2, AnsweredFacts DEF Settled
  <2>7. ASSUME ~Thrown(req), NEW r,
               Agree(r, call[c], {"st", "step", "req", "both", "accepts", "at", "resp", "did"}),
               r.step = 2, r.req = req, r.both = FALSE, r.accepts = {NotFound}, r.at = "primary"
        PROVE  Underway(kind, r)
    BY <1>1, <1>2, <2>5, <2>7, DeleteFollows
  <2>8. ~Thrown(req) =>
           \A r : /\ Agree(r, call[c], {"st", "step", "req", "both", "accepts",
                                        "at", "resp", "did"})
                  /\ r.st = "sent" /\ r.step = 2 /\ r.req = req /\ r.both = FALSE
                  /\ r.accepts = {NotFound} /\ r.at = "primary" /\ r.did = FALSE
                  => Underway(kind, r)
    BY <2>7
  <2>9. GoesOn(c)
    BY <1>3, <2>1, <2>6, <2>8 DEF GoesOn
  <2> QED
    BY <2>9
<1> QED
  BY <1>5, <1>6, <1>7, <1>8

(* delete_container_if_exists.                                             *)
LEMMA DeleteContainerHandlers ==
  ASSUME ObjectInv, NEW c \in Callers, kind = "container",
         delete_container_if_exists_exists(c) \/ delete_container_if_exists_response(c)
  PROVE  Ends(c) \/ GoesOn(c)
<1> DEFINE op == "delete_container_if_exists"
<1>1. Accepted(c, op)
  BY DEF delete_container_if_exists_exists, delete_container_if_exists_response
<1>2. op \in OfTwo /\ op \in DeleteIfExists /\ op # "create_if_not_exists"
  BY DEF OfTwo, DeleteIfExists
<1>3. /\ call[c].st = "answered" /\ call[c].op = op
      /\ Underway(kind, call[c]) /\ Informed(kind, call[c])
      /\ call[c].resp.code \in {OK, NotFound}
      /\ call[c].step = 2 /\ call[c].resp.code = OK => call[c].did
      /\ KeepsVersion(call[c].req)
  BY <1>1, <1>2, TwoRequests DEF Underway, MayKeepEtag
<1> HIDE DEF op
<1>4. kind # "snapshot" /\ call[c].resp.code = NotFound => Honest(call[c], 0)
  <2>1. kind # "snapshot" /\ call[c].resp.code = NotFound => FALSE \in call[c].seen
    BY <1>2, <1>3 DEF Informed
  <2>2. call[c].op \in DeleteIfExists /\ 0 # 1
    BY <1>2, <1>3
  <2> QED
    BY <2>1, <2>2, NothingDone
<1>5. CASE call[c].resp.code = NotFound
  <2>1. Return(c, obj, 0)
    BY <1>5 DEF delete_container_if_exists_exists, delete_container_if_exists_response
  <2> QED
    BY <1>3, <1>4, <1>5, <2>1, UnchangedAnswer
<1>6. CASE call[c].resp.code # NotFound /\ delete_container_if_exists_response(c)
  <2>1. Return(c, initialization(obj), 1) /\ call[c].step = 2
    BY <1>6 DEF delete_container_if_exists_response
  <2>2. Like(initialization(obj)) /\ initialization(obj).etag = obj.etag
    BY <1>3, ObjectUpdates
  <2>3. ObjectOf(kind, initialization(obj))
    BY <1>3, <2>2, AnsweredFacts
  <2>4. Settled(c, initialization(obj))
    BY <1>3, <2>2 DEF Settled
  <2>5. Honest(call[c], 1)
    BY <1>2, <1>3, <1>6, <2>1 DEF Honest
  <2> QED
    BY <1>3, <2>1, <2>3, <2>4, <2>5 DEF Ends
<1>7. CASE call[c].resp.code # NotFound /\ delete_container_if_exists_exists(c)
  <2> DEFINE new == container_attributes(obj, body(c))
             req == delete_blob_container(call[c].cond)
  <2>1. Continue(c, new, req, {NotFound})
    BY <1>7 DEF delete_container_if_exists_exists
  <2>2. Like(new) /\ new.etag = body(c).etag
    BY <1>3, ContainerAttributesTaken DEF ContainerKinds
  <2>3. Built(req, "DEL", "container", call[c].cond, {})
    BY ContainerRequests
  <2> HIDE DEF new, req
  <2>4. ~Thrown(req) => /\ Built(req, "DEL", "container", call[c].cond, {"snapshot"})
                        /\ ~Has(req, "snapshot")
    BY <2>3 DEF Built, Special
  <2>5. ObjectOf(kind, new) /\ Settled(c, new)
    BY <1>3, <2>2, AnsweredFacts DEF Settled
  <2>6. ASSUME ~Thrown(req), NEW r,
               Agree(r, call[c], {"st", "step", "req", "both", "accepts", "at", "resp", "did"}),
               r.step = 2, r.req = req, r.both = FALSE, r.accepts = {NotFound}, r.at = "primary"
        PROVE  Underway(kind, r)
    BY <1>1, <1>2, <2>4, <2>6, DeleteFollows
  <2>7. ~Thrown(req) =>
           \A r : /\ Agree(r, call[c], {"st", "step", "req", "both", "accepts",
                                        "at", "resp", "did"})
                  /\ r.st = "sent" /\ r.step = 2 /\ r.req = req /\ r.both = FALSE
                  /\ r.accepts = {NotFound} /\ r.at = "primary" /\ r.did = FALSE
                  => Underway(kind, r)
    BY <2>6
  <2>8. GoesOn(c)
    BY <1>3, <2>1, <2>5, <2>7 DEF GoesOn
  <2> QED
    BY <2>8
<1> QED
  BY <1>5, <1>6, <1>7

(* create_if_not_exists of a container.                                    *)
LEMMA CreateContainerHandlers ==
  ASSUME ObjectInv, NEW c \in Callers, kind = "container",
         \/ container_create_if_not_exists_exists(c)
         \/ container_create_if_not_exists_response(c)
  PROVE  Ends(c) \/ GoesOn(c)
<1> DEFINE op == "create_if_not_exists"
<1>1. Accepted(c, op)
  BY DEF container_create_if_not_exists_exists, container_create_if_not_exists_response
<1>2. op \in OfTwo /\ op \notin DeleteIfExists
  BY DEF OfTwo, DeleteIfExists
<1>3. /\ call[c].st = "answered" /\ call[c].op = op
      /\ Underway(kind, call[c]) /\ Informed(kind, call[c])
      /\ call[c].step = 1 => KeepsVersion(call[c].req) /\ call[c].resp.code \in {OK, NotFound}
      /\ call[c].step = 2 => call[c].resp.code \in {OK, Conflict}
      /\ call[c].step = 2 /\ call[c].resp.code = OK => call[c].did
  BY <1>1, <1>2, TwoRequests
<1>4. call[c].resp.code = (IF call[c].step = 1 THEN OK ELSE Conflict) => Honest(call[c], 0)
  <2>1. call[c].resp.code = (IF call[c].step = 1 THEN OK ELSE Conflict)
          => TRUE \in call[c].seen
    BY <1>3 DEF Informed
  <2>2. call[c].op = "create_if_not_exists" /\ 0 # 1
    BY <1>3
  <2> QED
    BY <2>1, <2>2, NothingDone
<1>5. call[c].time \in Nat /\ call[c].pre = Empty
  BY <1>3 DEF Underway, CreatesContainer
<1> HIDE DEF op
<1>6. CASE container_create_if_not_exists_response(c) /\ call[c].resp.code = Conflict
  <2>1. Return(c, obj, 0) /\ call[c].step = 2
    BY <1>6 DEF container_create_if_not_exists_response
  <2> QED
    BY <1>3, <1>4, <1>6, <2>1, UnchangedAnswer, CodesDiffer
<1>7. CASE container_create_if_not_exists_response(c) /\ call[c].resp.code # Conflict
  <2> DEFINE o == update_etag_and_last_modified(obj, body(c))
             new == [o EXCEPT !.public_access = call[c].arg]
  <2>1. Return(c, new, 1) /\ call[c].step = 2
    BY <1>7 DEF container_create_if_not_exists_response, created
  <2>2. Like(o) /\ o.etag = body(c).etag
    BY <1>3, ObjectUpdates
  <2> HIDE DEF o
  <2>3. Like(new) /\ new.etag = body(c).etag
    BY <2>2 DEF Like, ObjectFields, ContainerKinds
  <2> HIDE DEF new
  <2>4. ObjectOf(kind, new) /\ Settled(c, new)
    BY <1>3, <2>3, AnsweredFacts DEF Settled
  <2>5. Honest(call[c], 1)
    BY <1>2, <1>3, <1>5, <1>7, <2>1 DEF Honest
  <2> QED
    BY <1>3, <2>1, <2>4, <2>5 DEF Ends
<1>8. CASE container_create_if_not_exists_exists(c) /\ call[c].resp.code # NotFound
  <2> DEFINE new == container_attributes(obj, body(c))
  <2>1. Return(c, new, 0) /\ call[c].step = 1
    BY <1>8 DEF container_create_if_not_exists_exists
  <2>2. Like(new) /\ new.etag = body(c).etag
    BY <1>3, ContainerAttributesTaken DEF ContainerKinds
  <2> HIDE DEF new
  <2>3. ObjectOf(kind, new) /\ Settled(c, new)
    BY <1>3, <2>2, AnsweredFacts DEF Settled
  <2>4. Honest(call[c], 0)
    BY <1>3, <1>4, <1>8, <2>1
  <2> QED
    BY <1>3, <2>1, <2>3, <2>4 DEF Ends
<1>9. CASE container_create_if_not_exists_exists(c) /\ call[c].resp.code = NotFound
  <2> DEFINE req == create_blob_container(call[c].arg, obj.meta)
  <2>1. Continue(c, obj, req, {Conflict}) /\ call[c].step = 1
    BY <1>9 DEF container_create_if_not_exists_exists
  <2>2. ~Thrown(req) => /\ IsRequest(req, "PUT", "container") /\ ~Has(req, "snapshot")
                        /\ Known("container", req) /\ ~Reads(req)
                        /\ CarriesEtags(req, access_condition)
    BY CreateCommand
  <2>3. ObjectOf(kind, obj) /\ Settled(c, obj)
    BY <1>3, <2>1 DEF ObjectInv, Settled
  <2>4. call[c].cond = access_condition /\ access_condition # generate_lease_condition(OurLease)
    BY <1>3 DEF Underway, CreatesContainer, access_condition, generate_lease_condition,
       OurLease, Empty, op
  <2> HIDE DEF req
  <2>5. ASSUME ~Thrown(req), NEW r,
               Agree(r, call[c], {"st", "step", "req", "both", "accepts", "at", "resp", "did"}),
               r.step = 2, r.req = req, r.both = FALSE, r.accepts = {Conflict}, r.at = "primary"
        PROVE  Underway(kind, r)
    <3>1. /\ r.op = op /\ r.cond = access_condition /\ r.time = call[c].time
          /\ r.pre = call[c].pre
      BY <1>3, <2>4, <2>5 DEF Agree, CallFields
    <3>2. r.cond.if_not_modified_since \in Nat /\ op = "create_if_not_exists"
      BY <3>1, GivenConditions DEF op
    <3>3. AsksThenActs(r)
      BY <2>2, <2>5, <3>1, <3>2 DEF AsksThenActs
    <3>4. CreatesContainer(r)
      BY <1>5, <2>2, <2>5, <3>1 DEF CreatesContainer, IsRequest
    <3>5. op \notin MayKeepEtag
      BY <3>2 DEF MayKeepEtag, DeleteIfExists
    <3> QED
      BY <1>2, <2>2, <2>4, <2>5, <3>1, <3>2, <3>3, <3>4, <3>5 DEF Underway
  <2>6. ~Thrown(req) =>
           \A r : /\ Agree(r, call[c], {"st", "step", "req", "both", "accepts",
                                        "at", "resp", "did"})
                  /\ r.st = "sent" /\ r.step = 2 /\ r.req = req /\ r.both = FALSE
                  /\ r.accepts = {Conflict} /\ r.at = "primary" /\ r.did = FALSE
                  => Underway(kind, r)
    BY <2>5
  <2>7. GoesOn(c)
    BY <1>3, <2>1, <2>3, <2>6 DEF GoesOn
  <2> QED
    BY <2>7
<1> QED
  BY <1>6, <1>7, <1>8, <1>9


-----------------------------------------------------------------------------
(* The calls of each kind of object.                                       *)

(* A call starts, is handled, or changes the object without its etag.      *)
ObjectSet == \E o : Local(o) /\ ObjectOf(kind, o) /\ o.etag = obj.etag

CallStep(c) == Starts(c) \/ Ends(c) \/ GoesOn(c) \/ ObjectSet

(* set_metadata and set_content, without a request.                        *)
LEMMA ObjectSetters ==
  ASSUME ObjectInv, set_metadata \/ (set_content /\ kind \notin ContainerKinds)
  PROVE  ObjectSet
<1>1. PICK v : \/ Local([obj EXCEPT !.meta = v])
               \/ Local([obj EXCEPT !.content = v]) /\ kind \notin ContainerKinds
  BY DEF set_metadata, set_content
<1>2. ObjectOf(kind, obj)
  BY DEF ObjectInv
<1>3. /\ ObjectOf(kind, [obj EXCEPT !.meta = v]) /\ [obj EXCEPT !.meta = v].etag = obj.etag
      /\ kind \notin ContainerKinds =>
           ObjectOf(kind, [obj EXCEPT !.content = v]) /\ [obj EXCEPT !.content = v].etag = obj.etag
  BY <1>2 DEF ObjectOf, ObjectFields
<1> QED
  BY <1>1, <1>3 DEF ObjectSet

(* A blob's attributes, deletion, leases and copies.                       *)
LEMMA BlobSteps ==
  ASSUME ObjectInv, NEW c \in Callers, BlobCalls(c) \/ LeaseCalls(c) \/ CopyCalls(c)
  PROVE  CallStep(c)
<1>1. CASE BlobCalls(c)
  <2>1. kind \notin ContainerKinds
    BY <1>1 DEF BlobCalls, ContainerKinds
  <2> QED
    BY <1>1, <2>1, AttributeStarts, AttributeHandlers, BlobHandlers, DeleteBlobHandlers,
       ObjectSetters
    DEF BlobCalls, CallStep
<1>2. CASE LeaseCalls(c)
  <2>1. kind \notin ContainerKinds
    BY <1>2 DEF LeaseCalls, ContainerKinds
  <2> QED
    BY <1>2, <2>1, LeaseStarts, LeaseHandlers DEF LeaseCalls, LeaseResponses, CallStep
<1>3. CASE CopyCalls(c)
  <2>1. kind \notin ContainerKinds
    BY <1>3 DEF CopyCalls, ContainerKinds
  <2> QED
    BY <1>3, <2>1, CopyStarts, BlobHandlers DEF CopyCalls, CallStep
<1> QED
  BY <1>1, <1>2, <1>3

(* Blobs of one type.                                                      *)
LEMMA TypedBlobSteps ==
  ASSUME ObjectInv, NEW c \in Callers,
         BlockCalls(c) \/ PageCalls(c) \/ IncrementalCalls(c) \/ AppendCalls(c)
  PROVE  CallStep(c)
<1>1. kind \notin ContainerKinds
  BY DEF BlockCalls, PageCalls, IncrementalCalls, AppendCalls, ContainerKinds
<1>2. CASE BlockCalls(c)
  BY <1>1, <1>2, BlockStarts, BlobHandlers DEF BlockCalls, CallStep
<1>3. CASE PageCalls(c)
  BY <1>1, <1>3, PageStarts, TypeHandlers DEF PageCalls, CallStep
<1>4. CASE IncrementalCalls(c)
  <2>1. kind = "incremental"
    BY <1>4 DEF IncrementalCalls
  <2> QED
    BY <1>1, <1>4, <2>1, CopyStarts, PageStarts, BlobHandlers, TypeHandlers, AttributeHandlers
    DEF IncrementalCalls, CallStep
<1>5. CASE AppendCalls(c)
  BY <1>1, <1>5, AppendStarts, TypeHandlers DEF AppendCalls, CallStep
<1> QED
  BY <1>2, <1>3, <1>4, <1>5

(* Snapshots.                                                              *)
LEMMA SnapshotSteps ==
  ASSUME ObjectInv, NEW c \in Callers, SnapshotCalls(c)
  PROVE  CallStep(c)
<1>1. kind \notin ContainerKinds
  BY DEF SnapshotCalls, ContainerKinds
<1>2. CASE \/ download_attributes(c) \/ upload_metadata(c) \/ upload_properties(c)
           \/ delete_blob_call(c) \/ delete_blob_if_exists(c)
           \/ acquire_lease(c) \/ renew_lease(c) \/ change_lease(c)
           \/ release_lease(c) \/ break_lease(c)
           \/ start_copy(c) \/ abort_copy(c) \/ create_snapshot(c)
  BY <1>1, <1>2, AttributeStarts, LeaseStarts, CopyStarts DEF CallStep
<1>3. CASE \/ download_attributes_response(c) \/ delete_blob_response(c)
           \/ delete_blob_if_exists_exists(c) \/ delete_blob_if_exists_response(c)
           \/ set_standard_blob_tier_response(c) \/ set_premium_blob_tier_response(c)
  BY <1>1, <1>3, AttributeHandlers, BlobHandlers, DeleteBlobHandlers, TypeHandlers DEF CallStep
<1>4. CASE \/ upload_block(c) \/ upload_block_list(c) \/ upload_from_stream(c)
           \/ set_standard_blob_tier(c)
  BY <1>1, <1>4, BlockStarts DEF CallStep
<1>5. CASE \/ create(c) \/ resize(c) \/ clear_pages(c) \/ set_sequence_number(c)
           \/ upload_pages(c) \/ start_incremental_copy(c) \/ set_premium_blob_tier(c)
  BY <1>1, <1>5, PageStarts, CopyStarts DEF CallStep
<1>6. CASE create_or_replace(c) \/ append_block_call(c)
  BY <1>1, <1>6, AppendStarts DEF CallStep
<1> QED
  BY <1>2, <1>3, <1>4, <1>5, <1>6 DEF SnapshotCalls

(* Containers and their leases.                                            *)
LEMMA ContainerSteps ==
  ASSUME ObjectInv, NEW c \in Callers, ContainerCalls(c) \/ ContainerLeaseCalls(c)
  PROVE  CallStep(c)
<1>1. CASE ContainerCalls(c)
  <2>1. kind = "container"
    BY <1>1 DEF ContainerCalls
  <2> QED
    BY <1>1, <2>1, ContainerStarts, ContainerHandlers, DeleteContainerHandlers,
       CreateContainerHandlers, ObjectSetters
    DEF ContainerCalls, CallStep
<1>2. CASE ContainerLeaseCalls(c)
  <2>1. kind = "container_lease"
    BY <1>2 DEF ContainerLeaseCalls
  <2> QED
    BY <1>2, <2>1, ContainerLeaseStarts, LeaseHandlers
    DEF ContainerLeaseCalls, LeaseResponses, CallStep
<1> QED
  BY <1>1, <1>2

(* Each of them keeps the invariants.                                      *)
LEMMA CallStepKeeps ==
  ASSUME ObjectInv, CalmInv, NEW c \in Callers, CallStep(c)
  PROVE  ObjectInv' /\ CalmInv'
<1>1. CASE Starts(c)
  <2>1. PICK cmd : execute_async(c, cmd) /\ Command(kind, cmd)
    BY <1>1 DEF Starts
  <2> QED
    BY <2>1, StartStep, CalmStart
<1>2. CASE Ends(c) \/ GoesOn(c)
  BY <1>2, HandledStep
<1>3. CASE ObjectSet
  <2>1. PICK o : Local(o) /\ ObjectOf(kind, o) /\ o.etag = obj.etag
    BY <1>3 DEF ObjectSet
  <2>2. obj'.etag = obj.etag /\ UNCHANGED <<kind, svc, call, calm>>
    BY <2>1 DEF Local
  <2>3. CalmInv'
    BY <2>2 DEF CalmInv, AtRest, Mirrored, Active, body
  <2> QED
    BY <2>1, <2>3, LocalStep
<1> QED
  BY <1>1, <1>2, <1>3 DEF CallStep

(* Lost answers, refusals and the timer.                                   *)
LEMMA NetworkKeeps ==
  ASSUME ObjectInv, CalmInv, NEW c \in Callers, Network(c)
  PROVE  ObjectInv' /\ CalmInv'
<1>1. ObjectOf(kind, obj)
  BY DEF ObjectInv
<1>2. CASE GiveUp(c) \/ timer_fires(c)
  <2>1. PICK out \in {Failed, TimedOut} : Returns(c, out) /\ obj' = obj
    BY <1>2, ReturningSteps
  <2>2. UNCHANGED left
    BY <1>2 DEF GiveUp, timer_fires
  <2>3. Honest(call[c], out)
    BY SilentResult
  <2> QED
    BY <1>1, <2>1, <2>2, <2>3, ReturnStep, CalmNetwork
<1>3. CASE Resend(c) \/ Refused(c)
  BY <1>3, ResendStep, RefusedStep, CalmNetwork
<1> QED
  BY <1>2, <1>3 DEF Network

(* Another client.                                                         *)
LEMMA ForeignKeeps ==
  ASSUME ObjectInv, CalmInv, ForeignWrite
  PROVE  ObjectInv' /\ CalmInv'
<1>1. /\ DOMAIN svc = Fields(kind) /\ svc.etag \in Nat /\ svc.there \in BOOLEAN
      /\ {"there", "etag", "meta", "lease"} \subseteq Fields(kind)
  BY DEF ObjectInv, Resource, Fields, ContainerFields, BlobFields
<1>2. /\ Resource([NewVersion(svc) EXCEPT !.meta = 2], Fields(kind))
      /\ Resource([Absent(svc) EXCEPT !.lease = Empty], Fields(kind))
      /\ Resource([NewVersion(svc) EXCEPT !.there = TRUE], Fields(kind))
      /\ Resource([svc EXCEPT !.lease = TheirLease], Fields(kind))
      /\ Resource([NewVersion(svc) EXCEPT !.type = "page", !.there = TRUE], Fields(kind))
  BY <1>1 DEF Resource, NewVersion, Absent
<1>3. PICK state : Foreign(state) /\ Resource(state, Fields(kind))
  BY <1>2, Zenon DEF ForeignWrite
<1>4. ~calm'
  BY <1>3 DEF Foreign
<1> QED
  BY <1>3, <1>4, ForeignStep DEF CalmInv

(* Every step keeps the invariants.                                        *)
LEMMA NextKeeps ==
  ASSUME ObjectInv, CalmInv, [Next]_cvars
  PROVE  ObjectInv' /\ CalmInv'
<1>1. CASE UNCHANGED cvars
  BY <1>1 DEF cvars, ObjectInv, CallsTyped, BoundsLeft, CalmInv, AtRest, Mirrored, Active, body
<1>2. CASE ForeignWrite
  BY <1>2, ForeignKeeps
<1>3. ASSUME NEW c \in Callers,
             \/ BlobCalls(c) \/ LeaseCalls(c) \/ CopyCalls(c) \/ BlockCalls(c)
             \/ PageCalls(c) \/ IncrementalCalls(c) \/ AppendCalls(c)
             \/ SnapshotCalls(c) \/ ContainerCalls(c) \/ ContainerLeaseCalls(c)
      PROVE  ObjectInv' /\ CalmInv'
  <2>1. CallStep(c)
    BY <1>3, BlobSteps, TypedBlobSteps, SnapshotSteps, ContainerSteps
  <2> QED
    BY <2>1, CallStepKeeps
<1>4. ASSUME NEW c \in Callers, ServeObject(c)
      PROVE  ObjectInv' /\ CalmInv'
  BY <1>4, ServeStep, CalmServe
<1>5. ASSUME NEW c \in Callers, Network(c)
      PROVE  ObjectInv' /\ CalmInv'
  BY <1>5, NetworkKeeps
<1> QED
  BY <1>1, <1>2, <1>3, <1>4, <1>5 DEF Next


-----------------------------------------------------------------------------
(* The initial states.                                                     *)

(* An object just made, with nothing cached.                               *)
LEMMA MadeBlob ==
  ASSUME NEW k, k \notin ContainerKinds, NEW type, NEW time, time = Empty <=> k # "snapshot"
  PROVE  ObjectOf(k, cloud_blob(type, time)) /\ cloud_blob(type, time).etag = Empty
<1> DEFINE p == [cloud_blob_properties EXCEPT !.type = type]
           q == [meta |-> Empty, copy |-> Empty, snapshot |-> time]
<1>1. DOMAIN p = {"etag", "content", "size", "seq", "count", "standard_tier", "premium_tier",
                  "lease_state", "type"} /\ p.etag = Empty
  BY DEF cloud_blob_properties
<1>2. DOMAIN q = {"meta", "copy", "snapshot"} /\ q.snapshot = time
  OBVIOUS
<1> HIDE DEF p, q
<1>3. /\ DOMAIN Over(p, q) = ObjectFields(k) /\ Over(p, q).etag = Empty
      /\ Over(p, q).snapshot = time
  BY <1>1, <1>2 DEF Over, ObjectFields
<1>4. cloud_blob(type, time) = Over(p, q)
  BY DEF cloud_blob, p, q
<1> QED
  BY <1>3, <1>4 DEF ObjectOf, Empty

(* An object that has taken over the attributes of the stored blob.        *)
LEMMA KnownBlob ==
  ASSUME NEW k, k \notin ContainerKinds, NEW o, ObjectOf(k, o), NEW s, Resource(s, BlobFields)
  PROVE  ObjectOf(k, attributes(o, s)) /\ attributes(o, s).etag = s.etag
<1> DEFINE p == parse_blob_properties(s)
           all == update_all(o, s)
<1>1. DOMAIN p = {"etag", "content", "size", "seq", "count", "standard_tier", "premium_tier",
                  "lease_state", "type"} /\ p.etag = s.etag
  BY DEF parse_blob_properties
<1>2. /\ DOMAIN o = {"etag", "content", "size", "seq", "count", "standard_tier",
                     "premium_tier", "lease_state", "type", "meta", "copy", "snapshot"}
      /\ (o.snapshot = Empty <=> k # "snapshot")
  BY DEF ObjectOf, ObjectFields
<1> HIDE DEF p
<1>3. DOMAIN all = DOMAIN o /\ all.etag = s.etag /\ all.snapshot = o.snapshot
  BY <1>1, <1>2 DEF update_all, Over, p
<1> HIDE DEF all
<1>4. attributes(o, s) = [all EXCEPT !.meta = parse_metadata(s), !.copy = parse_copy_state(s)]
  BY DEF attributes, all
<1> QED
  BY <1>2, <1>3, <1>4 DEF ObjectOf, Resource

(* A container's object, just made and up to date.                         *)
LEMMA MadeContainer ==
  ASSUME NEW k \in ContainerKinds
  PROVE  LET o == container_attributes(cloud_blob_container, StoredContainer)
         IN /\ ObjectOf(k, cloud_blob_container) /\ cloud_blob_container.etag = Empty
            /\ ObjectOf(k, o) /\ o.etag = StoredContainer.etag
<1> DEFINE p == parse_blob_container_properties(StoredContainer)
           m == cloud_blob_container
           all == Over(p, m)
<1>1. DOMAIN p = {"etag", "lease_state", "public_access"} /\ p.etag = StoredContainer.etag
  BY DEF parse_blob_container_properties
<1>2. /\ DOMAIN m = {"etag", "meta", "lease_state", "public_access"} /\ m.etag = Empty
      /\ StoredContainer.etag = 1
  BY DEF cloud_blob_container, StoredContainer
<1> HIDE DEF p, m
<1>3. DOMAIN all = DOMAIN m /\ all.etag = StoredContainer.etag
  BY <1>1, <1>2 DEF Over
<1> HIDE DEF all
<1>4. container_attributes(m, StoredContainer)
        = [all EXCEPT !.meta = parse_metadata(StoredContainer)]
  BY DEF container_attributes, all, p
<1> QED
  BY <1>2, <1>3, <1>4 DEF ObjectOf, ObjectFields, Empty, m

(* What is stored at first.                                                *)
LEMMA StoredResources ==
  ASSUME NEW k, NEW s, Resource(s, Fields(k)), "lease" \in Fields(k)
  PROVE  /\ Resource(Absent(s), Fields(k)) /\ Absent(s).etag = s.etag
         /\ \A t \in Leased(s) : Resource(t, Fields(k)) /\ t.etag = s.etag
  BY DEF Resource, Absent, Leased, Fields, BlobFields, ContainerFields

(* The invariants hold of any object up to date with what is stored, or    *)
(* that knows nothing of it.                                               *)
LEMMA CommandInitInv ==
  ASSUME NEW k, NEW o, NEW s, CommandInit(k, o, s), ObjectOf(k, o), Resource(s, Fields(k)),
         o.etag \in {Empty, s.etag}
  PROVE  ObjectInv /\ CalmInv
<1>1. /\ kind = k /\ obj = o /\ svc = s /\ sec = s /\ call = [c \in Callers |-> Idle]
      /\ left = [calls |-> MaxCalls, lost |-> MaxLost, foreign |-> MaxForeign]
  BY DEF CommandInit
<1>2. /\ DOMAIN Idle = CallFields /\ Idle.st = "idle" /\ Idle.did = FALSE
  BY DEF Idle, CallFields
<1>3. CallOf(k, Idle)
  BY <1>2 DEF CallOf, Protected
<1>4. CallsTyped
  BY <1>1, <1>2 DEF CallsTyped
<1>5. BoundsLeft
  BY <1>1, BoundsAssumption DEF BoundsLeft
<1>6. \A c \in Callers : call[c].st = "idle" /\ CallOf(kind, call[c])
  BY <1>1, <1>2, <1>3
<1>7. CalmInv
  BY <1>1, <1>6 DEF CalmInv, Active, Mirrored
<1> QED
  BY <1>1, <1>4, <1>5, <1>6, <1>7 DEF ObjectInv

(* They hold at first.                                                     *)
LEMMA InitInv ==
  ASSUME Init
  PROVE  ObjectInv /\ CalmInv
<1>1. CASE BlobInit
  <2>1. PICK k \in BlobKinds :
          LET stored == StoredBlob(TypeOf(k))
              made == cloud_blob(IF k = "blob" THEN "unspecified" ELSE TypeOf(k), Empty)
          IN \/ CommandInit(k, attributes(made, stored), stored)
             \/ CommandInit(k, made, Absent(stored))
             \/ \E s \in Leased(stored) : CommandInit(k, made, s)
    BY <1>1, Zenon DEF BlobInit
  <2> DEFINE stored == StoredBlob(TypeOf(k))
             made == cloud_blob(IF k = "blob" THEN "unspecified" ELSE TypeOf(k), Empty)
  <2>2. k \notin ContainerKinds /\ k # "snapshot" /\ Fields(k) = BlobFields
    BY DEF BlobKinds, ContainerKinds, Fields
  <2>3. ObjectOf(k, made) /\ made.etag = Empty
    BY <2>2, MadeBlob
  <2>4. Resource(stored, BlobFields) /\ "lease" \in BlobFields
    BY DEF StoredBlob, Resource, BlobFields
  <2>5. \/ CommandInit(k, attributes(made, stored), stored)
        \/ CommandInit(k, made, Absent(stored))
        \/ \E s \in Leased(stored) : CommandInit(k, made, s)
    BY <2>1
  <2> HIDE DEF stored, made
  <2>6. ObjectOf(k, attributes(made, stored)) /\ attributes(made, stored).etag = stored.etag
    BY <2>2, <2>3, <2>4, KnownBlob
  <2>7. /\ Resource(Absent(stored), Fields(k))
        /\ \A t \in Leased(stored) : Resource(t, Fields(k))
    BY <2>2, <2>4, StoredResources
  <2> QED
    BY <2>2, <2>3, <2>4, <2>5, <2>6, <2>7, CommandInitInv
<1>2. CASE SnapshotInit
  <2> DEFINE stored(type) == [StoredBlob(type) EXCEPT !.snap_meta = 2, !.copy = NotedCopy]
  <2>1. PICK type, s : /\ s = stored(type) \/ s \in Leased(stored(type))
                       /\ CommandInit("snapshot", cloud_blob(type, 1), s)
    BY <1>2, Zenon DEF SnapshotInit
  <2>2. "snapshot" \notin ContainerKinds /\ Fields("snapshot") = BlobFields
    BY DEF ContainerKinds, Fields
  <2>3. Resource(s, BlobFields)
    <3>1. Resource(stored(type), BlobFields) /\ "lease" \in BlobFields
      BY DEF StoredBlob, Resource, BlobFields
    <3> HIDE DEF stored
    <3> QED
      BY <2>1, <2>2, <3>1, StoredResources
  <2>4. 1 = Empty <=> "snapshot" # "snapshot"
    BY DEF Empty
  <2>5. ObjectOf("snapshot", cloud_blob(type, 1)) /\ cloud_blob(type, 1).etag = Empty
    BY <2>2, <2>4, MadeBlob
  <2> QED
    BY <2>1, <2>2, <2>3, <2>5, CommandInitInv
<1>3. CASE ContainerInit
  <2> DEFINE made == cloud_blob_container
             known == container_attributes(made, StoredContainer)
  <2>1. PICK k \in ContainerKinds :
          \/ CommandInit(k, known, StoredContainer)
          \/ CommandInit(k, made, Absent(StoredContainer))
          \/ \E s \in Leased(StoredContainer) : CommandInit(k, made, s)
    BY <1>3, Zenon DEF ContainerInit, ContainerKinds
  <2>2. /\ Resource(StoredContainer, ContainerFields) /\ "lease" \in ContainerFields
        /\ Fields(k) = ContainerFields
    BY DEF StoredContainer, Resource, ContainerFields, Fields
  <2>3. /\ ObjectOf(k, made) /\ made.etag = Empty
        /\ ObjectOf(k, known) /\ known.etag = StoredContainer.etag
    BY MadeContainer
  <2> HIDE DEF made, known
  <2>4. /\ Resource(Absent(StoredContainer), Fields(k))
        /\ \A t \in Leased(StoredContainer) : Resource(t, Fields(k))
    BY <2>2, StoredResources
  <2> QED
    BY <2>1, <2>2, <2>3, <2>4, CommandInitInv
<1> QED
  BY <1>1, <1>2, <1>3 DEF Init


-----------------------------------------------------------------------------
(* The properties.                                                         *)

(* Every behaviour keeps the invariants: the calls are typed, each is      *)
(* protected by its condition and honest about its result, and the object  *)
(* follows the resource while the calls run one at a time.                 *)
THEOREM ObjectInvariant == Spec => [](ObjectInv /\ CalmInv)
<1>1. Init => ObjectInv /\ CalmInv
  BY InitInv
<1>2. ObjectInv /\ CalmInv /\ [Next]_cvars => (ObjectInv /\ CalmInv)'
  BY NextKeeps
<1> QED
  BY <1>1, <1>2, PTL DEF Spec

(* delete_if_exists and create_if_not_exists tell the truth although they  *)
(* ask first and act later, whatever other clients do in between and       *)
(* however often the requests are sent: true means that this call's        *)
(* request deleted the resource, or created it where there was none.       *)
THEOREM IfExistsIsHonest == Spec => []IfExistsHonest
<1>1. ObjectInv => IfExistsHonest
  BY DEF ObjectInv, CallOf, Honest, IfExistsHonest, Found
<1> QED
  BY <1>1, ObjectInvariant, PTL

(* A change is performed only on a version that the condition allows which *)
(* the caller gave, by every call whose builder passes all of it on.       *)
THEOREM ConditionsAreHonoured == Spec => []ConditionsHonoured
<1>1. ObjectInv => ConditionsHonoured
  BY DEF ObjectInv, CallOf, ConditionsHonoured, Etagged, PassesEtags
<1> QED
  BY <1>1, ObjectInvariant, PTL

(* No call that gives the id of the lease the resource has is refused for  *)
(* the lease.                                                              *)
THEOREM HolderIsServed == Spec => []HolderServed
<1>1. ObjectInv => HolderServed
  BY DEF ObjectInv, CallOf, Informed, HolderServed, body
<1> QED
  BY <1>1, ObjectInvariant, PTL

(* After calls that ran one at a time and were all answered the object has *)
(* the etag of the resource, or none.                                      *)
THEOREM CacheIsMirror == Spec => []CacheMirrors
<1>1. CalmInv => CacheMirrors
  BY DEF CalmInv, CacheMirrors, Quiet, Active, AtRest, Mirrored
<1> QED
  BY <1>1, ObjectInvariant, PTL

(* The requests a snapshot's object sends leave the blob alone: what they  *)
(* may change is the snapshot and the tier.                                *)
LEMMA SparedBlob ==
  ASSUME NEW r, NEW s, Resource(s, BlobFields), BlobKnown(r), SparesBlob(r), ~Reads(r)
  PROVE  [BlobService(r, s).state EXCEPT !.snap_meta = Empty, !.tier = Empty]
           = [s EXCEPT !.snap_meta = Empty, !.tier = Empty]
<1> DEFINE t == BlobService(r, s).state
<1>1. \A code : Reply(code, s).state = s
  BY DEF Reply
<1>2. r.comp # "lease" /\ (r.method = "DEL" => Has(r, "snapshot"))
      /\ (r.method # "DEL" => r.comp = "tier")
  BY DEF SparesBlob, BlobKnown, IsLease
<1>3. \/ t = s
      \/ r.method = "DEL" /\ t = DeleteBlob(r, s).state
      \/ r.method # "DEL" /\ t = Change(r, s).state
  BY <1>1, <1>2 DEF BlobService
<1> HIDE DEF t
<1>4. t = s \/ t = [s EXCEPT !.snap_meta = Empty] \/ t = [s EXCEPT !.tier = r["tier"]]
  <2>1. r.method = "DEL" => DeleteBlob(r, s).state = [s EXCEPT !.snap_meta = Empty]
    BY <1>2, DeleteAnswer
  <2>2. "tier" \in BlobChanges
    BY DEF BlobChanges
  <2>3. r.method # "DEL" => Change(r, s) = Reply(OK, [s EXCEPT !.tier = r["tier"]])
    BY <1>2, <2>2, ChangeAnswer
  <2>4. Reply(OK, [s EXCEPT !.tier = r["tier"]]).state = [s EXCEPT !.tier = r["tier"]]
    BY DEF Reply
  <2> QED
    BY <1>3, <2>1, <2>3, <2>4
<1>5. DOMAIN s = BlobFields /\ "snap_meta" \in BlobFields /\ "tier" \in BlobFields
  BY DEF Resource, BlobFields
<1>6. [t EXCEPT !.snap_meta = Empty, !.tier = Empty]
        = [s EXCEPT !.snap_meta = Empty, !.tier = Empty]
  BY <1>4, <1>5
<1> QED
  BY <1>6 DEF t

(* No step of a snapshot's object changes the blob it was taken of: not    *)
(* its version, its existence or its lease.                                *)
THEOREM SnapshotsAreReadOnly == Spec => SnapshotReadOnly
<1> DEFINE Spared == [svc' EXCEPT !.snap_meta = Empty, !.tier = Empty]
                       = [svc EXCEPT !.snap_meta = Empty, !.tier = Empty]
<1>1. ASSUME ObjectInv, [Next]_cvars, kind = "snapshot", left'.foreign = left.foreign
      PROVE  Spared
  <2>1. CASE UNCHANGED cvars
    BY <2>1 DEF cvars
  <2>2. CASE ForeignWrite
    <3>1. PICK state : Foreign(state)
      BY <2>2, Zenon DEF ForeignWrite
    <3>2. left.foreign \in Nat /\ DOMAIN left = {"calls", "lost", "foreign"}
      BY <1>1 DEF ObjectInv, BoundsLeft
    <3>3. left'.foreign = left.foreign - 1
      BY <3>1, <3>2 DEF Foreign
    <3> QED
      BY <1>1, <3>2, <3>3
  <2>3. ASSUME NEW c \in Callers,
               \/ BlobCalls(c) \/ LeaseCalls(c) \/ CopyCalls(c) \/ BlockCalls(c)
               \/ PageCalls(c) \/ IncrementalCalls(c) \/ AppendCalls(c)
               \/ SnapshotCalls(c) \/ ContainerCalls(c) \/ ContainerLeaseCalls(c)
        PROVE  Spared
    <3>1. CallStep(c)
      BY <1>1, <2>3, BlobSteps, TypedBlobSteps, SnapshotSteps, ContainerSteps
    <3>2. svc' = svc
      BY <3>1 DEF CallStep, Starts, Ends, GoesOn, ObjectSet, execute_async, Return, Continue, Local
    <3> QED
      BY <3>2
  <2>4. ASSUME NEW c \in Callers, Network(c)
        PROVE  Spared
    <3>1. svc' = svc
      BY <2>4 DEF Network, Resend, GiveUp, Refused, timer_fires
    <3> QED
      BY <3>1
  <2>5. ASSUME NEW c \in Callers, ServeObject(c)
        PROVE  Spared
    <3> DEFINE r == call[c].req
               a == BlobService(r, located(c))
    <3>1. ~Container /\ kind \notin ContainerKinds
      BY <1>1 DEF Container, ContainerKinds
    <3>2. Serve(c, a)
      BY <2>5, <3>1 DEF ServeObject
    <3>3. /\ call[c].st = "sent"
          /\ svc' = IF call[c].at = "primary" /\ ~Reads(r) THEN a.state ELSE svc
      BY <3>2 DEF Serve
    <3>4. Underway(kind, call[c]) /\ Resource(svc, BlobFields)
      BY <1>1, <3>1, <3>3 DEF ObjectInv, CallOf, Fields
    <3>5. BlobKnown(r) /\ SparesBlob(r)
      BY <1>1, <3>1, <3>4 DEF Underway, Known
    <3>6. CASE call[c].at = "primary" /\ ~Reads(r)
      <4>1. svc' = BlobService(r, svc).state
        BY <3>3, <3>6 DEF located
      <4> QED
        BY <3>4, <3>5, <3>6, <4>1, SparedBlob
    <3>7. CASE ~(call[c].at = "primary" /\ ~Reads(r))
      <4>1. svc' = svc
        BY <3>3, <3>7
      <4> QED
        BY <4>1
    <3> QED
      BY <3>6, <3>7
  <2> QED
    BY <1>1, <2>1, <2>2, <2>3, <2>4, <2>5 DEF Next
<1>2. ObjectInv /\ [Next]_cvars
        => [kind = "snapshot" /\ left'.foreign = left.foreign => Spared]_cvars
  BY <1>1
<1> QED
  BY <1>2, ObjectInvariant, PTL DEF Spec, SnapshotReadOnly
=============================================================================
