--------------------------- MODULE RequestFactory ---------------------------
(***************************************************************************)
(* What the request builders of the four services share: a request is the  *)
(* function from the headers and query parameters that are present to      *)
(* their values.  Values are small numbers, and Empty stands for an empty  *)
(* string or a time that is not initialized.                               *)
(***************************************************************************)
EXTENDS Integers, FiniteSets, TLC

(* A header or query parameter that is not sent, an empty string, a time   *)
(* that is not initialized.                                                *)
Empty == 0

OK          == 200
NoContent   == 204    \* success, with nothing left to do
BadRequest  == 400
NotFound    == 404
Conflict    == 409
PreconditionFailed == 412
Threw       == 600    \* an exception before anything was sent
Failed      == 601    \* the retries were used up
TimedOut    == 603    \* the timer ran out

-----------------------------------------------------------------------------
(* Requests: the headers and query parameters that are present.            *)

(* f, and g where f is not defined.                                        *)
Over(f, g) ==
  [x \in DOMAIN f \cup DOMAIN g |-> IF x \in DOMAIN f THEN f[x] ELSE g[x]]

base_request(method, component) == [method |-> method, comp |-> component]

(* A builder or a command that throws instead of building a request.       *)
invalid_argument == base_request("throw", "none")

Has(request, header) == header \in DOMAIN request

Get(request, header) == IF Has(request, header) THEN request[header] ELSE Empty

(* Requests the service performs without a change: taking messages off a  *)
(* queue is a GET that is none.                                            *)
Reads(request) ==
  request.method \in {"GET", "HEAD"} /\ request.comp # "dequeue"

Thrown(request) == request.method = "throw"

add_header(request, header, value) ==
  IF Thrown(request) THEN request ELSE Over(request, [h \in {header} |-> value])

(* add_optional_header, for several headers: the empty ones are not sent.   *)
add_optional_headers(request, values) ==
  LET sent == {header \in DOMAIN values : values[header] # Empty}
  IN IF Thrown(request) THEN request
     ELSE Over(request, [header \in sent |-> values[header]])

add_optional_header(request, header, value) ==
  add_optional_headers(request, [h \in {header} |-> value])

(* Metadata: two plain values, the first one with blanks around it, and    *)
(* one that is blank.                                                      *)
Plain == {1, 2}
Padded == 3
Blank == 4
Metadata == {Empty, Padded, Blank} \cup Plain

str_trim(value) == IF value = Padded THEN 1 ELSE value

add_metadata(request, metadata) ==
  IF metadata = Blank THEN invalid_argument
  ELSE add_optional_header(request, "metadata", str_trim(metadata))

-----------------------------------------------------------------------------
(* access_condition: etags and modification times are version numbers of   *)
(* the resource, so a time condition compares versions.                    *)

AnyETag == -1      \* the etag "*", which is no version's

sequence_number_operators == {"none", "eq", "lt", "le"}

access_condition ==
  [if_match_etag |-> Empty, if_none_match_etag |-> Empty,
   if_modified_since |-> Empty, if_not_modified_since |-> Empty,
   lease_id |-> Empty, seq_operator |-> "none", seq_number |-> Empty,
   max_size |-> -1, append_position |-> -1]

generate_if_not_exists_condition ==
  [access_condition EXCEPT !.if_none_match_etag = AnyETag]

generate_if_exists_condition ==
  [access_condition EXCEPT !.if_match_etag = AnyETag]

generate_if_match_condition(etag) ==
  [access_condition EXCEPT !.if_match_etag = etag]

generate_if_modified_since_condition(time) ==
  [access_condition EXCEPT !.if_modified_since = time]

generate_if_none_match_condition(etag) ==
  [access_condition EXCEPT !.if_none_match_etag = etag]

generate_if_not_modified_since_condition(time) ==
  [access_condition EXCEPT !.if_not_modified_since = time]

generate_sequence_number_condition(operator, number) ==
  [access_condition EXCEPT !.seq_operator = operator, !.seq_number = number]

generate_lease_condition(lease_id) ==
  [access_condition EXCEPT !.lease_id = lease_id]

set_lease_id(condition, lease_id) == [condition EXCEPT !.lease_id = lease_id]

(* Which headers of a request a condition becomes.                         *)

add_lease_id(request, condition) ==
  add_optional_header(request, "lease_id", condition.lease_id)

add_access_condition(request, condition) ==
  add_lease_id(
    add_optional_headers(request,
      [if_match |-> condition.if_match_etag,
       if_none_match |-> condition.if_none_match_etag,
       if_modified_since |-> condition.if_modified_since,
       if_unmodified_since |-> condition.if_not_modified_since]),
    condition)

add_source_access_condition(request, condition) ==
  IF condition.lease_id # Empty THEN invalid_argument
  ELSE add_optional_headers(request,
         [source_if_match |-> condition.if_match_etag,
          source_if_none_match |-> condition.if_none_match_etag,
          source_if_modified_since |-> condition.if_modified_since,
          source_if_unmodified_since |-> condition.if_not_modified_since])

add_sequence_number_condition(request, condition) ==
  IF condition.seq_operator = "none" THEN request
  ELSE add_header(add_header(request, "if_seq", condition.seq_operator),
                  "if_seq_number", condition.seq_number)

add_append_condition(request, condition) ==
  LET given == {field \in {"max_size", "append_position"} :
                  condition[field] # -1}
  IN Over(request, [field \in given |-> condition[field]])
=============================================================================
