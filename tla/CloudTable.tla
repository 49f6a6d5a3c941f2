----------------------------- MODULE CloudTable -----------------------------
(***************************************************************************)
(* cloud_table: the table itself, single operations on its entities and    *)
(* batches of them, in the form of module CloudBlob.  The entities are the *)
(* rows of one partition (and one row of another, which no batch may mix   *)
(* in); obj is the entities the application has, each with the etag of     *)
(* the last table_result for it.                                           *)
(***************************************************************************)
EXTENDS StorageCommand, Sequences, SequencesExt

Rows == {1, 2, 3}

partition_key(row) == IF row = 3 THEN 2 ELSE 1

-----------------------------------------------------------------------------
(* table_operation: what to do, to which entity, with the etag it has.     *)

table_operation(type, row, etag) == [type |-> type, row |-> row, etag |-> etag]

delete_entity(row, etag) == table_operation("delete", row, etag)
insert_entity(row, etag) == table_operation("insert", row, etag)
insert_or_merge_entity(row, etag) ==
  table_operation("insert_or_merge", row, etag)
insert_or_replace_entity(row, etag) ==
  table_operation("insert_or_replace", row, etag)
merge_entity(row, etag) == table_operation("merge", row, etag)
replace_entity(row, etag) == table_operation("replace", row, etag)
retrieve_entity(row) == table_operation("retrieve", row, Empty)

-----------------------------------------------------------------------------
(* The request builders.                                                   *)

get_http_method(type) ==
  CASE type = "retrieve" -> "GET"
    [] type \in {"insert_or_merge", "merge"} -> "MERGE"
    [] type \in {"insert_or_replace", "replace"} -> "PUT"
    [] type = "delete" -> "DEL"
    [] type = "insert" -> "POST"

(* Mutant: the entity's etag is not looked at.                             *)
Mutant_populate_http_headers(request, operation) ==
  IF operation.type \in {"delete", "merge", "replace"}
  THEN add_header(request, "if_match", AnyETag)
  ELSE request

(* An operation on an entity that has to be there names its etag, or "*".  *)
populate_http_headers(request, operation) ==
  IF operation.type \in {"delete", "merge", "replace"}
  THEN add_header(request, "if_match",
                  IF operation.etag = Empty THEN AnyETag ELSE operation.etag)
  ELSE request

execute_operation(operation) ==
  populate_http_headers(
    add_header(base_request(get_http_method(operation.type), "entity"), "row",
               operation.row), operation)

execute_batch_operation(operations) ==
  add_header(base_request("POST", "batch"), "operations",
             [i \in DOMAIN operations |-> execute_operation(operations[i])])

execute_table_operation(type) == base_request(get_http_method(type), "table")

get_table_acl == base_request("GET", "acl")

set_table_acl(policies) ==
  add_header(base_request("PUT", "acl"), "policies", policies)

-----------------------------------------------------------------------------
(* The table service.  rows: the etag of each entity, Empty if there is    *)
(* none.  Without an If-Match header, a PUT or MERGE inserts an entity     *)
(* that is not there.                                                      *)

StoredTable ==
  [there |-> TRUE, etag |-> 1, policies |-> Empty,
   rows |-> [row \in Rows |-> IF row = 1 THEN 1 ELSE Empty]]

NoRows == [row \in Rows |-> Empty]

EntityCode(r, s) ==
  LET etag == s.rows[r["row"]]
      required == r.method = "GET" \/ Has(r, "if_match")
  IN IF r.method = "POST" /\ etag # Empty THEN Conflict
     ELSE IF required /\ etag = Empty THEN NotFound
     ELSE IF Get(r, "if_match") \notin {Empty, AnyETag, etag} THEN PreconditionFailed
     ELSE OK

EntityService(r, s) ==
  LET code == EntityCode(r, s)
      written == [NewVersion(s) EXCEPT
                    !.rows[r["row"]] = IF r.method = "DEL" THEN Empty
                                       ELSE s.etag + 1]
  IN Reply(code, IF code = OK /\ r.method # "GET" THEN written ELSE s)

(* A batch is performed as a whole or not at all: the answer to it is a    *)
(* success, with the failure inside.  Bound: a batch has at most two       *)
(* operations.                                                             *)
BatchService(operations, s) ==
  LET perform(answer, r) ==
        IF answer.code = OK THEN EntityService(r, answer.state) ELSE answer
      first == perform(Reply(OK, s), operations[1])
      last == IF Len(operations) = 1 THEN first ELSE perform(first, operations[2])
  IN [code |-> OK, state |-> IF last.code = OK THEN last.state ELSE s,
      inner |-> last.code]

TableService(r, s) ==
  IF r.method = "POST" /\ r.comp = "table"
  THEN IF s.there THEN Reply(Conflict, s)
       ELSE Reply(OK, [StoredTable EXCEPT !.etag = s.etag + 1, !.rows = NoRows])
  ELSE IF ~s.there THEN Reply(NotFound, s)
  ELSE IF r.comp = "entity" THEN EntityService(r, s)
  ELSE IF r.comp = "batch" THEN BatchService(r["operations"], s)
  ELSE IF Reads(r) THEN Reply(OK, s)
  ELSE IF r.comp = "acl" THEN Reply(OK, [s EXCEPT !.policies = r["policies"]])
  ELSE Reply(OK, [s EXCEPT !.there = FALSE, !.rows = NoRows])

-----------------------------------------------------------------------------
(* The table.  create_async_impl, delete_async_impl, exists_async_impl.    *)

cloud_table == [etags |-> NoRows]

table_create_async(c) ==
  Send(c, "create", execute_table_operation("insert"), access_condition)

table_create(c) == table_create_async(c)

table_create_response(c) == Answer(c, "create", obj, OK)

table_create_if_not_exists_async(c) ==
  exists_first(c, "create_if_not_exists", execute_table_operation("retrieve"),
               PrimaryOnly, Empty, access_condition)

table_create_if_not_exists(c) == table_create_if_not_exists_async(c)

table_create_if_not_exists_exists(c) ==
  unless_exists(c, "create_if_not_exists", obj,
                execute_table_operation("insert"), {Conflict})

table_create_if_not_exists_response(c) == acted(c, "create_if_not_exists", obj)

table_delete_async(c) ==
  Send(c, "delete_table", execute_table_operation("delete"), access_condition)

table_delete(c) == table_delete_async(c)

table_delete_response(c) == Answer(c, "delete_table", obj, OK)

table_delete_if_exists_async(c) ==
  exists_first(c, "delete_if_exists", execute_table_operation("retrieve"),
               PrimaryOnly, Empty, access_condition)

table_delete_if_exists(c) == table_delete_if_exists_async(c)

table_delete_if_exists_exists(c) ==
  if_exists(c, "delete_if_exists", obj, execute_table_operation("delete"),
            {NotFound})

table_delete_if_exists_response(c) == acted(c, "delete_if_exists", obj)

table_exists_async(c) ==
  exists_first(c, "exists", execute_table_operation("retrieve"), Both, Empty,
               access_condition)

table_exists(c) == table_exists_async(c)

table_exists_response(c) == whether_exists(c, obj)

table_download_permissions_async(c) ==
  execute_async(c, command("download_permissions", get_table_acl, Both, {},
                           Empty, access_condition))

table_download_permissions(c) == table_download_permissions_async(c)

table_download_permissions_response(c) ==
  Answer(c, "download_permissions", obj, body(c).policies)

table_upload_permissions_async(c, policies) ==
  Send(c, "upload_permissions", set_table_acl(policies), access_condition)

table_upload_permissions(c) ==
  \E policies \in Values : table_upload_permissions_async(c, policies)

table_upload_permissions_response(c) == Answer(c, "upload_permissions", obj, OK)

-----------------------------------------------------------------------------
(* Entities.  The operations the application makes of what it has; an      *)
(* entity made anew has no etag.                                           *)

operations(row, etag) ==
  {delete_entity(row, etag), insert_entity(row, etag),
   insert_or_merge_entity(row, etag), insert_or_replace_entity(row, etag),
   merge_entity(row, etag), replace_entity(row, etag), retrieve_entity(row)}

(* table_response_parsers::parse_etag: what is deleted or not found has    *)
(* none.                                                                   *)
parse_etag(response, row) == response.rows[row]

(* Where the call's results are kept: in the entities it was about.  The  *)
(* command remembers its operations.                                       *)
table_results(c) ==
  LET rows == {operation.row : operation \in call[c].arg}
  IN [obj EXCEPT !.etags = [row \in Rows |-> IF row \in rows
                                             THEN parse_etag(body(c), row)
                                             ELSE @[row]]]

execute_operation_async(c, operation) ==
  LET retrieve == operation.type = "retrieve"
  IN execute_async(c, command("execute", execute_operation(operation), retrieve,
                              IF retrieve THEN {NotFound} ELSE {},
                              {operation}, access_condition))

execute_response(c) ==
  Answer(c, "execute", table_results(c), call[c].resp.code)

execute(c) ==
  \E row \in {1, 2} : \E operation \in operations(row, obj.etags[row]) :
    execute_operation_async(c, operation)

(* A batch has operations, all on one partition; a retrieval is alone.     *)
retrieves(ops) == {i \in DOMAIN ops : ops[i].type = "retrieve"}

valid_batch(ops) ==
  /\ Len(ops) > 0
  /\ \A i \in DOMAIN ops : partition_key(ops[i].row) = partition_key(ops[1].row)
  /\ retrieves(ops) = {} \/ Len(ops) = 1

execute_batch_async(c, ops) ==
  execute_async(c, command("execute_batch",
                           IF valid_batch(ops) THEN execute_batch_operation(ops)
                           ELSE invalid_argument,
                           retrieves(ops) # {}, {},
                           Range(ops), access_condition))

(* parse_batch_results: an operation that failed is an exception, but for  *)
(* a retrieval that found nothing.                                         *)
execute_batch_response(c) ==
  LET inner == call[c].resp.inner
      retrieval == call[c].req["operations"][1].method = "GET"
  IN /\ Accepted(c, "execute_batch")
     /\ IF inner = OK \/ (retrieval /\ inner = NotFound)
        THEN Return(c, table_results(c), inner)
        ELSE Return(c, obj, inner)

(* Batches of none, one or two operations on different rows.               *)
Batches ==
  LET some(row) == {insert_entity(row, obj.etags[row]),
                    replace_entity(row, obj.etags[row]), retrieve_entity(row)}
  IN {<<>>} \cup {<<a>> : a \in some(1)}
     \cup {<<a, b>> : a \in some(1), b \in some(2) \cup some(3)}

execute_batch(c) == \E ops \in Batches : execute_batch_async(c, ops)

-----------------------------------------------------------------------------
(* Another client writes an entity, deletes it, or inserts one.            *)
ForeignEntity ==
  \E row \in {1, 2} :
    \/ Foreign([NewVersion(svc) EXCEPT !.rows[row] = svc.etag + 1])
    \/ svc.rows[row] # Empty /\ Foreign([NewVersion(svc) EXCEPT !.rows[row] = Empty])
=============================================================================
