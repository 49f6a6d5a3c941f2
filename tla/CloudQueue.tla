----------------------------- MODULE CloudQueue -----------------------------
(***************************************************************************)
(* cloud_queue and cloud_queue_message, in the form of module CloudBlob:   *)
(* the request builders of queue_request_factory.cpp, the public           *)
(* overloads of queue.h (x), the commands (x_async) and their handlers     *)
(* (x_response).  obj is the queue's m_metadata and                        *)
(* m_approximate_message_count, and the one message the application holds, *)
(* which its calls fill in by reference.                                   *)
(***************************************************************************)
EXTENDS StorageCommand, FiniteSetsExt

-----------------------------------------------------------------------------
(* The request builders.  The messages of a queue have one URI, and each   *)
(* message has one below it; with an empty id the two are the same.        *)

(* Times in seconds; a week is the service's default time to live, and the *)
(* longest visibility timeout.                                             *)
Week == 604800

create_queue == base_request("PUT", "queue")

delete_queue == base_request("DEL", "queue")

download_queue_metadata == base_request("HEAD", "metadata")

upload_queue_metadata(metadata) ==
  add_metadata(base_request("PUT", "metadata"), metadata)

get_queue_acl == base_request("GET", "acl")

set_queue_acl(policies) ==
  add_header(base_request("PUT", "acl"), "policies", policies)

generate_queue_message_uri(method, id) ==
  add_optional_header(base_request(method, "messages"), "id", id)

add_message(time_to_live, initial_visibility_timeout) ==
  add_optional_headers(base_request("POST", "messages"),
    [ttl |-> IF time_to_live = Week THEN Empty ELSE time_to_live,
     visibility |-> initial_visibility_timeout])

get_messages(message_count, visibility_timeout, is_peek) ==
  IF is_peek
  THEN add_header(base_request("GET", "peek"), "count", message_count)
  ELSE add_optional_header(
         add_header(base_request("GET", "dequeue"), "count", message_count),
         "visibility", visibility_timeout)

delete_message(message) ==
  add_header(generate_queue_message_uri("DEL", message.id), "receipt",
             message.receipt)

update_message(message, visibility_timeout) ==
  add_header(
    add_header(generate_queue_message_uri("PUT", message.id), "receipt",
               message.receipt), "visibility", visibility_timeout)

clear_messages == base_request("DEL", "messages")

-----------------------------------------------------------------------------
(* The queue service: the messages by id, each with its pop receipt, Empty *)
(* if there is no such message, and which are hidden from the consumers.   *)

Ids == {1, 2}

StoredQueue ==
  [there |-> TRUE, etag |-> 1, meta |-> 1, policies |-> Empty,
   receipts |-> [id \in Ids |-> Empty], hidden |-> {}]

Stored(s) == {id \in Ids : s.receipts[id] # Empty}

Visible(s) == Stored(s) \ s.hidden

(* An answer with messages: their ids and their receipts.                  *)
Messages(s, found, peeked) ==
  [code |-> OK, state |-> s,
   items |-> {[id |-> id, receipt |-> IF peeked THEN Empty ELSE s.receipts[id]]
                : id \in found}]

(* Every change of a message gives it a new pop receipt.                   *)
Touch(s, touched, hide) ==
  [NewVersion(s) EXCEPT
     !.receipts = [id \in Ids |-> IF id \in touched THEN s.etag + 1 ELSE @[id]],
     !.hidden = IF hide THEN @ \cup touched ELSE @ \ touched]

Drop(s, dropped) ==
  [NewVersion(s) EXCEPT
     !.receipts = [id \in Ids |-> IF id \in dropped THEN Empty ELSE @[id]],
     !.hidden = @ \ dropped]

(* The messages a request for some of them gets: the first ones.           *)
FirstVisible(s, n) ==
  {id \in Visible(s) : Cardinality({e \in Visible(s) : e < id}) < n}

OneMessage(r, s) ==
  LET id == r["id"]
  IN IF id \notin Stored(s) THEN Reply(NotFound, s)
     ELSE IF s.receipts[id] # r["receipt"] THEN Reply(BadRequest, s)
     ELSE IF r.method = "DEL" THEN Reply(OK, Drop(s, {id}))
     ELSE LET after == Touch(s, {id}, r["visibility"] # Empty)
          IN Messages(after, {id}, FALSE)

MessageService(r, s) ==
  IF r.comp = "peek" THEN Messages(s, FirstVisible(s, r["count"]), TRUE)
  ELSE IF r.comp = "dequeue"
  THEN LET found == FirstVisible(s, r["count"])
           after == Touch(s, found, TRUE)
       IN Messages(after, found, FALSE)
  ELSE IF r.method = "POST"
  THEN IF Stored(s) = Ids THEN Messages(s, {}, FALSE)   \* bound: Ids
       ELSE LET id == Min(Ids \ Stored(s))
                after == Touch(s, {id}, Has(r, "visibility"))
            IN Messages(after, {id}, FALSE)
  ELSE IF Has(r, "id") THEN OneMessage(r, s)
  ELSE Reply(OK, Drop(s, Stored(s)))

(* Creating a queue that is there succeeds if the metadata is the same.    *)
MakeQueue(s) ==
  IF ~s.there
  THEN Reply(OK, [StoredQueue EXCEPT !.etag = s.etag + 1, !.meta = Empty])
  ELSE Reply(IF s.meta = Empty THEN NoContent ELSE Conflict, s)

QueueService(r, s) ==
  IF r.method = "PUT" /\ r.comp = "queue" THEN MakeQueue(s)
  ELSE IF ~s.there THEN Reply(NotFound, s)
  ELSE IF r.comp \in {"messages", "peek", "dequeue"} THEN MessageService(r, s)
  ELSE IF r.comp = "queue"
  THEN Reply(OK, [Drop(s, Stored(s)) EXCEPT !.there = FALSE])
  ELSE IF Reads(r) THEN Reply(OK, s)
  ELSE IF r.comp = "metadata"
  THEN Reply(OK, [NewVersion(s) EXCEPT !.meta = Get(r, "metadata")])
  ELSE Reply(OK, [s EXCEPT !.policies = r["policies"]])

-----------------------------------------------------------------------------
(* The queue itself.  A queue that is made has no metadata: the request    *)
(* carries none.                                                           *)

cloud_queue_message == [id |-> Empty, receipt |-> Empty]

cloud_queue ==
  [meta |-> Empty, count |-> -1, message |-> cloud_queue_message]

parse_approximate_messages_count(response) == Cardinality(Stored(response))

(* create_async_impl, delete_async_impl and exists_async_impl.             *)
queue_create_accepts(allow_conflict) ==
  IF allow_conflict THEN {Conflict} ELSE {}

queue_create_async(c) ==
  execute_async(c, command("create", create_queue, PrimaryOnly,
                           queue_create_accepts(FALSE), Empty,
                           access_condition))

queue_create(c) == queue_create_async(c)

queue_create_response(c) == Answer(c, "create", obj, OK)

queue_create_if_not_exists_async(c) ==
  exists_first(c, "create_if_not_exists", download_queue_metadata, PrimaryOnly,
               Empty, access_condition)

queue_create_if_not_exists(c) == queue_create_if_not_exists_async(c)

queue_create_if_not_exists_exists(c) ==
  unless_exists(c, "create_if_not_exists", obj, create_queue,
                queue_create_accepts(TRUE))

(* Mutant: a queue that was there already counts as created.               *)
Mutant_queue_create_if_not_exists_response(c) ==
  /\ Accepted(c, "create_if_not_exists") /\ call[c].step = 2
  /\ Return(c, obj, IF call[c].resp.code = Conflict THEN 0 ELSE 1)

queue_create_if_not_exists_response(c) ==
  /\ Accepted(c, "create_if_not_exists") /\ call[c].step = 2
  /\ Return(c, obj, IF call[c].resp.code \in {Conflict, NoContent} THEN 0 ELSE 1)

queue_delete_async(c) == Send(c, "delete_queue", delete_queue, access_condition)

queue_delete(c) == queue_delete_async(c)

queue_delete_response(c) == Answer(c, "delete_queue", obj, OK)

queue_delete_if_exists_async(c) ==
  exists_first(c, "delete_if_exists", download_queue_metadata, PrimaryOnly,
               Empty, access_condition)

queue_delete_if_exists(c) == queue_delete_if_exists_async(c)

queue_delete_if_exists_exists(c) ==
  if_exists(c, "delete_if_exists", obj, delete_queue, {NotFound})

queue_delete_if_exists_response(c) == acted(c, "delete_if_exists", obj)

queue_exists_async(c) ==
  exists_first(c, "exists", download_queue_metadata, Both, Empty,
               access_condition)

queue_exists(c) == queue_exists_async(c)

queue_exists_response(c) == whether_exists(c, obj)

queue_download_attributes_async(c) ==
  execute_async(c, command("download_attributes", download_queue_metadata, Both,
                           {}, Empty, access_condition))

queue_download_attributes(c) == queue_download_attributes_async(c)

queue_download_attributes_response(c) ==
  Answer(c, "download_attributes",
         [obj EXCEPT !.meta = parse_metadata(body(c)),
                     !.count = parse_approximate_messages_count(body(c))], OK)

queue_upload_metadata_async(c) ==
  Send(c, "upload_metadata", upload_queue_metadata(obj.meta), access_condition)

queue_upload_metadata(c) == queue_upload_metadata_async(c)

queue_upload_metadata_response(c) == Answer(c, "upload_metadata", obj, OK)

queue_download_permissions_async(c) ==
  execute_async(c, command("download_permissions", get_queue_acl, Both, {},
                           Empty, access_condition))

queue_download_permissions(c) == queue_download_permissions_async(c)

queue_download_permissions_response(c) ==
  Answer(c, "download_permissions", obj, body(c).policies)

queue_upload_permissions_async(c, policies) ==
  Send(c, "upload_permissions", set_queue_acl(policies), access_condition)

queue_upload_permissions(c) ==
  \E policies \in Values : queue_upload_permissions_async(c, policies)

queue_upload_permissions_response(c) == Answer(c, "upload_permissions", obj, OK)

-----------------------------------------------------------------------------
(* Messages.  A time to live is positive, or -1 for no end.               *)

TimesToLive == {-1, 0, Week}

Timeouts == {-1, 0, 30, Week + 1}

valid_timeout(visibility_timeout) ==
  visibility_timeout >= 0 /\ visibility_timeout <= Week

checked(condition, request) == IF condition THEN request ELSE invalid_argument

messages(c) == call[c].resp.items

(* What the application holds after a call that returns messages: one of   *)
(* them, or a new message without an id if there was none.                 *)
Take(c, op) ==
  IF messages(c) = {} THEN Answer(c, op, [obj EXCEPT
                                            !.message = cloud_queue_message], OK)
  ELSE \E message \in messages(c) :
         Answer(c, op, [obj EXCEPT !.message = message], OK)

queue_add_message_async(c, time_to_live, timeout) ==
  Send(c, "add_message",
       checked((time_to_live > 0 \/ time_to_live = -1) /\ valid_timeout(timeout),
               add_message(time_to_live, timeout)),
       access_condition)

queue_add_message(c) ==
  \E time_to_live \in TimesToLive, timeout \in Timeouts :
    queue_add_message_async(c, time_to_live, timeout)

(* update_message_info: the message that was given to the call is the one  *)
(* that was added.                                                         *)
queue_add_message_response(c) ==
  /\ Accepted(c, "add_message")
  /\ Return(c, IF messages(c) = {} THEN obj
               ELSE [obj EXCEPT !.message = CHOOSE m \in messages(c) : TRUE], OK)

queue_get_message_async(c, timeout) ==
  Send(c, "get_message",
       checked(valid_timeout(timeout), get_messages(1, timeout, FALSE)),
       access_condition)

queue_get_message(c) ==
  \E timeout \in Timeouts : queue_get_message_async(c, timeout)

queue_get_message_response(c) ==
  Accepted(c, "get_message") /\ Take(c, "get_message")

(* Several messages are returned, at most 32 may be asked for; the         *)
(* application keeps one of them.                                          *)
queue_get_messages_async(c, message_count, timeout) ==
  Send(c, "get_messages",
       checked(message_count <= 32 /\ valid_timeout(timeout),
               get_messages(message_count, timeout, FALSE)),
       access_condition)

queue_get_messages(c) ==
  \E message_count \in {2, 33} : queue_get_messages_async(c, message_count, 30)

queue_get_messages_response(c) ==
  Accepted(c, "get_messages") /\ Take(c, "get_messages")

queue_peek_message_async(c) ==
  Send(c, "peek_message", get_messages(1, 0, TRUE), access_condition)

queue_peek_message(c) == queue_peek_message_async(c)

queue_peek_message_response(c) ==
  Accepted(c, "peek_message") /\ Take(c, "peek_message")

queue_peek_messages_async(c) ==
  Send(c, "peek_messages", get_messages(33, 0, TRUE), access_condition)

queue_peek_messages(c) == queue_peek_messages_async(c)

queue_peek_messages_response(c) ==
  Accepted(c, "peek_messages") /\ Take(c, "peek_messages")

queue_update_message_async(c, timeout) ==
  Send(c, "update_message",
       checked(/\ obj.message.id # Empty /\ obj.message.receipt # Empty
               /\ valid_timeout(timeout),
               update_message(obj.message, timeout)),
       access_condition)

queue_update_message(c) ==
  \E timeout \in Timeouts : queue_update_message_async(c, timeout)

(* Mutant: the pop receipt of the answer is not kept.                      *)
Mutant_queue_update_message_response(c) == Answer(c, "update_message", obj, OK)

(* The handler holds a reference to the message, and sets the receipt of   *)
(* whatever message is there when the answer arrives.                      *)
queue_update_message_response(c) ==
  /\ Accepted(c, "update_message")
  /\ \E item \in messages(c) :
       Return(c, [obj EXCEPT !.message.receipt = item.receipt], OK)

(* Nothing of the message is checked.                                      *)
queue_delete_message_async(c) ==
  Send(c, "delete_message", delete_message(obj.message), access_condition)

queue_delete_message(c) == queue_delete_message_async(c)

queue_delete_message_response(c) == Answer(c, "delete_message", obj, OK)

queue_clear_async(c) == Send(c, "clear", clear_messages, access_condition)

queue_clear(c) == queue_clear_async(c)

queue_clear_response(c) == Answer(c, "clear", obj, OK)

-----------------------------------------------------------------------------
(* Another consumer: a hidden message shows up again when its time is      *)
(* over, a message is taken by somebody else.                              *)
ForeignConsumer ==
  \/ svc.hidden # {} /\ Foreign([svc EXCEPT !.hidden = {}])
  \/ Visible(svc) # {} /\ Foreign(Touch(svc, FirstVisible(svc, 1), TRUE))
=============================================================================
