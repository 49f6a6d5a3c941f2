----------------------------- MODULE CloudClient -----------------------------
(***************************************************************************)
(* cloud_client, the base of the four service clients: the properties of a *)
(* service, which travel as an XML document, its replication statistics    *)
(* and the properties of the account.  obj is the client: its default      *)
(* location mode, and the properties the application downloaded last.      *)
(***************************************************************************)
EXTENDS StorageCommand

-----------------------------------------------------------------------------
(* service_properties.  The version and flags of the logging are one       *)
(* value, and so is a CORS rule.                                           *)

logging_properties ==
  [flags |-> Empty, retention |-> FALSE, days |-> 0]

metrics_properties ==
  [enabled |-> FALSE, apis |-> FALSE, retention |-> FALSE, days |-> 0]

service_properties ==
  [logging |-> logging_properties, hour_metrics |-> metrics_properties,
   minute_metrics |-> metrics_properties, cors |-> <<>>, version |-> Empty]

service_properties_includes(sections) ==
  sections \cap {"logging", "hour_metrics", "minute_metrics", "cors"}

includes_all ==
  service_properties_includes({"logging", "hour_metrics", "minute_metrics",
                               "cors"})

includes_file ==
  service_properties_includes({"hour_metrics", "minute_metrics", "cors"})

Included ==
  {includes_all, includes_file, service_properties_includes({"logging"}),
   service_properties_includes({"minute_metrics", "cors"})}

(* Properties an application sets, with values also where the document has *)
(* no place for them.                                                      *)
Chosen ==
  [logging |-> [flags |-> 1, retention |-> TRUE, days |-> 7],
   hour_metrics |-> [enabled |-> TRUE, apis |-> TRUE, retention |-> FALSE,
                     days |-> 5],
   minute_metrics |-> [enabled |-> FALSE, apis |-> TRUE, retention |-> TRUE,
                       days |-> 3],
   cors |-> <<1, 2>>, version |-> 1]

-----------------------------------------------------------------------------
(* service_properties_writer: the elements of the document.                *)

write_retention_policy(section) ==
  IF section.retention THEN [retention |-> TRUE, days |-> section.days]
  ELSE [retention |-> FALSE]

write_logging(logging) ==
  Over([flags |-> logging.flags], write_retention_policy(logging))

write_metrics(metrics) ==
  Over(IF metrics.enabled THEN [enabled |-> TRUE, apis |-> metrics.apis]
       ELSE [enabled |-> FALSE], write_retention_policy(metrics))

write_cors_rule(rules) == [rules |-> rules]

write_section(properties, section) ==
  CASE section = "logging" -> write_logging(properties.logging)
    [] section \in {"hour_metrics", "minute_metrics"} ->
         write_metrics(properties[section])
    [] section = "cors" -> write_cors_rule(properties.cors)

write(properties, includes) ==
  Over([section \in includes |-> write_section(properties, section)],
       IF properties.version = Empty THEN <<>>
       ELSE [version |-> [number |-> properties.version]])

-----------------------------------------------------------------------------
(* service_properties_reader.  It keeps the days of the retention policy   *)
(* it is in until the end of that element.                                 *)

handle_logging(logging, elements) ==
  [logging EXCEPT !.flags = elements.flags]

handle_metrics(metrics, elements) ==
  [metrics EXCEPT !.enabled = elements.enabled,
                  !.apis = IF Has(elements, "apis") THEN elements.apis ELSE @]

handle_element(properties, section, elements) ==
  CASE section = "logging" ->
         [properties EXCEPT !.logging = handle_logging(@, elements)]
    [] section \in {"hour_metrics", "minute_metrics"} ->
         [properties EXCEPT ![section] = handle_metrics(@, elements)]

(* Mutant: the days stay for the next section.                             *)
Mutant_handle_end_element(reader, section, elements) ==
  LET days == IF Has(elements, "days") THEN elements.days ELSE reader.days
      read == handle_element(reader.properties, section, elements)
  IN [properties |-> [read EXCEPT ![section].retention = elements.retention,
                                  ![section].days = days],
      days |-> days]

handle_end_element(reader, section, elements) ==
  LET days == IF Has(elements, "days") THEN elements.days ELSE reader.days
      read == handle_element(reader.properties, section, elements)
  IN [properties |-> [read EXCEPT ![section].retention = elements.retention,
                                  ![section].days = days],
      days |-> 0]

move_properties(document) ==
  LET next(reader, section) ==
        handle_end_element(reader, section, document[section])
      start == [properties |-> service_properties, days |-> 0]
      read == next(next(next(start, "logging"), "hour_metrics"), "minute_metrics")
  IN [read.properties EXCEPT !.cors = document["cors"].rules,
                             !.version = document["version"].number]

(* service_stats_reader: any other status is "unavailable".                *)
Unavailable == 0
Live == 1
Bootstrap == 2

move_stats(status) ==
  IF status \in {Live, Bootstrap} THEN status ELSE Unavailable

parse_account_properties(response) == response.account

-----------------------------------------------------------------------------
(* The service keeps a document with every section, and replaces the       *)
(* sections it is given.                                                   *)

StoredProperties(status) ==
  [there |-> TRUE, etag |-> 1, stats |-> status, account |-> 1,
   document |-> Over([write(service_properties, includes_all) EXCEPT
                        !["cors"].rules = <<3>>],
                     [version |-> [number |-> 2]])]

PropertiesService(r, s) ==
  IF Reads(r) THEN Reply(OK, s)
  ELSE Reply(OK, [NewVersion(s) EXCEPT !.document = Over(r["document"], @)])

-----------------------------------------------------------------------------
(* The commands.  A location mode that the call does not set is the        *)
(* client's, and primary_only if that sets none.                           *)

get_service_properties == base_request("GET", "properties")

set_service_properties(document) ==
  add_header(base_request("PUT", "properties"), "document", document)

get_service_stats == base_request("GET", "stats")

get_account_properties == base_request("GET", "account")

Mode(mode) == [value |-> mode, has_value |-> TRUE]

UnsetMode == [value |-> "primary_only", has_value |-> FALSE]

location_modes ==
  {UnsetMode, Mode("primary_only"), Mode("primary_then_secondary")}

client(default) == [default |-> default, properties |-> service_properties]

modified(options) == merge(options, obj.default)

may_use_secondary(mode) == mode.value # "primary_only"

arguments(properties, includes) ==
  [properties |-> properties, includes |-> includes]

read_async(c, op, request, mode) ==
  execute_async(c, command(op, request, may_use_secondary(mode), {},
                           arguments(service_properties, {}), access_condition))

download_service_properties_base_async(c, mode) ==
  read_async(c, "download_service_properties", get_service_properties, mode)

download_service_properties_response(c) ==
  Answer(c, "download_service_properties",
         [obj EXCEPT !.properties = move_properties(body(c).document)], OK)

upload_service_properties_base_async(c, properties, includes) ==
  execute_async(c, command("upload_service_properties",
                           set_service_properties(write(properties, includes)),
                           PrimaryOnly, {}, arguments(properties, includes),
                           access_condition))

upload_service_properties_response(c) ==
  Answer(c, "upload_service_properties", obj, OK)

download_service_stats_base_async(c, mode) ==
  read_async(c, "download_service_stats",
             IF mode.value = "primary_only" THEN invalid_argument
             ELSE get_service_stats, mode)

download_service_stats_response(c) ==
  Answer(c, "download_service_stats", obj, move_stats(body(c).stats))

download_account_properties_base_async(c, mode) ==
  read_async(c, "download_account_properties", get_account_properties, mode)

download_account_properties_response(c) ==
  Answer(c, "download_account_properties", obj,
         parse_account_properties(body(c)))

-----------------------------------------------------------------------------
(* The overloads of the four clients.  The file client's pass the call's   *)
(* own options on, although they have just merged them with the defaults.  *)

Uploaded == {Chosen, obj.properties}

blob_download_service_properties(c) ==
  \E options \in location_modes :
    download_service_properties_base_async(c, modified(options))

file_download_service_properties(c) ==
  \E options \in location_modes :
    download_service_properties_base_async(c, options)

queue_download_service_properties(c) ==
  \E options \in location_modes :
    download_service_properties_base_async(c, modified(options))

table_download_service_properties(c) ==
  \E options \in location_modes :
    download_service_properties_base_async(c, modified(options))

blob_upload_service_properties(c) ==
  \E properties \in Uploaded, includes \in Included :
    upload_service_properties_base_async(c, properties, includes)

file_upload_service_properties(c) ==
  \E properties \in Uploaded, includes \in Included :
    upload_service_properties_base_async(c, properties, includes)

queue_upload_service_properties(c) ==
  \E properties \in Uploaded, includes \in Included :
    upload_service_properties_base_async(c, properties, includes)

table_upload_service_properties(c) ==
  \E properties \in Uploaded, includes \in Included :
    upload_service_properties_base_async(c, properties, includes)

blob_download_service_stats(c) ==
  \E options \in location_modes :
    download_service_stats_base_async(c, modified(options))

queue_download_service_stats(c) ==
  \E options \in location_modes :
    download_service_stats_base_async(c, modified(options))

table_download_service_stats(c) ==
  \E options \in location_modes :
    download_service_stats_base_async(c, modified(options))

download_account_properties(c) ==
  \E options \in location_modes :
    download_account_properties_base_async(c, modified(options))

ClientKinds == {"blob_client", "file_client", "queue_client", "table_client"}

ClientInit ==
  \E service \in ClientKinds, default \in location_modes,
     status \in {Live, Bootstrap, 3} :
    CommandInit(service, client(default), StoredProperties(status))

ClientCalls(c) ==
  \/ /\ kind = "blob_client"
     /\ \/ blob_download_service_properties(c)
        \/ blob_upload_service_properties(c)
        \/ blob_download_service_stats(c)
        \/ download_account_properties(c)
        \/ download_account_properties_response(c)
  \/ /\ kind = "file_client"
     /\ \/ file_download_service_properties(c)
        \/ file_upload_service_properties(c)
  \/ /\ kind = "queue_client"
     /\ \/ queue_download_service_properties(c)
        \/ queue_upload_service_properties(c)
        \/ queue_download_service_stats(c)
  \/ /\ kind = "table_client"
     /\ \/ table_download_service_properties(c)
        \/ table_upload_service_properties(c)
        \/ table_download_service_stats(c)
  \/ /\ kind \in ClientKinds
     /\ \/ download_service_properties_response(c)
        \/ upload_service_properties_response(c)
        \/ download_service_stats_response(c)

-----------------------------------------------------------------------------
(* What of a set of properties has a place in the document.                *)
Canonical(properties) ==
  LET retained(section) ==
        IF section.retention THEN section ELSE [section EXCEPT !.days = 0]
      metrics(section) == [retained(section) EXCEPT !.apis = @ /\ section.enabled]
  IN [properties EXCEPT !.logging = retained(@), !.hour_metrics = metrics(@),
                        !.minute_metrics = metrics(@)]

(* After an upload, a download gives the sections that were included as    *)
(* they were uploaded, and the others as they were, whatever is on or off  *)
(* in the sections before them in the document, and however often the      *)
(* upload was sent; the default version is kept unless one was given.      *)
PropertiesKept ==
  [][\A c \in Callers :
       /\ kind \in ClientKinds
       /\ call[c].op = "upload_service_properties"
       /\ call[c].st = "sent" /\ call'[c].st = "answered"
       => LET before == move_properties(svc.document)
              after == move_properties(svc'.document)
              given == Canonical(call[c].arg.properties)
          IN /\ \A section \in DOMAIN after \ {"version"} :
                  after[section] = IF section \in call[c].arg.includes
                                   THEN given[section] ELSE before[section]
             /\ after.version = IF given.version = Empty THEN before.version
                                ELSE given.version]_cvars
=============================================================================
