------------------------------- MODULE Listing -------------------------------
(***************************************************************************)
(* Listings: the segmented requests of the four services, which go to the  *)
(* location the continuation token names, and result_iterator, which       *)
(* fetches segment after segment while the application runs through it.    *)
(* Here the resource is the set of names that are listed, and obj is the   *)
(* iterator.  The two locations do not hold the same names.                *)
(***************************************************************************)
EXTENDS StorageCommand, Sequences, SequencesExt

CONSTANTS
  Names,            \* what there is to list, in the order of the listing
  ReplicatedNames,  \* what the secondary location has of them
  PrefixNames,      \* which of them a hierarchical listing of blobs returns
                    \* as prefixes (virtual directories)
  MaxPage,          \* bound: names in one segment
  Limits            \* for max_results of the iterator; 0: no limit

ASSUME NamesAssumption ==
  /\ Names \subseteq Nat \ {Empty}
  /\ ReplicatedNames \subseteq Names /\ PrefixNames \subseteq Names

ASSUME LimitsAssumption == MaxPage \in Nat /\ Limits \subseteq Nat

(* Who lists what.  The blobs of a container are listed flat with their    *)
(* snapshots, as a tree, or as a tree with snapshots, which is refused.    *)
Listings == {"containers", "blobs", "blob_tree", "snapshot_tree", "shares",
             "files", "queues", "tables", "entities"}

-----------------------------------------------------------------------------
(* continuation_token: a marker, and the location that gave it.            *)

continuation_token == [marker |-> Empty, location |-> "unspecified"]

token_empty(token) == token.marker = Empty

(* The tokens of queues and tables hold the text of a query parameter,     *)
(* which is put into the URI as it is.                                     *)
QueryText == 10

make_query_parameter(marker) ==
  IF marker = Empty THEN Empty ELSE QueryText + marker

append_query(token) ==
  IF token_empty(token) THEN Empty ELSE token.marker - QueryText

(* The request builders: the marker, and how many results to return at     *)
(* most, where Empty leaves it to the service.                             *)
list_request(marker, max_results) ==
  add_optional_headers(base_request("GET", "list"),
                       [marker |-> marker, max_results |-> max_results])

list_containers_request(max_results, token) ==
  list_request(token.marker, max_results)

(* Snapshots can only be listed flat.                                      *)
list_blobs_request(use_flat, snapshots, max_results, token) ==
  IF ~use_flat /\ snapshots THEN invalid_argument
  ELSE list_request(token.marker, max_results)

list_shares_request(max_results, token) ==
  list_request(token.marker, max_results)

list_files_request(max_results, token) ==
  list_request(token.marker, max_results)

list_queues_request(max_results, token) ==
  list_request(append_query(token), max_results)

list_entities_request(take_count, token) ==
  list_request(append_query(token), take_count)

-----------------------------------------------------------------------------
(* The service answers with some of the names from the marker on, in       *)
(* order and possibly none, and with the next marker if there are more.    *)

Increasing(items) == \A i, j \in DOMAIN items : i < j => items[i] < items[j]

NamesFrom(r, s) == {name \in s.names : name >= Get(r, "marker")}

IsPage(r, s, items) ==
  /\ Increasing(items)
  /\ Range(items) \subseteq NamesFrom(r, s)
  /\ \A name \in NamesFrom(r, s) \ Range(items), e \in Range(items) : e < name
  /\ Has(r, "max_results") => Len(items) <= r["max_results"]

ListService(r, s, items) ==
  LET rest == NamesFrom(r, s) \ Range(items)
  IN [code |-> OK, state |-> s, items |-> items,
      marker |-> IF rest = {} THEN Empty
                 ELSE CHOOSE name \in rest : \A e \in rest : name <= e]

-----------------------------------------------------------------------------
(* The segmented commands.                                                 *)

(* Mutant: the token's location is not looked at.                          *)
Mutant_set_location_mode(cmd, token) == cmd

(* set_location_mode(primary_or_secondary, token.target_location()).       *)
set_location_mode(cmd, token) ==
  IF token.location = "unspecified" THEN cmd
  ELSE [cmd EXCEPT !.both = FALSE, !.at = token.location]

segment_command(request, token) ==
  set_location_mode(command("list", request, Both, {}, token, access_condition),
                    token)

list_containers_segmented(max_results, token) ==
  segment_command(list_containers_request(max_results, token), token)

list_blobs_segmented(use_flat, snapshots, max_results, token) ==
  segment_command(list_blobs_request(use_flat, snapshots, max_results, token),
                  token)

(* Its handler puts the blobs of a segment before its prefixes.            *)
Before(a, b) ==
  IF a \in PrefixNames <=> b \in PrefixNames THEN a < b ELSE b \in PrefixNames

BlobsFirst(items) ==
  {segment \in [DOMAIN items -> Range(items)] :
     /\ Range(segment) = Range(items)
     /\ \A i, j \in DOMAIN segment : i < j => Before(segment[i], segment[j])}

results(what, items) ==
  IF what = "blob_tree" THEN BlobsFirst(items) ELSE {items}

list_shares_segmented(max_results, token) ==
  segment_command(list_shares_request(max_results, token), token)

list_files_and_directories_segmented(max_results, token) ==
  segment_command(list_files_request(max_results, token), token)

list_queues_segmented(max_results, token) ==
  segment_command(list_queues_request(max_results, token), token)

execute_query_segmented(take_count, token) ==
  segment_command(list_entities_request(take_count, token), token)

(* Tables are listed by a query on the table of tables.                    *)
list_tables_segmented(max_results, token) ==
  execute_query_segmented(max_results, token)

(* The next token: its marker as that listing keeps it, and the location   *)
(* that answered.                                                          *)
next_token(c) ==
  [marker |-> IF obj.what \in {"queues", "tables", "entities"}
              THEN make_query_parameter(call[c].resp.marker)
              ELSE call[c].resp.marker,
   location |-> call[c].at]

-----------------------------------------------------------------------------
(* result_iterator.  "listed" is what the application has read: it takes   *)
(* the item at every position the iterator comes to.                       *)

result_iterator(what, max_results) ==
  [what |-> what, max |-> max_results, made |-> FALSE, segment |-> <<>>,
   index |-> 0, returned |-> 0, token |-> continuation_token, listed |-> <<>>]

passed_the_end(o) ==
  \/ o.index = Len(o.segment) /\ token_empty(o.token)
  \/ o.max > 0 /\ o.returned >= o.max

(* The number per segment is 0 in every listing, so the service decides;   *)
(* a query sends its take count with every segment.                        *)
max_results_per_segment == 0

get_remaining_results_num(o) ==
  CASE o.what = "entities" -> o.max
    [] o.what # "entities" ->
         IF o.max = 0 \/ o.max - o.returned > max_results_per_segment
         THEN max_results_per_segment ELSE o.max - o.returned

(* The result generator of each listing.                                   *)
list_containers(o, token) ==
  list_containers_segmented(get_remaining_results_num(o), token)

list_blobs(o, token) ==
  list_blobs_segmented(o.what = "blobs", o.what # "blob_tree",
                       get_remaining_results_num(o), token)

list_shares(o, token) ==
  list_shares_segmented(get_remaining_results_num(o), token)

list_files_and_directories(o, token) ==
  list_files_and_directories_segmented(get_remaining_results_num(o), token)

list_queues(o, token) ==
  list_queues_segmented(get_remaining_results_num(o), token)

list_tables(o, token) ==
  list_tables_segmented(get_remaining_results_num(o), token)

execute_query(o, token) ==
  execute_query_segmented(get_remaining_results_num(o), token)

result_generator(o, token) ==
  CASE o.what = "containers" -> list_containers(o, token)
    [] o.what \in {"blobs", "blob_tree", "snapshot_tree"} -> list_blobs(o, token)
    [] o.what = "shares" -> list_shares(o, token)
    [] o.what = "files" -> list_files_and_directories(o, token)
    [] o.what = "queues" -> list_queues(o, token)
    [] o.what = "tables" -> list_tables(o, token)
    [] o.what = "entities" -> execute_query(o, token)

operator_deref(o) == o.segment[o.index + 1]

read_item(o) ==
  IF passed_the_end(o) THEN o
  ELSE [o EXCEPT !.listed = Append(@, operator_deref(o))]

fetch_first_segment(c) ==
  /\ ~obj.made
  /\ execute_async(c, result_generator(obj, continuation_token))

fetch_next_segment(c) == execute_async(c, result_generator(obj, obj.token))

(* A segment arrives.  An empty one with a token is passed over, by a      *)
(* further request; until one is kept, the iterator stays as it is.        *)
segment_response(c) ==
  LET token == next_token(c)
      again == result_generator(obj, token)
      items == call[c].resp.items
      arrived(segment) ==
        [obj EXCEPT !.segment = segment, !.index = 0, !.token = token,
                    !.returned = IF obj.made THEN @ + 1 ELSE 0, !.made = TRUE]
  IN /\ Accepted(c, "list")
     /\ IF items = <<>> /\ ~token_empty(token)
        THEN /\ \E loc \in locations(again) :
                  call' = [call EXCEPT ![c] = [again EXCEPT !.st = "sent",
                                                            !.at = loc]]
             /\ UNCHANGED <<kind, obj, svc, sec, left, calm>>
        ELSE \E segment \in results(obj.what, items) :
               Return(c, read_item(arrived(segment)), OK)

(* operator++: the next segment is fetched when the last item of this one  *)
(* is left behind, if there is a token.                                    *)
last_of_segment(o) ==
  o.index + 1 = Len(o.segment) /\ ~token_empty(o.token)

increment(c) ==
  /\ obj.made /\ ~passed_the_end(obj) /\ Quiet
  /\ IF last_of_segment(obj) THEN fetch_next_segment(c)
     ELSE /\ obj' = read_item([obj EXCEPT !.index = @ + 1, !.returned = @ + 1])
          /\ UNCHANGED <<kind, svc, sec, call, left, calm>>

-----------------------------------------------------------------------------
(* "always": the names that were there from the start.                     *)
Stocked(names) ==
  [there |-> TRUE, etag |-> 1, names |-> names, always |-> names]

MaxSegments == Cardinality(Names) + 1     \* bound: requests of one listing

ListingInit ==
  \E what \in Listings, max_results \in Limits :
    /\ kind = "listing"
    /\ obj = result_iterator(what, max_results)
    /\ svc = Stocked(Names)
    /\ sec = Stocked(ReplicatedNames)
    /\ call = [c \in Callers |-> Idle]
    /\ left = [calls |-> MaxSegments, lost |-> MaxLost, foreign |-> MaxForeign]
    /\ calm = TRUE

ListingCalls(c) ==
  /\ kind = "listing"
  /\ \/ Quiet /\ fetch_first_segment(c)
     \/ increment(c)
     \/ segment_response(c)

ServeListing(c) ==
  \E items \in BoundedSeq(Names, MaxPage) :
    /\ IsPage(call[c].req, located(c), items)
    /\ Serve(c, ListService(call[c].req, located(c), items))

ForeignNames ==
  /\ kind = "listing"
  /\ \E name \in Names :
       LET names == IF name \in svc.names THEN svc.names \ {name}
                    ELSE svc.names \cup {name}
       IN Foreign([svc EXCEPT !.names = names, !.always = @ \cap names])

(* A listing that is finished has read every name that was there from its  *)
(* beginning at the location it ran at, each once and, but for a tree of   *)
(* blobs, in order, unless it has read as many as were asked for.          *)
ListingComplete ==
  (kind = "listing" /\ Quiet /\ obj.made /\ passed_the_end(obj)) =>
    LET there == IF obj.token.location = "primary" THEN svc.always ELSE sec.always
        read == Range(obj.listed)
    IN /\ IsInjective(obj.listed)
       /\ obj.what # "blob_tree" => Increasing(obj.listed)
       /\ obj.max = 0 => there \subseteq read
       /\ obj.max > 0 => /\ Len(obj.listed) <= obj.max
                         /\ there \subseteq read \/ Len(obj.listed) = obj.max
=============================================================================
