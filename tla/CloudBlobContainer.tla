-------------------------- MODULE CloudBlobContainer --------------------------
(***************************************************************************)
(* cloud_blob_container, in the form of module CloudBlob: obj is the       *)
(* container's m_properties and m_metadata.  What the service does with a  *)
(* container is at the end of the first section.                           *)
(***************************************************************************)
EXTENDS CloudBlob

(* blob_container_public_access_type: Empty is off.                        *)
PublicAccess == {Empty, 1}

cloud_blob_container ==
  [etag |-> Empty, meta |-> Empty, lease_state |-> Empty,
   public_access |-> Empty]

StoredContainer ==
  [there |-> TRUE, etag |-> 1, meta |-> 1, lease |-> Empty, access |-> Empty]

ContainerService(r, s) ==
  LET next == NewVersion(s)
  IN IF r.method = "PUT" /\ r.comp = "container"
     THEN IF s.there THEN Reply(Conflict, s)
          ELSE Reply(OK, [next EXCEPT !.there = TRUE, !.lease = Empty,
                            !.meta = Get(r, "metadata"),
                            !.access = Get(r, "public_access")])
     ELSE IF ~s.there THEN Reply(NotFound, s)
     ELSE IF ~Conditional(r, s) THEN Reply(PreconditionFailed, s)
     ELSE IF r.comp = "lease" THEN Lease(r, s)
     ELSE IF Has(r, "lease_id") /\ r["lease_id"] # s.lease
     THEN Reply(PreconditionFailed, s)
     ELSE IF Reads(r) THEN Reply(OK, s)
     ELSE IF r.method = "DEL"
     THEN IF Get(r, "lease_id") # s.lease THEN Reply(PreconditionFailed, s)
          ELSE Reply(OK, [s EXCEPT !.there = FALSE, !.lease = Empty])
     ELSE CASE r.comp = "metadata" ->
                 Reply(OK, [next EXCEPT !.meta = Get(r, "metadata")])
            [] r.comp = "acl" ->
                 Reply(OK, [next EXCEPT !.access = Get(r, "public_access")])

-----------------------------------------------------------------------------
parse_public_access_type(response) == response.access

parse_blob_container_properties(response) ==
  [etag |-> response.etag, lease_state |-> parse_lease_state(response),
   public_access |-> parse_public_access_type(response)]

(* The handlers that replace all the object knows.                         *)
container_attributes(o, response) ==
  [Over(parse_blob_container_properties(response), o) EXCEPT
     !.meta = parse_metadata(response)]

container_download_attributes_async(c, condition) ==
  execute_async(c, command("download_attributes",
    get_blob_container_properties(condition), Both, {}, Empty, condition))

container_download_attributes_response(c) ==
  Answer(c, "download_attributes", container_attributes(obj, body(c)), OK)

container_download_attributes(c) ==
  \E condition \in ReadConditions :
    container_download_attributes_async(c, condition)

container_upload_metadata_async(c, condition) ==
  Send(c, "upload_metadata", set_blob_container_metadata(obj.meta, condition),
       condition)

container_upload_metadata_response(c) ==
  Answer(c, "upload_metadata", update_etag_and_last_modified(obj, body(c)), OK)

container_upload_metadata(c) ==
  \E condition \in Conditions : container_upload_metadata_async(c, condition)

container_exists_async_impl(c, both) ==
  execute_async(c, command("exists",
    get_blob_container_properties(access_condition), both, {NotFound}, Empty,
    access_condition))

container_exists_response(c) ==
  /\ Accepted(c, "exists")
  /\ IF call[c].resp.code = NotFound THEN Return(c, obj, 0)
     ELSE Return(c, container_attributes(obj, body(c)), 1)

container_exists(c) == container_exists_async_impl(c, Both)

-----------------------------------------------------------------------------
(* Creation.  create_if_not_exists creates the container if the primary    *)
(* does not have it; a container somebody else created since is no error.  *)

container_create_async(c, public_access) ==
  execute_async(c, command("create",
    create_blob_container(public_access, obj.meta), PrimaryOnly, {},
    public_access, access_condition))

created(c) ==
  [update_etag_and_last_modified(obj, body(c)) EXCEPT
     !.public_access = call[c].arg]

container_create_response(c) == Answer(c, "create", created(c), OK)

container_create(c) ==
  \E public_access \in PublicAccess : container_create_async(c, public_access)

container_create_if_not_exists_async(c, public_access, options) ==
  LET modified_options == merge(options, client_default)
  IN execute_async(c,
       [command("create_if_not_exists",
                get_blob_container_properties(access_condition), PrimaryOnly,
                {NotFound}, public_access, access_condition) EXCEPT
          !.time = new_max_execution_time(options,
                     first_time_point(modified_options))])

container_create_if_not_exists_exists(c) ==
  /\ Accepted(c, "create_if_not_exists") /\ call[c].step = 1
  /\ IF call[c].resp.code = NotFound
     THEN Continue(c, obj, create_blob_container(call[c].arg, obj.meta),
                   {Conflict})
     ELSE Return(c, container_attributes(obj, body(c)), 0)

container_create_if_not_exists_response(c) ==
  /\ Accepted(c, "create_if_not_exists") /\ call[c].step = 2
  /\ IF call[c].resp.code = Conflict THEN Return(c, obj, 0)
     ELSE Return(c, created(c), 1)

container_create_if_not_exists(c) ==
  \E public_access \in PublicAccess, options \in CallMaxTime :
    container_create_if_not_exists_async(c, public_access, options)

-----------------------------------------------------------------------------
(* Deletion.                                                               *)

delete_container_async(c, condition) ==
  Send(c, "delete_container", delete_blob_container(condition), condition)

delete_container_response(c) ==
  Answer(c, "delete_container", initialization(obj), OK)

delete_container(c) ==
  \E condition \in Conditions : delete_container_async(c, condition)

delete_container_if_exists_async(c, options, condition) ==
  execute_async(c,
    [command("delete_container_if_exists",
             get_blob_container_properties(access_condition), PrimaryOnly,
             {NotFound}, Empty, condition) EXCEPT
       !.time = new_max_execution_time(options, first_time_point(options))])

delete_container_if_exists_exists(c) ==
  /\ Accepted(c, "delete_container_if_exists") /\ call[c].step = 1
  /\ IF call[c].resp.code = NotFound THEN Return(c, obj, 0)
     ELSE Continue(c, container_attributes(obj, body(c)),
                   delete_blob_container(call[c].cond), {NotFound})

delete_container_if_exists_response(c) ==
  /\ Accepted(c, "delete_container_if_exists") /\ call[c].step = 2
  /\ IF call[c].resp.code = NotFound THEN Return(c, obj, 0)
     ELSE Return(c, initialization(obj), 1)

delete_container_if_exists(c) ==
  \E condition \in {access_condition, generate_lease_condition(OurLease)},
     options \in CallMaxTime :
    delete_container_if_exists_async(c, options, condition)

-----------------------------------------------------------------------------
(* Permissions.  upload_permissions leaves the cached public access as it  *)
(* was.                                                                    *)

upload_permissions_async(c, public_access, condition) ==
  Send(c, "upload_permissions", set_blob_container_acl(public_access, condition),
       condition)

upload_permissions_response(c) ==
  Answer(c, "upload_permissions", update_etag_and_last_modified(obj, body(c)),
         OK)

upload_permissions(c) ==
  \E public_access \in PublicAccess, condition \in Conditions :
    upload_permissions_async(c, public_access, condition)

download_permissions_async(c, condition) ==
  execute_async(c, command("download_permissions",
    get_blob_container_acl(condition), Both, {}, Empty, condition))

download_permissions_response(c) ==
  Answer(c, "download_permissions",
         [update_etag_and_last_modified(obj, body(c)) EXCEPT
            !.public_access = parse_public_access_type(body(c))],
         parse_public_access_type(body(c)))

download_permissions(c) ==
  \E condition \in {access_condition, generate_lease_condition(OurLease)} :
    download_permissions_async(c, condition)

-----------------------------------------------------------------------------
(* Leases: the lease builders of containers take the lease id and no other *)
(* condition.                                                              *)

container_acquire_lease_async(c, duration, proposed, condition) ==
  Send(c, "acquire_lease",
       lease_blob_container("acquire", proposed, duration, Empty, condition),
       condition)

container_acquire_lease(c) ==
  \E duration \in Durations, proposed \in {Empty, OurLease},
     condition \in Conditions :
    container_acquire_lease_async(c, duration, proposed, condition)

container_renew_lease_async(c, condition) ==
  Send(c, "renew_lease",
       assert_lease_id(condition,
         lease_blob_container("renew", Empty, Empty, Empty, condition)),
       condition)

container_renew_lease(c) ==
  \E condition \in Conditions : container_renew_lease_async(c, condition)

container_change_lease_async(c, proposed, condition) ==
  Send(c, "change_lease",
       assert_lease_id(condition,
         lease_blob_container("change", proposed, Empty, Empty, condition)),
       condition)

container_change_lease(c) ==
  \E condition \in {access_condition, generate_lease_condition(TheirLease)} :
    container_change_lease_async(c, OurLease, condition)

container_release_lease_async(c, condition) ==
  Send(c, "release_lease",
       assert_lease_id(condition,
         lease_blob_container("release", Empty, Empty, Empty, condition)),
       condition)

container_release_lease(c) ==
  \E condition \in Conditions : container_release_lease_async(c, condition)

container_break_lease_async(c, break_period, condition) ==
  Send(c, "break_lease",
       lease_blob_container("break", Empty, Empty, break_period, condition),
       condition)

container_break_lease(c) ==
  \E break_period \in {Empty, 1}, condition \in Conditions :
    container_break_lease_async(c, break_period, condition)
=============================================================================
