------------------------ MODULE StorageCommandProofs ------------------------
(***************************************************************************)
(* Facts about the request builders and about the steps of a call, on      *)
(* which the proofs about the objects of the services rest.                *)
(***************************************************************************)
EXTENDS StorageCommand, TLAPS

-----------------------------------------------------------------------------
(* Requests.  The headers a condition becomes, and the ones that only some *)
(* requests have.                                                          *)

EtagHeaders == {"if_match", "if_none_match", "if_modified_since",
                "if_unmodified_since"}

Special == {"snapshot", "if_seq", "max_size", "append_position"}

Reserved == {"method", "comp", "lease_id"} \cup EtagHeaders \cup Special

IsRequest(r, m, comp) ==
  /\ {"method", "comp"} \subseteq DOMAIN r
  /\ r.method = m /\ r.comp = comp

CarriesLease(r, cond) ==
  /\ Has(r, "lease_id") <=> cond.lease_id # Empty
  /\ Has(r, "lease_id") => r["lease_id"] = cond.lease_id

CarriesEtags(r, cond) ==
  /\ Has(r, "if_match") <=> cond.if_match_etag # Empty
  /\ Has(r, "if_match") => r["if_match"] = cond.if_match_etag
  /\ Has(r, "if_none_match") <=> cond.if_none_match_etag # Empty
  /\ Has(r, "if_none_match") => r["if_none_match"] = cond.if_none_match_etag
  /\ Has(r, "if_modified_since") <=> cond.if_modified_since # Empty
  /\ Has(r, "if_modified_since") => r["if_modified_since"] = cond.if_modified_since
  /\ Has(r, "if_unmodified_since") <=> cond.if_not_modified_since # Empty
  /\ Has(r, "if_unmodified_since")
       => r["if_unmodified_since"] = cond.if_not_modified_since

(* A request, unless its builder threw, that carries no condition yet, the *)
(* lease id of one, or the whole of it, and of the special headers at most *)
(* those of hs.                                                            *)
Unconditional(r, m, comp, hs) ==
  ~Thrown(r) => /\ IsRequest(r, m, comp)
                /\ \A h \in EtagHeaders \cup {"lease_id"} : ~Has(r, h)
                /\ \A h \in Special \ hs : ~Has(r, h)

BuiltLease(r, m, comp, cond, hs) ==
  ~Thrown(r) => /\ IsRequest(r, m, comp)
                /\ CarriesLease(r, cond)
                /\ \A h \in EtagHeaders : ~Has(r, h)
                /\ \A h \in Special \ hs : ~Has(r, h)

Built(r, m, comp, cond, hs) ==
  ~Thrown(r) => /\ IsRequest(r, m, comp)
                /\ CarriesLease(r, cond)
                /\ CarriesEtags(r, cond)
                /\ \A h \in Special \ hs : ~Has(r, h)

(* base_http_request starts with no header at all.                         *)
LEMMA BaseRequest ==
  ASSUME NEW m, NEW comp
  PROVE  Unconditional(base_request(m, comp), m, comp, {})
  BY DEF Unconditional, IsRequest, base_request, Thrown, Has, EtagHeaders, Special

(* add_optional_header of several headers: it adds the ones that are not   *)
(* empty and leaves the others as they are.                                *)
LEMMA OptionalHeaders ==
  ASSUME NEW r, NEW values
  PROVE  LET a == add_optional_headers(r, values)
         IN /\ Thrown(r) => a = r
            /\ ~Thrown(r) /\ "method" \in DOMAIN r => ~Thrown(a)
            /\ \A h : h \notin DOMAIN values => (Has(a, h) <=> Has(r, h))
            /\ \A h \in DOMAIN r : Has(a, h) /\ a[h] = r[h]
            /\ ~Thrown(r) => \A h \in DOMAIN values \ DOMAIN r :
                 /\ Has(a, h) <=> values[h] # Empty
                 /\ Has(a, h) => a[h] = values[h]
  BY DEF add_optional_headers, Has, Thrown, Over

(* add_header leaves the headers that are there as they are.               *)
LEMMA OneHeader ==
  ASSUME NEW r, NEW header, NEW value
  PROVE  LET a == add_header(r, header, value)
         IN /\ Thrown(r) => a = r
            /\ ~Thrown(r) /\ "method" \in DOMAIN r => ~Thrown(a)
            /\ \A h : h # header => (Has(a, h) <=> Has(r, h))
            /\ \A h \in DOMAIN r : Has(a, h) /\ a[h] = r[h]
            /\ ~Thrown(r) /\ header \notin DOMAIN r => Has(a, header) /\ a[header] = value
  BY DEF add_header, Has, Thrown, Over

(* A header that is no condition's leaves a request without one.           *)
LEMMA UnconditionalHeader ==
  ASSUME NEW r, NEW m, NEW comp, NEW hs, NEW header, NEW value,
         Unconditional(r, m, comp, hs), header \notin Reserved
  PROVE  Unconditional(add_header(r, header, value), m, comp, hs)
  BY OneHeader DEF Unconditional, IsRequest, Reserved, EtagHeaders, Special, Has

(* Nor do several of them.                                                 *)
LEMMA UnconditionalHeaders ==
  ASSUME NEW r, NEW m, NEW comp, NEW hs, NEW values,
         Unconditional(r, m, comp, hs), DOMAIN values \cap Reserved = {}
  PROVE  Unconditional(add_optional_headers(r, values), m, comp, hs)
  BY OptionalHeaders DEF Unconditional, IsRequest, Reserved, EtagHeaders, Special, Has

(* Nor does one that may be empty.                                         *)
LEMMA UnconditionalOption ==
  ASSUME NEW r, NEW m, NEW comp, NEW hs, NEW header, NEW value,
         Unconditional(r, m, comp, hs), header \notin Reserved
  PROVE  Unconditional(add_optional_header(r, header, value), m, comp, hs)
  BY UnconditionalHeaders DEF add_optional_header

(* add_metadata throws for a blank value and is an optional header else.   *)
LEMMA UnconditionalMetadata ==
  ASSUME NEW r, NEW m, NEW comp, NEW hs, NEW metadata,
         Unconditional(r, m, comp, hs)
  PROVE  Unconditional(add_metadata(r, metadata), m, comp, hs)
<1>1. Thrown(invalid_argument)
  BY DEF Thrown, invalid_argument, base_request
<1>2. "metadata" \notin Reserved
  BY DEF Reserved, EtagHeaders, Special
<1> QED
  BY <1>1, <1>2, UnconditionalOption DEF add_metadata, Unconditional

(* add_lease_id: the lease id of a condition reaches the request.          *)
LEMMA LeaseIdBuilt ==
  ASSUME NEW r, NEW m, NEW comp, NEW hs, NEW cond,
         Unconditional(r, m, comp, hs)
  PROVE  BuiltLease(add_lease_id(r, cond), m, comp, cond, hs)
<1> DEFINE values == [h \in {"lease_id"} |-> cond.lease_id]
<1>1. DOMAIN values = {"lease_id"} /\ values["lease_id"] = cond.lease_id
  OBVIOUS
<1>2. add_lease_id(r, cond) = add_optional_headers(r, values)
  BY DEF add_lease_id, add_optional_header
<1> HIDE DEF values
<1> QED
  BY <1>1, <1>2, OptionalHeaders
  DEF Unconditional, BuiltLease, CarriesLease, IsRequest, EtagHeaders, Special, Has

(* add_access_condition: the whole condition reaches the request.          *)
LEMMA AccessConditionBuilt ==
  ASSUME NEW r, NEW m, NEW comp, NEW hs, NEW cond,
         Unconditional(r, m, comp, hs)
  PROVE  Built(add_access_condition(r, cond), m, comp, cond, hs)
<1> DEFINE values == [if_match |-> cond.if_match_etag,
                      if_none_match |-> cond.if_none_match_etag,
                      if_modified_since |-> cond.if_modified_since,
                      if_unmodified_since |-> cond.if_not_modified_since]
           lease == [h \in {"lease_id"} |-> cond.lease_id]
           a == add_optional_headers(r, values)
<1>1. /\ DOMAIN values = EtagHeaders
      /\ values["if_match"] = cond.if_match_etag
      /\ values["if_none_match"] = cond.if_none_match_etag
      /\ values["if_modified_since"] = cond.if_modified_since
      /\ values["if_unmodified_since"] = cond.if_not_modified_since
  BY DEF EtagHeaders
<1>2. DOMAIN lease = {"lease_id"} /\ lease["lease_id"] = cond.lease_id
  OBVIOUS
<1>3. add_access_condition(r, cond) = add_optional_headers(a, lease)
  BY DEF add_access_condition, add_lease_id, add_optional_header
<1> HIDE DEF values, lease, a
<1>4. ~Thrown(a) =>
        /\ ~Thrown(r) /\ IsRequest(a, m, comp) /\ CarriesEtags(a, cond)
        /\ ~Has(a, "lease_id") /\ \A h \in Special \ hs : ~Has(a, h)
  BY <1>1, OptionalHeaders
  DEF Unconditional, CarriesEtags, IsRequest, EtagHeaders, Special, Has, a
<1> QED
  BY <1>2, <1>3, <1>4, OptionalHeaders
  DEF Built, CarriesLease, CarriesEtags, IsRequest, Special, Has

(* Metadata added behind the condition leave it as it is.                  *)
LEMMA MetadataBuilt ==
  ASSUME NEW r, NEW m, NEW comp, NEW hs, NEW cond, NEW metadata,
         Built(r, m, comp, cond, hs)
  PROVE  Built(add_metadata(r, metadata), m, comp, cond, hs)
<1> DEFINE values == [h \in {"metadata"} |-> str_trim(metadata)]
<1>1. DOMAIN values = {"metadata"}
  OBVIOUS
<1>2. add_metadata(r, metadata)
        \in {invalid_argument, add_optional_headers(r, values)}
  BY DEF add_metadata, add_optional_header
<1>3. Thrown(invalid_argument)
  BY DEF Thrown, invalid_argument, base_request
<1> HIDE DEF values
<1> QED
  BY <1>1, <1>2, <1>3, OptionalHeaders
  DEF Built, CarriesLease, CarriesEtags, IsRequest, Special, Has

-----------------------------------------------------------------------------
(* Services.                                                               *)

Resource(s, fields) == DOMAIN s = fields /\ s.etag \in Nat /\ s.there \in BOOLEAN

Codes == {OK, NoContent, BadRequest, NotFound, Conflict, PreconditionFailed}

(* A request that could be refused for its lease id, and nothing else.     *)
OurLeaseOnly(r) ==
  /\ \A h \in EtagHeaders \cup {"if_seq", "max_size", "append_position"} : ~Has(r, h)
  /\ Has(r, "lease_id") => r["lease_id"] = OurLease
  /\ ~Has(r, "lease_id") => Reads(r)

LeaseActions == {"acquire", "renew", "change", "release", "break"}

(* The lease actions change the lease and nothing else.                    *)
LEMMA LeaseAnswer ==
  ASSUME NEW r, NEW s, NEW fields, Resource(s, fields), {"etag", "there", "lease"} \subseteq fields,
         r["action"] \in LeaseActions
  PROVE  LET a == Lease(r, s)
         IN /\ Resource(a.state, fields) /\ a.code \in {OK, Conflict}
            /\ a.state.etag = s.etag /\ a.state.there = s.there
            /\ a.code # OK => a.state = s
<1> DEFINE set(value) == Reply(OK, [s EXCEPT !.lease = value])
           refuse == Reply(Conflict, s)
<1>1. Lease(r, s) = refuse \/ \E value : Lease(r, s) = set(value)
  BY DEF Lease, LeaseActions
<1>2. \A value : /\ set(value).code = OK
                 /\ Resource(set(value).state, fields)
                 /\ set(value).state.etag = s.etag /\ set(value).state.there = s.there
  BY DEF Reply, Resource
<1>3. refuse.code = Conflict /\ refuse.state = s
  BY DEF Reply
<1> QED
  BY <1>1, <1>2, <1>3

-----------------------------------------------------------------------------
(* Calls.                                                                  *)

CallFields == {"st", "op", "step", "req", "both", "accepts", "at", "resp",
               "arg", "cond", "time", "seen", "did", "pre", "out"}

CallsTyped ==
  /\ DOMAIN call = Callers
  /\ \A c \in Callers : /\ DOMAIN call[c] = CallFields
                        /\ call[c].st \in {"idle", "sent", "answered", "returned"}

(* Two calls differ at most in these fields.                               *)
Agree(r, q, but) ==
  /\ DOMAIN r = CallFields
  /\ \A f \in CallFields \ but : r[f] = q[f]

(* A call that returns keeps what it is judged by.                         *)
LEMMA DoneFields ==
  ASSUME NEW r, NEW out
  PROVE  LET d == Done(r, out)
         IN /\ DOMAIN d = CallFields /\ d.st = "returned"
            /\ d.op = r.op /\ d.seen = r.seen /\ d.did = r.did
            /\ d.pre = r.pre /\ d.out = out
            /\ d.cond = IF r.did THEN r.cond ELSE access_condition
            /\ d.step = 1 /\ d.time = Empty
  BY DEF Done, Idle, CallFields

(* executor::execute_async: the call throws, or its request is on the way  *)
(* to a location its command allows.                                       *)
LEMMA ExecuteCalls ==
  ASSUME CallsTyped, NEW c \in Callers, NEW cmd, DOMAIN cmd = CallFields,
         execute_async(c, cmd)
  PROVE  /\ CallsTyped'
         /\ \A d \in Callers \ {c} : call'[d] = call[d]
         /\ ~Active(c)
         /\ Thrown(cmd.req) => call'[c] = Done(cmd, Threw)
         /\ ~Thrown(cmd.req) =>
              /\ Agree(call'[c], cmd, {"st", "at", "seen"})
              /\ call'[c].st = "sent" /\ call'[c].seen = {svc.there}
              /\ call'[c].at \in locations(cmd)
         /\ UNCHANGED <<kind, obj, svc, sec>>
<1> DEFINE sent(loc) == [cmd EXCEPT !.st = "sent", !.at = loc, !.seen = {svc.there}]
<1>1. PICK loc \in locations(cmd) :
        call' = [call EXCEPT ![c] = IF Thrown(cmd.req) THEN Done(cmd, Threw) ELSE sent(loc)]
  BY DEF execute_async
<1>2. \A d \in Callers \ {c} : call'[d] = call[d]
  BY <1>1 DEF CallsTyped
<1>3. call'[c] = IF Thrown(cmd.req) THEN Done(cmd, Threw) ELSE sent(loc)
  BY <1>1 DEF CallsTyped
<1>4. Agree(sent(loc), cmd, {"st", "at", "seen"}) /\ sent(loc).st = "sent"
      /\ sent(loc).at = loc /\ sent(loc).seen = {svc.there}
  BY DEF Agree, CallFields
<1>5. DOMAIN call' = Callers
  BY <1>1 DEF CallsTyped
<1> HIDE DEF sent
<1>6. CallsTyped'
  BY <1>2, <1>3, <1>4, <1>5, DoneFields DEF CallsTyped, Agree
<1>7. ~Active(c) /\ UNCHANGED <<kind, obj, svc, sec>>
  BY DEF execute_async
<1> QED
  BY <1>2, <1>3, <1>4, <1>6, <1>7

(* The calls that run see the resource's new state.                        *)
Watched(r, q, there) ==
  /\ Agree(r, q, {"seen"})
  /\ r.seen = IF q.st \in {"sent", "answered"} THEN q.seen \cup {there} ELSE q.seen

(* Watch adds what a running call sees, and nothing else.                  *)
LEMMA WatchCalls ==
  ASSUME NEW calls, NEW there, \A d \in Callers : DOMAIN calls[d] = CallFields
  PROVE  /\ DOMAIN Watch(calls, there) = Callers
         /\ \A d \in Callers : Watched(Watch(calls, there)[d], calls[d], there)
<1> SUFFICES ASSUME NEW d \in Callers
             PROVE  Watched(Watch(calls, there)[d], calls[d], there)
  BY DEF Watch
<1>1. Watch(calls, there)[d] = IF calls[d].st \in {"sent", "answered"}
                               THEN [calls[d] EXCEPT !.seen = @ \cup {there}]
                               ELSE calls[d]
  BY DEF Watch
<1> QED
  BY <1>1 DEF Watched, Agree, CallFields

(* The service performs a request: what the call keeps of it.              *)
LEMMA ServeCalls ==
  ASSUME CallsTyped, NEW c \in Callers, NEW answer, Serve(c, answer)
  PROVE  LET done == /\ Success(answer.code) /\ answer.code # NoContent
                     /\ ~Reads(call[c].req)
         IN /\ CallsTyped'
            /\ \A d \in Callers \ {c} : Watched(call'[d], call[d], svc'.there)
            /\ call[c].st = "sent"
            /\ Agree(call'[c], call[c], {"st", "resp", "did", "pre", "seen"})
            /\ call'[c].st = "answered" /\ call'[c].resp = answer
            /\ call'[c].did = (call[c].did \/ done)
            /\ call'[c].pre = IF done THEN version(located(c)) ELSE call[c].pre
            /\ call'[c].seen = call[c].seen \cup {svc'.there}
            /\ svc' = IF call[c].at = "primary" /\ ~Reads(call[c].req)
                      THEN answer.state ELSE svc
            /\ UNCHANGED <<kind, obj, sec>>
<1> DEFINE done == /\ Success(answer.code) /\ answer.code # NoContent
                   /\ ~Reads(call[c].req)
           calls == [call EXCEPT ![c].st = "answered", ![c].resp = answer,
                                 ![c].did = @ \/ done,
                                 ![c].pre = IF done THEN version(located(c)) ELSE @]
<1>1. call' = Watch(calls, svc'.there) /\ call[c].st = "sent"
  BY DEF Serve
<1>2. \A d \in Callers \ {c} : calls[d] = call[d]
  BY DEF CallsTyped
<1>3. /\ Agree(calls[c], call[c], {"st", "resp", "did", "pre"})
      /\ calls[c].st = "answered" /\ calls[c].resp = answer
      /\ calls[c].did = (call[c].did \/ done)
      /\ calls[c].pre = IF done THEN version(located(c)) ELSE call[c].pre
  BY DEF CallsTyped, Agree, CallFields
<1> HIDE DEF done, calls
<1>4. \A d \in Callers : DOMAIN calls[d] = CallFields
  BY <1>2, <1>3 DEF CallsTyped, Agree
<1>5. DOMAIN call' = Callers /\ \A d \in Callers : Watched(call'[d], calls[d], svc'.there)
  BY <1>1, <1>4, WatchCalls
<1>6. CallsTyped'
  <2>1. \A d \in Callers : DOMAIN call'[d] = CallFields /\ call'[d].st = calls[d].st
    BY <1>5 DEF Watched, Agree, CallFields
  <2> QED
    BY <2>1, <1>2, <1>3, <1>5 DEF CallsTyped
<1>7. /\ svc' = IF call[c].at = "primary" /\ ~Reads(call[c].req)
                THEN answer.state ELSE svc
      /\ UNCHANGED <<kind, obj, sec>>
  BY DEF Serve
<1>8. Agree(call'[c], call[c], {"st", "resp", "did", "pre", "seen"})
  BY <1>3, <1>5 DEF Watched, Agree
<1>9. /\ call'[c].st = "answered" /\ call'[c].resp = answer
      /\ call'[c].did = (call[c].did \/ done)
      /\ call'[c].pre = IF done THEN version(located(c)) ELSE call[c].pre
      /\ call'[c].seen = call[c].seen \cup {svc'.there}
  BY <1>3, <1>5 DEF Watched, Agree, CallFields
<1> QED
  BY <1>1, <1>2, <1>5, <1>6, <1>7, <1>8, <1>9 DEF done


(* A request or an answer is lost, and the executor sends it again.        *)
LEMMA ResendCalls ==
  ASSUME CallsTyped, NEW c \in Callers, Resend(c)
  PROVE  /\ CallsTyped'
         /\ \A d \in Callers \ {c} : call'[d] = call[d]
         /\ Active(c)
         /\ Agree(call'[c], call[c], {"st", "resp", "at"})
         /\ call'[c].st = "sent"
         /\ call'[c].at = IF call[c].both THEN other(call[c].at) ELSE call[c].at
         /\ ~calm'
         /\ UNCHANGED <<kind, obj, svc, sec>>
<1>1. call' = [call EXCEPT ![c].st = "sent", ![c].resp = NoAnswer,
                           ![c].at = IF call[c].both THEN other(@) ELSE @]
  BY DEF Resend
<1>2. DOMAIN call' = Callers /\ \A d \in Callers \ {c} : call'[d] = call[d]
  BY <1>1 DEF CallsTyped
<1>3. /\ Agree(call'[c], call[c], {"st", "resp", "at"}) /\ call'[c].st = "sent"
      /\ call'[c].at = IF call[c].both THEN other(call[c].at) ELSE call[c].at
  BY <1>1 DEF CallsTyped, Agree, CallFields
<1>4. CallsTyped'
  BY <1>2, <1>3 DEF CallsTyped, Agree
<1> QED
  BY <1>2, <1>3, <1>4 DEF Resend, Active

(* A step by which one call returns, and the others stay.                  *)
Returns(c, out) ==
  /\ Active(c)
  /\ call' = [call EXCEPT ![c] = Done(@, out)]
  /\ UNCHANGED <<kind, svc, sec>>

(* Such a step leaves the call with its result.                            *)
LEMMA ReturnCalls ==
  ASSUME CallsTyped, NEW c \in Callers, NEW out, Returns(c, out)
  PROVE  /\ CallsTyped'
         /\ \A d \in Callers \ {c} : call'[d] = call[d]
         /\ call'[c] = Done(call[c], out)
         /\ Active(c) /\ UNCHANGED <<kind, svc, sec>>
<1>1. /\ DOMAIN call' = Callers /\ \A d \in Callers \ {c} : call'[d] = call[d]
      /\ call'[c] = Done(call[c], out)
  BY DEF Returns, CallsTyped
<1>2. CallsTyped'
  BY <1>1, DoneFields DEF CallsTyped
<1> QED
  BY <1>1, <1>2 DEF Returns

(* The calls that are given up, that time out, whose handler ends them.    *)
LEMMA ReturningSteps ==
  ASSUME NEW c \in Callers
  PROVE  /\ GiveUp(c) => Returns(c, Failed) /\ obj' = obj /\ ~calm'
         /\ timer_fires(c) => Returns(c, TimedOut) /\ obj' = obj /\ call[c].step = 2
                                /\ call[c].time < 0 /\ calm' = calm
         /\ \A o, out : call[c].st = "answered" /\ Return(c, o, out)
                         => Returns(c, out) /\ obj' = o /\ calm' = calm
  BY DEF GiveUp, timer_fires, Return, Returns, Active

(* An answer the handler does not take: the primary is asked instead of    *)
(* the secondary, or the call ends with the status.                        *)
LEMMA RefusedCalls ==
  ASSUME CallsTyped, NEW c \in Callers, Refused(c)
  PROVE  /\ call[c].st = "answered"
         /\ ~Success(call[c].resp.code) /\ call[c].resp.code \notin call[c].accepts
         /\ obj' = obj /\ calm' = calm /\ UNCHANGED <<kind, svc, sec>>
         /\ \/ Returns(c, call[c].resp.code)
            \/ /\ call[c].at = "secondary"
               /\ CallsTyped'
               /\ \A d \in Callers \ {c} : call'[d] = call[d]
               /\ Agree(call'[c], call[c], {"st", "at", "both", "resp"})
               /\ call'[c].st = "sent" /\ call'[c].at = "primary" /\ call'[c].both = FALSE
<1> DEFINE code == call[c].resp.code
           asked == [call[c] EXCEPT !.st = "sent", !.at = "primary",
                                    !.both = FALSE, !.resp = NoAnswer]
           again == code = NotFound /\ call[c].at = "secondary"
<1>1. /\ call[c].st = "answered"
      /\ ~Success(code) /\ code \notin call[c].accepts
      /\ call' = [call EXCEPT ![c] = IF again THEN asked ELSE Done(call[c], code)]
      /\ UNCHANGED <<kind, obj, svc, sec, left, calm>>
  BY DEF Refused, CallsTyped
<1>2. CASE ~again
  BY <1>1, <1>2 DEF Returns, Active, CallsTyped
<1>3. CASE again
  <2>1. DOMAIN call' = Callers /\ \A d \in Callers \ {c} : call'[d] = call[d]
    BY <1>1 DEF CallsTyped
  <2>2. call'[c] = asked
    BY <1>1, <1>3 DEF CallsTyped
  <2>3. /\ Agree(asked, call[c], {"st", "at", "both", "resp"})
        /\ asked.st = "sent" /\ asked.at = "primary" /\ asked.both = FALSE
    BY DEF CallsTyped, Agree, CallFields
  <2>4. CallsTyped'
    BY <2>1, <2>2, <2>3 DEF CallsTyped, Agree
  <2> QED
    BY <1>1, <1>3, <2>1, <2>2, <2>3, <2>4
<1> QED
  BY <1>2, <1>3

(* The next request of a call of two, or the exception of its builder.     *)
LEMMA ContinueCalls ==
  ASSUME CallsTyped, NEW c \in Callers, NEW o, NEW req, NEW accepts,
         call[c].st = "answered", Continue(c, o, req, accepts)
  PROVE  /\ obj' = o /\ calm' = calm /\ UNCHANGED <<kind, svc, sec>>
         /\ Thrown(req) => Returns(c, Threw)
         /\ ~Thrown(req) =>
              /\ CallsTyped'
              /\ \A d \in Callers \ {c} : call'[d] = call[d]
              /\ Agree(call'[c], call[c], {"st", "step", "req", "both", "accepts",
                                           "at", "resp", "did"})
              /\ call'[c].st = "sent" /\ call'[c].step = 2 /\ call'[c].req = req
              /\ call'[c].both = FALSE /\ call'[c].accepts = accepts
              /\ call'[c].at = "primary" /\ call'[c].did = FALSE
<1> DEFINE next == [call[c] EXCEPT !.st = "sent", !.step = 2, !.req = req,
                                   !.both = FALSE, !.accepts = accepts,
                                   !.at = "primary", !.resp = NoAnswer,
                                   !.did = FALSE]
<1>1. /\ call' = [call EXCEPT ![c] = IF Thrown(req) THEN Done(call[c], Threw) ELSE next]
      /\ obj' = o /\ UNCHANGED <<kind, svc, sec, left, calm>>
  BY DEF Continue, CallsTyped
<1>2. CASE Thrown(req)
  BY <1>1, <1>2 DEF Returns, Active, CallsTyped
<1>3. CASE ~Thrown(req)
  <2>1. DOMAIN call' = Callers /\ \A d \in Callers \ {c} : call'[d] = call[d]
    BY <1>1 DEF CallsTyped
  <2>2. call'[c] = next
    BY <1>1, <1>3 DEF CallsTyped
  <2>3. /\ Agree(next, call[c], {"st", "step", "req", "both", "accepts",
                                 "at", "resp", "did"})
        /\ next.st = "sent" /\ next.step = 2 /\ next.req = req
        /\ next.both = FALSE /\ next.accepts = accepts
        /\ next.at = "primary" /\ next.did = FALSE
    BY DEF CallsTyped, Agree, CallFields
  <2> HIDE DEF next
  <2>4. CallsTyped'
    BY <2>1, <2>2, <2>3 DEF CallsTyped, Agree
  <2> QED
    BY <1>1, <1>3, <2>1, <2>2, <2>3, <2>4
<1> QED
  BY <1>2, <1>3

(* Another client's change is seen by every call that runs.                *)
LEMMA ForeignCalls ==
  ASSUME CallsTyped, NEW state, Foreign(state)
  PROVE  /\ CallsTyped'
         /\ \A d \in Callers : Watched(call'[d], call[d], state.there)
         /\ svc' = state /\ ~calm'
         /\ UNCHANGED <<kind, obj, sec>>
<1>1. call' = Watch(call, state.there)
  BY DEF Foreign
<1>2. DOMAIN call' = Callers /\ \A d \in Callers : Watched(call'[d], call[d], state.there)
  BY <1>1, WatchCalls DEF CallsTyped
<1>3. CallsTyped'
  BY <1>2 DEF CallsTyped, Watched, Agree, CallFields
<1> QED
  BY <1>2, <1>3 DEF Foreign
=============================================================================
