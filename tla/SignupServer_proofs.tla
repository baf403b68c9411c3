------------------------- MODULE SignupServer_proofs -------------------------
(***************************************************************************)
(* Theorems about Signup and about the scripts of the server (Rollouts and *)
(* RealmSetup, as ServerOps runs them).  The signup's come first: a completed signup is   *)
(* usable, a request makes one tenant and none that nobody granted, for    *)
(* every set of requests, subdomains and calls in flight.  The argument:   *)
(* the tenant of a request has the subdomain of its row, which nothing     *)
(* changes, so one insertion succeeds; the call that made it is the only   *)
(* one to save COMPLETED, and when it loads the row no tenant is on it     *)
(* yet, so status and tenant are written together; stale saves of other    *)
(* calls may undo the status, or both, afterwards.  Then come the scripts  *)
(* that deploy and roll back, and last those that set up the realm.        *)
(***************************************************************************)
EXTENDS Signup, ServerOps, SequenceTheorems, TLAPS

USE SignupAssumption

Targets == Bases \X Nat

Call == [at : Steps, q : Requests \cup {None}, sub : Targets \cup {None},
         by : Requests \cup {"superadmin", None}, image : RequestRow,
         dirty : SUBSET {"status", "paid", "tenant"}, then : {"idle", "provision"}]

Types ==
    /\ request \in [Requests -> RequestRow]
    /\ tenant \in [Subdomains -> TenantRow]
    /\ checkout \in [Requests -> {"none", "open", "paid"}]
    /\ granted \subseteq Requests
    /\ call \in [Workers -> Call]

Submitting == {"tenants", "requests", "email", "insert"}

Inserted(q) == request[q].status # None /\ request[q].subdomain \in Subdomains
Usable(s, q) == s \in Subdomains /\ tenant[s].by = q /\ tenant[s].agency

\* Call c has created the tenant of its request and not saved that yet.
Finishing(c) == c.by \in Requests /\ c.at \in {"agency", "plan", "load", "write"}

NoneFinishes(q) == \A w \in Workers : call[w].q = q => ~Finishing(call[w])

\* The tenant of q was completed, and a stale save has undone that: it will
\* never be completed again.
Undone(q) ==
    /\ request[q].status # "COMPLETED"
    /\ \E s \in Subdomains : tenant[s].by = q
    /\ NoneFinishes(q)

\* What the tables say of each request.
RowOK(q) ==
    /\ request[q].status # None => request[q].subdomain \in Subdomains
    /\ request[q].status = "COMPLETED" => request[q].tenant # None
    /\ request[q].tenant # None => Usable(request[q].tenant, q) /\ NoneFinishes(q)
    /\ checkout[q] # "none" => request[q].status # None
    /\ checkout[q] = "paid" => q \in granted

\* What the tables say of each tenant.
TenantOK(s) ==
    tenant[s].by \in Requests =>
        /\ Inserted(tenant[s].by)
        /\ s = request[tenant[s].by].subdomain
        /\ tenant[s].by \in granted

\* A call that submits a request is alone with it.
SubmitOK(w, c) ==
    c.at \in Submitting =>
        /\ c.q \in Requests
        /\ request[c.q].status = None /\ checkout[c.q] = "none"
        /\ \A v \in Workers \ {w} : call[v].q # c.q
        /\ c.sub \in Targets /\ c.by = None
        /\ c.image.tenant = None /\ c.image.kind \in PlanKind
        /\ c.at # "tenants" => c.sub \in Subdomains
        /\ c.at = "insert" => c.image.status = "PENDING" /\ c.image.subdomain = c.sub

\* A call that provisions, or saves, works on a request that is there.
RequestOK(c) ==
    /\ c.at \in {"stripe", "load", "write", "provision"} => c.q \in Requests
    /\ c.at \notin Submitting /\ c.q # None => Inserted(c.q)
    /\ c.at = "stripe" => c.by = None /\ c.image.status = "PENDING" /\ c.image.tenant = None
    /\ c.at = "provision" \/ (c.at \in {"load", "write"} /\ c.then = "provision") \/ c.by \in Requests =>
           c.q \in granted
    /\ c.at = "provision" => c.by = None
    /\ c.by \in Requests => c.q = c.by

\* The tenant a call creates.
CreationOK(c) ==
    /\ c.at = "tenant" =>
           /\ c.sub \in Subdomains /\ c.by # None
           /\ c.by \in Requests => c.sub = request[c.by].subdomain
    /\ c.at \in {"agency", "plan"} =>
           /\ c.sub \in Subdomains /\ c.by # None
           /\ tenant[c.sub].by = c.by
    /\ c.at = "plan" => tenant[c.sub].agency

\* The image a call saves: the completion, written whole by the one call that
\* created the tenant, or an older row, which may undo it but not half of it.
ImageOK(c) ==
    c.at \in {"load", "write"} =>
        /\ c.by # "superadmin"
        /\ c.image.status # None
        /\ c.by \in Requests =>
               /\ c.image.status = "COMPLETED" /\ c.then = "idle"
               /\ Usable(c.image.tenant, c.q)
               /\ c.at = "write" => {"status", "tenant"} \subseteq c.dirty
        /\ c.by = None =>
               /\ c.image.status # "COMPLETED"
               /\ c.image.tenant # None => Usable(c.image.tenant, c.q) /\ NoneFinishes(c.q)
               /\ c.at = "write" /\ "tenant" \in c.dirty /\ "status" \notin c.dirty => Undone(c.q)

\* No two calls finish the same request, and it is not completed yet.
FinishOK(w, c) ==
    Finishing(c) =>
        /\ request[c.q].status # "COMPLETED"
        /\ \A v \in Workers \ {w} : call[v].q = c.q => ~Finishing(call[v])

CallOK(w, c) ==
    SubmitOK(w, c) /\ RequestOK(c) /\ CreationOK(c) /\ ImageOK(c) /\ FinishOK(w, c)

IInv ==
    /\ Types
    /\ \A q \in Requests : RowOK(q)
    /\ \A s \in Subdomains : TenantOK(s)
    /\ \A w \in Workers : CallOK(w, call[w])

-----------------------------------------------------------------------------
(* Steps. *)

Put(w, c) == call' = [call EXCEPT ![w] = c]

\* The tables never take back a row, a tenant or a grant, and no request whose
\* tenant exists gets a call that finishes it.
Grows ==
    /\ \A q \in Requests :
          /\ Inserted(q) => Inserted(q)' /\ request'[q].subdomain = request[q].subdomain
          /\ (\E s \in Subdomains : tenant[s].by = q) /\ NoneFinishes(q) => NoneFinishes(q)'
          /\ Undone(q) => Undone(q)'
    /\ \A s \in Subdomains :
          /\ tenant[s].by # None => tenant'[s].by = tenant[s].by
          /\ tenant[s].agency => tenant'[s].agency
    /\ granted \subseteq granted'

\* Worker w, going on with call c, leaves the calls of the others what they need.
Spares(w, c) ==
    \A v \in Workers \ {w} :
        /\ call[v].at \in Submitting =>
               /\ request'[call[v].q].status = None /\ checkout'[call[v].q] = "none"
               /\ c.q # call[v].q
        /\ Finishing(call[v]) =>
               /\ request'[call[v].q].status # "COMPLETED"
               /\ c.q = call[v].q => ~Finishing(c)

LEMMA IdleType == Idle \in Call /\ Idle.at = "idle" /\ Idle.q = None /\ Idle.by = None
BY DEF Idle, Call, NoRequest, RequestRow, Steps

LEMMA IdleOK == ASSUME NEW w PROVE CallOK(w, Idle)
BY IdleType DEF CallOK, SubmitOK, RequestOK, CreationOK, ImageOK, FinishOK, Finishing, Submitting

LEMMA PutType ==
    ASSUME Types, NEW w \in Workers, NEW c \in Call, Put(w, c)
    PROVE  call' \in [Workers -> Call] /\ call'[w] = c /\ \A v \in Workers \ {w} : call'[v] = call[v]
BY DEF Types, Put

LEMMA UsableStays ==
    ASSUME Types, Grows, NEW q \in Requests, NEW s, Usable(s, q)
    PROVE  Usable(s, q)'
BY DEF Grows, Usable

\* The calls of the others keep their promises.
LEMMA OthersKeep ==
    ASSUME IInv, NEW w \in Workers, NEW c \in Call, Put(w, c), Grows, Spares(w, c),
           NEW v \in Workers \ {w}
    PROVE  CallOK(v, call[v])'
<1>1. PICK d \in Call : d = call[v]
  BY DEF IInv, Types
<1>2. call'[w] = c /\ call'[v] = d /\ \A u \in Workers \ {w} : call'[u] = call[u]
  BY <1>1, PutType DEF IInv
<1>3. CallOK(v, d)
  BY <1>1 DEF IInv
<1>4. SubmitOK(v, d)'
  BY <1>1, <1>2, <1>3 DEF CallOK, SubmitOK, Spares
<1>5. RequestOK(d)'
  BY <1>3 DEF CallOK, RequestOK, Grows, Call
<1>6. CreationOK(d)'
  <2>1. d.at = "tenant" /\ d.by \in Requests => d.sub = request'[d.by].subdomain
    BY <1>3 DEF CallOK, CreationOK, RequestOK, Grows, Inserted, Submitting
  <2>2. d.at \in {"agency", "plan"} => tenant'[d.sub].by = d.by
    BY <1>3 DEF CallOK, CreationOK, Grows
  <2>3. d.at = "plan" => tenant'[d.sub].agency
    BY <1>3 DEF CallOK, CreationOK, Grows
  <2>4. QED
    BY <1>3, <2>1, <2>2, <2>3 DEF CallOK, CreationOK
<1>7. ImageOK(d)'
  <2> SUFFICES ASSUME d.at \in {"load", "write"}
               PROVE  ImageOK(d)'
    BY DEF ImageOK
  <2>1. d.q \in Requests
    BY <1>3 DEF CallOK, RequestOK
  <2>2. \A s : Usable(s, d.q) => Usable(s, d.q)'
    BY <2>1, UsableStays DEF IInv
  <2>3. \A s : Usable(s, d.q) /\ NoneFinishes(d.q) => NoneFinishes(d.q)'
    BY <2>1 DEF Usable, Grows
  <2>4. Undone(d.q) => Undone(d.q)'
    BY <2>1 DEF Grows
  <2>5. QED
    BY <1>3, <2>2, <2>3, <2>4 DEF CallOK, ImageOK
<1>8. FinishOK(v, d)'
  BY <1>1, <1>2, <1>3 DEF CallOK, FinishOK, Spares, Finishing
<1>9. QED
  BY <1>2, <1>4, <1>5, <1>6, <1>7, <1>8
     DEF CallOK, SubmitOK, RequestOK, CreationOK, ImageOK, FinishOK, Finishing

TableTypes ==
    /\ request \in [Requests -> RequestRow]
    /\ tenant \in [Subdomains -> TenantRow]
    /\ checkout \in [Requests -> {"none", "open", "paid"}]
    /\ granted \subseteq Requests

\* A step of worker w keeps the invariant if the tables do and its own call does.
LEMMA StepKeeps ==
    ASSUME IInv, NEW w \in Workers, NEW c \in Call, Put(w, c), Grows, Spares(w, c), TableTypes',
           \A q \in Requests : RowOK(q)', \A s \in Subdomains : TenantOK(s)', CallOK(w, c)'
    PROVE  IInv'
<1>1. call' \in [Workers -> Call] /\ call'[w] = c
  BY PutType DEF IInv
<1>2. Types'
  BY <1>1 DEF Types, TableTypes
<1>3. CallOK(w, call[w])'
  BY <1>1 DEF CallOK, SubmitOK, RequestOK, CreationOK, ImageOK, FinishOK, Finishing
<1>4. \A v \in Workers \ {w} : CallOK(v, call[v])'
  BY OthersKeep
<1>5. QED
  BY <1>2, <1>3, <1>4 DEF IInv

\* What call c may be when worker w has only read: it finishes a request only if
\* it did so before, and its request is the one it had, or one that is there, or
\* nobody's.
Follows(w, c) ==
    /\ Finishing(c) => Finishing(call[w]) /\ c.q = call[w].q
    /\ \/ c.q \in {None, call[w].q}
       \/ c.q \in Requests /\ Inserted(c.q)
       \/ \A v \in Workers : call[v].q # c.q

LEMMA FollowsStays ==
    ASSUME IInv, NEW w \in Workers, NEW c \in Call, Put(w, c), Follows(w, c), NEW q,
           NoneFinishes(q)
    PROVE  NoneFinishes(q)'
BY PutType DEF Follows, NoneFinishes, Finishing, IInv, Types

\* A step that changes neither rows nor tenants; it may grant, or open a checkout.
LEMMA LightKeeps ==
    ASSUME IInv, NEW w \in Workers, NEW c \in Call, Put(w, c), Follows(w, c),
           request' = request, tenant' = tenant, TableTypes', granted \subseteq granted',
           \A q \in Requests : checkout'[q] # checkout[q] => Inserted(q) /\ checkout'[q] = "open",
           SubmitOK(w, c)', RequestOK(c)', CreationOK(c), ImageOK(c)
    PROVE  IInv'
<1>1. Types /\ \A v \in Workers : CallOK(v, call[v])
  BY DEF IInv
<1>2. call'[w] = c /\ \A v \in Workers \ {w} : call'[v] = call[v]
  BY <1>1, PutType
<1>3. \A q : NoneFinishes(q) => NoneFinishes(q)'
  BY FollowsStays
<1>4. Grows
  BY <1>3 DEF Grows, Undone, Inserted
<1>5. Spares(w, c)
  <2> SUFFICES ASSUME NEW v \in Workers \ {w}
               PROVE  /\ call[v].at \in Submitting =>
                             /\ request'[call[v].q].status = None /\ checkout'[call[v].q] = "none"
                             /\ c.q # call[v].q
                      /\ Finishing(call[v]) =>
                             /\ request'[call[v].q].status # "COMPLETED"
                             /\ c.q = call[v].q => ~Finishing(c)
    BY DEF Spares
  <2>1. CallOK(v, call[v])
    BY <1>1
  <2>2. CASE call[v].at \in Submitting
    <3>1. call[v].q \in Requests /\ request[call[v].q].status = None /\ checkout[call[v].q] = "none"
              /\ call[w].q # call[v].q /\ call[v].by = None
      BY <2>1, <2>2 DEF CallOK, SubmitOK
    <3>2. QED
      BY <3>1 DEF Follows, Inserted, Finishing
  <2>3. CASE Finishing(call[v])
    <3>1. request[call[v].q].status # "COMPLETED" /\ (call[w].q = call[v].q => ~Finishing(call[w]))
      BY <2>1, <2>3 DEF CallOK, FinishOK
    <3>2. QED
      BY <2>3, <3>1 DEF Follows, Finishing, Submitting
  <2>4. QED
    BY <2>2, <2>3
<1>6. \A q \in Requests : RowOK(q)'
  BY <1>3 DEF IInv, RowOK, Usable, Inserted
<1>7. \A s \in Subdomains : TenantOK(s)'
  BY DEF IInv, TenantOK, Inserted
<1>8. CreationOK(c)'
  BY DEF CreationOK
<1>9. ImageOK(c)'
  <2>1. Undone(c.q) => Undone(c.q)'
    BY <1>3 DEF Undone
  <2>2. QED
    BY <1>3, <2>1 DEF ImageOK, Usable
<1>10. FinishOK(w, c)'
  <2>1. CallOK(w, call[w])
    BY <1>1
  <2>2. QED
    BY <1>2, <2>1 DEF CallOK, FinishOK, Follows, Finishing
<1>11. CallOK(w, c)'
  BY <1>8, <1>9, <1>10 DEF CallOK
<1>12. QED
  BY <1>4, <1>5, <1>6, <1>7, <1>11, StepKeeps

\* A read.
LEMMA ReadKeeps ==
    ASSUME IInv, NEW w \in Workers, NEW c \in Call, Put(w, c), Follows(w, c), UNCHANGED tables,
           SubmitOK(w, c), RequestOK(c), CreationOK(c), ImageOK(c)
    PROVE  IInv'
<1>1. request' = request /\ tenant' = tenant /\ checkout' = checkout /\ granted' = granted
  BY DEF tables
<1>2. Types /\ \A v \in Workers \ {w} : call'[v] = call[v]
  BY PutType DEF IInv
<1>3. TableTypes'
  BY <1>1, <1>2 DEF Types, TableTypes
<1>4. SubmitOK(w, c)' /\ RequestOK(c)'
  BY <1>1, <1>2 DEF SubmitOK, RequestOK, Inserted
<1>5. QED
  BY <1>1, <1>3, <1>4, LightKeeps

-----------------------------------------------------------------------------
(* Submissions and reads. *)

LEMMA CallFacts ==
    ASSUME IInv, NEW w \in Workers
    PROVE  call[w] \in Call /\ CallOK(w, call[w]) /\ Types
BY DEF IInv, Types

LEMMA MovesPuts ==
    ASSUME NEW w, NEW at, NEW c, Moves(w, at, c)
    PROVE  Put(w, c) /\ call[w].at = at
BY DEF Moves, Put

\* The subdomain after this one is still to be looked up.
LEMMA NextSuffixOK ==
    ASSUME NEW c \in Call, c.at \in Submitting, c.sub \in Targets
    PROVE  /\ NextSuffix(c) \in Call /\ NextSuffix(c).at = "tenants"
           /\ NextSuffix(c).sub \in Targets
           /\ NextSuffix(c).q = c.q /\ NextSuffix(c).by = c.by /\ NextSuffix(c).image = c.image
<1>1. <<c.sub[1], c.sub[2] + 1>> \in Targets
  BY DEF Targets
<1>2. QED
  BY <1>1 DEF NextSuffix, Call, Steps

\* A submission moves on with its request.
LEMMA SubmissionOK ==
    ASSUME IInv, NEW w \in Workers, call[w].at \in Submitting, NEW c \in Call,
           c.at \in Submitting, c.q = call[w].q, c.by = None, c.sub \in Targets,
           c.image.tenant = None, c.image.kind \in PlanKind,
           c.at # "tenants" => c.sub \in Subdomains,
           c.at = "insert" => c.image.status = "PENDING" /\ c.image.subdomain = c.sub
    PROVE  /\ Follows(w, c) /\ SubmitOK(w, c)
           /\ RequestOK(c) /\ CreationOK(c) /\ ImageOK(c)
<1>1. SubmitOK(w, call[w])
  BY CallFacts DEF CallOK
<1>2. Follows(w, c)
  BY DEF Follows, Finishing
<1>3. SubmitOK(w, c)
  BY <1>1 DEF SubmitOK
<1>4. RequestOK(c) /\ CreationOK(c) /\ ImageOK(c)
  BY DEF RequestOK, CreationOK, ImageOK, Submitting
<1>5. QED
  BY <1>2, <1>3, <1>4

LEMMA SubmissionKeeps ==
    ASSUME IInv, NEW w \in Workers,
           \/ \E q \in Requests, base \in Bases, email \in Emails, kind \in Kinds :
                  Submit(w, q, base, email, kind)
           \/ FindTenant(w) \/ FindPending(w) \/ FindEmail(w)
    PROVE  IInv'
<1> DEFINE old == call[w]
<1>1. old \in Call /\ SubmitOK(w, old) /\ Types
  BY CallFacts DEF CallOK
<1>2. ASSUME NEW q \in Requests, NEW base \in Bases, NEW email \in Emails, NEW kind \in Kinds,
             Submit(w, q, base, email, kind)
      PROVE  IInv'
  <2> DEFINE image == [NoRequest EXCEPT !.email = email, !.kind = kind]
             c == [Idle EXCEPT !.at = "tenants", !.q = q, !.sub = <<base, 0>>, !.image = image]
  <2>1. image \in RequestRow /\ image.tenant = None /\ image.kind \in PlanKind
    BY DEF NoRequest, RequestRow
  <2>2. <<base, 0>> \in Targets
    BY DEF Targets
  <2> HIDE DEF image
  <2>3. /\ c \in Call /\ c.at = "tenants" /\ c.q = q /\ c.by = None /\ c.sub \in Targets
        /\ c.image = image
    BY <2>1, <2>2, IdleType DEF Call, Steps
  <2>4. Put(w, c) /\ UNCHANGED tables /\ request[q].status = None
            /\ \A v \in Workers : call[v].q # q
    BY <1>2, MovesPuts DEF Submit, Fresh, image
  <2> HIDE DEF c
  <2>5. checkout[q] = "none"
    BY <2>4 DEF IInv, RowOK
  <2>6. SubmitOK(w, c)
    BY <2>1, <2>3, <2>4, <2>5 DEF SubmitOK
  <2>7. RequestOK(c) /\ CreationOK(c) /\ ImageOK(c)
    BY <2>3 DEF RequestOK, CreationOK, ImageOK, Submitting
  <2>8. Follows(w, c)
    BY <2>3, <2>4 DEF Follows, Finishing
  <2>9. QED
    BY <2>3, <2>4, <2>6, <2>7, <2>8, ReadKeeps
<1>3. ASSUME old.at \in Submitting, NEW at, NEW c \in Call, Moves(w, at, c), UNCHANGED tables,
             c.at \in Submitting, c.q = old.q, c.by = None, c.sub \in Targets,
             c.image.tenant = None, c.image.kind \in PlanKind,
             c.at # "tenants" => c.sub \in Subdomains,
             c.at = "insert" => c.image.status = "PENDING" /\ c.image.subdomain = c.sub
      PROVE  IInv'
  BY <1>3, SubmissionOK, MovesPuts, ReadKeeps
<1>4. ASSUME old.at \in Submitting
      PROVE  /\ old.q \in Requests /\ old.by = None /\ old.sub \in Targets
             /\ old.image.tenant = None /\ old.image.kind \in PlanKind
             /\ old.at # "tenants" => old.sub \in Subdomains
  BY <1>1, <1>4 DEF SubmitOK
<1>5. CASE FindTenant(w)
  <2>1. old.at = "tenants" /\ old.sub[2] <= MaxSuffix /\ UNCHANGED tables
    BY <1>5 DEF FindTenant
  <2>2. old.at \in Submitting
    BY <2>1 DEF Submitting
  <2>3. old.sub \in Subdomains
    BY <1>4, <2>1, <2>2 DEF Targets, Subdomains
  <2> DEFINE c == [old EXCEPT !.at = "requests"]
  <2>4. CASE Moves(w, "tenants", c)
    <3>1. /\ c \in Call /\ c.at = "requests" /\ c.q = old.q /\ c.by = old.by /\ c.sub = old.sub
          /\ c.image = old.image
      BY <1>1 DEF Call, Steps
    <3> HIDE DEF c
    <3>2. QED
      BY <1>3, <1>4, <2>1, <2>2, <2>3, <2>4, <3>1 DEF Submitting
  <2>5. CASE Moves(w, "tenants", NextSuffix(old))
    BY <1>1, <1>3, <1>4, <2>1, <2>2, <2>5, NextSuffixOK DEF Submitting
  <2>6. QED
    BY <1>5, <2>4, <2>5 DEF FindTenant
<1>6. CASE FindPending(w)
  <2>1. old.at = "requests" /\ UNCHANGED tables
    BY <1>6 DEF FindPending
  <2>2. old.at \in Submitting
    BY <2>1 DEF Submitting
  <2> DEFINE c == [old EXCEPT !.at = "email"]
  <2>3. CASE Moves(w, "requests", c)
    <3>1. /\ c \in Call /\ c.at = "email" /\ c.q = old.q /\ c.by = old.by /\ c.sub = old.sub
          /\ c.image = old.image
      BY <1>1 DEF Call, Steps
    <3> HIDE DEF c
    <3>2. QED
      BY <1>3, <1>4, <2>1, <2>2, <2>3, <3>1 DEF Submitting
  <2>4. CASE Moves(w, "requests", NextSuffix(old))
    BY <1>1, <1>3, <1>4, <2>1, <2>2, <2>4, NextSuffixOK DEF Submitting
  <2>5. QED
    BY <1>6, <2>3, <2>4 DEF FindPending
<1>7. CASE FindEmail(w)
  <2> DEFINE image == [old.image EXCEPT !.subdomain = old.sub, !.status = "PENDING"]
             c == [old EXCEPT !.at = "insert", !.image = image]
             d == [old EXCEPT !.at = "insert", !.image.subdomain = old.sub,
                              !.image.status = "PENDING"]
  <2>1. old.at = "email" /\ UNCHANGED tables /\ Moves(w, "email", d)
    BY <1>7 DEF FindEmail
  <2>2. old.at \in Submitting
    BY <2>1 DEF Submitting
  <2>3. /\ image \in RequestRow /\ image.subdomain = old.sub /\ image.status = "PENDING"
        /\ image.tenant = old.image.tenant /\ image.kind = old.image.kind
    BY <1>1, <1>4, <2>1, <2>2 DEF Call, RequestRow, SignupRequestStatus
  <2>4. d = c
    BY <1>1 DEF Call
  <2> HIDE DEF image, d
  <2>5. /\ c \in Call /\ c.at = "insert" /\ c.q = old.q /\ c.by = old.by /\ c.sub = old.sub
        /\ c.image = image
    BY <1>1, <2>3 DEF Call, Steps
  <2> HIDE DEF c
  <2>6. QED
    BY <1>3, <1>4, <2>1, <2>2, <2>3, <2>4, <2>5 DEF Submitting
<1>8. QED
  BY <1>2, <1>5, <1>6, <1>7

-----------------------------------------------------------------------------
(* Calls that read a row and go on to provision or to save it. *)

LEMMA ReadsKeep ==
    ASSUME IInv, NEW w \in Workers,
           \/ \E q \in Requests : CompletePayment(w, q) \/ Reject(w, q)
           \/ \E base \in Bases : CreateTenant(w, base)
           \/ LoadRequest(w) \/ Provision(w) \/ AssignPlan(w) \/ Abort(w)
    PROVE  IInv'
<1> DEFINE old == call[w]
<1>1. old \in Call /\ CallOK(w, old) /\ Types
  BY CallFacts
<1>2. ASSUME NEW q \in Requests, NEW image \in RequestRow, NEW next \in {"idle", "provision"},
             request[q].status # "COMPLETED", request[q].status # None,
             image.status \notin {None, "COMPLETED"}, image.tenant = request[q].tenant,
             next = "provision" => q \in granted,
             Moves(w, "idle", Saving([Idle EXCEPT !.q = q], image, next)), UNCHANGED tables
      PROVE  IInv'
  <2> DEFINE c == Saving([Idle EXCEPT !.q = q], image, next)
  <2>1. /\ c \in Call /\ c.at = "load" /\ c.q = q /\ c.by = None /\ c.image = image
        /\ c.then = next
    BY IdleType DEF Saving, Call, Steps
  <2>2. Put(w, c)
    BY <1>2, MovesPuts
  <2>3. RowOK(q) /\ Inserted(q)
    BY <1>2 DEF IInv, RowOK, Inserted
  <2> HIDE DEF c
  <2>4. SubmitOK(w, c) /\ RequestOK(c) /\ CreationOK(c) /\ Follows(w, c)
    BY <1>2, <2>1, <2>3 DEF SubmitOK, RequestOK, CreationOK, Follows, Finishing, Submitting
  <2>5. ImageOK(c)
    BY <1>2, <2>1, <2>3 DEF ImageOK, RowOK
  <2>6. QED
    BY <1>2, <2>1, <2>2, <2>4, <2>5, ReadKeeps
<1>3. ASSUME NEW q \in Requests, CompletePayment(w, q)
      PROVE  IInv'
  <2> DEFINE image == [request[q] EXCEPT !.paid = TRUE]
  <2>1. RowOK(q) /\ request[q] \in RequestRow
    BY <1>1 DEF IInv, Types
  <2>2. checkout[q] = "paid" /\ request[q].status # "COMPLETED"
    BY <1>3 DEF CompletePayment
  <2>3. request[q].status # None /\ q \in granted
    BY <2>1, <2>2 DEF RowOK
  <2>4. image \in RequestRow /\ image.status = request[q].status /\ image.tenant = request[q].tenant
    BY <2>1 DEF RequestRow
  <2>5. Moves(w, "idle", Saving([Idle EXCEPT !.q = q], image, "provision")) /\ UNCHANGED tables
    BY <1>3 DEF CompletePayment
  <2> HIDE DEF image
  <2>6. QED
    BY <1>2, <2>2, <2>3, <2>4, <2>5
<1>4. ASSUME NEW q \in Requests, Reject(w, q)
      PROVE  IInv'
  <2> DEFINE image == [request[q] EXCEPT !.status = "REJECTED"]
  <2>1. request[q] \in RequestRow /\ request[q].status = "PENDING"
    BY <1>1, <1>4 DEF Types, Reject
  <2>2. image \in RequestRow /\ image.status = "REJECTED" /\ image.tenant = request[q].tenant
    BY <2>1 DEF RequestRow, SignupRequestStatus
  <2>3. Moves(w, "idle", Saving([Idle EXCEPT !.q = q], image, "idle")) /\ UNCHANGED tables
    BY <1>4 DEF Reject
  <2> HIDE DEF image
  <2>4. None # "PENDING" /\ None # "REJECTED"
    BY DEF SignupRequestStatus
  <2>5. QED
    BY <1>2, <2>1, <2>2, <2>3, <2>4
<1>5. ASSUME NEW base \in Bases, CreateTenant(w, base)
      PROVE  IInv'
  <2> DEFINE c == [Idle EXCEPT !.at = "tenant", !.sub = <<base, 0>>, !.by = "superadmin"]
  <2>1. <<base, 0>> \in Subdomains /\ <<base, 0>> \in Targets
    BY DEF Subdomains, Targets
  <2>2. /\ c \in Call /\ c.at = "tenant" /\ c.q = None /\ c.by = "superadmin"
        /\ c.sub = <<base, 0>>
    BY <2>1, IdleType DEF Call, Steps
  <2>3. Put(w, c) /\ UNCHANGED tables
    BY <1>5, MovesPuts DEF CreateTenant
  <2> HIDE DEF c
  <2>4. SubmitOK(w, c) /\ RequestOK(c) /\ CreationOK(c) /\ ImageOK(c) /\ Follows(w, c)
    BY <2>1, <2>2 DEF SubmitOK, RequestOK, CreationOK, ImageOK, Follows, Finishing, Submitting
  <2>5. QED
    BY <2>2, <2>3, <2>4, ReadKeeps
<1>6. CASE Abort(w)
  <2>1. Put(w, Idle) /\ UNCHANGED tables
    BY <1>6 DEF Abort, Put
  <2>2. CallOK(w, Idle) /\ Follows(w, Idle)
    BY IdleOK, IdleType DEF Follows, Finishing
  <2>3. QED
    BY <2>1, <2>2, IdleType, ReadKeeps DEF CallOK
<1>7. CASE Provision(w)
  <2> DEFINE row == request[old.q]
             c == [old EXCEPT !.at = "tenant", !.sub = row.subdomain, !.by = old.q, !.image = row]
  <2>1. old.at = "provision" /\ Put(w, c) /\ UNCHANGED tables
    BY <1>7, MovesPuts DEF Provision
  <2>2. old.q \in Requests /\ Inserted(old.q) /\ old.q \in granted
    BY <1>1, <2>1 DEF CallOK, RequestOK, Submitting
  <2>3. row \in RequestRow /\ row.subdomain \in Subdomains /\ row.subdomain \in Targets
    BY <1>1, <2>2 DEF Types, Inserted, Subdomains, Targets
  <2>4. /\ c \in Call /\ c.at = "tenant" /\ c.q = old.q /\ c.by = old.q
        /\ c.sub = request[old.q].subdomain
    BY <1>1, <2>2, <2>3 DEF Call, Steps
  <2> HIDE DEF c
  <2>5. SubmitOK(w, c) /\ RequestOK(c) /\ CreationOK(c) /\ ImageOK(c) /\ Follows(w, c)
    BY <2>2, <2>3, <2>4 DEF SubmitOK, RequestOK, CreationOK, ImageOK, Follows, Finishing, Submitting
  <2>6. QED
    BY <2>1, <2>4, <2>5, ReadKeeps
<1>8. CASE AssignPlan(w)
  <2>1. old.at = "plan" /\ Put(w, Completion(old)) /\ UNCHANGED tables
    BY <1>8, MovesPuts DEF AssignPlan
  <2>2. CASE old.by = "superadmin"
    <3>1. Put(w, Idle)
      BY <2>1, <2>2 DEF Completion
    <3>2. CallOK(w, Idle) /\ Follows(w, Idle)
      BY IdleOK, IdleType DEF Follows, Finishing
    <3>3. QED
      BY <2>1, <3>1, <3>2, IdleType, ReadKeeps DEF CallOK
  <2>3. CASE old.by # "superadmin"
    <3> DEFINE image == [old.image EXCEPT !.status = "COMPLETED", !.tenant = old.sub]
               c == Saving(old, image, "idle")
    <3>1. /\ old.sub \in Subdomains /\ old.by \in Requests /\ old.q = old.by
          /\ tenant[old.sub].by = old.by /\ tenant[old.sub].agency
          /\ old.q \in granted /\ Inserted(old.q)
      BY <1>1, <2>1, <2>3 DEF CallOK, CreationOK, RequestOK, Call, Submitting
    <3>2. image \in RequestRow /\ image.status = "COMPLETED" /\ image.tenant = old.sub
      BY <1>1, <3>1 DEF Call, RequestRow, SignupRequestStatus
    <3>3. Put(w, c)
      BY <2>1, <2>3 DEF Completion
    <3> HIDE DEF image
    <3>4. /\ c \in Call /\ c.at = "load" /\ c.q = old.q /\ c.by = old.by /\ c.image = image
          /\ c.then = "idle"
      BY <1>1, <3>2 DEF Saving, Call, Steps
    <3> HIDE DEF c
    <3>5. SubmitOK(w, c) /\ RequestOK(c) /\ CreationOK(c) /\ Follows(w, c)
      BY <2>1, <3>1, <3>4 DEF SubmitOK, RequestOK, CreationOK, Follows, Finishing, Submitting
    <3>6. ImageOK(c)
      <4>1. None # "COMPLETED" /\ None \notin Requests
        BY DEF SignupRequestStatus
      <4>2. QED
        BY <3>1, <3>2, <3>4, <4>1 DEF ImageOK, Usable
    <3>7. QED
      BY <2>1, <3>3, <3>4, <3>5, <3>6, ReadKeeps
  <2>4. QED
    BY <2>2, <2>3
<1>9. CASE LoadRequest(w)
  <2> DEFINE row == request[old.q]
             dirty == {col \in {"status", "paid", "tenant"} : old.image[col] # row[col]}
             c == [old EXCEPT !.at = "write", !.dirty = dirty]
  <2>1. old.at = "load" /\ Put(w, c) /\ UNCHANGED tables
    BY <1>9, MovesPuts DEF LoadRequest
  <2>2. dirty \in SUBSET {"status", "paid", "tenant"}
    OBVIOUS
  <2>3. /\ old.q \in Requests /\ Inserted(old.q) /\ RowOK(old.q)
        /\ ImageOK(old) /\ RequestOK(old) /\ FinishOK(w, old)
    BY <1>1, <2>1 DEF CallOK, RequestOK, IInv, Submitting
  <2>4. /\ "status" \in dirty <=> old.image.status # request[old.q].status
        /\ "tenant" \in dirty <=> old.image.tenant # request[old.q].tenant
    OBVIOUS
  <2> HIDE DEF dirty
  <2>5. /\ c \in Call /\ c.at = "write" /\ c.q = old.q /\ c.by = old.by /\ c.image = old.image
        /\ c.then = old.then /\ c.dirty = dirty
    BY <1>1, <2>2 DEF Call, Steps
  <2> HIDE DEF c
  <2>6. SubmitOK(w, c) /\ RequestOK(c) /\ CreationOK(c) /\ Follows(w, c)
    BY <2>1, <2>3, <2>5 DEF SubmitOK, RequestOK, CreationOK, Follows, Finishing, Submitting
  <2>7. ImageOK(c)
    <3>1. ASSUME old.by \in Requests
          PROVE  {"status", "tenant"} \subseteq dirty
      <4>1. Finishing(old) /\ Usable(old.image.tenant, old.q) /\ old.image.status = "COMPLETED"
        BY <2>1, <2>3, <3>1 DEF Finishing, ImageOK
      <4>2. request[old.q].status # "COMPLETED" /\ ~NoneFinishes(old.q)
        BY <2>3, <4>1 DEF FinishOK, NoneFinishes
      <4>3. request[old.q].tenant = None /\ old.image.tenant # None
        BY <2>3, <4>1, <4>2 DEF RowOK, Usable
      <4>4. QED
        BY <2>4, <4>1, <4>2, <4>3
    <3>2. ASSUME old.by = None, "tenant" \in dirty, "status" \notin dirty
          PROVE  Undone(old.q)
      <4>1. /\ old.image.status # "COMPLETED"
            /\ old.image.tenant # None => Usable(old.image.tenant, old.q) /\ NoneFinishes(old.q)
        BY <2>1, <2>3, <3>2 DEF ImageOK
      <4>2. request[old.q].status # "COMPLETED"
        BY <2>4, <3>2, <4>1
      <4>3. \E s : Usable(s, old.q) /\ NoneFinishes(old.q)
        BY <2>3, <2>4, <3>2, <4>1 DEF RowOK
      <4>4. QED
        BY <4>2, <4>3 DEF Undone, Usable
    <3>3. QED
      BY <2>1, <2>3, <2>5, <3>1, <3>2 DEF ImageOK
  <2>8. QED
    BY <2>1, <2>5, <2>6, <2>7, ReadKeeps
<1>10. QED
  BY <1>3, <1>4, <1>5, <1>6, <1>7, <1>8, <1>9

-----------------------------------------------------------------------------
(* Grants and payments. *)

LEMMA GrantsKeep ==
    ASSUME IInv, NEW w \in Workers, (\E q \in Requests : Approve(w, q)) \/ CreateCheckout(w)
    PROVE  IInv'
<1>1. call[w] \in Call /\ CallOK(w, call[w]) /\ Types
  BY CallFacts
<1>2. ASSUME NEW q \in Requests, Approve(w, q)
      PROVE  IInv'
  <2>1. PICK c \in Call : c = [Idle EXCEPT !.at = "provision", !.q = q]
    BY IdleType DEF Call, Steps
  <2>2. c.at = "provision" /\ c.q = q /\ c.by = None
    BY <2>1, IdleType DEF Call
  <2>3. /\ request' = request /\ tenant' = tenant /\ checkout' = checkout
        /\ granted' = granted \cup {q} /\ request[q].status = "PENDING" /\ Put(w, c)
    BY <1>2, <2>1, MovesPuts DEF Approve
  <2>4. Inserted(q)
    BY <2>3 DEF IInv, RowOK, Inserted, SignupRequestStatus
  <2>5. TableTypes'
    BY <1>1, <2>3 DEF Types, TableTypes
  <2>6. Follows(w, c) /\ SubmitOK(w, c)' /\ CreationOK(c) /\ ImageOK(c)
    BY <2>2, <2>4 DEF Follows, Finishing, SubmitOK, CreationOK, ImageOK, Submitting
  <2>7. RequestOK(c)'
    BY <2>2, <2>3, <2>4 DEF RequestOK, Inserted
  <2>8. QED
    BY <2>3, <2>5, <2>6, <2>7, LightKeeps
<1>3. CASE CreateCheckout(w)
  <2>1. PICK old \in Call : old = call[w]
    BY <1>1
  <2> DEFINE image == [old.image EXCEPT !.status = "PAYMENT_PENDING"]
             new == Saving(old, image, "idle")
  <2>2. image \in RequestRow /\ image.status = "PAYMENT_PENDING" /\ image.tenant = old.image.tenant
    BY DEF Call, RequestRow, SignupRequestStatus
  <2>3. /\ old.at = "stripe" /\ Put(w, new)
        /\ checkout' = [checkout EXCEPT ![old.q] = "open"]
        /\ request' = request /\ tenant' = tenant /\ granted' = granted
    BY <1>3, <2>1, MovesPuts DEF CreateCheckout
  <2> HIDE DEF image
  <2>4. PICK c \in Call : c = new
    BY <2>2 DEF Saving, Call, Steps
  <2>5. /\ c.at = "load" /\ c.q = old.q /\ c.by = old.by /\ c.image = image /\ c.then = "idle"
    BY <2>2, <2>4 DEF Saving, Call
  <2> HIDE DEF new
  <2>6. old.q \in Requests /\ Inserted(old.q) /\ old.by = None /\ old.image.tenant = None
    BY <1>1, <2>1, <2>3 DEF CallOK, RequestOK, Submitting
  <2>7. TableTypes'
    BY <1>1, <2>3 DEF Types, TableTypes
  <2>8. \A q \in Requests : checkout'[q] # checkout[q] => Inserted(q) /\ checkout'[q] = "open"
    BY <1>1, <2>3, <2>6 DEF Types
  <2>9. Follows(w, c) /\ SubmitOK(w, c)' /\ CreationOK(c)
    BY <2>1, <2>5, <2>6 DEF Follows, Finishing, SubmitOK, CreationOK, Submitting
  <2>10. ImageOK(c)
    <3>1. None # "PAYMENT_PENDING" /\ None # "superadmin" /\ None \notin Requests
      BY DEF SignupRequestStatus
    <3>2. QED
      BY <2>2, <2>5, <2>6, <3>1 DEF ImageOK
  <2>11. RequestOK(c)'
    BY <2>3, <2>5, <2>6 DEF RequestOK, Inserted
  <2>12. QED
    BY <2>3, <2>4, <2>7, <2>8, <2>9, <2>10, <2>11, LightKeeps
<1>4. QED
  BY <1>2, <1>3

\* The customer pays; no call changes.
LEMMA PaymentKeeps ==
    ASSUME IInv, NEW q \in Requests, StripePaid(q)
    PROVE  IInv'
<1>1. /\ checkout[q] = "open" /\ checkout' = [checkout EXCEPT ![q] = "paid"]
      /\ granted' = granted \cup {q}
      /\ request' = request /\ tenant' = tenant /\ call' = call
  BY DEF StripePaid
<1>2. Types'
  BY <1>1 DEF IInv, Types
<1>3. \A p \in Requests : RowOK(p)'
  BY <1>1 DEF IInv, Types, RowOK, Usable, NoneFinishes, Finishing
<1>4. \A s \in Subdomains : TenantOK(s)'
  BY <1>1 DEF IInv, TenantOK, Inserted
<1>5. ASSUME NEW w \in Workers
      PROVE  CallOK(w, call[w])'
  <2>1. CallOK(w, call[w]) /\ Types
    BY CallFacts
  <2>2. SubmitOK(w, call[w])'
    BY <1>1, <2>1 DEF CallOK, SubmitOK, Types
  <2>3. RequestOK(call[w])' /\ CreationOK(call[w])' /\ FinishOK(w, call[w])'
    BY <1>1, <2>1 DEF CallOK, RequestOK, CreationOK, FinishOK, Finishing, Inserted
  <2>4. ImageOK(call[w])'
    BY <1>1, <2>1 DEF CallOK, ImageOK, Usable, Undone, NoneFinishes, Finishing
  <2>5. QED
    BY <2>2, <2>3, <2>4 DEF CallOK
<1>6. QED
  BY <1>2, <1>3, <1>4, <1>5 DEF IInv

-----------------------------------------------------------------------------
(* Insertion of a request. *)

LEMMA InsertRequestKeeps ==
    ASSUME IInv, NEW w \in Workers, InsertRequest(w)
    PROVE  IInv'
<1>1. call[w] \in Call /\ CallOK(w, call[w]) /\ Types
  BY CallFacts
<1>2. PICK old \in Call : old = call[w]
  BY <1>1
<1>3. old.at = "insert" /\ old.at \in Submitting
  BY <1>2 DEF InsertRequest, Submitting
<1>4. /\ old.q \in Requests /\ old.by = None
      /\ request[old.q].status = None /\ checkout[old.q] = "none"
      /\ \A v \in Workers \ {w} : call[v].q # old.q
      /\ old.image.status = "PENDING" /\ old.image.tenant = None
      /\ old.image.subdomain \in Subdomains /\ old.image.kind \in PlanKind
  BY <1>1, <1>2, <1>3 DEF CallOK, SubmitOK
<1>5. PICK c \in Call :
          /\ Moves(w, "insert", c)
          /\ \/ c.at = "stripe" /\ c.q = old.q /\ c.image = old.image
             \/ c.at = "provision" /\ c.q = old.q /\ old.image.kind = "automatic"
             \/ c.at = "idle" /\ c.q = None
          /\ c.by = None
  <2>1. CASE old.image.kind = "paid"
    <3> DEFINE d == [old EXCEPT !.at = "stripe", !.sub = None]
    <3>1. d \in Call /\ d.at = "stripe" /\ d.q = old.q /\ d.image = old.image /\ d.by = None
      BY <1>4 DEF Call, Steps
    <3>2. Moves(w, "insert", d)
      BY <1>2, <2>1 DEF InsertRequest
    <3>3. QED
      BY <3>1, <3>2
  <2>2. CASE old.image.kind = "automatic"
    <3> DEFINE d == [Idle EXCEPT !.at = "provision", !.q = old.q]
    <3>1. d \in Call /\ d.at = "provision" /\ d.q = old.q /\ d.by = None
      BY <1>4, IdleType DEF Call, Steps
    <3>2. Moves(w, "insert", d)
      BY <1>2, <2>2 DEF InsertRequest
    <3>3. QED
      BY <2>2, <3>1, <3>2
  <2>3. CASE old.image.kind = "reviewed"
    <3>1. Moves(w, "insert", Idle)
      BY <1>2, <2>3 DEF InsertRequest
    <3>2. QED
      BY <3>1, IdleType
  <2>4. QED
    BY <1>4, <2>1, <2>2, <2>3 DEF PlanKind
<1>6. /\ request' = [request EXCEPT ![old.q] = old.image]
      /\ granted' = IF old.image.kind = "automatic" THEN granted \cup {old.q} ELSE granted
      /\ tenant' = tenant /\ checkout' = checkout
  BY <1>2 DEF InsertRequest
<1>7. Put(w, c) /\ call'[w] = c /\ \A v \in Workers \ {w} : call'[v] = call[v]
  BY <1>1, <1>5, MovesPuts, PutType
<1>8. TableTypes'
  BY <1>1, <1>4, <1>6 DEF Types, TableTypes, Call
<1>9. /\ request'[old.q] = old.image
      /\ \A p \in Requests \ {old.q} : request'[p] = request[p]
  BY <1>1, <1>4, <1>6 DEF Types
<1>10. ~Finishing(c) /\ ~Finishing(old)
  BY <1>4, <1>5 DEF Finishing
<1>11. \A p : NoneFinishes(p) => NoneFinishes(p)'
  BY <1>7, <1>10 DEF NoneFinishes, Finishing
<1>12. None # "PENDING"
  BY DEF SignupRequestStatus
<1>13. \A s \in Subdomains : tenant[s].by # old.q
  BY <1>4 DEF IInv, TenantOK, Inserted
<1>14. Grows
  BY <1>4, <1>6, <1>9, <1>11, <1>12, <1>13 DEF Grows, Inserted, Undone
<1>15. Spares(w, c)
  <2>1. ASSUME NEW v \in Workers \ {w}, call[v].at \in Submitting
        PROVE  /\ request'[call[v].q].status = None /\ checkout'[call[v].q] = "none"
               /\ c.q # call[v].q
    <3>1. /\ call[v].q \in Requests /\ call[v].q # old.q
          /\ request[call[v].q].status = None /\ checkout[call[v].q] = "none"
      BY <1>4, <2>1, CallFacts DEF CallOK, SubmitOK
    <3>2. QED
      BY <1>5, <1>6, <1>9, <3>1
  <2>2. ASSUME NEW v \in Workers \ {w}, Finishing(call[v])
        PROVE  request'[call[v].q].status # "COMPLETED"
    <3>1. call[v].q \in Requests /\ call[v].q # old.q /\ request[call[v].q].status # "COMPLETED"
      BY <1>4, <2>2, CallFacts DEF CallOK, FinishOK, RequestOK, Finishing
    <3>2. QED
      BY <1>9, <3>1
  <2>3. QED
    BY <1>10, <2>1, <2>2 DEF Spares
<1>16. \A p \in Requests : RowOK(p)'
  <2>1. ASSUME NEW p \in Requests, p # old.q
        PROVE  RowOK(p)'
    BY <1>6, <1>9, <1>11, <2>1 DEF IInv, RowOK, Usable
  <2>2. RowOK(old.q)'
    BY <1>4, <1>6, <1>9, <1>12 DEF RowOK
  <2>3. QED
    BY <2>1, <2>2
<1>17. \A s \in Subdomains : TenantOK(s)'
  BY <1>6, <1>9, <1>13 DEF IInv, TenantOK, Inserted
<1>18. CallOK(w, c)'
  <2>1. RequestOK(c)'
    BY <1>4, <1>5, <1>6, <1>9, <1>12 DEF RequestOK, Inserted, Submitting
  <2>2. SubmitOK(w, c)' /\ CreationOK(c)' /\ ImageOK(c)' /\ FinishOK(w, c)'
    BY <1>5, <1>10 DEF SubmitOK, CreationOK, ImageOK, FinishOK, Finishing, Submitting
  <2>3. QED
    BY <2>1, <2>2 DEF CallOK
<1>19. QED
  BY <1>7, <1>8, <1>14, <1>15, <1>16, <1>17, <1>18, StepKeeps

-----------------------------------------------------------------------------
(* The save of a request. *)

Updated(row, image, dirty) == [col \in DOMAIN row |-> IF col \in dirty THEN image[col] ELSE row[col]]

LEMMA UpdatedRow ==
    ASSUME NEW row \in RequestRow, NEW image \in RequestRow,
           NEW dirty \in SUBSET {"status", "paid", "tenant"}
    PROVE  LET new == Updated(row, image, dirty)
           IN  /\ new \in RequestRow
               /\ new.subdomain = row.subdomain
               /\ new.status = IF "status" \in dirty THEN image.status ELSE row.status
               /\ new.tenant = IF "tenant" \in dirty THEN image.tenant ELSE row.tenant
<1> DEFINE new == Updated(row, image, dirty)
<1>1. DOMAIN row = {"status", "subdomain", "email", "kind", "paid", "tenant"}
  BY DEF RequestRow
<1>2. \A col \in DOMAIN row : new[col] = IF col \in dirty THEN image[col] ELSE row[col]
  BY DEF Updated
<1>3. DOMAIN new = {"status", "subdomain", "email", "kind", "paid", "tenant"}
  BY <1>1 DEF Updated
<1> HIDE DEF new
<1>4. new = [status |-> new["status"], subdomain |-> new["subdomain"], email |-> new["email"],
             kind |-> new["kind"], paid |-> new["paid"], tenant |-> new["tenant"]]
  BY <1>3 DEF new, Updated
<1>5. new \in RequestRow
  BY <1>1, <1>2, <1>4 DEF RequestRow
<1>6. QED
  BY <1>1, <1>2, <1>5 DEF new

LEMMA WriteRequestKeeps ==
    ASSUME IInv, NEW w \in Workers, WriteRequest(w)
    PROVE  IInv'
<1>1. call[w] \in Call /\ CallOK(w, call[w]) /\ Types
  BY CallFacts
<1>2. PICK old \in Call : old = call[w]
  BY <1>1
<1> DEFINE q == old.q
           row == Updated(request[q], old.image, old.dirty)
<1>3. /\ old.at = "write"
      /\ request' = [request EXCEPT ![q] = row]
      /\ tenant' = tenant /\ checkout' = checkout /\ granted' = granted
  BY <1>2 DEF WriteRequest, Moves, Updated
<1>4. q \in Requests /\ Inserted(q) /\ RowOK(q) /\ request[q] \in RequestRow
  BY <1>1, <1>2, <1>3 DEF CallOK, RequestOK, IInv, Types, Submitting
<1>5. ImageOK(old) /\ FinishOK(w, old) /\ RequestOK(old)
  BY <1>1, <1>2 DEF CallOK
<1>6. /\ row \in RequestRow /\ row.subdomain = request[q].subdomain
      /\ row.status = IF "status" \in old.dirty THEN old.image.status ELSE request[q].status
      /\ row.tenant = IF "tenant" \in old.dirty THEN old.image.tenant ELSE request[q].tenant
  BY <1>4, UpdatedRow DEF Call
<1> HIDE DEF row
<1>7. PICK c \in Call :
          /\ Moves(w, "write", c) /\ c.by = None
          /\ \/ c.at = "idle" /\ c.q = None
             \/ c.at = "provision" /\ c.q = q /\ old.then = "provision"
  <2>1. CASE old.then = "idle"
    <3>1. Moves(w, "write", Idle)
      BY <1>2, <2>1 DEF WriteRequest
    <3>2. QED
      BY <3>1, IdleType
  <2>2. CASE old.then = "provision"
    <3> DEFINE d == [Idle EXCEPT !.at = old.then, !.q = q]
    <3>1. d \in Call /\ d.at = "provision" /\ d.q = q /\ d.by = None
      BY <1>4, <2>2, IdleType DEF Call, Steps
    <3>2. "provision" # "idle"
      OBVIOUS
    <3>3. Moves(w, "write", d)
      BY <1>2, <2>2, <3>2 DEF WriteRequest
    <3>4. QED
      BY <2>2, <3>1, <3>3
  <2>3. QED
    BY <2>1, <2>2 DEF Call
<1> HIDE DEF q
<1>8. Put(w, c) /\ call'[w] = c /\ \A v \in Workers \ {w} : call'[v] = call[v]
  BY <1>1, <1>7, MovesPuts, PutType
<1>9. request' \in [Requests -> RequestRow] /\ request'[q] = row
          /\ \A p \in Requests \ {q} : request'[p] = request[p]
  BY <1>1, <1>3, <1>4, <1>6 DEF Types
<1>10. ~Finishing(c) /\ \A p : NoneFinishes(p) => NoneFinishes(p)'
  BY <1>7, <1>8 DEF NoneFinishes, Finishing
<1>11. row.status # None
  BY <1>3, <1>4, <1>5, <1>6 DEF Inserted, ImageOK
<1>12. None \notin Requests /\ None # "superadmin"
  OBVIOUS
<1>13. old.by = None \/ old.by \in Requests
  BY <1>3, <1>5 DEF ImageOK, Call
<1>14. Undone(q) => row.status # "COMPLETED"
  <2>1. CASE old.by = None
    BY <1>3, <1>5, <1>6, <2>1 DEF ImageOK, Undone
  <2>2. CASE old.by \in Requests
    <3>1. Finishing(old)
      BY <1>3, <2>2 DEF Finishing
    <3>2. ~NoneFinishes(q)
      BY <1>2, <3>1 DEF NoneFinishes, q
    <3>3. QED
      BY <3>2 DEF Undone
  <2>3. QED
    BY <1>13, <2>1, <2>2
<1>15. \A p \in Requests : Inserted(p) => Inserted(p)' /\ request'[p].subdomain = request[p].subdomain
  BY <1>4, <1>6, <1>9, <1>11 DEF Inserted
<1>16. Grows
  BY <1>3, <1>9, <1>10, <1>14, <1>15 DEF Grows, Undone
<1>17. Spares(w, c)
  <2>1. ASSUME NEW v \in Workers \ {w}, call[v].at \in Submitting
        PROVE  /\ request'[call[v].q].status = None /\ checkout'[call[v].q] = "none"
               /\ c.q # call[v].q
    <3>1. /\ call[v].q \in Requests /\ call[v].q # q
          /\ request[call[v].q].status = None /\ checkout[call[v].q] = "none"
      BY <1>4, <2>1, CallFacts DEF CallOK, SubmitOK, Inserted
    <3>2. QED
      BY <1>3, <1>7, <1>9, <1>12, <3>1
  <2>2. ASSUME NEW v \in Workers \ {w}, Finishing(call[v])
        PROVE  request'[call[v].q].status # "COMPLETED"
    <3>1. call[v].q \in Requests /\ request[call[v].q].status # "COMPLETED"
      BY <2>2, CallFacts DEF CallOK, FinishOK, RequestOK, Finishing
    <3>2. CASE call[v].q = q
      <4>1. ~Finishing(old)
        BY <1>1, <1>2, <2>2, <3>2, CallFacts DEF CallOK, FinishOK, q
      <4>2. old.by = None
        BY <1>3, <1>13, <4>1 DEF Finishing
      <4>3. row.status # "COMPLETED"
        BY <1>3, <1>5, <1>6, <3>1, <3>2, <4>2 DEF ImageOK
      <4>4. QED
        BY <1>9, <3>2, <4>3
    <3>3. CASE call[v].q # q
      BY <1>9, <3>1, <3>3
    <3>4. QED
      BY <3>2, <3>3
  <2>3. QED
    BY <1>10, <2>1, <2>2 DEF Spares
<1>18. RowOK(q)'
  <2>1. CASE old.by = None
    <3>1. /\ old.image.status # "COMPLETED"
          /\ old.image.tenant # None => Usable(old.image.tenant, q) /\ NoneFinishes(q)
          /\ "tenant" \in old.dirty /\ "status" \notin old.dirty => Undone(q)
      BY <1>3, <1>5, <2>1 DEF ImageOK, q
    <3>2. row.tenant # None => Usable(row.tenant, q) /\ NoneFinishes(q)
      BY <1>4, <1>6, <3>1 DEF RowOK
    <3>3. row.status = "COMPLETED" => row.tenant # None
      BY <1>4, <1>6, <3>1 DEF RowOK, Undone
    <3>4. QED
      BY <1>3, <1>4, <1>6, <1>9, <1>10, <1>11, <3>2, <3>3 DEF RowOK, Usable, Inserted
  <2>2. CASE old.by \in Requests
    <3>1. /\ old.image.status = "COMPLETED" /\ Usable(old.image.tenant, q)
          /\ {"status", "tenant"} \subseteq old.dirty
      BY <1>3, <1>5, <2>2 DEF ImageOK, q
    <3>2. Finishing(old)
      BY <1>3, <2>2 DEF Finishing
    <3>3. NoneFinishes(q)'
      BY <1>5, <1>8, <1>10, <3>2 DEF FinishOK, NoneFinishes, Finishing, q
    <3>4. row.status = "COMPLETED" /\ row.tenant = old.image.tenant /\ row.tenant # None
      BY <1>6, <3>1 DEF Usable
    <3>5. QED
      BY <1>3, <1>4, <1>6, <1>9, <1>11, <3>1, <3>3, <3>4 DEF RowOK, Usable, Inserted
  <2>3. QED
    BY <1>13, <2>1, <2>2
<1>19. \A p \in Requests : RowOK(p)'
  <2>1. ASSUME NEW p \in Requests, p # q
        PROVE  RowOK(p)'
    BY <1>3, <1>9, <1>10, <2>1 DEF IInv, RowOK, Usable
  <2>2. QED
    BY <1>18, <2>1
<1>20. \A s \in Subdomains : TenantOK(s)'
  BY <1>3, <1>15 DEF IInv, TenantOK
<1>21. CallOK(w, c)'
  <2>1. c.q # None => Inserted(c.q)' /\ c.q \in granted'
    BY <1>3, <1>4, <1>5, <1>7, <1>15 DEF RequestOK, q
  <2>2. RequestOK(c)'
    BY <1>4, <1>7, <1>12, <2>1 DEF RequestOK
  <2>3. SubmitOK(w, c)' /\ CreationOK(c)' /\ ImageOK(c)' /\ FinishOK(w, c)'
    BY <1>7, <1>10 DEF SubmitOK, CreationOK, ImageOK, FinishOK, Finishing, Submitting
  <2>4. QED
    BY <2>2, <2>3 DEF CallOK
<1>22. TableTypes'
  BY <1>1, <1>3, <1>9 DEF Types, TableTypes
<1>23. QED
  BY <1>8, <1>16, <1>17, <1>19, <1>20, <1>21, <1>22, StepKeeps

-----------------------------------------------------------------------------
(* Tenants and their agencies. *)

\* The tenant is inserted: the subdomain was free, so its request had none.
LEMMA InsertTenantKeeps ==
    ASSUME IInv, NEW w \in Workers, InsertTenant(w)
    PROVE  IInv'
<1>1. call[w] \in Call /\ CallOK(w, call[w]) /\ Types
  BY CallFacts
<1>2. PICK old \in Call : old = call[w]
  BY <1>1
<1>3. PICK c \in Call : c = [old EXCEPT !.at = "agency"]
  BY DEF Call, Steps
<1>4. c.at = "agency" /\ c.q = old.q /\ c.by = old.by /\ c.sub = old.sub
  BY <1>3 DEF Call
<1>5. /\ old.at = "tenant" /\ tenant[old.sub].by = None
      /\ tenant' = [tenant EXCEPT ![old.sub].by = old.by]
      /\ Put(w, c)
      /\ request' = request /\ checkout' = checkout /\ granted' = granted
  BY <1>2, <1>3, MovesPuts DEF InsertTenant
<1>6. /\ old.sub \in Subdomains /\ old.by # None
      /\ old.by \in Requests => /\ old.sub = request[old.by].subdomain
                                /\ old.q = old.by /\ Inserted(old.q) /\ old.q \in granted
  BY <1>1, <1>2, <1>5 DEF CallOK, CreationOK, RequestOK, Submitting
<1>7. /\ tenant' \in [Subdomains -> TenantRow]
      /\ tenant'[old.sub].by = old.by /\ tenant'[old.sub].agency = tenant[old.sub].agency
      /\ \A s \in Subdomains \ {old.sub} : tenant'[s] = tenant[s]
  BY <1>1, <1>5, <1>6 DEF Types, TenantRow, Call
<1>8. call'[w] = c /\ \A v \in Workers \ {w} : call'[v] = call[v]
  BY <1>1, <1>5, PutType
<1>9. ASSUME old.by \in Requests
      PROVE  \A s \in Subdomains : tenant[s].by # old.by
  BY <1>5, <1>6, <1>9 DEF IInv, TenantOK
<1>10. ASSUME NEW v \in Workers, Finishing(call[v])
       PROVE  call[v].q \in Requests /\ \E s \in Subdomains : tenant[s].by = call[v].q
  BY <1>10, CallFacts DEF CallOK, CreationOK, RequestOK, ImageOK, Finishing, Usable
<1>11. ASSUME NEW p \in Requests, NoneFinishes(p), \E s \in Subdomains : tenant[s].by = p
       PROVE  NoneFinishes(p)'
  <2>1. Finishing(c) => c.q # p
    BY <1>4, <1>6, <1>9, <1>11 DEF Finishing
  <2>2. QED
    BY <1>8, <1>11, <2>1 DEF NoneFinishes, Finishing
<1>12. \A s \in Subdomains : /\ tenant[s].by # None => tenant'[s].by = tenant[s].by
                             /\ tenant[s].agency => tenant'[s].agency
  BY <1>5, <1>7
<1>13. ASSUME NEW p \in Requests, Undone(p)
       PROVE  Undone(p)'
  BY <1>5, <1>11, <1>12, <1>13 DEF Undone
<1>14. Grows
  BY <1>5, <1>11, <1>12, <1>13 DEF Grows, Inserted
<1>15. Spares(w, c)
  <2>1. ASSUME NEW v \in Workers \ {w}, call[v].at \in Submitting
        PROVE  /\ request'[call[v].q].status = None /\ checkout'[call[v].q] = "none"
               /\ c.q # call[v].q
    BY <1>2, <1>4, <1>5, <2>1, CallFacts DEF CallOK, SubmitOK
  <2>2. ASSUME NEW v \in Workers \ {w}, Finishing(call[v])
        PROVE  /\ request'[call[v].q].status # "COMPLETED"
               /\ c.q = call[v].q => ~Finishing(c)
    <3>1. request[call[v].q].status # "COMPLETED"
      BY <2>2, CallFacts DEF CallOK, FinishOK
    <3>2. Finishing(c) => c.q # call[v].q
      BY <1>4, <1>6, <1>9, <1>10, <2>2 DEF Finishing
    <3>3. QED
      BY <1>5, <3>1, <3>2
  <2>3. QED
    BY <2>1, <2>2 DEF Spares
<1>16. \A p \in Requests : RowOK(p)'
  <2> SUFFICES ASSUME NEW p \in Requests
               PROVE  RowOK(p)'
    OBVIOUS
  <2>1. RowOK(p)
    BY DEF IInv
  <2>2. request[p].tenant # None => NoneFinishes(p)'
    BY <1>11, <2>1 DEF RowOK, Usable
  <2>3. request[p].tenant # None => Usable(request[p].tenant, p) /\ request[p].tenant \in Subdomains
    BY <2>1 DEF RowOK, Usable
  <2>4. QED
    BY <1>5, <1>12, <2>1, <2>2, <2>3 DEF RowOK, Usable
<1>17. \A s \in Subdomains : TenantOK(s)'
  <2>1. TenantOK(old.sub)'
    BY <1>5, <1>6, <1>7 DEF TenantOK, Inserted
  <2>2. ASSUME NEW s \in Subdomains, s # old.sub
        PROVE  TenantOK(s)'
    BY <1>5, <1>7, <2>2 DEF IInv, TenantOK, Inserted
  <2>3. QED
    BY <2>1, <2>2
<1>18. CallOK(w, c)'
  <2>1. SubmitOK(w, c)' /\ CreationOK(c)' /\ ImageOK(c)'
    BY <1>4, <1>6, <1>7 DEF SubmitOK, CreationOK, ImageOK, Submitting
  <2>2. RequestOK(c)'
    <3>1. RequestOK(old)
      BY <1>1, <1>2 DEF CallOK
    <3>2. QED
      BY <1>4, <1>5, <3>1 DEF RequestOK, Inserted, Submitting
  <2>3. FinishOK(w, c)'
    <3> SUFFICES ASSUME Finishing(c)
                 PROVE  FinishOK(w, c)'
      BY DEF FinishOK, Finishing
    <3>1. old.by \in Requests /\ c.q = old.by
      BY <1>4, <1>6 DEF Finishing
    <3>2. request[old.by].status # "COMPLETED"
      BY <1>9, <3>1 DEF IInv, RowOK, Usable
    <3>3. \A v \in Workers \ {w} : call[v].q = old.by => ~Finishing(call[v])
      BY <1>9, <1>10, <3>1
    <3>4. QED
      BY <1>5, <1>8, <3>1, <3>2, <3>3 DEF FinishOK, Finishing
  <2>4. QED
    BY <2>1, <2>2, <2>3 DEF CallOK
<1>19. TableTypes'
  BY <1>1, <1>5, <1>7 DEF Types, TableTypes
<1>20. QED
  BY <1>5, <1>14, <1>15, <1>16, <1>17, <1>18, <1>19, StepKeeps

LEMMA CreateAgencyKeeps ==
    ASSUME IInv, NEW w \in Workers, CreateAgency(w)
    PROVE  IInv'
<1>1. call[w] \in Call /\ CallOK(w, call[w]) /\ Types
  BY CallFacts
<1>2. PICK old \in Call : old = call[w]
  BY <1>1
<1>3. PICK c \in Call : c = [old EXCEPT !.at = "plan"]
  BY DEF Call, Steps
<1>4. c.at = "plan" /\ c.q = old.q /\ c.by = old.by /\ c.sub = old.sub
  BY <1>3 DEF Call
<1>5. /\ old.at = "agency" /\ Put(w, c)
      /\ tenant' = [tenant EXCEPT ![old.sub].agency = TRUE]
      /\ request' = request /\ checkout' = checkout /\ granted' = granted
  BY <1>2, <1>3, MovesPuts DEF CreateAgency
<1>6. old.sub \in Subdomains /\ old.by # None /\ tenant[old.sub].by = old.by
  BY <1>1, <1>2, <1>5 DEF CallOK, CreationOK
<1>7. /\ tenant' \in [Subdomains -> TenantRow]
      /\ tenant'[old.sub].agency
      /\ \A s \in Subdomains : /\ tenant'[s].by = tenant[s].by
                               /\ tenant[s].agency => tenant'[s].agency
  BY <1>1, <1>5, <1>6, ZenonT(30) DEF Types, TenantRow
<1>8. call'[w] = c /\ \A v \in Workers \ {w} : call'[v] = call[v]
  BY <1>1, <1>5, PutType
<1>9. Finishing(c) <=> Finishing(old)
  BY <1>4, <1>5 DEF Finishing
<1>10. \A p : NoneFinishes(p) => NoneFinishes(p)'
  BY <1>2, <1>4, <1>8, <1>9 DEF NoneFinishes, Finishing
<1>11. \A p, s : Usable(s, p) => Usable(s, p)'
  BY <1>7 DEF Usable
<1>12. Grows
  BY <1>5, <1>7, <1>10 DEF Grows, Inserted, Undone
<1>13. Spares(w, c)
  <2>1. ASSUME NEW v \in Workers \ {w}, call[v].at \in Submitting
        PROVE  /\ request'[call[v].q].status = None /\ checkout'[call[v].q] = "none"
               /\ c.q # call[v].q
    BY <1>2, <1>4, <1>5, <2>1, CallFacts DEF CallOK, SubmitOK
  <2>2. ASSUME NEW v \in Workers \ {w}, Finishing(call[v])
        PROVE  /\ request'[call[v].q].status # "COMPLETED"
               /\ c.q = call[v].q => ~Finishing(c)
    BY <1>2, <1>4, <1>5, <1>9, <2>2, CallFacts DEF CallOK, FinishOK
  <2>3. QED
    BY <2>1, <2>2 DEF Spares
<1>14. \A p \in Requests : RowOK(p)'
  BY <1>5, <1>10, <1>11 DEF IInv, RowOK, Usable
<1>15. \A s \in Subdomains : TenantOK(s)'
  BY <1>5, <1>7 DEF IInv, TenantOK, Inserted
<1>16. CallOK(w, c)'
  <2>1. SubmitOK(w, c)' /\ CreationOK(c)' /\ ImageOK(c)'
    BY <1>4, <1>6, <1>7 DEF SubmitOK, CreationOK, ImageOK, Submitting
  <2>2. RequestOK(old) /\ FinishOK(w, old)
    BY <1>1, <1>2 DEF CallOK
  <2>3. RequestOK(c)'
    BY <1>4, <1>5, <2>2 DEF RequestOK, Inserted, Submitting
  <2>4. FinishOK(w, c)'
    BY <1>4, <1>5, <1>8, <1>9, <2>2 DEF FinishOK, Finishing
  <2>5. QED
    BY <2>1, <2>3, <2>4 DEF CallOK
<1>17. TableTypes'
  BY <1>1, <1>5, <1>7 DEF Types, TableTypes
<1>18. QED
  BY <1>5, <1>12, <1>13, <1>14, <1>15, <1>16, <1>17, StepKeeps

-----------------------------------------------------------------------------
LEMMA Invariant == Spec => []IInv
<1>1. Init => IInv
  <2> SUFFICES ASSUME Init
               PROVE  IInv
    OBVIOUS
  <2>1. Types
    BY IdleType DEF Init, Types, NoRequest, RequestRow, NoTenant, TenantRow
  <2>2. \A q \in Requests : RowOK(q)
    BY DEF Init, RowOK, NoRequest, SignupRequestStatus
  <2>3. \A s \in Subdomains : TenantOK(s)
    BY DEF Init, TenantOK, NoTenant
  <2>4. \A w \in Workers : CallOK(w, call[w])
    BY IdleOK DEF Init
  <2>5. QED
    BY <2>1, <2>2, <2>3, <2>4 DEF IInv
<1>2. IInv /\ [Next]_vars => IInv'
  <2>1. ASSUME IInv, NEW w \in Workers, NewCall(w) \/ NextStatement(w) \/ Abort(w)
        PROVE  IInv'
    <3>1. CASE NewCall(w)
      <4>1. ASSUME NEW q \in Requests, CompletePayment(w, q) \/ Approve(w, q) \/ Reject(w, q)
            PROVE  IInv'
        BY <2>1, <4>1, ReadsKeep, GrantsKeep
      <4>2. ASSUME \E base \in Bases : CreateTenant(w, base)
            PROVE  IInv'
        BY <2>1, <4>2, ReadsKeep
      <4>3. ASSUME \E q \in Requests, base \in Bases, email \in Emails, kind \in Kinds :
                       Submit(w, q, base, email, kind)
            PROVE  IInv'
        BY <2>1, <4>3, SubmissionKeeps
      <4>4. QED
        BY <3>1, <4>1, <4>2, <4>3 DEF NewCall
    <3>2. CASE NextStatement(w) \/ Abort(w)
      BY <2>1, <3>2, SubmissionKeeps, ReadsKeep, GrantsKeep, InsertRequestKeeps,
         WriteRequestKeeps, InsertTenantKeeps, CreateAgencyKeeps DEF NextStatement
    <3>3. QED
      BY <2>1, <3>1, <3>2
  <2>2. ASSUME IInv, UNCHANGED vars
        PROVE  IInv'
    <3>1. /\ request' = request /\ tenant' = tenant /\ checkout' = checkout
          /\ granted' = granted /\ call' = call
      BY <2>2 DEF vars, tables
    <3>2. Types' /\ (\A q \in Requests : RowOK(q)') /\ (\A s \in Subdomains : TenantOK(s)')
      BY <2>2, <3>1 DEF IInv, Types, RowOK, TenantOK, NoneFinishes, Finishing, Usable, Inserted
    <3>3. \A w \in Workers : CallOK(w, call[w])'
      BY <2>2, <3>1 DEF IInv, CallOK, SubmitOK, RequestOK, CreationOK, ImageOK, FinishOK,
                        Finishing, NoneFinishes, Undone, Usable, Inserted
    <3>4. QED
      BY <3>2, <3>3 DEF IInv
  <2>3. QED
    BY <2>1, <2>2, PaymentKeeps DEF Next
<1>3. QED
  BY <1>1, <1>2, PTL DEF Spec

\* The initial state and every statement keep the tables and the calls well typed.
THEOREM TypeCorrect == Spec => []TypeOK
<1>1. IInv => TypeOK
  BY DEF IInv, Types, Call, TypeOK
<1>2. QED
  BY <1>1, Invariant, PTL

\* Who is told that the account is active has one: a COMPLETED request points to
\* a tenant created for it that has its agency, whatever stale saves undo.
THEOREM CompletedAlwaysUsable == Spec => []CompletedIsUsable
<1>1. IInv => CompletedIsUsable
  BY DEF IInv, RowOK, Usable, CompletedIsUsable
<1>2. QED
  BY <1>1, Invariant, PTL

\* A request creates at most one tenant, however often it is paid, approved or
\* retried: the subdomain of its row is the only one its tenants may have.
THEOREM OneTenantAlways == Spec => []OneTenantPerRequest
<1>1. IInv => \A s, t \in Subdomains :
                  (tenant[s].by \in Requests /\ tenant[s].by = tenant[t].by) => s = t
  BY DEF IInv, TenantOK
<1>2. TypeOK /\ IInv => OneTenantPerRequest
  BY <1>1 DEF OneTenantPerRequest
<1>3. QED
  BY <1>2, TypeCorrect, Invariant, PTL

\* No tenant comes from a request nobody approved or paid for, in whatever order
\* payment, review and rejection arrive.
THEOREM TenantAlwaysGranted == Spec => []TenantIsGranted
<1>1. IInv => TenantIsGranted
  BY DEF IInv, TenantOK, TenantIsGranted
<1>2. QED
  BY <1>1, Invariant, PTL

-----------------------------------------------------------------------------
(* The server, whatever scripts run.  An agreement speaks of the moments    *)
(* when no script runs; LoneOK says what a script that is alone has brought *)
(* about at each of its commands, so that it is there at its end, and       *)
(* RestOK what is left of that.                                             *)

Stages == {"idle", "source", "edit", "empty", "write", "source again", "record", "record more",
           "pull", "up", "point"}

ScriptRecord ==
    [at : Stages, kind : {"none", "deploy", "rollback", "build"}, args : SUBSET Parts,
     named : Nat, tag : Nat, image : [Parts -> Int], exported : SUBSET Parts,
     left : SUBSET Parts, tmp : [Lines -> Int], file : Nat, from : Nat, alone : BOOLEAN]

ServerTypes ==
    /\ env \in [Lines -> Int] /\ running \in [Parts -> Int]
    /\ releases \in Seq([Parts -> Int]) /\ pointer \in 0 .. Len(releases)
    /\ script \in [Scripts -> ScriptRecord]
    /\ line \in Seq(Nat) /\ started \in Nat

\* What a script knows of itself, and of the file it is about to put back.
StageOK(c) ==
    /\ c.file <= Len(releases) /\ c.named <= Len(releases)
    /\ c.at # "idle" => c.kind # "none"
    /\ c.at \in {"source again", "record", "record more"} => c.kind = "deploy"
    /\ c.at \in {"pull", "point"} => c.kind # "build"
    /\ c.at = "source" /\ c.kind # "deploy" => c.args = Parts
    /\ c.at \in {"edit", "empty", "write"} => c.left # {}
    /\ c.at = "record more" => c.file # 0
    /\ c.at \in {"empty", "write"} /\ c.tmp["secrets"] = Lost => harm # {}

\* What a script writes into .env.
ValueOf(c, p) == IF c.kind = "build" THEN Local ELSE c.image[p]

\* What a script that is alone has brought about so far.
LoneOK(s) ==
    LET me == script[s] IN
    me.alone /\ me.at # "idle" =>
        /\ \A t \in Scripts \ {s} : script[t].at = "idle"
        /\ me.from = pointer
        /\ me.at \in {"edit", "empty"} => \A p \in Parts \ me.left : env[p] = ValueOf(me, p)
        /\ me.at \in {"empty", "write"} =>
              \A p \in (Parts \ me.left) \cup {ToWrite(me)} : me.tmp[p] = ValueOf(me, p)
        /\ me.at \in {"source again", "record", "record more", "pull", "up", "point"} =>
              \A p \in Parts : env[p] = ValueOf(me, p)
        /\ me.kind = "rollback" /\ me.at # "source" =>
              /\ me.file \in DOMAIN releases /\ releases[me.file] = me.image
              /\ me.named = 0 => me.file = me.from - 1
        /\ me.kind = "deploy" /\ me.at \in {"pull", "up", "point"} =>
              me.file \in DOMAIN releases /\ releases[me.file] = me.image
        /\ me.at = "point" => running = me.image

\* What is left of it when no script runs.
RestOK ==
    AtRest /\ last.ok /\ last.alone =>
        /\ last.kind \in {"deploy", "rollback"} =>
              /\ pointer = last.file /\ pointer \in DOMAIN releases
              /\ running = releases[pointer]
              /\ \A p \in Parts : env[p] = running[p]
        /\ last.kind = "build" /\ ~last.old => \A p \in Parts : running[p] = Local
        /\ last.kind = "rollback" /\ ~last.named => pointer = last.from - 1

ServerInv ==
    /\ ServerTypes
    /\ \A s \in Scripts : StageOK(script[s])
    /\ SecretsSurvive
    /\ \A s \in Scripts : LoneOK(s)
    /\ RestOK

\* A script that runs keeps all the others from being alone.
LEMMA OthersNotAlone ==
    ASSUME ServerInv, NEW s \in Scripts, NEW t \in Scripts, t # s, script[s].at # "idle",
           script'[t] = script[t]
    PROVE  LoneOK(t)'
<1>1. LoneOK(t)
  BY DEF ServerInv
<1>2. ~(script[t].alone /\ script[t].at # "idle")
  BY <1>1 DEF LoneOK
<1> QED
  BY <1>2 DEF LoneOK

\* What is left to show of a command of script s.
LEMMA CommandKeeps ==
    ASSUME ServerInv, NEW s \in Scripts, NEW next \in ScriptRecord, script[s].at # "idle",
           script' = [script EXCEPT ![s] = next],
           env' \in [Lines -> Int], running' \in [Parts -> Int],
           releases' \in Seq([Parts -> Int]), pointer' \in 0 .. Len(releases'),
           line' \in Seq(Nat), started' \in Nat,
           Len(releases) <= Len(releases'), harm \subseteq harm',
           StageOK(script[s])', SecretsSurvive', LoneOK(s)', RestOK'
    PROVE  ServerInv'
<1>1. script \in [Scripts -> ScriptRecord] /\ Len(releases) \in Nat /\ Len(releases') \in Nat
  BY DEF ServerInv, ServerTypes
<1>2. ServerTypes'
  BY <1>1 DEF ServerTypes
<1>3. ASSUME NEW t \in Scripts
      PROVE  StageOK(script[t])' /\ LoneOK(t)'
  <2>1. CASE t = s
    BY <2>1
  <2>2. CASE t # s
    <3>1. script'[t] = script[t] /\ script[t] \in ScriptRecord
      BY <1>1, <2>2
    <3>2. LoneOK(t)'
      BY <2>2, <3>1, OthersNotAlone
    <3>3. StageOK(script[t])
      BY DEF ServerInv
    <3>4. script[t].file \in Nat /\ script[t].named \in Nat
      BY <3>1 DEF ScriptRecord
    <3>5. StageOK(script[t])'
      <4>1. script[t].file <= Len(releases) /\ script[t].named <= Len(releases)
        BY <3>3 DEF StageOK
      <4>2. PICK f \in Nat, g \in Nat, m \in Nat, n \in Nat :
              f = script[t].file /\ g = script[t].named /\ m = Len(releases) /\ n = Len(releases')
        BY <1>1, <3>4
      <4>3. f <= m /\ g <= m /\ m <= n => f <= n /\ g <= n
        OBVIOUS
      <4>4. script'[t].file <= Len(releases') /\ script'[t].named <= Len(releases')
        BY <3>1, <4>1, <4>2, <4>3
      <4>5. harm # {} => harm' # {}
        OBVIOUS
      <4> QED
        BY <3>1, <3>3, <4>4, <4>5 DEF StageOK
    <3> QED
      BY <3>2, <3>5
  <2> QED
    BY <2>1, <2>2
<1> QED
  BY <1>2, <1>3 DEF ServerInv

\* A script that goes on is not at rest.
LEMMA GoingOn ==
    ASSUME NEW s \in Scripts, script'[s].at # "idle"
    PROVE  RestOK'
BY DEF RestOK, AtRest

\* A script that has failed leaves nothing to show.
LEMMA Failing ==
    ASSUME NEW s \in Scripts, Exit(s, FALSE)
    PROVE  RestOK'
BY DEF RestOK, Exit, End

LEMMA NoScriptIs == NoScript \in ScriptRecord /\ NoScript.at = "idle" /\ NoScript.file = 0
                    /\ NoScript.named = 0 /\ NoScript.alone = TRUE
  BY DEF NoScript, ScriptRecord, Stages, Parts, Lines, Empty, Lost

\* Its end loses no secret, but for the moment when .env is empty.
LEMMA ExitKeeps ==
    ASSUME ServerInv, NEW s \in Scripts, NEW ok \in BOOLEAN, Exit(s, ok), script[s].at # "idle",
           UNCHANGED <<env, releases, started>>, running' \in [Parts -> Int],
           pointer' \in 0 .. Len(releases), line' \in Seq(Nat),
           harm \subseteq harm', script[s].at = "write" => harm' # {}, RestOK'
    PROVE  ServerInv'
<1>1. script \in [Scripts -> ScriptRecord]
  BY DEF ServerInv, ServerTypes
<1>2. script' = [script EXCEPT ![s] = NoScript] /\ script'[s] = NoScript
  BY <1>1 DEF Exit, Step
<1>3. StageOK(script[s])' /\ LoneOK(s)'
  <2>1. Len(releases) \in Nat /\ Len(releases') \in Nat
    BY DEF ServerInv, ServerTypes
  <2>2. PICK d : d = script'[s]
    OBVIOUS
  <2>3. d.at = "idle" /\ d.file = 0 /\ d.named = 0
    BY <1>2, <2>2, NoScriptIs
  <2>4. StageOK(script[s])'
    BY <2>1, <2>2, <2>3 DEF StageOK
  <2>5. LoneOK(s)'
    BY <2>2, <2>3 DEF LoneOK
  <2> QED
    BY <2>4, <2>5
<1>4. SecretsSurvive'
  <2>1. SUFFICES ASSUME env'["secrets"] = Lost, harm' = {}
                 PROVE  Emptied'
    BY DEF SecretsSurvive
  <2>2. PICK t \in Scripts : script[t].at = "write"
    BY <2>1 DEF ServerInv, SecretsSurvive, Emptied
  <2>3. t # s
    BY <2>1, <2>2
  <2> QED
    BY <1>1, <1>2, <2>2, <2>3 DEF Emptied
<1>5. env' \in [Lines -> Int] /\ releases' \in Seq([Parts -> Int]) /\ started' \in Nat
      /\ pointer' \in 0 .. Len(releases') /\ Len(releases) <= Len(releases')
  BY DEF ServerInv, ServerTypes
<1> QED
  BY <1>2, <1>3, <1>4, <1>5, NoScriptIs, CommandKeeps

LEMMA StartKeeps ==
    ASSUME ServerInv, NEW s \in Scripts, Start(s)
    PROVE  ServerInv'
<1>1. script \in [Scripts -> ScriptRecord] /\ started \in Nat /\ pointer \in Nat
      /\ Len(releases) \in Nat
  BY DEF ServerInv, ServerTypes
<1>2. PICK busy : busy = {t \in Scripts : script[t].at # "idle"}
  OBVIOUS
<1>3. PICK new : new = [NoScript EXCEPT !.at = "source", !.tag = started + 1, !.alone = busy = {},
                                        !.from = pointer]
  OBVIOUS
<1>4. UNCHANGED <<env, releases, pointer, running, line, harm>> /\ started' = started + 1
  BY DEF Start
<1>5. PICK how \in CommandLines :
        script' = [t \in Scripts |->
            IF t = s THEN [new EXCEPT !.kind = how.kind, !.args = how.args, !.named = how.named]
            ELSE [script[t] EXCEPT !.alone = @ /\ t \notin busy]]
  BY <1>2, <1>3, ZenonT(60) DEF Start
<1>6. how.kind \in {"deploy", "rollback", "build"} /\ how.args \in SUBSET Parts
      /\ how.named \in 0 .. Len(releases) /\ (how.kind # "deploy" => how.args = Parts)
  BY <1>1, <1>5 DEF CommandLines, Parts
<1>7. PICK c : c = [new EXCEPT !.kind = how.kind, !.args = how.args, !.named = how.named]
  OBVIOUS
<1>8. script'[s] = c /\ \A t \in Scripts \ {s} : script'[t] = [script[t] EXCEPT !.alone = @ /\ t \notin busy]
  BY <1>5, <1>7
<1>9. PICK free \in BOOLEAN : free = (busy = {})
  OBVIOUS
<1>10. new \in ScriptRecord /\ new.at = "source" /\ new.alone = free /\ new.from = pointer /\ new.file = 0
  <2>1. started + 1 \in Nat
    BY <1>1
  <2>2. new = [NoScript EXCEPT !.at = "source", !.tag = started + 1, !.alone = free, !.from = pointer]
    BY <1>3, <1>9
  <2> QED
    BY <1>1, <1>9, <2>1, <2>2, NoScriptIs DEF ScriptRecord, Stages
<1>11. c \in ScriptRecord /\ c.at = "source" /\ c.alone = free /\ c.from = pointer /\ c.file = 0
      /\ c.kind = how.kind /\ c.args = how.args /\ c.named = how.named
  <2>1. how.named \in Nat
    BY <1>1, <1>6
  <2> QED
    BY <1>6, <1>7, <1>10, <2>1 DEF ScriptRecord
<1>12. ASSUME NEW t \in Scripts \ {s}
       PROVE  /\ script'[t] \in ScriptRecord
              /\ StageOK(script[t])' /\ LoneOK(t)' /\ script'[t].at = script[t].at
  <2>1. PICK d : d = script[t]
    OBVIOUS
  <2>2. PICK e : e = [d EXCEPT !.alone = @ /\ t \notin busy]
    OBVIOUS
  <2>3. script'[t] = e /\ d \in ScriptRecord
    BY <1>1, <1>8, <2>1, <2>2
  <2>4. PICK b \in BOOLEAN : b = (d.alone /\ t \notin busy)
    OBVIOUS
  <2>5. e \in ScriptRecord /\ e.alone = b
        /\ e.at = d.at /\ e.kind = d.kind /\ e.args = d.args /\ e.named = d.named
        /\ e.file = d.file /\ e.left = d.left /\ e.tmp = d.tmp
    <3>1. e = [d EXCEPT !.alone = b]
      BY <2>2, <2>4
    <3> QED
      BY <2>3, <3>1 DEF ScriptRecord
  <2>6. StageOK(script[t])'
    <3>1. StageOK(d)
      BY <2>1 DEF ServerInv
    <3> QED
      BY <1>4, <2>3, <2>5, <3>1 DEF StageOK
  <2>7. d.at # "idle" => t \in busy
    BY <1>2, <2>1
  <2>8. LoneOK(t)'
    <3>1. e.at = "idle" \/ ~e.alone
      BY <2>4, <2>5, <2>7
    <3> QED
      BY <2>3, <3>1 DEF LoneOK
  <2> QED
    BY <2>1, <2>3, <2>5, <2>6, <2>8
<1>13. ServerTypes'
  <2>1. script' \in [Scripts -> ScriptRecord]
    <3>1. \A t \in Scripts : script'[t] \in ScriptRecord
      BY <1>8, <1>11, <1>12
    <3> QED
      BY <1>5, <3>1
  <2>2. started' \in Nat
    BY <1>1, <1>4
  <2> QED
    BY <1>4, <2>1, <2>2 DEF ServerInv, ServerTypes
<1>14. StageOK(script[s])'
  <2>1. c.named <= Len(releases) /\ c.file <= Len(releases)
    BY <1>1, <1>6, <1>11
  <2> QED
    BY <1>6, <1>8, <1>11, <1>4, <2>1 DEF StageOK
<1>15. LoneOK(s)'
  <2>1. c.alone => \A t \in Scripts \ {s} : script'[t].at = "idle"
    BY <1>2, <1>9, <1>11, <1>12
  <2> QED
    BY <1>8, <1>11, <1>4, <2>1 DEF LoneOK
<1>16. SecretsSurvive'
  <2>1. \A t \in Scripts : script[t].at = "write" => script'[t].at = "write"
    <3>1. script[s].at = "idle"
      BY DEF Start
    <3> QED
      BY <1>12, <3>1
  <2> QED
    BY <1>4, <2>1 DEF ServerInv, SecretsSurvive, Emptied
<1>17. RestOK'
  <2>1. script'[s].at # "idle"
    BY <1>8, <1>11
  <2> QED
    BY <2>1, GoingOn
<1> QED
  BY <1>12, <1>13, <1>14, <1>15, <1>16, <1>17 DEF ServerInv

\* A command that goes on keeps what is known of the secrets.
LEMMA SecretsKept ==
    ASSUME ServerInv, NEW s \in Scripts, NEW next,
           script' = [script EXCEPT ![s] = next], script[s].at # "write", env'["secrets"] = env["secrets"],
           harm \subseteq harm'
    PROVE  SecretsSurvive'
<1>1. SUFFICES ASSUME env["secrets"] = Lost, harm = {}
               PROVE  Emptied'
  BY DEF SecretsSurvive
<1>2. PICK t \in Scripts : script[t].at = "write"
  BY <1>1 DEF ServerInv, SecretsSurvive, Emptied
<1>3. script'[t] = script[t]
  BY <1>2 DEF ServerInv, ServerTypes
<1> QED
  BY <1>2, <1>3 DEF Emptied

LEMMA SourceKeeps ==
    ASSUME ServerInv, NEW s \in Scripts, Source(s)
    PROVE  ServerInv'
<1>1. PICK me : me = script[s]
  OBVIOUS
<1>2. me \in ScriptRecord /\ me.at = "source" /\ StageOK(me) /\ LoneOK(s)
      /\ env \in [Lines -> Int] /\ releases \in Seq([Parts -> Int]) /\ pointer \in 0 .. Len(releases)
      /\ Len(releases) \in Nat /\ script \in [Scripts -> ScriptRecord]
  BY <1>1 DEF ServerInv, ServerTypes, Source
<1>3. PICK target : target = IF me.named = 0 THEN Previous ELSE me.named
  OBVIOUS
<1>4. PICK image :
        image = CASE me.kind = "deploy" -> [p \in Parts |-> IF p \in me.args THEN me.tag ELSE InEnv(p)]
                  [] me.kind = "rollback" /\ target > 0 -> releases[target]
                  [] OTHER -> [p \in Parts |-> InEnv(p)]
  OBVIOUS
<1>5. PICK next :
        next = [me EXCEPT !.image = image, !.exported = Exported, !.left = me.args,
                          !.at = IF me.args = {} THEN "source again" ELSE "edit",
                          !.file = IF me.kind = "rollback" THEN target ELSE 0]
  OBVIOUS
<1>6. UNCHANGED <<env, releases, pointer, running, line, started, harm>>
  BY DEF Source
<1>7. \/ Exit(s, FALSE)
      \/ /\ script' = [script EXCEPT ![s] = next]
         /\ me.kind = "rollback" => ~(target <= 0)
         /\ me.kind # "build" => \A p \in Parts : image[p] # Empty
  BY <1>1, <1>3, <1>4, <1>5, ZenonT(60) DEF Source, Step
<1>8. CASE Exit(s, FALSE)
  <2>1. running' \in [Parts -> Int] /\ pointer' \in 0 .. Len(releases) /\ line' \in Seq(Nat)
    BY <1>6 DEF ServerInv, ServerTypes
  <2>2. RestOK'
    BY <1>8, Failing
  <2> QED
    BY <1>1, <1>2, <1>6, <1>8, <2>1, <2>2, ExitKeeps
<1>9. CASE /\ script' = [script EXCEPT ![s] = next]
           /\ me.kind = "rollback" => ~(target <= 0)
           /\ me.kind # "build" => \A p \in Parts : image[p] # Empty
  <2>1. me.named \in Nat /\ me.named <= Len(releases) /\ me.tag \in Nat /\ me.args \in SUBSET Parts
    BY <1>2 DEF ScriptRecord, StageOK
  <2>2. target \in Int /\ target <= Len(releases) /\ (me.named = 0 => target = pointer - 1)
    BY <1>2, <1>3, <2>1 DEF Previous
  <2>3. me.kind = "rollback" => target \in 1 .. Len(releases) /\ target \in DOMAIN releases
    BY <1>2, <1>9, <2>2
  <2>4. \A p \in Parts : InEnv(p) \in Int
    BY <1>2 DEF InEnv, Lines, Empty
  <2>5. image \in [Parts -> Int] /\ (me.kind = "rollback" => image = releases[target])
    <3>1. CASE me.kind = "deploy"
      BY <1>4, <2>1, <2>4, <3>1
    <3>2. CASE me.kind = "rollback"
      BY <1>2, <1>4, <2>3, <3>2
    <3>3. CASE me.kind \notin {"deploy", "rollback"}
      BY <1>4, <2>4, <3>3
    <3> QED
      BY <3>1, <3>2, <3>3
  <2>6. Exported \in SUBSET Parts
    BY DEF Exported
  <2>7. next \in ScriptRecord /\ next.kind = me.kind /\ next.alone = me.alone /\ next.from = me.from
        /\ next.named = me.named /\ next.image = image /\ next.left = me.args
        /\ next.at = (IF me.args = {} THEN "source again" ELSE "edit")
        /\ next.file = (IF me.kind = "rollback" THEN target ELSE 0)
    <3>1. (IF me.kind = "rollback" THEN target ELSE 0) \in Nat
      BY <1>2, <2>2, <2>3
    <3>2. (IF me.args = {} THEN "source again" ELSE "edit") \in Stages
      BY DEF Stages
    <3> QED
      BY <1>2, <1>5, <2>1, <2>5, <2>6, <3>1, <3>2 DEF ScriptRecord
  <2>8. script'[s] = next
    BY <1>2, <1>9
  <2>9. me.args = {} => me.kind = "deploy"
    BY <1>2 DEF StageOK, Parts
  <2>10. StageOK(script[s])'
    <3>1. next.file <= Len(releases) /\ next.named <= Len(releases)
      <4>1. next.file = target \/ next.file = 0
        BY <2>7
      <4>2. 0 <= Len(releases)
        BY <1>2
      <4> QED
        BY <2>1, <2>2, <2>7, <4>1, <4>2
    <3>2. me.kind # "none"
      BY <1>2 DEF StageOK
    <3> QED
      BY <1>6, <2>7, <2>8, <2>9, <3>1, <3>2 DEF StageOK
  <2>11. LoneOK(s)'
    <3>1. SUFFICES ASSUME me.alone PROVE LoneOK(s)'
      BY <2>7, <2>8 DEF LoneOK
    <3>2. (\A t \in Scripts \ {s} : script[t].at = "idle") /\ me.from = pointer
      BY <1>1, <1>2, <3>1 DEF LoneOK
    <3>3. \A t \in Scripts \ {s} : script'[t].at = "idle"
      BY <1>2, <1>9, <3>2
    <3>4. \A p \in Parts \ me.args : me.kind = "deploy" => env[p] = image[p]
      BY <1>4, <1>9 DEF InEnv
    <3>5. me.kind # "deploy" => me.args = Parts
      BY <1>2 DEF StageOK
    <3>6. \A p \in Parts \ next.left : env'[p] = ValueOf(next, p)
      BY <1>6, <2>7, <3>4, <3>5 DEF ValueOf
    <3>7. next.at = "source again" => \A p \in Parts : env'[p] = ValueOf(next, p)
      BY <2>7, <3>6
    <3>8. next.kind = "rollback" =>
             /\ next.file \in DOMAIN releases' /\ releases'[next.file] = next.image
             /\ next.named = 0 => next.file = next.from - 1
      BY <1>6, <2>2, <2>3, <2>5, <2>7, <3>2
    <3>9. next.at \in {"edit", "source again"}
      BY <2>7
    <3> QED
      BY <1>6, <2>7, <2>8, <3>2, <3>3, <3>6, <3>7, <3>8, <3>9 DEF LoneOK
  <2>12. SecretsSurvive'
    BY <1>1, <1>2, <1>6, <1>9, SecretsKept
  <2>13. RestOK'
    <3>1. script'[s].at # "idle"
      BY <2>7, <2>8
    <3> QED
      BY <3>1, GoingOn
  <2>14. env' \in [Lines -> Int] /\ running' \in [Parts -> Int] /\ releases' \in Seq([Parts -> Int])
         /\ pointer' \in 0 .. Len(releases') /\ line' \in Seq(Nat) /\ started' \in Nat
         /\ Len(releases) <= Len(releases') /\ harm \subseteq harm'
    BY <1>2, <1>6 DEF ServerInv, ServerTypes
  <2> QED
    BY <1>1, <1>2, <1>9, <2>7, <2>10, <2>11, <2>12, <2>13, <2>14, CommandKeeps
<1> QED
  BY <1>7, <1>8, <1>9

\* The facts each command starts from.
LEMMA RunningScript ==
    ASSUME ServerInv, NEW s \in Scripts
    PROVE  /\ script[s] \in ScriptRecord /\ StageOK(script[s]) /\ LoneOK(s) /\ SecretsSurvive
           /\ script \in [Scripts -> ScriptRecord]
           /\ env \in [Lines -> Int] /\ running \in [Parts -> Int]
           /\ releases \in Seq([Parts -> Int]) /\ pointer \in 0 .. Len(releases)
           /\ Len(releases) \in Nat /\ line \in Seq(Nat) /\ started \in Nat
BY DEF ServerInv, ServerTypes

LEMMA PartToWrite ==
    ASSUME NEW c, c.left \in SUBSET Parts, c.left # {}
    PROVE  ToWrite(c) \in c.left /\ ToWrite(c) \in Parts /\ ToWrite(c) \in Lines /\ ToWrite(c) # "secrets"
BY DEF ToWrite, Parts, Lines

\* LoneOK, stage by stage, of a script that has got to c.
LEMMA LoneEditing ==
    ASSUME NEW s \in Scripts, NEW c, c = script'[s], c.at = "edit", UNCHANGED <<releases, pointer>>,
           \A t \in Scripts \ {s} : script'[t].at = "idle",
           c.from = pointer,
           c.kind = "rollback" =>
               /\ c.file \in DOMAIN releases /\ releases[c.file] = c.image
               /\ c.named = 0 => c.file = c.from - 1,
           \A p \in Parts \ c.left : env'[p] = ValueOf(c, p)
    PROVE  LoneOK(s)'
BY DEF LoneOK

LEMMA LoneCopying ==
    ASSUME NEW s \in Scripts, NEW c, c = script'[s], c.at \in {"empty", "write"},
           UNCHANGED <<releases, pointer>>,
           \A t \in Scripts \ {s} : script'[t].at = "idle",
           c.from = pointer,
           c.kind = "rollback" =>
               /\ c.file \in DOMAIN releases /\ releases[c.file] = c.image
               /\ c.named = 0 => c.file = c.from - 1,
           c.at = "empty" => \A p \in Parts \ c.left : env'[p] = ValueOf(c, p),
           \A p \in (Parts \ c.left) \cup {ToWrite(c)} : c.tmp[p] = ValueOf(c, p)
    PROVE  LoneOK(s)'
<1>1. ToWrite(script'[s]) = ToWrite(c) /\ \A p : ValueOf(script'[s], p) = ValueOf(c, p)
  OBVIOUS
<1> QED
  BY <1>1 DEF LoneOK

\* One more line is in .env.
LEMMA DoneKeeps ==
    ASSUME ServerInv, NEW s \in Scripts, NEW me, me = script[s], me.at \in {"edit", "write"},
           NEW next, next = Done(me, ToWrite(me)),
           script' = [script EXCEPT ![s] = next],
           env' \in [Lines -> Int], UNCHANGED <<releases, pointer, running, line, started>>,
           harm \subseteq harm', SecretsSurvive',
           me.alone => \A p \in (Parts \ me.left) \cup {ToWrite(me)} : env'[p] = ValueOf(me, p)
    PROVE  ServerInv'
<1>1. me \in ScriptRecord /\ StageOK(me) /\ LoneOK(s) /\ script \in [Scripts -> ScriptRecord]
      /\ releases \in Seq([Parts -> Int]) /\ Len(releases) \in Nat
  BY RunningScript
<1>2. PICK l : l = ToWrite(me)
  OBVIOUS
<1>3. me.left \in SUBSET Parts /\ me.left # {} /\ l \in me.left /\ l \in Parts
  <2>1. me.left \in SUBSET Parts /\ me.left # {}
    BY <1>1 DEF ScriptRecord, StageOK
  <2> QED
    BY <1>2, <2>1, PartToWrite
<1>4. PICK stage : stage = IF me.left = {l} THEN AfterEdits(me) ELSE "edit"
  OBVIOUS
<1>5. stage \in {"source again", "pull", "up", "edit"} /\ (stage = "source again" => me.kind = "deploy")
      /\ (stage = "pull" => me.kind # "build") /\ (stage # "edit" => me.left = {l})
      /\ (stage = "edit" => me.left # {l})
  BY <1>4 DEF AfterEdits
<1>6. next = [me EXCEPT !.left = @ \ {l}, !.tmp = NoScript.tmp, !.at = stage]
  BY <1>2, <1>4 DEF Done
<1>7. next \in ScriptRecord /\ next.at = stage /\ next.left = me.left \ {l} /\ next.kind = me.kind
      /\ next.image = me.image /\ next.alone = me.alone /\ next.from = me.from /\ next.named = me.named
      /\ next.file = me.file
  <2>1. me.left \ {l} \in SUBSET Parts /\ NoScript.tmp \in [Lines -> Int] /\ stage \in Stages
    BY <1>3, <1>5, NoScriptIs DEF ScriptRecord, Stages
  <2>2. next.at = stage /\ next.left = me.left \ {l} /\ next.kind = me.kind
        /\ next.image = me.image /\ next.alone = me.alone /\ next.from = me.from /\ next.named = me.named
        /\ next.file = me.file
    BY <1>1, <1>6 DEF ScriptRecord
  <2>3. me \in ScriptRecord
    BY <1>1
  <2>4. [me EXCEPT !.left = @ \ {l}, !.tmp = NoScript.tmp, !.at = stage] \in ScriptRecord
    BY ONLY <2>1, <2>3 DEF ScriptRecord
  <2> QED
    BY <2>2, <2>4, <1>6
<1>8. script'[s] = next
  BY <1>1
<1>9. StageOK(script[s])'
  <2>1. stage = "edit" => next.left # {}
    BY <1>3, <1>5, <1>7
  <2> QED
    BY <1>1, <1>5, <1>7, <1>8, <2>1 DEF StageOK
<1>10. LoneOK(s)'
  <2>1. SUFFICES ASSUME me.alone PROVE LoneOK(s)'
    BY <1>7, <1>8 DEF LoneOK
  <2>2. /\ \A t \in Scripts \ {s} : script[t].at = "idle"
        /\ me.from = pointer
        /\ me.kind = "rollback" =>
              /\ me.file \in DOMAIN releases /\ releases[me.file] = me.image
              /\ me.named = 0 => me.file = me.from - 1
    BY <1>1, <2>1 DEF LoneOK
  <2>3. \A t \in Scripts \ {s} : script'[t].at = "idle"
    BY <1>1, <2>2
  <2>4. \A p \in Parts \ next.left : env'[p] = ValueOf(next, p)
    <3>1. \A p : ValueOf(next, p) = ValueOf(me, p)
      BY <1>7 DEF ValueOf
    <3>2. \A p \in Parts \ next.left : p \in (Parts \ me.left) \cup {ToWrite(me)}
      BY <1>2, <1>3, <1>7
    <3> QED
      BY <2>1, <3>1, <3>2
  <2>5. stage # "edit" => \A p \in Parts : env'[p] = ValueOf(next, p)
    BY <1>5, <1>7, <2>4
  <2>6. me.kind = "deploy" => stage \notin {"pull", "up"}
    BY <1>4, <1>5 DEF AfterEdits
  <2>7. CASE stage = "edit"
    BY <1>7, <1>8, <2>2, <2>3, <2>4, <2>7, LoneEditing
  <2>8. CASE stage # "edit"
    <3>1. PICK c : c = next
      OBVIOUS
    <3>2. c.at \in {"source again", "record", "record more", "pull", "up", "point"}
      BY <1>5, <1>7, <2>8, <3>1
    <3>3. c.kind = "rollback" =>
             /\ c.file \in DOMAIN releases' /\ releases'[c.file] = c.image
             /\ c.named = 0 => c.file = c.from - 1
      BY <1>7, <2>2, <3>1
    <3>4. \A p \in Parts : env'[p] = ValueOf(c, p)
      BY <2>5, <2>8, <3>1
    <3>5. c.kind = "deploy" /\ c.at \in {"pull", "up", "point"} =>
             c.file \in DOMAIN releases' /\ releases'[c.file] = c.image
      BY <1>5, <1>7, <2>6, <3>1
    <3>6. c.at = "point" => running' = c.image
      BY <1>5, <1>7, <3>1
    <3>7. pointer' = pointer /\ c.from = pointer
      BY <1>7, <2>2, <3>1
    <3>8. c = script'[s]
      BY <1>8, <3>1
    <3> QED
      BY <3>8, <2>3, <3>2, <3>3, <3>4, <3>5, <3>6, <3>7 DEF LoneOK
  <2> QED
    BY <2>7, <2>8
<1>11. RestOK'
  <2>1. script'[s].at # "idle"
    BY <1>5, <1>7, <1>8
  <2> QED
    BY <2>1, GoingOn
<1>12. running' \in [Parts -> Int] /\ releases' \in Seq([Parts -> Int]) /\ pointer' \in 0 .. Len(releases')
       /\ line' \in Seq(Nat) /\ started' \in Nat /\ Len(releases) <= Len(releases')
  BY RunningScript
<1> QED
  BY <1>7, <1>9, <1>10, <1>11, <1>12, CommandKeeps

LEMMA EditKeeps ==
    ASSUME ServerInv, NEW s \in Scripts, Edit(s)
    PROVE  ServerInv'
<1>1. PICK me : me = script[s]
  OBVIOUS
<1>2. me \in ScriptRecord /\ me.at = "edit" /\ StageOK(me) /\ LoneOK(s) /\ SecretsSurvive
      /\ env \in [Lines -> Int] /\ script \in [Scripts -> ScriptRecord]
  BY <1>1, RunningScript DEF Edit
<1>3. PICK l : l = ToWrite(me)
  OBVIOUS
<1>4. me.left \in SUBSET Parts /\ me.left # {} /\ l \in me.left /\ l \in Parts /\ l \in Lines /\ l # "secrets"
  <2>1. me.left \in SUBSET Parts /\ me.left # {}
    BY <1>2 DEF ScriptRecord, StageOK
  <2> QED
    BY <1>3, <2>1, PartToWrite
<1>5. PICK value : value = ValueOf(me, l)
  OBVIOUS
<1>6. value \in Int
  BY <1>2, <1>4, <1>5, RolloutsAssumption DEF ValueOf, Local, ScriptRecord
<1>7. UNCHANGED <<releases, pointer, running, last, line, started>> /\ harm \subseteq harm'
      /\ (Emptied => harm' # {})
  BY DEF Edit
<1>8. \/ env' = [env EXCEPT ![l] = value] /\ script' = [script EXCEPT ![s] = Done(me, l)]
      \/ /\ script' = [script EXCEPT ![s] = [me EXCEPT !.tmp = Edited(l, value), !.at = "empty"]]
         /\ env' = env
  BY <1>1, <1>3, <1>5 DEF Edit, Step, ValueOf
<1>9. \A p \in Parts \ me.left : me.alone => env[p] = ValueOf(me, p)
  BY <1>1, <1>2 DEF LoneOK
<1>10. \A p \in (Parts \ me.left) \cup {l} : me.alone => [env EXCEPT ![l] = value][p] = ValueOf(me, p)
  BY <1>2, <1>4, <1>5, <1>9 DEF Lines
<1>11. [env EXCEPT ![l] = value] \in [Lines -> Int] /\ [env EXCEPT ![l] = value]["secrets"] = env["secrets"]
  BY <1>2, <1>4, <1>6 DEF Lines
<1>12. CASE env' = [env EXCEPT ![l] = value] /\ script' = [script EXCEPT ![s] = Done(me, l)]
  <2>1. PICK next : next = Done(me, l)
    OBVIOUS
  <2>2. SecretsSurvive'
    BY <1>1, <1>2, <1>7, <1>11, <1>12, SecretsKept
  <2>3. env' \in [Lines -> Int]
    BY <1>11, <1>12
  <2>4. me.alone => \A p \in (Parts \ me.left) \cup {ToWrite(me)} : env'[p] = ValueOf(me, p)
    BY <1>3, <1>10, <1>12
  <2> QED
    <3>1. next = Done(me, ToWrite(me)) /\ me.at \in {"edit", "write"}
      BY <1>2, <1>3, <2>1
    <3>2. script' = [script EXCEPT ![s] = next]
      BY <1>12, <2>1
    <3>3. UNCHANGED <<releases, pointer, running, line, started>> /\ harm \subseteq harm'
      BY <1>7
    <3> QED
      BY <1>1, <2>2, <2>3, <2>4, <3>1, <3>2, <3>3, DoneKeeps
<1>13. CASE /\ script' = [script EXCEPT ![s] = [me EXCEPT !.tmp = Edited(l, value), !.at = "empty"]]
            /\ env' = env
  <2>1. PICK next : next = [me EXCEPT !.tmp = Edited(l, value), !.at = "empty"]
    OBVIOUS
  <2>2. next \in ScriptRecord /\ next.at = "empty" /\ next.tmp = [env EXCEPT ![l] = value]
        /\ next.left = me.left /\ next.kind = me.kind /\ next.image = me.image /\ next.alone = me.alone
        /\ next.from = me.from /\ next.named = me.named /\ next.file = me.file
    <3>1. Edited(l, value) = [env EXCEPT ![l] = value]
      BY DEF Edited
    <3> QED
      BY <1>2, <1>11, <2>1, <3>1 DEF ScriptRecord, Stages
  <2>3. script'[s] = next
    BY <1>2, <1>13, <2>1
  <2>4. SecretsSurvive'
    BY <1>1, <1>2, <1>7, <1>13, SecretsKept
  <2>5. StageOK(script[s])'
    <3>1. next.tmp["secrets"] = Lost => harm' # {}
      BY <1>2, <1>7, <1>11, <2>2 DEF SecretsSurvive
    <3> QED
      BY <1>2, <1>4, <1>7, <2>2, <2>3, <3>1 DEF StageOK
  <2>6. LoneOK(s)'
    <3>1. SUFFICES ASSUME me.alone PROVE LoneOK(s)'
      BY <2>2, <2>3 DEF LoneOK
    <3>2. /\ \A t \in Scripts \ {s} : script[t].at = "idle"
          /\ me.from = pointer
          /\ me.kind = "rollback" =>
                /\ me.file \in DOMAIN releases /\ releases[me.file] = me.image
                /\ me.named = 0 => me.file = me.from - 1
      BY <1>1, <1>2, <3>1 DEF LoneOK
    <3>3. \A t \in Scripts \ {s} : script'[t].at = "idle"
      BY <1>2, <1>13, <3>2
    <3>4. \A p : ValueOf(next, p) = ValueOf(me, p)
      BY <2>2 DEF ValueOf
    <3>5. ToWrite(next) = l
      BY <1>3, <2>2 DEF ToWrite
    <3>6. \A p \in (Parts \ next.left) \cup {ToWrite(next)} : next.tmp[p] = ValueOf(next, p)
      BY <1>10, <2>2, <3>1, <3>4, <3>5
    <3>7. \A p \in Parts \ next.left : env'[p] = ValueOf(next, p)
      BY <1>9, <1>13, <2>2, <3>1, <3>4
    <3>8. UNCHANGED <<releases, pointer>> /\ next = script'[s] /\ next.from = pointer
          /\ next.at \in {"empty", "write"}
      BY <1>7, <2>2, <2>3, <3>2
    <3>9. next.kind = "rollback" =>
             /\ next.file \in DOMAIN releases /\ releases[next.file] = next.image
             /\ next.named = 0 => next.file = next.from - 1
      BY <2>2, <3>2
    <3> QED
      BY <3>3, <3>6, <3>7, <3>8, <3>9, LoneCopying, Zenon
  <2>7. RestOK'
    <3>1. script'[s].at # "idle"
      BY <2>2, <2>3
    <3> QED
      BY <3>1, GoingOn
  <2>8. env' \in [Lines -> Int] /\ running' \in [Parts -> Int] /\ releases' \in Seq([Parts -> Int])
        /\ pointer' \in 0 .. Len(releases') /\ line' \in Seq(Nat) /\ started' \in Nat
        /\ Len(releases) <= Len(releases')
    BY <1>7, <1>13, RunningScript
  <2> QED
    BY <1>1, <1>2, <1>7, <1>13, <2>1, <2>2, <2>4, <2>5, <2>6, <2>7, <2>8, CommandKeeps
<1> QED
  BY <1>8, <1>12, <1>13

LEMMA EmptyFileKeeps ==
    ASSUME ServerInv, NEW s \in Scripts, EmptyFile(s)
    PROVE  ServerInv'
<1>1. PICK me : me = script[s]
  OBVIOUS
<1>2. me \in ScriptRecord /\ me.at = "empty" /\ StageOK(me) /\ LoneOK(s)
      /\ script \in [Scripts -> ScriptRecord] /\ Len(releases) \in Nat
  BY <1>1, RunningScript DEF EmptyFile
<1>3. UNCHANGED <<releases, pointer, running, last, line, started, harm>> /\ env' = [l \in Lines |-> Lost]
  BY DEF EmptyFile
<1>4. PICK next : next = [me EXCEPT !.at = "write"]
  OBVIOUS
<1>5. next \in ScriptRecord /\ next.at = "write" /\ next.tmp = me.tmp
      /\ next.left = me.left /\ next.kind = me.kind /\ next.image = me.image /\ next.alone = me.alone
      /\ next.from = me.from /\ next.named = me.named /\ next.file = me.file
  BY <1>2, <1>4 DEF ScriptRecord, Stages
<1>6. script' = [script EXCEPT ![s] = next] /\ script'[s] = next
  BY <1>1, <1>2, <1>4 DEF EmptyFile, Step
<1>7. SecretsSurvive'
  BY <1>5, <1>6 DEF SecretsSurvive, Emptied
<1>8. StageOK(script[s])'
  BY <1>2, <1>3, <1>5, <1>6 DEF StageOK
<1>9. LoneOK(s)'
  <2>1. SUFFICES ASSUME me.alone PROVE LoneOK(s)'
    BY <1>5, <1>6 DEF LoneOK
  <2>2. /\ \A t \in Scripts \ {s} : script[t].at = "idle"
        /\ me.from = pointer
        /\ me.kind = "rollback" =>
              /\ me.file \in DOMAIN releases /\ releases[me.file] = me.image
              /\ me.named = 0 => me.file = me.from - 1
    BY <1>1, <1>2, <2>1 DEF LoneOK
  <2>3. \A t \in Scripts \ {s} : script'[t].at = "idle"
    BY <1>2, <1>6, <2>2
  <2>4. ToWrite(next) = ToWrite(me) /\ \A p : ValueOf(next, p) = ValueOf(me, p)
    BY <1>5 DEF ToWrite, ValueOf
  <2>5. \A p \in (Parts \ next.left) \cup {ToWrite(next)} : next.tmp[p] = ValueOf(next, p)
    <3>1. \A p \in (Parts \ me.left) \cup {ToWrite(me)} : me.tmp[p] = ValueOf(me, p)
      BY <1>1, <1>2, <2>1 DEF LoneOK
    <3> QED
      BY <1>5, <2>4, <3>1
  <2>6. UNCHANGED <<releases, pointer>>
    BY <1>3
  <2> QED
    BY <1>5, <1>6, <2>2, <2>3, <2>5, <2>6, LoneCopying
<1>10. RestOK'
  <2>1. script'[s].at # "idle"
    BY <1>5, <1>6
  <2> QED
    BY <2>1, GoingOn
<1>11. env' \in [Lines -> Int] /\ running' \in [Parts -> Int] /\ releases' \in Seq([Parts -> Int])
       /\ pointer' \in 0 .. Len(releases') /\ line' \in Seq(Nat) /\ started' \in Nat
       /\ Len(releases) <= Len(releases') /\ harm \subseteq harm'
  BY <1>3, RunningScript DEF Lost
<1> QED
  BY <1>1, <1>2, <1>5, <1>6, <1>7, <1>8, <1>9, <1>10, <1>11, CommandKeeps

LEMMA WriteKeeps ==
    ASSUME ServerInv, NEW s \in Scripts, Write(s)
    PROVE  ServerInv'
<1>1. PICK me : me = script[s]
  OBVIOUS
<1>2. me \in ScriptRecord /\ me.at = "write" /\ StageOK(me) /\ LoneOK(s)
  BY <1>1, RunningScript DEF Write
<1>3. UNCHANGED <<releases, pointer, running, last, line, started, harm>> /\ env' = me.tmp
  BY <1>1 DEF Write
<1>4. PICK next : next = Done(me, ToWrite(me))
  OBVIOUS
<1>5. script' = [script EXCEPT ![s] = next]
  BY <1>1, <1>4 DEF Write, Step
<1>6. env' \in [Lines -> Int]
  BY <1>2, <1>3 DEF ScriptRecord
<1>7. SecretsSurvive'
  BY <1>2, <1>3 DEF SecretsSurvive, StageOK
<1>8. me.alone => \A p \in (Parts \ me.left) \cup {ToWrite(me)} : env'[p] = ValueOf(me, p)
  BY <1>1, <1>2, <1>3 DEF LoneOK
<1> QED
  BY <1>1, <1>2, <1>3, <1>4, <1>5, <1>6, <1>7, <1>8, DoneKeeps

\* The commands that follow once the images are in .env, and what a script that
\* is alone has left when it comes to them.
Afterwards == {"source again", "record", "record more", "pull", "up", "point"}

LeftBy(c) ==
    /\ \A p \in Parts : env[p] = ValueOf(c, p)
    /\ c.kind = "rollback" =>
          /\ c.file \in DOMAIN releases /\ releases[c.file] = c.image
          /\ c.named = 0 => c.file = c.from - 1
    /\ c.kind = "deploy" /\ c.at \in {"pull", "up", "point"} =>
          c.file \in DOMAIN releases /\ releases[c.file] = c.image
    /\ c.at = "point" => running = c.image

LEMMA LoneAfterwards ==
    ASSUME ServerInv, NEW s \in Scripts, NEW me, me = script[s], me.at \in Afterwards, me.alone
    PROVE  (\A t \in Scripts \ {s} : script[t].at = "idle") /\ me.from = pointer /\ LeftBy(me)
<1>1. LoneOK(s)
  BY RunningScript
<1>2. me.at # "idle" /\ me.at # "source"
  BY DEF Afterwards
<1> QED
  BY <1>1, <1>2 DEF LoneOK, Afterwards, LeftBy

\* The next of these commands: .env and what runs at the beginning of it are as
\* the script has left them.
LEMMA AfterwardsKeeps ==
    ASSUME ServerInv, NEW s \in Scripts, NEW me, me = script[s], me.at \in Afterwards,
           NEW next \in ScriptRecord, next.at \in Afterwards,
           next.kind = me.kind, next.alone = me.alone, next.from = me.from, next.named = me.named,
           script' = [script EXCEPT ![s] = next],
           UNCHANGED <<env, pointer, started, harm>>,
           running' \in [Parts -> Int], releases' \in Seq([Parts -> Int]), line' \in Seq(Nat),
           Len(releases) <= Len(releases'), StageOK(next)', me.alone => LeftBy(next)'
    PROVE  ServerInv'
<1>1. me.at # "idle" /\ me.at # "write" /\ script \in [Scripts -> ScriptRecord]
  BY RunningScript DEF Afterwards
<1>2. script'[s] = next
  BY <1>1
<1>3. StageOK(script[s])'
  BY <1>2 DEF StageOK
<1>4. LoneOK(s)'
  <2>1. PICK c : c = next
    OBVIOUS
  <2>2. c = script'[s] /\ c.at \in Afterwards /\ c.alone = me.alone
    BY <1>2, <2>1
  <2>3. SUFFICES ASSUME me.alone PROVE LoneOK(s)'
    BY <2>2 DEF LoneOK
  <2>4. (\A t \in Scripts \ {s} : script[t].at = "idle") /\ me.from = pointer
    BY <2>3, LoneAfterwards
  <2>5. \A t \in Scripts \ {s} : script'[t].at = "idle"
    BY <1>1, <2>4
  <2>6. \A p \in Parts : env'[p] = ValueOf(c, p)
    BY <2>1, <2>3 DEF LeftBy
  <2>7. c.kind = "rollback" =>
            /\ c.file \in DOMAIN releases' /\ releases'[c.file] = c.image
            /\ c.named = 0 => c.file = c.from - 1
    BY <2>1, <2>3 DEF LeftBy
  <2>8. c.kind = "deploy" /\ c.at \in {"pull", "up", "point"} =>
            c.file \in DOMAIN releases' /\ releases'[c.file] = c.image
    BY <2>1, <2>3 DEF LeftBy
  <2>9. c.at = "point" => running' = c.image
    BY <2>1, <2>3 DEF LeftBy
  <2>10. pointer' = pointer /\ c.from = pointer
    BY <2>1, <2>4
  <2>11. c.at \notin {"edit", "empty", "write", "idle", "source"}
    BY <2>2 DEF Afterwards
  <2> QED
    BY <2>2, <2>5, <2>6, <2>7, <2>8, <2>9, <2>10, <2>11 DEF LoneOK
<1>5. SecretsSurvive'
  BY <1>1, SecretsKept
<1>6. RestOK'
  <2>1. script'[s].at # "idle"
    BY <1>2 DEF Afterwards
  <2> QED
    BY <2>1, GoingOn
<1>7. env' \in [Lines -> Int] /\ pointer' \in 0 .. Len(releases') /\ started' \in Nat
  <2>1. pointer \in 0 .. Len(releases) /\ Len(releases) \in Nat /\ Len(releases') \in Nat
    BY RunningScript
  <2>2. pointer \in 0 .. Len(releases')
    BY <2>1
  <2> QED
    BY <2>2, RunningScript
<1> QED
  BY <1>1, <1>3, <1>4, <1>5, <1>6, <1>7, CommandKeeps

LEMMA SourceAgainKeeps ==
    ASSUME ServerInv, NEW s \in Scripts, SourceAgain(s)
    PROVE  ServerInv'
<1>1. PICK me : me = script[s]
  OBVIOUS
<1>2. me \in ScriptRecord /\ me.at = "source again" /\ me.at \in Afterwards /\ StageOK(me)
      /\ me.kind = "deploy" /\ env \in [Lines -> Int]
  BY <1>1, RunningScript DEF SourceAgain, Afterwards, StageOK
<1>3. UNCHANGED <<env, releases, pointer, running, line, started, harm>>
  BY DEF SourceAgain
<1>4. PICK image : image = [p \in Parts |-> IF env[p] = Lost THEN me.image[p] ELSE env[p]]
  OBVIOUS
<1>5. PICK next : next = [me EXCEPT !.image = image, !.exported = me.exported \cup Exported, !.at = "record"]
  OBVIOUS
<1>6. script' = [script EXCEPT ![s] = next]
  BY <1>1, <1>4, <1>5 DEF SourceAgain, Step
<1>7. next \in ScriptRecord /\ next.at = "record" /\ next.image = image
      /\ next.kind = me.kind /\ next.alone = me.alone
      /\ next.from = me.from /\ next.named = me.named /\ next.file = me.file
  <2>1. image \in [Parts -> Int]
    BY <1>2, <1>4 DEF ScriptRecord, Lines
  <2>2. me.exported \cup Exported \in SUBSET Parts
    BY <1>2 DEF ScriptRecord, Exported
  <2> QED
    BY <1>2, <1>5, <2>1, <2>2 DEF ScriptRecord, Stages
<1>8. StageOK(next)'
  BY <1>2, <1>3, <1>7 DEF StageOK
<1>9. me.alone => \A p \in Parts : env[p] = ValueOf(next, p)
  <2>1. me.alone => \A p \in Parts : env[p] = me.image[p]
    BY <1>1, <1>2, LoneAfterwards DEF LeftBy, ValueOf
  <2>2. \A p \in Parts : ValueOf(next, p) = image[p]
    BY <1>2, <1>7 DEF ValueOf
  <2>3. \A p \in Parts : env[p] = me.image[p] => image[p] = env[p]
    BY <1>4
  <2> QED
    BY <2>1, <2>2, <2>3
<1>10. next.at \in Afterwards /\ next.kind # "rollback" /\ next.at \notin {"pull", "up", "point"}
  BY <1>2, <1>7 DEF Afterwards
<1>11. me.alone => LeftBy(next)'
  BY <1>3, <1>9, <1>10 DEF LeftBy
<1>12. running' \in [Parts -> Int] /\ releases' \in Seq([Parts -> Int]) /\ line' \in Seq(Nat)
       /\ Len(releases) <= Len(releases')
  BY <1>3, RunningScript
<1> QED
  BY <1>1, <1>2, <1>3, <1>6, <1>7, <1>8, <1>10, <1>11, <1>12, AfterwardsKeeps

LEMMA RecordKeeps ==
    ASSUME ServerInv, NEW s \in Scripts, Record(s)
    PROVE  ServerInv'
<1>1. PICK me : me = script[s]
  OBVIOUS
<1>2. me \in ScriptRecord /\ StageOK(me) /\ releases \in Seq([Parts -> Int]) /\ Len(releases) \in Nat
  BY <1>1, RunningScript
<1>3. UNCHANGED <<env, pointer, running, line, started, harm>>
  BY DEF Record
<1>4. \/ /\ me.at = "record"
         /\ releases' = Append(releases, [me.image EXCEPT !["keycloak"] = Empty])
         /\ script' = [script EXCEPT ![s] = [me EXCEPT !.file = Len(releases) + 1, !.at = "record more"]]
      \/ /\ me.at = "record more"
         /\ releases' = [releases EXCEPT ![me.file] = me.image]
         /\ script' = [script EXCEPT ![s] = [me EXCEPT !.at = "pull"]]
  BY <1>1 DEF Record, Step
<1>5. me.at \in Afterwards /\ me.kind = "deploy"
  BY <1>2, <1>4 DEF Afterwards, StageOK
<1>6. me.alone => \A p \in Parts : env[p] = ValueOf(me, p)
  BY <1>1, <1>5, LoneAfterwards DEF LeftBy
<1>7. running' \in [Parts -> Int] /\ line' \in Seq(Nat)
  BY <1>3, RunningScript
<1>8. CASE /\ me.at = "record"
           /\ releases' = Append(releases, [me.image EXCEPT !["keycloak"] = Empty])
           /\ script' = [script EXCEPT ![s] = [me EXCEPT !.file = Len(releases) + 1, !.at = "record more"]]
  <2>1. PICK next : next = [me EXCEPT !.file = Len(releases) + 1, !.at = "record more"]
    OBVIOUS
  <2>2. next \in ScriptRecord /\ next.at = "record more" /\ next.image = me.image
        /\ next.kind = me.kind /\ next.alone = me.alone
        /\ next.from = me.from /\ next.named = me.named /\ next.file = Len(releases) + 1
    <3>1. Len(releases) + 1 \in Nat
      BY <1>2
    <3> QED
      BY <1>2, <2>1, <3>1 DEF ScriptRecord, Stages
  <2>3. releases' \in Seq([Parts -> Int]) /\ Len(releases') = Len(releases) + 1
    <3>1. [me.image EXCEPT !["keycloak"] = Empty] \in [Parts -> Int]
      BY <1>2 DEF ScriptRecord, Parts, Empty
    <3> QED
      BY <1>2, <1>8, <3>1
  <2>4. StageOK(next)'
    <3>1. next.file <= Len(releases') /\ next.named <= Len(releases') /\ next.file # 0
      <4>1. PICK n \in Nat, m \in Nat : n = Len(releases) /\ m = me.named
        BY <1>2 DEF ScriptRecord
      <4>2. m <= n
        BY <1>2, <4>1 DEF StageOK
      <4>3. n + 1 <= n + 1 /\ m <= n + 1 /\ n + 1 # 0
        BY <4>1, <4>2
      <4> QED
        BY <2>2, <2>3, <4>1, <4>3
    <3> QED
      BY <1>5, <2>2, <3>1 DEF StageOK
  <2>5. next.at \in Afterwards /\ next.kind # "rollback" /\ next.at \notin {"pull", "up", "point"}
    BY <1>5, <2>2 DEF Afterwards
  <2>6. me.alone => LeftBy(next)'
    <3>1. me.alone => \A p \in Parts : env[p] = ValueOf(next, p)
      BY <1>6, <2>2 DEF ValueOf
    <3> QED
      BY <1>3, <2>5, <3>1 DEF LeftBy
  <2>7. script' = [script EXCEPT ![s] = next] /\ Len(releases) <= Len(releases')
    BY <1>2, <1>8, <2>1, <2>3
  <2> QED
    BY <1>1, <1>3, <1>5, <1>7, <2>2, <2>3, <2>4, <2>5, <2>6, <2>7, AfterwardsKeeps
<1>9. CASE /\ me.at = "record more"
           /\ releases' = [releases EXCEPT ![me.file] = me.image]
           /\ script' = [script EXCEPT ![s] = [me EXCEPT !.at = "pull"]]
  <2>1. PICK next : next = [me EXCEPT !.at = "pull"]
    OBVIOUS
  <2>2. next \in ScriptRecord /\ next.at = "pull" /\ next.image = me.image
        /\ next.kind = me.kind /\ next.alone = me.alone
        /\ next.from = me.from /\ next.named = me.named /\ next.file = me.file
    BY <1>2, <2>1 DEF ScriptRecord, Stages
  <2>3. me.file \in 1 .. Len(releases) /\ me.image \in [Parts -> Int]
    <3>1. me.file \in Nat /\ me.file # 0 /\ me.file <= Len(releases) /\ me.image \in [Parts -> Int]
      BY <1>2, <1>9 DEF ScriptRecord, StageOK
    <3> QED
      BY <1>2, <3>1
  <2>4. releases' \in Seq([Parts -> Int]) /\ Len(releases') = Len(releases)
        /\ me.file \in DOMAIN releases' /\ releases'[me.file] = me.image
    <3>1. PICK f \in 1 .. Len(releases), image \in [Parts -> Int] : f = me.file /\ image = me.image
      BY <2>3
    <3>2. releases' = [releases EXCEPT ![f] = image]
      BY <1>9, <3>1
    <3>3. /\ releases' \in Seq([Parts -> Int]) /\ Len(releases') = Len(releases)
          /\ DOMAIN releases' = 1 .. Len(releases) /\ releases'[f] = image
      BY <1>2, <3>2
    <3> QED
      BY <3>1, <3>3
  <2>5. StageOK(next)'
    BY <1>2, <1>5, <2>2, <2>4 DEF StageOK
  <2>6. next.at \in Afterwards /\ next.kind # "rollback" /\ next.at # "point"
    BY <1>5, <2>2 DEF Afterwards
  <2>7. me.alone => LeftBy(next)'
    <3>1. me.alone => \A p \in Parts : env[p] = ValueOf(next, p)
      BY <1>6, <2>2 DEF ValueOf
    <3>2. next.file \in DOMAIN releases' /\ releases'[next.file] = next.image
      BY <2>2, <2>4
    <3> QED
      BY <1>3, <2>6, <3>1, <3>2 DEF LeftBy
  <2>8. script' = [script EXCEPT ![s] = next] /\ Len(releases) <= Len(releases')
    <3>1. Len(releases) <= Len(releases')
      BY <1>2, <2>4
    <3> QED
      BY <1>9, <2>1, <3>1
  <2> QED
    BY <1>1, <1>3, <1>5, <1>7, <2>2, <2>4, <2>5, <2>6, <2>7, <2>8, AfterwardsKeeps
<1> QED
  BY <1>4, <1>8, <1>9

LEMMA PullKeeps ==
    ASSUME ServerInv, NEW s \in Scripts, Pull(s)
    PROVE  ServerInv'
<1>1. PICK me : me = script[s]
  OBVIOUS
<1>2. me \in ScriptRecord /\ me.at = "pull" /\ StageOK(me) /\ me.kind # "build"
  BY <1>1, RunningScript DEF Pull, StageOK
<1>3. UNCHANGED <<env, releases, pointer, running, line, started, harm>>
  BY DEF Pull
<1>4. running' \in [Parts -> Int] /\ line' \in Seq(Nat) /\ pointer' \in 0 .. Len(releases)
      /\ releases' \in Seq([Parts -> Int]) /\ Len(releases) <= Len(releases')
  BY <1>3, RunningScript
<1>5. Exit(s, FALSE) \/ Step(s, [me EXCEPT !.at = "up"])
  BY <1>1 DEF Pull
<1>6. CASE Exit(s, FALSE)
  <2>1. RestOK'
    BY <1>6, Failing
  <2> QED
    BY <1>1, <1>2, <1>3, <1>4, <1>6, <2>1, ExitKeeps
<1>7. CASE Step(s, [me EXCEPT !.at = "up"])
  <2>1. PICK next : next = [me EXCEPT !.at = "up"]
    OBVIOUS
  <2>2. next \in ScriptRecord /\ next.at = "up" /\ next.image = me.image
        /\ next.kind = me.kind /\ next.alone = me.alone
        /\ next.from = me.from /\ next.named = me.named /\ next.file = me.file
    BY <1>2, <2>1 DEF ScriptRecord, Stages
  <2>3. StageOK(next)'
    BY <1>2, <1>3, <2>2 DEF StageOK
  <2>4. me.at \in Afterwards /\ next.at \in Afterwards /\ next.at # "point"
    BY <1>2, <2>2 DEF Afterwards
  <2>5. me.alone => LeftBy(next)'
    <3>1. SUFFICES ASSUME me.alone, LeftBy(me) PROVE LeftBy(next)'
      BY <1>1, <2>4, LoneAfterwards
    <3>2. \A p \in Parts : env[p] = ValueOf(next, p)
      BY <2>2, <3>1 DEF LeftBy, ValueOf
    <3> QED
      BY <1>2, <1>3, <2>2, <3>1, <3>2 DEF LeftBy
  <2>6. script' = [script EXCEPT ![s] = next]
    BY <1>7, <2>1 DEF Step
  <2> QED
    BY <1>1, <1>3, <1>4, <2>2, <2>3, <2>4, <2>5, <2>6, AfterwardsKeeps
<1> QED
  BY <1>5, <1>6, <1>7

LEMMA UpKeeps ==
    ASSUME ServerInv, NEW s \in Scripts, Up(s)
    PROVE  ServerInv'
<1>1. PICK me : me = script[s]
  OBVIOUS
<1>2. me \in ScriptRecord /\ me.at = "up" /\ me.at \in Afterwards /\ StageOK(me)
      /\ env \in [Lines -> Int] /\ line \in Seq(Nat)
  BY <1>1, RunningScript DEF Up, Afterwards
<1>3. PICK composed : composed = Composed(me)
  OBVIOUS
<1>4. composed = [p \in Parts |-> IF p \in me.exported THEN me.image[p] ELSE env[p]]
      /\ composed \in [Parts -> Int]
  BY <1>2, <1>3 DEF Composed, ScriptRecord, Lines
<1>5. UNCHANGED <<env, releases, pointer, started, harm>>
  BY DEF Up
<1>6. pointer' \in 0 .. Len(releases) /\ releases' \in Seq([Parts -> Int]) /\ Len(releases) <= Len(releases')
  BY <1>5, RunningScript
<1>7. \/ Exit(s, FALSE) /\ UNCHANGED <<running, line>>
      \/ /\ running' = composed /\ line' = Append(line, me.file)
         /\ IF me.kind = "build" THEN Exit(s, TRUE) ELSE Step(s, [me EXCEPT !.at = "point"])
  BY <1>1, <1>3 DEF Up
<1>8. CASE Exit(s, FALSE) /\ UNCHANGED <<running, line>>
  <2>1. RestOK'
    BY <1>8, Failing
  <2>2. running' \in [Parts -> Int] /\ line' \in Seq(Nat)
    BY <1>8, RunningScript
  <2> QED
    BY <1>1, <1>2, <1>5, <1>6, <1>8, <2>1, <2>2, ExitKeeps
<1>9. CASE /\ running' = composed /\ line' = Append(line, me.file)
           /\ IF me.kind = "build" THEN Exit(s, TRUE) ELSE Step(s, [me EXCEPT !.at = "point"])
  <2>1. running' \in [Parts -> Int] /\ line' \in Seq(Nat)
    <3>1. me.file \in Nat
      BY <1>2 DEF ScriptRecord
    <3> QED
      BY <1>2, <1>4, <1>9, <3>1
  <2>2. CASE me.kind = "build"
    <3>1. Exit(s, TRUE)
      BY <1>9, <2>2
    <3>2. last' = End(me, TRUE)
      BY <1>1, <3>1 DEF Exit
    <3>3. last'.kind = "build" /\ last'.alone = me.alone /\ last'.old = (me.exported # {})
      BY <2>2, <3>2 DEF End
    <3>4. me.alone => \A p \in Parts : env[p] = Local
      BY <1>1, <1>2, <2>2, LoneAfterwards DEF LeftBy, ValueOf
    <3>5. me.exported = {} => \A p \in Parts : running'[p] = env[p]
      BY <1>4, <1>9
    <3>6. RestOK'
      BY <3>3, <3>4, <3>5 DEF RestOK
    <3> QED
      BY <1>1, <1>2, <1>5, <1>6, <2>1, <3>1, <3>6, ExitKeeps
  <2>3. CASE me.kind # "build"
    <3>1. PICK next : next = [me EXCEPT !.at = "point"]
      OBVIOUS
    <3>2. next \in ScriptRecord /\ next.at = "point" /\ next.image = me.image
          /\ next.kind = me.kind /\ next.alone = me.alone
          /\ next.from = me.from /\ next.named = me.named /\ next.file = me.file
      BY <1>2, <3>1 DEF ScriptRecord, Stages
    <3>3. StageOK(next)'
      BY <1>2, <1>5, <2>3, <3>2 DEF StageOK
    <3>4. me.alone => LeftBy(next)'
      <4>1. SUFFICES ASSUME me.alone, LeftBy(me) PROVE LeftBy(next)'
        BY <1>1, <1>2, LoneAfterwards
      <4>2. \A p \in Parts : env[p] = me.image[p] /\ ValueOf(next, p) = me.image[p]
        BY <2>3, <3>2, <4>1 DEF LeftBy, ValueOf
      <4>3. running' = next.image
        <5>1. me.image \in [Parts -> Int]
          BY <1>2 DEF ScriptRecord
        <5>2. \A p \in Parts : composed[p] = me.image[p]
          BY <1>4, <4>2
        <5> QED
          BY <1>4, <1>9, <3>2, <5>1, <5>2
      <4> QED
        BY <1>2, <1>5, <3>2, <4>1, <4>2, <4>3 DEF LeftBy
    <3>5. script' = [script EXCEPT ![s] = next] /\ next.at \in Afterwards
      BY <1>9, <2>3, <3>1, <3>2 DEF Step, Afterwards
    <3> QED
      BY <1>1, <1>2, <1>5, <1>6, <2>1, <3>2, <3>3, <3>4, <3>5, AfterwardsKeeps
  <2> QED
    BY <2>2, <2>3
<1> QED
  BY <1>7, <1>8, <1>9

LEMMA PointKeeps ==
    ASSUME ServerInv, NEW s \in Scripts, Point(s)
    PROVE  ServerInv'
<1>1. PICK me : me = script[s]
  OBVIOUS
<1>2. me \in ScriptRecord /\ me.at = "point" /\ me.at \in Afterwards /\ StageOK(me)
      /\ me.kind \in {"deploy", "rollback"}
  <2>1. me \in ScriptRecord /\ me.at = "point" /\ StageOK(me)
    BY <1>1, RunningScript DEF Point
  <2> QED
    BY <2>1 DEF Afterwards, StageOK, ScriptRecord
<1>3. pointer' = me.file /\ Exit(s, TRUE) /\ UNCHANGED <<env, releases, running, line, started, harm>>
  BY <1>1 DEF Point
<1>4. pointer' \in 0 .. Len(releases) /\ running' \in [Parts -> Int] /\ line' \in Seq(Nat)
  <2>1. me.file \in Nat /\ me.file <= Len(releases) /\ Len(releases) \in Nat
    BY <1>2, RunningScript DEF ScriptRecord, StageOK
  <2> QED
    BY <1>3, <2>1, RunningScript
<1>5. RestOK'
  <2>1. last' = End(me, TRUE)
    BY <1>1, <1>3 DEF Exit
  <2>2. last'.kind = me.kind /\ last'.alone = me.alone /\ last'.file = me.file /\ last'.from = me.from
        /\ last'.named = (me.named # 0)
    BY <2>1 DEF End
  <2>3. SUFFICES ASSUME me.alone PROVE RestOK'
    BY <2>2 DEF RestOK
  <2>4. /\ \A p \in Parts : env[p] = me.image[p]
        /\ running = me.image
        /\ me.file \in DOMAIN releases /\ releases[me.file] = me.image
        /\ me.kind = "rollback" /\ me.named = 0 => me.file = me.from - 1
    BY <1>1, <1>2, <2>3, LoneAfterwards DEF LeftBy, ValueOf
  <2>5. pointer' = last'.file /\ pointer' \in DOMAIN releases' /\ running' = releases'[pointer']
        /\ \A p \in Parts : env'[p] = running'[p]
    BY <1>3, <2>2, <2>4
  <2>6. last'.kind = "rollback" /\ ~last'.named => pointer' = last'.from - 1
    BY <1>3, <2>2, <2>4
  <2>7. last'.kind # "build"
    BY <1>2, <2>2
  <2> QED
    BY <2>5, <2>6, <2>7 DEF RestOK
<1> QED
  BY <1>1, <1>2, <1>3, <1>4, <1>5, ExitKeeps

LEMMA StopKeeps ==
    ASSUME ServerInv, NEW s \in Scripts, Stop(s)
    PROVE  ServerInv'
<1>1. PICK me : me = script[s]
  OBVIOUS
<1>2. me \in ScriptRecord /\ me.at # "idle" /\ running \in [Parts -> Int] /\ line \in Seq(Nat)
  BY <1>1, RunningScript DEF Stop
<1>3. /\ Exit(s, FALSE) /\ UNCHANGED <<env, releases, pointer, started>>
      /\ harm \subseteq harm' /\ (me.at = "write" => harm' # {})
      /\ \/ UNCHANGED <<running, line>>
         \/ running' = [running EXCEPT !["app"] = me.image["app"]] /\ line' = Append(line, 0)
  BY <1>1 DEF Stop
<1>4. running' \in [Parts -> Int] /\ line' \in Seq(Nat)
  <2>1. me.image["app"] \in Int
    BY <1>2 DEF ScriptRecord, Parts
  <2>2. Append(line, 0) \in Seq(Nat)
    BY <1>2
  <2>3. [running EXCEPT !["app"] = me.image["app"]] \in [Parts -> Int]
    BY <1>2, <2>1
  <2> QED
    BY <1>2, <1>3, <2>2, <2>3
<1>5. RestOK'
  BY <1>3, Failing
<1>6. pointer' \in 0 .. Len(releases)
  BY <1>3, RunningScript
<1> QED
  BY <1>1, <1>2, <1>3, <1>4, <1>5, <1>6, ExitKeeps

-----------------------------------------------------------------------------
LEMMA ServerInvStarts == ServerInit => ServerInv
<1> SUFFICES ASSUME ServerInit PROVE ServerInv
  OBVIOUS
<1>1. ServerTypes
  BY NoScriptIs DEF ServerInit, ServerTypes, Parts, Lines, Empty
<1>2. ASSUME NEW s \in Scripts PROVE StageOK(script[s]) /\ LoneOK(s)
  <2>1. PICK me : me = script[s]
    OBVIOUS
  <2>2. me = NoScript /\ Len(releases) = 0
    BY <2>1 DEF ServerInit
  <2>3. me.at = "idle" /\ me.file = 0 /\ me.named = 0
    BY <2>2, NoScriptIs
  <2>4. StageOK(me)
    BY <2>2, <2>3 DEF StageOK
  <2>5. LoneOK(s)
    BY <2>1, <2>3 DEF LoneOK
  <2> QED
    BY <2>1, <2>4, <2>5
<1>3. SecretsSurvive
  BY DEF ServerInit, SecretsSurvive, Lines, Lost
<1>4. RestOK
  BY DEF ServerInit, RestOK, End
<1> QED
  BY <1>1, <1>2, <1>3, <1>4 DEF ServerInv

LEMMA ServerInvInductive == OpsSpec => []ServerInv
<1>1. OpsInit => ServerInv
  BY ServerInvStarts DEF OpsInit
<1>2. ServerInv /\ [OpsNext]_opsVars => ServerInv'
  <2> SUFFICES ASSUME ServerInv, [OpsNext]_opsVars PROVE ServerInv'
    OBVIOUS
  <2>1. CASE UNCHANGED serverVars
    <3>1. UNCHANGED <<env, releases, pointer, running, script, last, line, started, harm>>
      BY <2>1 DEF serverVars
    <3>2. ServerTypes'
      BY <3>1 DEF ServerInv, ServerTypes
    <3>3. \A s \in Scripts : StageOK(script[s])'
      BY <3>1 DEF ServerInv, StageOK
    <3>4. ASSUME NEW s \in Scripts PROVE LoneOK(s)'
      <4>1. LoneOK(s)
        BY DEF ServerInv
      <4> QED
        BY <3>1, <4>1 DEF LoneOK
    <3>5. SecretsSurvive'
      BY <3>1 DEF ServerInv, SecretsSurvive, Emptied
    <3>6. RestOK'
      BY <3>1 DEF ServerInv, RestOK, AtRest
    <3> QED
      BY <3>2, <3>3, <3>4, <3>5, <3>6 DEF ServerInv
  <2>2. ASSUME NEW s \in Scripts, ServerStep(s)
        PROVE  ServerInv'
    BY <2>2, StartKeeps, SourceKeeps, EditKeeps, EmptyFileKeeps, WriteKeeps, SourceAgainKeeps, RecordKeeps,
       PullKeeps, UpKeeps, PointKeeps, StopKeeps DEF ServerStep
  <2>3. UNCHANGED serverVars \/ \E s \in Scripts : ServerStep(s)
    BY DEF OpsNext, opsVars
  <2> QED
    BY <2>1, <2>2, <2>3
<1> QED
  BY <1>1, <1>2, PTL DEF OpsSpec

\* Scripts that fail, stop or overlap lose the secrets only within one command;
\* one that ran alone to its end leaves .env, release and containers in agreement.
THEOREM ServerAlwaysAgrees == OpsSpec => []ServerAgrees
<1>1. ServerInv => ServerAgrees
  <2>1. ASSUME ServerInv, EndedAlone("deploy") \/ EndedAlone("rollback")
        PROVE  /\ pointer = last.file
               /\ running = releases[pointer]
               /\ running = [p \in Parts |-> env[p]]
    <3>1. AtRest /\ last.ok /\ last.alone /\ last.kind \in {"deploy", "rollback"}
      BY <2>1 DEF EndedAlone
    <3>2. pointer = last.file /\ running = releases[pointer] /\ \A p \in Parts : env[p] = running[p]
      BY <2>1, <3>1 DEF ServerInv, RestOK
    <3>3. running \in [Parts -> Int]
      BY <2>1 DEF ServerInv, ServerTypes
    <3> QED
      BY <3>2, <3>3
  <2>2. ASSUME ServerInv, EndedAlone("build"), ~BuildRunsOld
        PROVE  running = [p \in Parts |-> Local]
    <3>1. \A p \in Parts : running[p] = Local
      BY <2>2 DEF ServerInv, RestOK, EndedAlone, BuildRunsOld
    <3>2. running \in [Parts -> Int]
      BY <2>2 DEF ServerInv, ServerTypes
    <3> QED
      BY <3>1, <3>2
  <2> QED
    BY <2>1, <2>2 DEF ServerInv, ServerAgrees, AloneRunsAgree
<1> QED
  BY <1>1, ServerInvInductive, PTL

\* What came after the release before the last one was the last one, if the
\* releases were started in the order of their files.
LEMMA InOrder ==
    ASSUME NEW before \in Seq(Nat), NEW i \in DOMAIN before, NEW latest, latest = before[Len(before)],
           before[i] = latest - 1,
           \A h, j \in DOMAIN before : h < j => before[h] < before[j]
    PROVE  \A j \in DOMAIN before : j > i => before[j] = latest
<1>1. PICK n \in Nat : n = Len(before) /\ DOMAIN before = 1 .. n
  OBVIOUS
<1>2. i \in 1 .. n /\ latest = before[n] /\ n \in 1 .. n /\ \A j \in 1 .. n : before[j] \in Nat
  BY <1>1
<1>3. ASSUME NEW j \in 1 .. n, j > i
      PROVE  before[j] = latest
  <2>1. before[i] < before[j] /\ before[j] \in Nat /\ latest \in Nat
    BY <1>1, <1>2, <1>3
  <2>2. CASE j = n
    BY <1>2, <2>2
  <2>3. CASE j # n
    <3>1. j < n
      BY <1>1, <2>3
    <3>2. before[j] < latest
      BY <1>1, <1>2, <3>1
    <3> QED
      BY <2>1, <3>2
  <2> QED
    BY <2>2, <2>3
<1> QED
  BY <1>1, <1>3

LEMMA GoesBack ==
    ASSUME NEW before \in Seq(Nat), NEW latest, latest = before[Len(before)],
           pointer = last.from - 1, pointer \in DOMAIN releases
    PROVE  \/ \E i \in DOMAIN before :
                 /\ before[i] = pointer
                 /\ \A j \in DOMAIN before : j > i => before[j] = latest
           \/ \E f \in DOMAIN releases : \A i \in DOMAIN before : before[i] # f
           \/ latest # last.from
           \/ \E i, j \in DOMAIN before : i < j /\ before[j] <= before[i]
<1>1. SUFFICES ASSUME latest = last.from,
                      \A f \in DOMAIN releases : \E i \in DOMAIN before : before[i] = f,
                      \A i, j \in DOMAIN before : i < j => ~(before[j] <= before[i])
               PROVE  \E i \in DOMAIN before :
                        /\ before[i] = pointer
                        /\ \A j \in DOMAIN before : j > i => before[j] = latest
  OBVIOUS
<1>2. PICK i \in DOMAIN before : before[i] = pointer
  BY <1>1
<1>3. \A h, j \in DOMAIN before : h < j => before[h] < before[j]
  <2>1. \A j \in DOMAIN before : before[j] \in Nat
    OBVIOUS
  <2> QED
    BY <1>1, <2>1
<1>4. before[i] = latest - 1
  BY <1>1, <1>2
<1>5. \A j \in DOMAIN before : j > i => before[j] = latest
  BY <1>3, <1>4, InOrder
<1> QED
  BY <1>2, <1>5

\* A rollback without a name that ran alone starts what ran before, but for the
\* four cases the property names.
THEOREM RollbackAlwaysGoesBack == OpsSpec => []RollbackGoesBack
<1>1. ASSUME ServerInv PROVE RollbackGoesBack
  <2>1. SUFFICES ASSUME EndedAlone("rollback"), ~last.named PROVE RollbackGoesBack
    BY DEF RollbackGoesBack
  <2>2. pointer = last.from - 1 /\ pointer \in DOMAIN releases
    BY <1>1, <2>1 DEF ServerInv, RestOK, EndedAlone
  <2>3. PICK before : before = SubSeq(line, 1, Len(line) - 1)
    OBVIOUS
  <2>4. before \in Seq(Nat)
    <3>1. line \in Seq(Nat) /\ Len(line) \in Nat
      BY <1>1 DEF ServerInv, ServerTypes
    <3>2. \A j \in 1 .. Len(line) - 1 : line[j] \in Nat
      BY <3>1
    <3> QED
      BY <2>3, <3>1, <3>2, SubSeqProperties
  <2>5. PICK latest : latest = before[Len(before)]
    OBVIOUS
  <2> QED
    BY <2>2, <2>3, <2>4, <2>5, GoesBack, Zenon DEF RollbackGoesBack
<1> QED
  BY <1>1, ServerInvInductive, PTL

-----------------------------------------------------------------------------
(* The set-up of the realm.  What a run relies on of the order of its       *)
(* requests is stated of any list of requests, position by position, and    *)
(* so that it is kept when one such list follows another; the two scripts   *)
(* are put together from parts of at most five requests.  Of a run it is    *)
(* then shown that what it has passed is there, given up or left out.       *)

IsList(s) == s \in Seq({s[i] : i \in 1 .. Len(s)})

Accounts == {"superadmin", "admin_tenant", "admin_site", "user_site"}
Things(s) == {s[i].thing : i \in 1 .. Len(s)}

\* What no block of a script passes over.
Backbone == {"role", "user", "password"}

\* Request i of s brings about a user, and the next one his password.
MakesUser(s, i) ==
    \E u \in Accounts :
        /\ s[i].thing = User(u) /\ s[i].needs = {} /\ s[i].new = {}
        /\ i < Len(s) /\ s[i + 1].thing = Password(u)

\* Request i of the script of the root directory, or of a part of it that is
\* sent when the requests for the things of "asked" have been: what its block
\* passes over is no role, no user and no password and stays within the part,
\* and what it needs is a role asked for before or comes from the request before.
RootRequest(s, i, asked) ==
    /\ s[i].new = {} /\ s[i].looks = FALSE /\ s[i].skips \in Nat
    /\ s[i].thing[1] = "user" => MakesUser(s, i)
    /\ s[i].thing[1] \in Backbone => s[i].skips = 0
    /\ i + s[i].skips <= Len(s) + 1
    /\ \A j \in i .. i + s[i].skips - 1 : s[j].thing[1] \notin Backbone
    /\ (s[i].skips > 0 /\ i + s[i].skips <= Len(s)) => s[i + s[i].skips].needs = {}
    /\ \/ s[i].needs = {}
       \/ \E x \in asked : x[1] = "role" /\ s[i].needs = {x}
       \/ \E j \in 1 .. i - 1 : s[j].thing[1] = "role" /\ s[i].needs = {s[j].thing}
       \/ i > 1 /\ s[i].needs = {s[i - 1].thing}

RootPart(s, asked) ==
    /\ IsList(s) /\ Len(s) > 0 /\ s[1].needs = {}
    /\ \A i \in 1 .. Len(s) : RootRequest(s, i, asked)

\* Request i of the script of the back end: roles are only looked for, a password
\* is for a user whom this run has created, and no role comes after a grant.
BackendRequest(s, i) ==
    /\ s[i].skips = 0
    /\ s[i].looks = (s[i].thing[1] = "role")
    /\ s[i].thing[1] = "user" => MakesUser(s, i)
    /\ s[i].thing[1] = "password" =>
           \E u \in Accounts : /\ s[i].thing = Password(u) /\ s[i].needs = {} /\ s[i].new = {u}
                               /\ i > 1 /\ s[i - 1].thing = User(u)
    /\ s[i].thing[1] = "granted" =>
           /\ \E u \in Accounts : /\ s[i].thing = Granted(u) /\ s[i].new = {}
                                  /\ s[i].needs = {Role(RoleOf[u])}
           /\ \A j \in i .. Len(s) : s[j].thing[1] # "role"
    /\ s[i].thing[1] \notin {"password", "granted"} => s[i].needs = {} /\ s[i].new = {}

BackendPart(s) ==
    IsList(s) /\ Len(s) > 0 /\ \A i \in 1 .. Len(s) : BackendRequest(s, i)

-----------------------------------------------------------------------------
LEMMA ListOf ==
    ASSUME NEW S, NEW s \in Seq(S)
    PROVE  IsList(s)
<1>1. Len(s) \in Nat /\ s \in [1 .. Len(s) -> S]
  OBVIOUS
<1> QED
  BY <1>1 DEF IsList

\* Where the requests of two parts are found when one follows the other.
LEMMA Follow ==
    ASSUME NEW s, NEW t, IsList(s), IsList(t)
    PROVE  /\ IsList(s \o t) /\ Len(s \o t) = Len(s) + Len(t)
           /\ Len(s) \in Nat /\ Len(t) \in Nat
           /\ \A i \in 1 .. Len(s) : (s \o t)[i] = s[i]
           /\ \A i \in 1 .. Len(t) : (s \o t)[Len(s) + i] = t[i]
           /\ Things(s \o t) = Things(s) \cup Things(t)
<1> DEFINE both == {s[i] : i \in 1 .. Len(s)} \cup {t[i] : i \in 1 .. Len(t)}
<1>0. s \in Seq(both) /\ t \in Seq(both)
  BY DEF IsList
<1> HIDE DEF both
<1>1. s \o t \in Seq(both) /\ Len(s \o t) = Len(s) + Len(t)
  BY <1>0
<1>2. Len(s) \in Nat /\ Len(t) \in Nat
  BY <1>0
<1>3. \A i \in 1 .. Len(s) : (s \o t)[i] = s[i]
  BY <1>0, <1>2
<1>4. \A i \in 1 .. Len(t) : (s \o t)[Len(s) + i] = t[i]
  BY <1>0, <1>2
<1>5. ASSUME NEW i \in 1 .. Len(s \o t)
      PROVE  (s \o t)[i].thing \in Things(s) \cup Things(t)
  <2>1. CASE i <= Len(s)
    BY <2>1, <1>2, <1>3 DEF Things
  <2>2. CASE i > Len(s)
    <3>1. i - Len(s) \in 1 .. Len(t) /\ i = Len(s) + (i - Len(s))
      BY <2>2, <1>1, <1>2
    <3>2. (s \o t)[i] = t[i - Len(s)]
      BY <3>1, <1>4, <1>2
    <3> QED
      BY <3>1, <3>2 DEF Things
  <2> QED
    BY <2>1, <2>2, <1>1, <1>2
<1>6. ASSUME NEW i \in 1 .. Len(s)
      PROVE  s[i].thing \in Things(s \o t)
  BY <1>1, <1>2, <1>3 DEF Things
<1>7. ASSUME NEW i \in 1 .. Len(t)
      PROVE  t[i].thing \in Things(s \o t)
  <2>1. Len(s) + i \in 1 .. Len(s \o t)
    BY <1>1, <1>2
  <2>2. (s \o t)[Len(s) + i] = t[i]
    BY <1>4
  <2> QED
    BY <2>1, <2>2 DEF Things
<1>8. Things(s \o t) = Things(s) \cup Things(t)
  <2>1. Things(s \o t) \subseteq Things(s) \cup Things(t)
    BY ONLY <1>5 DEF Things
  <2>2. Things(s) \subseteq Things(s \o t)
    BY ONLY <1>6 DEF Things
  <2>3. Things(t) \subseteq Things(s \o t)
    BY ONLY <1>7 DEF Things
  <2> QED
    BY ONLY <2>1, <2>2, <2>3
<1>9. IsList(s \o t)
  BY <1>1, ListOf
<1> QED
  BY <1>1, <1>2, <1>3, <1>4, <1>8, <1>9

\* Parts of the script of the root directory may follow one another, the second
\* relying on the roles of the first.
LEMMA RootFollow ==
    ASSUME NEW s, NEW t, NEW asked, RootPart(s, asked), RootPart(t, asked \cup Things(s))
    PROVE  RootPart(s \o t, asked)
<1> DEFINE w == s \o t
<1>1. IsList(s) /\ IsList(t) /\ Len(s) > 0 /\ Len(t) > 0
      /\ s[1].needs = {} /\ t[1].needs = {}
  BY DEF RootPart
<1>2. /\ IsList(w) /\ Len(w) = Len(s) + Len(t)
      /\ Len(s) \in Nat /\ Len(t) \in Nat
      /\ \A i \in 1 .. Len(s) : w[i] = s[i]
      /\ \A i \in 1 .. Len(t) : w[Len(s) + i] = t[i]
  BY <1>1, Follow
<1> HIDE DEF w
<1>3. ASSUME NEW i \in 1 .. Len(s)
      PROVE  RootRequest(w, i, asked)
  <2>1. RootRequest(s, i, asked) /\ w[i] = s[i]
    BY <1>1, <1>2 DEF RootPart
  <2>2. s[i].skips \in Nat
    BY <2>1 DEF RootRequest
  <2>3. w[i].thing[1] = "user" => MakesUser(w, i)
    <3>1. i < Len(s) => i + 1 \in 1 .. Len(s) /\ i < Len(w)
      BY <1>1, <1>2
    <3>2. i < Len(s) => w[i + 1] = s[i + 1]
      BY <3>1, <1>2
    <3> QED
      BY <3>1, <3>2, <2>1 DEF RootRequest, MakesUser
  <2>4. i + w[i].skips <= Len(w) + 1
    BY <2>1, <2>2, <1>2 DEF RootRequest
  <2>5. ASSUME NEW j \in i .. i + w[i].skips - 1
        PROVE  w[j].thing[1] \notin Backbone
    <3>1. i + s[i].skips <= Len(s) + 1 /\ j \in i .. i + s[i].skips - 1
      BY <2>1 DEF RootRequest
    <3>2. j \in 1 .. Len(s)
      BY <3>1, <2>2, <1>2
    <3>3. w[j] = s[j]
      BY <3>2, <1>2
    <3> QED
      BY <3>1, <3>3, <2>1 DEF RootRequest
  <2>6. ASSUME w[i].skips > 0, i + w[i].skips <= Len(w)
        PROVE  w[i + w[i].skips].needs = {}
    <3>1. CASE i + s[i].skips <= Len(s)
      <4>1. i + s[i].skips \in 1 .. Len(s)
        BY <2>2, <3>1, <1>2
      <4>2. w[i + s[i].skips] = s[i + s[i].skips]
        BY <4>1, <1>2
      <4>3. s[i + s[i].skips].needs = {}
        BY <3>1, <2>6, <2>1 DEF RootRequest
      <4> QED
        BY <4>2, <4>3, <2>1
    <3>2. CASE i + s[i].skips = Len(s) + 1
      <4>1. 1 \in 1 .. Len(t)
        BY <1>1, <1>2
      <4>2. w[Len(s) + 1] = t[1]
        BY <4>1, <1>2
      <4> QED
        BY <4>2, <3>2, <2>1, <1>1
    <3>3. i + s[i].skips <= Len(s) + 1
      BY <2>1 DEF RootRequest
    <3>4. i + s[i].skips <= Len(s) \/ i + s[i].skips = Len(s) + 1
      <4>1. PICK n \in Nat : s[i].skips = n
        BY <2>2
      <4>2. i + n <= Len(s) + 1
        BY <3>3, <4>1
      <4>3. i + n <= Len(s) \/ i + n = Len(s) + 1
        <5>1. Len(s) \in Nat
          BY <1>2
        <5> QED
          BY <4>2, <5>1
      <4> QED
        BY <4>1, <4>3
    <3> QED
      BY <3>1, <3>2, <3>4
  <2>7. \/ w[i].needs = {}
        \/ \E x \in asked : x[1] = "role" /\ w[i].needs = {x}
        \/ \E j \in 1 .. i - 1 : w[j].thing[1] = "role" /\ w[i].needs = {w[j].thing}
        \/ i > 1 /\ w[i].needs = {w[i - 1].thing}
    <3>1. \A j \in 1 .. i - 1 : w[j] = s[j]
      BY <1>2
    <3>2. i > 1 => w[i - 1] = s[i - 1]
      BY <1>2
    <3> QED
      BY <3>1, <3>2, <2>1 DEF RootRequest
  <2> QED
    BY <2>1, <2>3, <2>4, <2>5, <2>6, <2>7 DEF RootRequest
<1>4. ASSUME NEW k \in 1 .. Len(t)
      PROVE  RootRequest(w, Len(s) + k, asked)
  <2> DEFINE i == Len(s) + k
  <2>1. RootRequest(t, k, asked \cup Things(s)) /\ w[i] = t[k]
    <3>1. RootRequest(t, k, asked \cup Things(s))
      BY DEF RootPart
    <3> QED
      BY <3>1, <1>1, <1>2
  <2>2. t[k].skips \in Nat
    BY <2>1 DEF RootRequest
  <2>3. w[i].thing[1] = "user" => MakesUser(w, i)
    <3>1. k < Len(t) => w[i + 1] = t[k + 1] /\ i < Len(w)
      <4>1. k < Len(t) => k + 1 \in 1 .. Len(t) /\ i + 1 = Len(s) + (k + 1)
        BY <1>2
      <4> QED
        BY <4>1, <1>2
    <3> QED
      BY <3>1, <2>1, <1>2 DEF RootRequest, MakesUser
  <2>4. i + w[i].skips <= Len(w) + 1
    BY <2>1, <2>2, <1>2 DEF RootRequest
  <2>5. ASSUME NEW j \in i .. i + w[i].skips - 1
        PROVE  w[j].thing[1] \notin Backbone
    <3>0. k + t[k].skips <= Len(t) + 1 /\ j \in i .. i + t[k].skips - 1
      BY <2>1 DEF RootRequest
    <3>1. j - Len(s) \in k .. k + t[k].skips - 1 /\ j - Len(s) \in 1 .. Len(t)
      <4>1. PICK n \in Nat : t[k].skips = n
        BY <2>2
      <4>2. k + n <= Len(t) + 1 /\ j \in Len(s) + k .. Len(s) + k + n - 1
        BY <3>0, <4>1
      <4>3. j - Len(s) \in k .. k + n - 1 /\ j - Len(s) \in 1 .. Len(t)
        BY <4>2, <1>2
      <4> QED
        BY <4>1, <4>3
    <3>2. w[j] = t[j - Len(s)]
      <4>1. j = Len(s) + (j - Len(s))
        BY <2>1, <2>2, <1>2
      <4> QED
        BY <4>1, <3>1, <1>2
    <3> QED
      BY <3>1, <3>2, <2>1 DEF RootRequest
  <2>6. ASSUME w[i].skips > 0, i + w[i].skips <= Len(w)
        PROVE  w[i + w[i].skips].needs = {}
    <3>1. k + t[k].skips \in 1 .. Len(t) /\ i + w[i].skips = Len(s) + (k + t[k].skips)
      BY <2>1, <2>2, <2>6, <1>2
    <3>2. w[i + w[i].skips] = t[k + t[k].skips]
      BY <3>1, <1>2
    <3> QED
      BY <3>1, <3>2, <2>1, <2>2, <2>6, <1>2 DEF RootRequest
  <2>7. \/ w[i].needs = {}
        \/ \E x \in asked : x[1] = "role" /\ w[i].needs = {x}
        \/ \E j \in 1 .. i - 1 : w[j].thing[1] = "role" /\ w[i].needs = {w[j].thing}
        \/ i > 1 /\ w[i].needs = {w[i - 1].thing}
    <3>1. CASE t[k].needs = {}
      BY <3>1, <2>1
    <3>2. ASSUME NEW x \in asked \cup Things(s), x[1] = "role", t[k].needs = {x}
          PROVE  \/ \E y \in asked : y[1] = "role" /\ w[i].needs = {y}
                 \/ \E j \in 1 .. i - 1 : w[j].thing[1] = "role" /\ w[i].needs = {w[j].thing}
      <4>1. CASE x \in asked
        BY <4>1, <3>2, <2>1
      <4>2. CASE x \in Things(s)
        <5>1. PICK j \in 1 .. Len(s) : x = s[j].thing
          BY <4>2 DEF Things
        <5>2. j \in 1 .. i - 1 /\ w[j].thing = x
          BY <5>1, <1>2
        <5> QED
          BY <5>2, <3>2, <2>1
      <4> QED
        BY <4>1, <4>2, <3>2
    <3>3. ASSUME NEW j \in 1 .. k - 1, t[j].thing[1] = "role", t[k].needs = {t[j].thing}
          PROVE  \E h \in 1 .. i - 1 : w[h].thing[1] = "role" /\ w[i].needs = {w[h].thing}
      <4>1. Len(s) + j \in 1 .. i - 1 /\ w[Len(s) + j] = t[j]
        BY <1>2
      <4> QED
        BY <4>1, <3>3, <2>1
    <3>4. CASE k > 1 /\ t[k].needs = {t[k - 1].thing}
      <4>1. k - 1 \in 1 .. Len(t) /\ i - 1 = Len(s) + (k - 1) /\ i > 1
        BY <3>4, <1>2
      <4>2. w[i - 1] = t[k - 1]
        BY <4>1, <1>2
      <4> QED
        BY <4>1, <4>2, <3>4, <2>1
    <3> QED
      BY <3>1, <3>2, <3>3, <3>4, <2>1 DEF RootRequest
  <2> QED
    BY <2>1, <2>3, <2>4, <2>5, <2>6, <2>7 DEF RootRequest
<1>5. ASSUME NEW i \in 1 .. Len(w)
      PROVE  RootRequest(w, i, asked)
  <2>1. CASE i <= Len(s)
    BY <2>1, <1>3, <1>2
  <2>2. CASE i > Len(s)
    <3>1. i - Len(s) \in 1 .. Len(t) /\ i = Len(s) + (i - Len(s))
      BY <2>2, <1>2
    <3> QED
      BY <3>1, <1>4
  <2> QED
    BY <2>1, <2>2, <1>2
<1>6. w[1].needs = {}
  BY <1>1, <1>2
<1>7. RootPart(w, asked)
  BY <1>1, <1>2, <1>5, <1>6 DEF RootPart
<1> QED
  BY <1>7 DEF w

\* So may parts of the script of the back end, if no grant comes before a role.
LEMMA BackendFollow ==
    ASSUME NEW s, NEW t, BackendPart(s), BackendPart(t),
           (\A i \in 1 .. Len(s) : s[i].thing[1] # "granted")
             \/ (\A i \in 1 .. Len(t) : t[i].thing[1] # "role")
    PROVE  BackendPart(s \o t)
<1> DEFINE w == s \o t
<1>1. IsList(s) /\ IsList(t) /\ Len(s) > 0 /\ Len(t) > 0
  BY DEF BackendPart
<1>2. /\ IsList(w) /\ Len(w) = Len(s) + Len(t)
      /\ Len(s) \in Nat /\ Len(t) \in Nat
      /\ \A i \in 1 .. Len(s) : w[i] = s[i]
      /\ \A i \in 1 .. Len(t) : w[Len(s) + i] = t[i]
  BY <1>1, Follow
<1> HIDE DEF w
<1>3. ASSUME NEW i \in 1 .. Len(s)
      PROVE  BackendRequest(w, i)
  <2>1. BackendRequest(s, i) /\ w[i] = s[i]
    BY <1>2 DEF BackendPart
  <2>2. w[i].thing[1] = "user" => MakesUser(w, i)
    <3>1. i < Len(s) => i + 1 \in 1 .. Len(s) /\ i < Len(w)
      BY <1>1, <1>2
    <3>2. i < Len(s) => w[i + 1] = s[i + 1]
      BY <3>1, <1>2
    <3> QED
      BY <3>1, <3>2, <2>1 DEF BackendRequest, MakesUser
  <2>3. i > 1 => w[i - 1] = s[i - 1]
    BY <1>2
  <2>4. ASSUME w[i].thing[1] = "granted", NEW j \in i .. Len(w)
        PROVE  w[j].thing[1] # "role"
    <3>1. CASE j <= Len(s)
      <4>1. j \in i .. Len(s) /\ j \in 1 .. Len(s)
        BY <3>1, <1>2
      <4> QED
        BY <4>1, <2>4, <2>1, <1>2 DEF BackendRequest
    <3>2. CASE j > Len(s)
      <4>1. j - Len(s) \in 1 .. Len(t) /\ j = Len(s) + (j - Len(s))
        BY <3>2, <1>2
      <4>2. w[j] = t[j - Len(s)]
        BY <4>1, <1>2
      <4> QED
        BY <4>1, <4>2, <2>4, <2>1
    <3> QED
      BY <3>1, <3>2, <1>2
  <2> QED
    BY <2>1, <2>2, <2>3, <2>4 DEF BackendRequest
<1>4. ASSUME NEW k \in 1 .. Len(t)
      PROVE  BackendRequest(w, Len(s) + k)
  <2> DEFINE i == Len(s) + k
  <2>1. BackendRequest(t, k) /\ w[i] = t[k]
    BY <1>2 DEF BackendPart
  <2>2. w[i].thing[1] = "user" => MakesUser(w, i)
    <3>1. k < Len(t) => k + 1 \in 1 .. Len(t) /\ i + 1 = Len(s) + (k + 1) /\ i < Len(w)
      BY <1>2
    <3>2. k < Len(t) => w[i + 1] = t[k + 1]
      BY <3>1, <1>2
    <3> QED
      BY <3>1, <3>2, <2>1 DEF BackendRequest, MakesUser
  <2>3. k > 1 => i > 1 /\ w[i - 1] = t[k - 1]
    <3>1. k > 1 => k - 1 \in 1 .. Len(t) /\ i - 1 = Len(s) + (k - 1) /\ i > 1
      BY <1>2
    <3> QED
      BY <3>1, <1>2
  <2>4. ASSUME w[i].thing[1] = "granted", NEW j \in i .. Len(w)
        PROVE  w[j].thing[1] # "role"
    <3>1. j - Len(s) \in k .. Len(t) /\ j - Len(s) \in 1 .. Len(t) /\ j = Len(s) + (j - Len(s))
      BY <1>2
    <3>2. w[j] = t[j - Len(s)]
      BY <3>1, <1>2
    <3> QED
      BY <3>1, <3>2, <2>4, <2>1 DEF BackendRequest
  <2> HIDE DEF i
  <2>5. BackendRequest(w, i)
    BY <2>1, <2>2, <2>3, <2>4 DEF BackendRequest
  <2> QED
    BY <2>5 DEF i
<1>5. ASSUME NEW i \in 1 .. Len(w)
      PROVE  BackendRequest(w, i)
  <2>1. CASE i <= Len(s)
    BY <2>1, <1>3, <1>2
  <2>2. CASE i > Len(s)
    <3>1. i - Len(s) \in 1 .. Len(t) /\ i = Len(s) + (i - Len(s))
      BY <2>2, <1>2
    <3> QED
      BY <3>1, <1>4
  <2> QED
    BY <2>1, <2>2, <1>2
<1>6. BackendPart(w)
  BY <1>1, <1>2, <1>5 DEF BackendPart
<1> QED
  BY <1>6 DEF w

-----------------------------------------------------------------------------
\* The parts of the two scripts.

\* A request that needs nothing and makes no user, in no block or one of its own.
Plain(r) ==
    /\ r.needs = {} /\ r.new = {} /\ r.looks = FALSE /\ r.thing[1] # "user"
    /\ r.skips = 0 \/ (r.skips = 1 /\ r.thing[1] \notin Backbone)

LEMMA PlainPart ==
    ASSUME NEW s, NEW asked, IsList(s), Len(s) > 0, \A i \in 1 .. Len(s) : Plain(s[i])
    PROVE  RootPart(s, asked)
<1>1. Len(s) \in Nat
  BY DEF IsList
<1>2. ASSUME NEW i \in 1 .. Len(s)
      PROVE  RootRequest(s, i, asked)
  <2>1. /\ s[i].needs = {} /\ s[i].new = {} /\ s[i].looks = FALSE /\ s[i].thing[1] # "user"
        /\ s[i].skips = 0 \/ (s[i].skips = 1 /\ s[i].thing[1] \notin Backbone)
    BY DEF Plain
  <2>2. s[i].skips \in Nat /\ i + s[i].skips <= Len(s) + 1
    BY <2>1, <1>1
  <2>3. \A j \in i .. i + s[i].skips - 1 : s[j].thing[1] \notin Backbone
    BY <2>1
  <2>4. ASSUME s[i].skips > 0, i + s[i].skips <= Len(s)
        PROVE  s[i + s[i].skips].needs = {}
    <3>1. i + s[i].skips \in 1 .. Len(s)
      BY <2>4, <2>2, <1>1
    <3> QED
      BY <3>1 DEF Plain
  <2> QED
    BY <2>1, <2>2, <2>3, <2>4 DEF RootRequest
<1>3. s[1].needs = {}
  BY <1>1 DEF Plain
<1> QED
  BY <1>2, <1>3 DEF RootPart

LEMMA Block ==
    ASSUME NEW s, NEW asked, NEW i \in 1 .. Len(s), Len(s) \in Nat,
           s[i].new = {}, s[i].looks = FALSE,
           NEW n \in Nat \ {0}, s[i].skips = n, i + n <= Len(s) + 1,
           \A j \in i .. i + n - 1 : s[j].thing[1] \notin Backbone,
           i + n <= Len(s) => s[i + n].needs = {},
           \/ s[i].needs = {}
           \/ \E x \in asked : x[1] = "role" /\ s[i].needs = {x}
           \/ i > 1 /\ s[i].needs = {s[i - 1].thing}
    PROVE  RootRequest(s, i, asked)
<1>1. s[i].thing[1] \notin Backbone
  <2>1. i \in i .. i + n - 1
    OBVIOUS
  <2> QED
    BY <2>1
<1>2. s[i].thing[1] # "user"
  BY <1>1 DEF Backbone
<1>3. /\ s[i].thing[1] = "user" => MakesUser(s, i)
      /\ s[i].thing[1] \in Backbone => s[i].skips = 0
      /\ i + s[i].skips <= Len(s) + 1 /\ s[i].skips \in Nat
      /\ \A j \in i .. i + s[i].skips - 1 : s[j].thing[1] \notin Backbone
      /\ (s[i].skips > 0 /\ i + s[i].skips <= Len(s)) => s[i + s[i].skips].needs = {}
  BY <1>1, <1>2
<1> QED
  BY <1>3 DEF RootRequest

LEMMA RootUserPart ==
    ASSUME NEW u \in Accounts, NEW asked, Role(RoleOf[u]) \in asked
    PROVE  RootPart(RootUser(u), asked)
<1> DEFINE s == RootUser(u)
<1>1. IsList(s) /\ Len(s) = 5
  BY DEF RootUser, IsList
<1>2. /\ s[1].thing = User(u) /\ s[2].thing = Password(u) /\ s[3].thing = Granted(u)
      /\ s[4].thing = ClientRole(RoleOf[u]) /\ s[5].thing = GrantedClient(u)
  BY DEF RootUser, Ensure, Try
<1>3. /\ s[1].needs = {} /\ s[2].needs = {} /\ s[3].needs = {Role(RoleOf[u])}
      /\ s[4].needs = {} /\ s[5].needs = {s[4].thing}
  BY DEF RootUser, Ensure, Try
<1>4. /\ s[1].new = {} /\ s[2].new = {} /\ s[3].new = {} /\ s[4].new = {} /\ s[5].new = {}
      /\ s[1].looks = FALSE /\ s[2].looks = FALSE /\ s[3].looks = FALSE /\ s[4].looks = FALSE
      /\ s[5].looks = FALSE
  BY DEF RootUser, Ensure, Try
<1>5. /\ s[1].skips = 0 /\ s[2].skips = 0 /\ s[3].skips = 3 /\ s[4].skips = 2 /\ s[5].skips = 1
  BY DEF RootUser, Ensure, Try
<1> HIDE DEF s
<1>6. /\ s[1].thing[1] = "user" /\ s[2].thing[1] = "password" /\ s[3].thing[1] = "granted"
      /\ s[4].thing[1] = "role of the client" /\ s[5].thing[1] = "granted at the client"
  <2>1. /\ User(u)[1] = "user" /\ Password(u)[1] = "password" /\ Granted(u)[1] = "granted"
        /\ ClientRole(RoleOf[u])[1] = "role of the client" /\ GrantedClient(u)[1] = "granted at the client"
    BY DEF User, Password, Granted, ClientRole, GrantedClient
  <2> QED
    BY <1>2, <2>1
<1>7. Role(RoleOf[u])[1] = "role"
  BY DEF Role
<1>8. MakesUser(s, 1)
  BY <1>1, <1>2, <1>3, <1>4 DEF MakesUser
<1>9. \E x \in asked : x[1] = "role" /\ s[3].needs = {x}
  BY <1>3, <1>7
<1>10. \A i \in 1 .. 5 : s[i].skips \in 0 .. 6 - i
  BY <1>5
<1>11. \A i \in 3 .. 5 : s[i].thing[1] \notin Backbone
  <2>1. s[3].thing[1] \notin Backbone
    BY <1>6 DEF Backbone
  <2>2. s[4].thing[1] \notin Backbone
    BY <1>6 DEF Backbone
  <2>3. s[5].thing[1] \notin Backbone
    BY <1>6 DEF Backbone
  <2> QED
    BY <2>1, <2>2, <2>3
<1>12. RootRequest(s, 1, asked)
  BY <1>1, <1>3, <1>4, <1>5, <1>8 DEF RootRequest
<1>13. RootRequest(s, 2, asked)
  <2>1. s[2].thing[1] # "user"
    BY <1>6
  <2> QED
    BY <2>1, <1>1, <1>3, <1>4, <1>5 DEF RootRequest
<1>14. RootRequest(s, 3, asked)
  <2>1. \A j \in 3 .. 3 + 3 - 1 : s[j].thing[1] \notin Backbone
    BY <1>11
  <2>2. 3 \in Nat \ {0} /\ s[3].skips = 3 /\ 3 + 3 <= Len(s) + 1 /\ ~(3 + 3 <= Len(s))
        /\ 3 \in 1 .. Len(s) /\ Len(s) \in Nat
    BY <1>1, <1>5
  <2>3. s[3].new = {} /\ s[3].looks = FALSE
    BY <1>4
  <2> QED
    BY ONLY <2>1, <2>2, <2>3, <1>9, Block
<1>15. RootRequest(s, 4, asked)
  <2>1. \A j \in 4 .. 4 + s[4].skips - 1 : s[j].thing[1] \notin Backbone
    BY <1>11, <1>5
  <2>2. s[4].thing[1] # "user" /\ s[4].thing[1] \notin Backbone
    <3>1. 4 \in 3 .. 5
      OBVIOUS
    <3> QED
      BY <3>1, <1>6, <1>11
  <2>3. ~(4 + s[4].skips <= Len(s)) /\ 4 + s[4].skips <= Len(s) + 1 /\ s[4].skips \in Nat
    BY <1>1, <1>5
  <2> QED
    BY <2>1, <2>2, <2>3, <1>3, <1>4 DEF RootRequest
<1>16. RootRequest(s, 5, asked)
  <2>1. \A j \in 5 .. 5 + 1 - 1 : s[j].thing[1] \notin Backbone
    BY <1>11
  <2>2. 1 \in Nat \ {0} /\ s[5].skips = 1 /\ 5 + 1 <= Len(s) + 1 /\ ~(5 + 1 <= Len(s))
        /\ 5 \in 1 .. Len(s) /\ Len(s) \in Nat
    BY <1>1, <1>5
  <2>3. s[5].new = {} /\ s[5].looks = FALSE /\ 5 > 1 /\ s[5].needs = {s[5 - 1].thing}
    BY <1>3, <1>4
  <2> QED
    BY ONLY <2>1, <2>2, <2>3, Block
<1>17. RootPart(s, asked)
  BY <1>1, <1>3, <1>12, <1>13, <1>14, <1>15, <1>16 DEF RootPart
<1> QED
  BY <1>17 DEF s

LEMMA PlainRequests ==
    ASSUME NEW x, x[1] # "user"
    PROVE  /\ Plain(Ensure(x))
           /\ x[1] \notin Backbone => Plain(Try(x, 1))
BY DEF Plain, Ensure, Try

LEMMA RootRealmPart ==
    ASSUME NEW asked, NEW m
    PROVE  /\ RootPart(RootRealm(m), asked)
           /\ m = "KEYCLOAK_SMTP" => <<"mail">> \in Things(RootRealm(m))
<1> DEFINE s == <<Ensure(<<"realm">>), Ensure(<<"theme">>), Try(<<"profiles unverified">>, 1)>>
           t == <<Ensure(<<"mail">>)>>
<1>1. IsList(s) /\ Len(s) = 3 /\ IsList(t) /\ Len(t) = 1
  <2>1. IsList(s)
    <3>1. ASSUME NEW x, NEW y, NEW z
          PROVE  IsList(<<x, y, z>>)
      BY DEF IsList
    <3> QED
      BY <3>1
  <2>2. IsList(t)
    BY DEF IsList
  <2> QED
    BY <2>1, <2>2
<1>2. Plain(s[1]) /\ Plain(s[2]) /\ Plain(t[1])
  BY PlainRequests
<1>3. Plain(s[3])
  BY PlainRequests DEF Backbone
<1>4. RootRealm(m) = IF m = "KEYCLOAK_SMTP" THEN s \o t ELSE s \o <<>>
  BY DEF RootRealm, If
<1> HIDE DEF s, t
<1>5. \A i \in 1 .. Len(s) : Plain(s[i])
  BY <1>1, <1>2, <1>3
<1>6. \A i \in 1 .. Len(t) : Plain(t[i])
  BY <1>1, <1>2
<1>7. RootPart(s, asked) /\ RootPart(t, asked \cup Things(s))
  BY <1>1, <1>5, <1>6, PlainPart
<1>8. s \o <<>> = s
  BY <1>1 DEF IsList
<1>9. <<"mail">> \in Things(t)
  BY <1>1 DEF t, Things, Ensure
<1>10. Things(s \o t) = Things(s) \cup Things(t)
  BY <1>1, Follow
<1> QED
  BY <1>4, <1>7, <1>8, <1>9, <1>10, RootFollow

LEMMA RootClientPart ==
    ASSUME NEW asked
    PROVE  RootPart(RootClient, asked)
<1> DEFINE s == RootClient
<1>1. IsList(s)
  BY DEF IsList, RootClient
<1>2. Len(s) = 5
  BY DEF RootClient
<1>3. Plain(s[1]) /\ Plain(s[3]) /\ Plain(s[5])
  BY PlainRequests DEF RootClient
<1>4. Plain(s[2]) /\ Plain(s[4])
  BY PlainRequests DEF RootClient, Backbone
<1> HIDE DEF s
<1>5. \A i \in 1 .. Len(s) : Plain(s[i])
  BY <1>2, <1>3, <1>4
<1>6. RootPart(s, asked)
  BY <1>1, <1>2, <1>5, PlainPart
<1> QED
  BY <1>6 DEF s

RoleNames == {"Superadmin", "Admin_Tenant", "Admin_Site", "User_Site"}

LEMMA RootRolesPart ==
    ASSUME NEW asked
    PROVE  /\ RootPart(RootRoles, asked)
           /\ \A r \in RoleNames : Role(r) \in Things(RootRoles)
<1> DEFINE s == RootRoles
<1>1. IsList(s)
  BY DEF IsList, RootRoles
<1>2. Len(s) = 4
  BY DEF RootRoles
<1>3. /\ s[1] = Ensure(Role("Superadmin")) /\ s[2] = Ensure(Role("Admin_Tenant"))
      /\ s[3] = Ensure(Role("Admin_Site")) /\ s[4] = Ensure(Role("User_Site"))
  BY DEF RootRoles
<1>4. \A r \in RoleNames : Role(r)[1] # "user"
  BY DEF Role
<1>5. \A r \in RoleNames : Plain(Ensure(Role(r)))
  BY <1>4, PlainRequests
<1>6. \A r \in RoleNames : Ensure(Role(r)).thing = Role(r)
  BY DEF Ensure
<1> HIDE DEF s
<1>7. Plain(s[1]) /\ Plain(s[2]) /\ Plain(s[3]) /\ Plain(s[4])
  BY <1>3, <1>5 DEF RoleNames
<1>8. \A i \in 1 .. Len(s) : Plain(s[i])
  BY <1>2, <1>7
<1>9. RootPart(s, asked)
  BY <1>1, <1>2, <1>8, PlainPart
<1>10. ASSUME NEW r \in RoleNames
       PROVE  Role(r) \in Things(s)
  <2>1. PICK i \in 1 .. 4 : s[i] = Ensure(Role(r))
    BY <1>3 DEF RoleNames
  <2> QED
    BY <2>1, <1>2, <1>6 DEF Things
<1> QED
  BY <1>9, <1>10 DEF s

LEMMA RootScriptPart ==
    ASSUME NEW m
    PROVE  /\ RootPart(RootScript(m), {})
           /\ m = "KEYCLOAK_SMTP" => <<"mail">> \in Things(RootScript(m))
<1> DEFINE a == RootRealm(m)
           b == a \o RootClient
           c == b \o RootRoles
           d == c \o RootUser("superadmin")
           e == d \o RootUser("admin_tenant")
           f == e \o RootUser("admin_site")
           g == f \o RootUser("user_site")
<1>0. RootScript(m) = g
  BY DEF RootScript
<1>1. RootPart(a, {}) /\ (m = "KEYCLOAK_SMTP" => <<"mail">> \in Things(a))
  BY RootRealmPart
<1>2. RootPart(b, {})
  BY <1>1, RootClientPart, RootFollow
<1>3. RootPart(c, {})
  BY <1>2, RootRolesPart, RootFollow
<1>4. Things(a) \subseteq Things(c) /\ Things(RootRoles) \subseteq Things(c)
  <2>1. IsList(a) /\ IsList(b) /\ IsList(RootClient) /\ IsList(RootRoles)
    BY <1>1, <1>2, RootClientPart, RootRolesPart DEF RootPart
  <2>2. Things(b) = Things(a) \cup Things(RootClient)
    BY <2>1, Follow
  <2>3. Things(c) = Things(b) \cup Things(RootRoles)
    BY <2>1, Follow
  <2> QED
    BY <2>2, <2>3
<1> HIDE DEF c
<1>5. \A u \in Accounts : Role(RoleOf[u]) \in Things(c)
  <2>1. \A u \in Accounts : RoleOf[u] \in RoleNames
    BY DEF RoleOf, Accounts, RoleNames
  <2> QED
    BY <2>1, <1>4, RootRolesPart
<1>6. ASSUME NEW s, RootPart(s, {}), \A u \in Accounts : Role(RoleOf[u]) \in Things(s), NEW u \in Accounts
      PROVE  /\ RootPart(s \o RootUser(u), {})
             /\ Things(s) \subseteq Things(s \o RootUser(u))
  <2>1. RootPart(RootUser(u), {} \cup Things(s))
    BY <1>6, RootUserPart
  <2>2. RootPart(s \o RootUser(u), {})
    BY <2>1, <1>6, RootFollow
  <2>3. IsList(s) /\ IsList(RootUser(u))
    BY <2>1, <1>6 DEF RootPart
  <2> QED
    BY <2>2, <2>3, Follow
<1>7. "superadmin" \in Accounts /\ "admin_tenant" \in Accounts /\ "admin_site" \in Accounts /\ "user_site" \in Accounts
  BY DEF Accounts
<1>8. RootPart(d, {}) /\ Things(c) \subseteq Things(d)
  BY <1>3, <1>5, <1>6, <1>7
<1> HIDE DEF d
<1>9. RootPart(e, {}) /\ Things(d) \subseteq Things(e)
  BY <1>5, <1>6, <1>7, <1>8
<1> HIDE DEF e
<1>10. RootPart(f, {}) /\ Things(e) \subseteq Things(f)
  BY <1>5, <1>6, <1>7, <1>8, <1>9
<1> HIDE DEF f
<1>11. RootPart(g, {}) /\ Things(f) \subseteq Things(g)
  BY <1>5, <1>6, <1>7, <1>8, <1>9, <1>10
<1> HIDE DEF g
<1>12. m = "KEYCLOAK_SMTP" => <<"mail">> \in Things(g)
  BY <1>1, <1>4, <1>8, <1>9, <1>10, <1>11
<1> QED
  BY <1>0, <1>11, <1>12

-----------------------------------------------------------------------------
PlainBackend(r) ==
    /\ r.needs = {} /\ r.new = {} /\ r.skips = 0
    /\ r.thing[1] \notin {"user", "password", "granted"}
    /\ r.looks = (r.thing[1] = "role")

LEMMA PlainBackendPart ==
    ASSUME NEW s, IsList(s), Len(s) > 0, \A i \in 1 .. Len(s) : PlainBackend(s[i])
    PROVE  BackendPart(s) /\ \A i \in 1 .. Len(s) : s[i].thing[1] # "granted"
<1>1. ASSUME NEW i \in 1 .. Len(s)
      PROVE  BackendRequest(s, i) /\ s[i].thing[1] # "granted"
  <2>1. PlainBackend(s[i])
    OBVIOUS
  <2> QED
    BY <2>1 DEF PlainBackend, BackendRequest
<1> QED
  BY <1>1 DEF BackendPart

LEMMA PlainBackendRequests ==
    /\ \A x : x[1] \notin {"user", "password", "granted", "role"} => PlainBackend(Ensure(x))
    /\ \A r : PlainBackend(Look(r))
<1>1. ASSUME NEW x, x[1] \notin {"user", "password", "granted", "role"}
      PROVE  PlainBackend(Ensure(x))
  BY <1>1 DEF PlainBackend, Ensure
<1>2. ASSUME NEW r
      PROVE  PlainBackend(Look(r))
  <2>1. Role(r)[1] = "role"
    BY DEF Role
  <2>2. /\ Look(r).thing = Role(r) /\ Look(r).needs = {} /\ Look(r).new = {} /\ Look(r).skips = 0
        /\ Look(r).looks = TRUE
    BY DEF Look, Ensure
  <2> QED
    BY <2>1, <2>2 DEF PlainBackend
<1> QED
  BY <1>1, <1>2

LEMMA BackendRealmPart ==
    ASSUME NEW m
    PROVE  /\ BackendPart(BackendRealm(m))
           /\ \A i \in 1 .. Len(BackendRealm(m)) : BackendRealm(m)[i].thing[1] # "granted"
           /\ m # "none" => <<"mail">> \in Things(BackendRealm(m))
<1> DEFINE s == <<Ensure(<<"realm">>), Ensure(<<"theme">>)>>
           t == <<Ensure(<<"mail">>)>>
           w == BackendRealm(m)
<1>1. IsList(s) /\ Len(s) = 2 /\ IsList(t) /\ Len(t) = 1
  <2>1. IsList(s)
    <3>1. ASSUME NEW x, NEW y
          PROVE  IsList(<<x, y>>)
      BY DEF IsList
    <3> QED
      BY <3>1
  <2>2. IsList(t)
    BY DEF IsList
  <2> QED
    BY <2>1, <2>2
<1>2. PlainBackend(s[1]) /\ PlainBackend(s[2]) /\ PlainBackend(t[1])
  BY PlainBackendRequests
<1>3. w = IF m # "none" THEN s \o t ELSE s \o <<>>
  BY DEF BackendRealm, If
<1>4. t[1].thing = <<"mail">>
  BY DEF Ensure
<1> HIDE DEF s, t, w
<1>5. s \o <<>> = s
  BY <1>1 DEF IsList
<1>6. /\ IsList(s \o t) /\ Len(s \o t) = 3 /\ (s \o t)[1] = s[1] /\ (s \o t)[2] = s[2] /\ (s \o t)[3] = t[1]
      /\ Things(s \o t) = Things(s) \cup Things(t)
  <2>1. /\ IsList(s \o t) /\ Len(s \o t) = Len(s) + Len(t)
        /\ \A i \in 1 .. Len(s) : (s \o t)[i] = s[i]
        /\ \A i \in 1 .. Len(t) : (s \o t)[Len(s) + i] = t[i]
        /\ Things(s \o t) = Things(s) \cup Things(t)
    <3>1. IsList(s) /\ IsList(t)
      BY <1>1
    <3> QED
      BY ONLY <3>1, Follow
  <2>2. (s \o t)[2 + 1] = t[1] /\ Len(s \o t) = 2 + 1
    BY <2>1, <1>1
  <2> QED
    BY <2>1, <2>2, <1>1
<1>7. IsList(w) /\ Len(w) > 0 /\ \A i \in 1 .. Len(w) : PlainBackend(w[i])
  <2>1. CASE m # "none"
    BY <2>1, <1>2, <1>3, <1>6
  <2>2. CASE m = "none"
    <3>1. w = s
      BY <2>2, <1>3, <1>5
    <3> QED
      BY <3>1, <1>1, <1>2
  <2> QED
    BY <2>1, <2>2
<1>8. <<"mail">> \in Things(t)
  BY <1>1, <1>4 DEF Things
<1>9. BackendPart(w) /\ \A i \in 1 .. Len(w) : w[i].thing[1] # "granted"
  BY <1>7, PlainBackendPart
<1> QED
  BY <1>3, <1>6, <1>8, <1>9 DEF w

LEMMA BackendClientPart ==
    /\ BackendPart(BackendClient)
    /\ \A i \in 1 .. Len(BackendClient) : BackendClient[i].thing[1] # "granted"
<1> DEFINE s == BackendClient
<1>1. IsList(s)
  BY DEF IsList, BackendClient
<1>2. Len(s) = 3
  BY DEF BackendClient
<1>3. PlainBackend(s[1]) /\ PlainBackend(s[2]) /\ PlainBackend(s[3])
  BY PlainBackendRequests DEF BackendClient
<1> HIDE DEF s
<1>4. \A i \in 1 .. Len(s) : PlainBackend(s[i])
  BY <1>2, <1>3
<1>5. BackendPart(s) /\ \A i \in 1 .. Len(s) : s[i].thing[1] # "granted"
  <2>1. Len(s) > 0
    BY <1>2
  <2> QED
    BY ONLY <2>1, <1>1, <1>4, PlainBackendPart
<1> QED
  BY <1>5 DEF s

LEMMA BackendRolesPart ==
    /\ BackendPart(BackendRoles)
    /\ \A i \in 1 .. Len(BackendRoles) : BackendRoles[i].thing[1] # "granted"
<1> DEFINE s == BackendRoles
<1>1. IsList(s)
  BY DEF IsList, BackendRoles
<1>2. Len(s) = 5
  BY DEF BackendRoles
<1>3. PlainBackend(s[1]) /\ PlainBackend(s[2]) /\ PlainBackend(s[3]) /\ PlainBackend(s[4]) /\ PlainBackend(s[5])
  BY PlainBackendRequests DEF BackendRoles
<1> HIDE DEF s
<1>4. \A i \in 1 .. Len(s) : PlainBackend(s[i])
  BY <1>2, <1>3
<1>5. BackendPart(s) /\ \A i \in 1 .. Len(s) : s[i].thing[1] # "granted"
  <2>1. Len(s) > 0
    BY <1>2
  <2> QED
    BY ONLY <2>1, <1>1, <1>4, PlainBackendPart
<1> QED
  BY <1>5 DEF s

LEMMA BackendUserPart ==
    ASSUME NEW u \in Accounts
    PROVE  /\ BackendPart(BackendUser(u))
           /\ \A i \in 1 .. Len(BackendUser(u)) : BackendUser(u)[i].thing[1] # "role"
<1> DEFINE s == BackendUser(u)
<1>1. IsList(s)
  BY DEF IsList, BackendUser
<1>2. Len(s) = 3
  BY DEF BackendUser
<1>3. s[1].thing = User(u) /\ s[2].thing = Password(u) /\ s[3].thing = Granted(u)
  BY DEF BackendUser, Ensure
<1>4. s[1].needs = {} /\ s[2].needs = {} /\ s[3].needs = {Role(RoleOf[u])}
  BY DEF BackendUser, Ensure
<1>5. s[1].new = {} /\ s[2].new = {u} /\ s[3].new = {}
  BY DEF BackendUser, Ensure
<1>6. /\ s[1].skips = 0 /\ s[2].skips = 0 /\ s[3].skips = 0
      /\ s[1].looks = FALSE /\ s[2].looks = FALSE /\ s[3].looks = FALSE
  BY DEF BackendUser, Ensure
<1> HIDE DEF s
<1>7. s[1].thing[1] = "user" /\ s[2].thing[1] = "password" /\ s[3].thing[1] = "granted"
  <2>1. User(u)[1] = "user" /\ Password(u)[1] = "password" /\ Granted(u)[1] = "granted"
    BY DEF User, Password, Granted
  <2> QED
    BY <2>1, <1>3
<1>8. MakesUser(s, 1)
  BY <1>2, <1>3, <1>4, <1>5 DEF MakesUser
<1>9. BackendRequest(s, 1)
  BY <1>2, <1>4, <1>5, <1>6, <1>7, <1>8 DEF BackendRequest
<1>10. BackendRequest(s, 2)
  <2>1. /\ s[2].thing = Password(u) /\ s[2].needs = {} /\ s[2].new = {u}
        /\ 2 > 1 /\ s[2 - 1].thing = User(u)
    BY <1>3, <1>4, <1>5
  <2>2. s[2].thing[1] # "user" /\ s[2].thing[1] # "granted" /\ s[2].looks = (s[2].thing[1] = "role")
    BY <1>6, <1>7
  <2> QED
    BY <2>1, <2>2, <1>6, <1>7 DEF BackendRequest
<1>11. BackendRequest(s, 3)
  <2>1. s[3].thing = Granted(u) /\ s[3].needs = {Role(RoleOf[u])} /\ s[3].new = {}
    BY <1>3, <1>4, <1>5
  <2>2. s[3].thing[1] # "user" /\ s[3].thing[1] # "password" /\ s[3].looks = (s[3].thing[1] = "role")
    BY <1>6, <1>7
  <2>3. \A j \in 3 .. Len(s) : s[j].thing[1] # "role"
    BY <1>2, <1>7
  <2> QED
    BY <2>1, <2>2, <2>3, <1>6, <1>7 DEF BackendRequest
<1>12. BackendPart(s)
  BY <1>1, <1>2, <1>9, <1>10, <1>11 DEF BackendPart
<1>13. \A i \in 1 .. Len(s) : s[i].thing[1] # "role"
  BY <1>2, <1>7
<1> QED
  BY <1>12, <1>13 DEF s

LEMMA BackendScriptPart ==
    ASSUME NEW m
    PROVE  /\ BackendPart(BackendScript(m))
           /\ m # "none" => <<"mail">> \in Things(BackendScript(m))
<1> DEFINE a == BackendRealm(m)
           b == a \o BackendClient
           c == b \o BackendRoles
           d == c \o BackendUser("superadmin")
           e == d \o BackendUser("admin_tenant")
<1>0. BackendScript(m) = e
  BY DEF BackendScript
<1>1. /\ BackendPart(a) /\ (m # "none" => <<"mail">> \in Things(a))
      /\ \A i \in 1 .. Len(a) : a[i].thing[1] # "granted"
  BY BackendRealmPart
<1> HIDE DEF a
<1>2. ASSUME NEW s, NEW t, BackendPart(s), BackendPart(t),
             \A i \in 1 .. Len(s) : s[i].thing[1] # "granted",
             \A i \in 1 .. Len(t) : t[i].thing[1] # "granted"
      PROVE  BackendPart(s \o t) /\ (\A i \in 1 .. Len(s \o t) : (s \o t)[i].thing[1] # "granted")
  <2> DEFINE w == s \o t
  <2>1. BackendPart(w)
    BY <1>2, BackendFollow
  <2>2. IsList(s) /\ IsList(t)
    BY <1>2 DEF BackendPart
  <2>3. /\ Len(w) = Len(s) + Len(t) /\ Len(s) \in Nat /\ Len(t) \in Nat
        /\ \A i \in 1 .. Len(s) : w[i] = s[i]
        /\ \A i \in 1 .. Len(t) : w[Len(s) + i] = t[i]
    BY <2>2, Follow
  <2> HIDE DEF w
  <2>4. ASSUME NEW i \in 1 .. Len(w)
        PROVE  w[i].thing[1] # "granted"
    <3>1. CASE i <= Len(s)
      <4>1. i \in 1 .. Len(s)
        BY <3>1, <2>3
      <4> QED
        BY <4>1, <2>3, <1>2
    <3>2. CASE i > Len(s)
      <4>1. i - Len(s) \in 1 .. Len(t) /\ i = Len(s) + (i - Len(s))
        BY <3>2, <2>3
      <4>2. w[i] = t[i - Len(s)]
        BY <4>1, <2>3
      <4> QED
        BY <4>1, <4>2, <1>2
    <3> QED
      BY <3>1, <3>2, <2>3
  <2> QED
    BY <2>1, <2>4 DEF w
<1>3. BackendPart(b) /\ \A i \in 1 .. Len(b) : b[i].thing[1] # "granted"
  BY <1>1, <1>2, BackendClientPart
<1>4. Things(a) \subseteq Things(b)
  <2>1. IsList(a) /\ IsList(BackendClient)
    BY <1>1, BackendClientPart DEF BackendPart
  <2> QED
    BY <2>1, Follow
<1> HIDE DEF b
<1>5. BackendPart(c)
  BY <1>2, <1>3, BackendRolesPart
<1>6. Things(b) \subseteq Things(c)
  <2>1. IsList(b) /\ IsList(BackendRoles)
    BY <1>3, BackendRolesPart DEF BackendPart
  <2> QED
    BY <2>1, Follow
<1> HIDE DEF c
<1>7. ASSUME NEW s, BackendPart(s), NEW u \in Accounts
      PROVE  BackendPart(s \o BackendUser(u)) /\ Things(s) \subseteq Things(s \o BackendUser(u))
  <2>1. BackendPart(s \o BackendUser(u))
    BY <1>7, BackendUserPart, BackendFollow
  <2>2. IsList(s) /\ IsList(BackendUser(u))
    BY <1>7, BackendUserPart DEF BackendPart
  <2> QED
    BY <2>1, <2>2, Follow
<1>8. "superadmin" \in Accounts /\ "admin_tenant" \in Accounts
  BY DEF Accounts
<1>9. BackendPart(d) /\ Things(c) \subseteq Things(d)
  BY <1>5, <1>7, <1>8
<1> HIDE DEF d
<1>10. BackendPart(e) /\ Things(d) \subseteq Things(e)
  BY <1>7, <1>8, <1>9
<1> HIDE DEF e
<1> QED
  BY <1>0, <1>1, <1>4, <1>6, <1>9, <1>10

-----------------------------------------------------------------------------
Asked == RequestsOf(setup.script)

SetupTypes ==
    /\ mail \in {"none", "MAIL", "KEYCLOAK_SMTP"}
    /\ setup # Resting =>
        /\ setup.script \in {"root", "backend"} /\ setup.at \in 1 .. Len(Asked) + 1
        /\ setup = [script |-> setup.script, at |-> setup.at]
        /\ ended.script = "none"

\* What the run in progress has come to is there, is given up, or is left out.
Covered ==
    setup # Resting =>
        \A i \in 1 .. setup.at - 1 :
            Asked[i].thing \in realm \cup missed \/ Departs(setup.script, Asked[i].thing)

\* What it has given up is nothing that a later request needs, and the script of
\* the back end gives up nothing.
GivenUp ==
    setup # Resting => /\ \A thing \in missed : thing[1] \notin Backbone
                       /\ setup.script = "backend" => missed = {}

NeedsMet == (Sending /\ setup.script = "root") => Request.needs \subseteq realm

\* A user without a password was left by an earlier run, or gets it next.
PasswordsCome ==
    \A u \in Accounts : User(u) \in realm =>
        \/ Password(u) \in realm
        \/ u \in orphans
        \/ Sending /\ Request.thing = Password(u) /\ u \in made

SetupInv == SetupTypes /\ Covered /\ GivenUp /\ NeedsMet /\ PasswordsCome /\ SetupConverges

\* A departure remains one, unless the role comes that a grant lacked.
LEMMA StillDeparts ==
    ASSUME NEW sc, NEW x, Departs(sc, x), mail' = mail, orphans \subseteq orphans',
           (sc = "backend" /\ x[1] = "granted") => \A y \in realm' : y \in realm \/ y[1] # "role"
    PROVE  Departs(sc, x)'
<1>1. Role(RoleOf[x[2]])[1] = "role"
  BY DEF Role
<1>2. ASSUME sc = "backend", x[1] = "granted", Role(RoleOf[x[2]]) \notin realm
      PROVE  Role(RoleOf[x[2]]) \notin realm'
  BY <1>1, <1>2
<1> QED
  BY <1>2 DEF Departs

\* The run in progress, by the script, its requests and the number of the next.
Running(sc, s, n) ==
    /\ sc \in {"root", "backend"} /\ s = RequestsOf(sc) /\ Len(s) \in Nat
    /\ n \in 1 .. Len(s) + 1 /\ setup = [script |-> sc, at |-> n]
    /\ sc = "root" => RootPart(s, {})
    /\ sc = "backend" => BackendPart(s)

LEMMA RunInProgress ==
    ASSUME SetupTypes, setup # Resting
    PROVE  \E sc, s, n : Running(sc, s, n)
<1>1. PICK sc : sc = setup.script
  OBVIOUS
<1>2. PICK s : s = RequestsOf(sc)
  OBVIOUS
<1>3. PICK n : n = setup.at
  OBVIOUS
<1>4. sc \in {"root", "backend"} /\ n \in 1 .. Len(s) + 1 /\ setup = [script |-> sc, at |-> n]
  BY <1>1, <1>2, <1>3 DEF SetupTypes, Asked
<1>5. sc = "root" => RootPart(s, {})
  BY <1>2, RootScriptPart DEF RequestsOf
<1>6. sc = "backend" => BackendPart(s)
  BY <1>2, BackendScriptPart DEF RequestsOf
<1>7. IsList(s)
  BY <1>4, <1>5, <1>6 DEF RootPart, BackendPart
<1>8. Len(s) \in Nat
  BY <1>7 DEF IsList
<1>9. Running(sc, s, n)
  BY <1>2, <1>4, <1>5, <1>6, <1>8 DEF Running
<1> QED
  BY <1>9

\* What the operators of the model say of a run.
LEMMA RunSays ==
    ASSUME NEW sc, NEW s, NEW n, Running(sc, s, n)
    PROVE  /\ setup # Resting /\ setup.script = sc /\ setup.at = n /\ Asked = s
           /\ Sending <=> n <= Len(s)
           /\ Request = s[n]
<1>1. setup.script = sc /\ setup.at = n
  BY DEF Running
<1>2. setup # Resting
  BY <1>1 DEF Running, Resting
<1>3. RequestsOf(setup.script) = s
  BY <1>1 DEF Running
<1> QED
  BY <1>1, <1>2, <1>3 DEF Asked, Sending, Request

LEMMA RunGoesOn ==
    ASSUME NEW sc, NEW s, NEW n, Running(sc, s, n), mail' = mail,
           NEW m \in 1 .. Len(s) + 1, setup' = [setup EXCEPT !.at = m]
    PROVE  /\ Running(sc, s, m)'
           /\ (setup # Resting)' /\ setup'.script = sc /\ setup'.at = m /\ Asked' = s
           /\ Sending' <=> m <= Len(s)
           /\ Request' = s[m]
<1>1. setup' = [script |-> sc, at |-> m]
  BY DEF Running
<1>2. RequestsOf(sc)' = RequestsOf(sc)
  BY DEF RequestsOf
<1>3. Running(sc, s, m)'
  BY <1>1, <1>2 DEF Running
<1>4. setup'.script = sc /\ setup'.at = m
  BY <1>1
<1>5. (setup # Resting)'
  BY <1>1, <1>3 DEF Running, Resting
<1>6. RequestsOf(setup.script)' = s
  <2>1. RequestsOf(setup.script)' = RequestsOf(sc)'
    BY <1>4 DEF RequestsOf
  <2> QED
    BY <2>1, <1>2 DEF Running
<1> QED
  BY <1>3, <1>4, <1>5, <1>6 DEF Asked, Sending, Request

\* What has been passed over so far stays so: no role comes after a grant.
LEMMA DepartsAlong ==
    ASSUME NEW sc, NEW s, NEW n, Running(sc, s, n), n \in 1 .. Len(s),
           mail' = mail, orphans \subseteq orphans',
           \A y \in realm' : y \in realm \/ y = s[n].thing,
           NEW i \in 1 .. n, Departs(sc, s[i].thing)
    PROVE  Departs(sc, s[i].thing)'
<1>1. ASSUME sc = "backend", s[i].thing[1] = "granted", NEW y \in realm'
      PROVE  y \in realm \/ y[1] # "role"
  <2>1. i \in 1 .. Len(s) /\ n \in i .. Len(s)
    BY DEF Running
  <2>2. BackendRequest(s, i)
    BY <1>1, <2>1 DEF Running, BackendPart
  <2>3. s[n].thing[1] # "role"
    BY <1>1, <2>1, <2>2 DEF BackendRequest
  <2> QED
    BY <2>3
<1>2. PICK x : x = s[i].thing
  OBVIOUS
<1>3. Departs(sc, x)'
  BY <1>1, <1>2, StillDeparts
<1> QED
  BY <1>2, <1>3

LEMMA CoveredNext ==
    ASSUME NEW sc, NEW s, NEW n, Running(sc, s, n), mail' = mail,
           NEW m \in 1 .. Len(s) + 1, setup' = [setup EXCEPT !.at = m],
           \A i \in 1 .. m - 1 : s[i].thing \in realm' \cup missed' \/ Departs(sc, s[i].thing)'
    PROVE  Covered'
<1>1. setup'.script = sc /\ setup'.at = m /\ Asked' = s
  BY RunGoesOn
<1>2. ASSUME NEW i \in 1 .. m - 1
      PROVE  (Asked[i].thing \in realm \cup missed \/ Departs(setup.script, Asked[i].thing))'
  <2>1. PICK x : x = s[i].thing
    OBVIOUS
  <2>2. x \in realm' \cup missed' \/ Departs(sc, x)'
    BY <2>1
  <2>3. Asked'[i].thing = x
    BY <2>1, <1>1
  <2>4. Departs(setup.script, Asked[i].thing)' <=> Departs(sc, x)'
    BY <2>3, <1>1 DEF Departs
  <2> QED
    BY <2>2, <2>3, <2>4
<1> QED
  BY <1>1, <1>2 DEF Covered

LEMMA SetupSends ==
    ASSUME SetupInv, Send
    PROVE  SetupInv'
<1>0. mail' \in {"none", "MAIL", "KEYCLOAK_SMTP"}
  BY DEF SetupInv, SetupTypes, Send
<1>1. PICK sc, s, n : Running(sc, s, n)
  BY RunInProgress DEF SetupInv, Send, Sending
<1>2. /\ setup # Resting /\ setup.script = sc /\ setup.at = n /\ Asked = s
      /\ n <= Len(s) /\ Sending /\ Request = s[n]
  BY <1>1, RunSays DEF Send
<1>3. /\ sc \in {"root", "backend"} /\ Len(s) \in Nat /\ n \in 1 .. Len(s)
      /\ sc = "root" => RootPart(s, {})
      /\ sc = "backend" => BackendPart(s)
  BY <1>1, <1>2 DEF Running
<1>4. PICK sent \in BOOLEAN : sent <=> (s[n].needs \subseteq realm /\ s[n].new \subseteq made /\ ~s[n].looks)
  OBVIOUS
<1>5. /\ realm' = IF sent THEN realm \cup {s[n].thing} ELSE realm
      /\ made' = IF s[n].thing[1] = "user" /\ s[n].thing \notin realm
                 THEN made \cup {s[n].thing[2]} ELSE made
      /\ mail' = mail /\ missed' = missed /\ ended' = ended /\ orphans' = orphans
  BY <1>2, <1>4 DEF Send
<1>6. setup' = [setup EXCEPT !.at = n + 1] /\ n + 1 \in 1 .. Len(s) + 1
  BY <1>2, <1>3 DEF Send, Goes
<1>7. /\ Running(sc, s, n + 1)'
      /\ (setup # Resting)' /\ setup'.script = sc /\ setup'.at = n + 1 /\ Asked' = s
      /\ Sending' <=> n + 1 <= Len(s)
      /\ Request' = s[n + 1]
  BY <1>1, <1>5, <1>6, RunGoesOn
<1>8. /\ \A i \in 1 .. n - 1 : s[i].thing \in realm \cup missed \/ Departs(sc, s[i].thing)
      /\ \A thing \in missed : thing[1] \notin Backbone
      /\ sc = "backend" => missed = {}
      /\ sc = "root" => s[n].needs \subseteq realm
      /\ ended.script = "none"
  BY <1>2 DEF SetupInv, SetupTypes, Covered, GivenUp, NeedsMet
<1>9. \A u \in Accounts : User(u) \in realm =>
          Password(u) \in realm \/ u \in orphans \/ (s[n].thing = Password(u) /\ u \in made)
  BY <1>2 DEF SetupInv, PasswordsCome
<1>10. sc = "root" => sent /\ RootRequest(s, n, {})
  <2>1. sc = "root" => RootRequest(s, n, {})
    BY <1>3 DEF RootPart
  <2> QED
    BY <2>1, <1>4, <1>8 DEF RootRequest
<1>11. sc = "backend" => BackendRequest(s, n)
  BY <1>3 DEF BackendPart
<1>12. \A u \in Accounts : s[n].thing = Password(u) =>
           (u \in made => sent) /\ (sc = "backend" => n > 1 /\ s[n - 1].thing = User(u))
  <2>1. SUFFICES ASSUME NEW u \in Accounts, s[n].thing = Password(u), sc = "backend"
                 PROVE  (u \in made => sent) /\ n > 1 /\ s[n - 1].thing = User(u)
    BY <1>3, <1>10
  <2>2. s[n].thing[1] = "password"
    BY <2>1 DEF Password
  <2>3. PICK v \in Accounts : /\ s[n].thing = Password(v) /\ s[n].needs = {} /\ s[n].new = {v}
                              /\ n > 1 /\ s[n - 1].thing = User(v)
    BY <2>1, <2>2, <1>11 DEF BackendRequest
  <2>4. u = v
    BY <2>1, <2>3 DEF Password
  <2>5. ~s[n].looks
    BY <2>1, <2>2, <1>11 DEF BackendRequest
  <2> QED
    BY <2>3, <2>4, <2>5, <1>4
<1>13. sent \/ Departs(sc, s[n].thing) \/ s[n].thing \in realm
  <2>1. SUFFICES ASSUME sc = "backend"
                 PROVE  sent \/ Departs(sc, s[n].thing) \/ s[n].thing \in realm
    BY <1>3, <1>10
  <2>2. CASE s[n].thing[1] = "role"
    BY <2>1, <2>2 DEF Departs
  <2>3. CASE s[n].thing[1] = "password"
    <3>1. PICK u \in Accounts : s[n].thing = Password(u) /\ n > 1 /\ s[n - 1].thing = User(u)
      BY <2>1, <2>3, <1>11 DEF BackendRequest
    <3>2. CASE u \in made
      BY <3>1, <3>2, <1>12
    <3>3. CASE u \notin made
      <4>1. User(u) \in realm \cup missed \/ Departs(sc, User(u))
        <5>1. n - 1 \in 1 .. n - 1
          BY <3>1, <1>3
        <5> QED
          BY <5>1, <3>1, <1>8
      <4>2. User(u)[1] = "user"
        BY DEF User
      <4>3. ~Departs(sc, User(u))
        BY <2>1, <4>2 DEF Departs
      <4>4. User(u) \in realm
        BY <2>1, <4>1, <4>3, <1>8
      <4>5. Password(u) \in realm \/ u \in orphans
        BY <4>4, <3>3, <1>9
      <4>6. Password(u)[1] = "password" /\ Password(u)[2] = u
        BY DEF Password
      <4> QED
        BY <2>1, <3>1, <4>5, <4>6 DEF Departs
    <3> QED
      BY <3>2, <3>3
  <2>4. CASE s[n].thing[1] = "granted"
    <3>1. PICK u \in Accounts : s[n].thing = Granted(u) /\ s[n].new = {} /\ s[n].needs = {Role(RoleOf[u])}
      BY <2>1, <2>4, <1>11 DEF BackendRequest
    <3>2. ~s[n].looks
      BY <2>1, <2>4, <1>11 DEF BackendRequest
    <3>3. Role(RoleOf[u]) \in realm => sent
      BY <3>1, <3>2, <1>4
    <3>4. s[n].thing[2] = u
      BY <3>1 DEF Granted
    <3> QED
      BY <2>1, <2>4, <3>3, <3>4 DEF Departs
  <2>5. CASE s[n].thing[1] \notin {"role", "password", "granted"}
    <3>1. s[n].needs = {} /\ s[n].new = {}
      BY <2>1, <2>5, <1>11 DEF BackendRequest
    <3>2. ~s[n].looks
      BY <2>1, <2>5, <1>11 DEF BackendRequest
    <3> QED
      BY <3>1, <3>2, <1>4
  <2> QED
    BY <2>2, <2>3, <2>4, <2>5
<1>14. realm \subseteq realm' /\ \A y \in realm' : y \in realm \/ y = s[n].thing
  BY <1>5
<1>15. ASSUME NEW i \in 1 .. n, Departs(sc, s[i].thing)
       PROVE  Departs(sc, s[i].thing)'
  BY <1>1, <1>3, <1>5, <1>14, <1>15, DepartsAlong
<1>16. ASSUME NEW i \in 1 .. n
       PROVE  s[i].thing \in realm' \cup missed' \/ Departs(sc, s[i].thing)'
  <2>1. CASE i = n
    BY <2>1, <1>5, <1>13, <1>14, <1>15
  <2>2. CASE i # n
    <3>1. i \in 1 .. n - 1
      BY <2>2, <1>3
    <3> QED
      BY <3>1, <1>5, <1>8, <1>14, <1>15
  <2> QED
    BY <2>1, <2>2
<1>17. Covered'
  <2>1. PICK m \in 1 .. Len(s) + 1 : m = n + 1 /\ m - 1 = n
    BY <1>3
  <2>2. \A i \in 1 .. m - 1 : s[i].thing \in realm' \cup missed' \/ Departs(sc, s[i].thing)'
    BY <2>1, <1>16
  <2>3. setup' = [setup EXCEPT !.at = m] /\ mail' = mail
    BY <2>1, <1>5, <1>6
  <2> QED
    BY ONLY <2>2, <2>3, <1>1, CoveredNext
<1>18. SetupTypes'
  BY <1>0, <1>5, <1>7, <1>8 DEF SetupTypes, Running
<1>19. GivenUp'
  BY <1>5, <1>7, <1>8 DEF GivenUp
<1>20. NeedsMet'
  <2>1. SUFFICES ASSUME sc = "root", n + 1 <= Len(s)
                 PROVE  s[n + 1].needs \subseteq realm'
    BY <1>7 DEF NeedsMet
  <2>2. PICK m \in 1 .. Len(s) : m = n + 1 /\ m - 1 = n
    BY <2>1, <1>3
  <2>3. RootRequest(s, m, {})
    BY <2>1, <1>3 DEF RootPart
  <2>4. \/ s[m].needs = {}
        \/ \E j \in 1 .. m - 1 : s[j].thing[1] = "role" /\ s[m].needs = {s[j].thing}
        \/ s[m].needs = {s[m - 1].thing}
    BY <2>3 DEF RootRequest
  <2>5. ASSUME NEW j \in 1 .. m - 1, s[j].thing[1] = "role", s[m].needs = {s[j].thing}
        PROVE  s[j].thing \in realm'
    <3>1. j \in 1 .. n
      BY <2>2
    <3>2. ~Departs(sc, s[j].thing)'
      <4>1. s[j].thing # <<"mail">>
        BY <2>5
      <4> QED
        BY <2>1, <4>1 DEF Departs
    <3>3. s[j].thing \notin missed'
      BY <2>5, <1>5, <1>8 DEF Backbone
    <3> QED
      BY <3>1, <3>2, <3>3, <1>16
  <2>6. s[n].thing \in realm'
    BY <2>1, <1>5, <1>10
  <2>7. s[m].needs \subseteq realm'
    BY <2>2, <2>4, <2>5, <2>6
  <2> QED
    BY <2>2, <2>7
<1>21. PasswordsCome'
  <2>1. SUFFICES ASSUME NEW u \in Accounts, User(u) \in realm'
                 PROVE  \/ Password(u) \in realm'
                        \/ u \in orphans'
                        \/ n + 1 <= Len(s) /\ s[n + 1].thing = Password(u) /\ u \in made'
    BY <1>7 DEF PasswordsCome
  <2>2. CASE User(u) \in realm
    <3>1. (s[n].thing = Password(u) /\ u \in made) => Password(u) \in realm'
      BY <1>5, <1>12
    <3> QED
      BY <2>2, <3>1, <1>5, <1>9, <1>14
  <2>3. CASE User(u) \notin realm
    <3>1. s[n].thing = User(u)
      BY <2>1, <2>3, <1>14
    <3>2. s[n].thing[1] = "user" /\ s[n].thing[2] = u
      BY <3>1 DEF User
    <3>3. MakesUser(s, n)
      BY <3>2, <1>3, <1>10, <1>11 DEF RootRequest, BackendRequest
    <3>4. PICK v \in Accounts : s[n].thing = User(v) /\ n < Len(s) /\ s[n + 1].thing = Password(v)
      BY <3>3 DEF MakesUser
    <3>5. v = u
      BY <3>1, <3>4 DEF User
    <3>6. u \in made'
      BY <2>3, <3>1, <3>2, <1>5
    <3> QED
      BY <3>4, <3>5, <3>6, <1>3
  <2> QED
    BY <2>2, <2>3
<1>22. SetupConverges'
  BY <1>5, <1>8 DEF SetupConverges
<1> QED
  BY <1>17, <1>18, <1>19, <1>20, <1>21, <1>22 DEF SetupInv

\* Only the script of the back end looks, and only at roles.
LEMMA SetupLooks ==
    ASSUME SetupInv, LookFails
    PROVE  SetupInv'
<1>0. mail' \in {"none", "MAIL", "KEYCLOAK_SMTP"}
  BY DEF SetupInv, SetupTypes, LookFails
<1>1. PICK sc, s, n : Running(sc, s, n)
  BY RunInProgress DEF SetupInv, LookFails, Sending
<1>2. /\ setup # Resting /\ setup.script = sc /\ setup.at = n /\ Asked = s
      /\ n <= Len(s) /\ Sending /\ Request = s[n] /\ s[n].looks
  BY <1>1, RunSays DEF LookFails
<1>3. /\ sc \in {"root", "backend"} /\ Len(s) \in Nat /\ n \in 1 .. Len(s)
      /\ sc = "root" => RootPart(s, {})
      /\ sc = "backend" => BackendPart(s)
  BY <1>1, <1>2 DEF Running
<1>4. sc = "backend"
  <2>1. sc = "root" => RootRequest(s, n, {})
    BY <1>3 DEF RootPart
  <2>2. sc # "root"
    BY <2>1, <1>2 DEF RootRequest
  <2> QED
    BY <2>2, <1>3
<1>5. BackendRequest(s, n)
  BY <1>3, <1>4 DEF BackendPart
<1>6. s[n].thing[1] = "role"
  BY <1>2, <1>5 DEF BackendRequest
<1>7. /\ realm' = realm \cup {s[n].thing}
      /\ mail' = mail /\ made' = made /\ missed' = missed /\ ended' = ended /\ orphans' = orphans
  BY <1>2 DEF LookFails
<1>8. setup' = Resting \/ setup' = [setup EXCEPT !.at = n + 1]
  BY <1>2 DEF LookFails, Goes
<1>9. /\ \A i \in 1 .. n - 1 : s[i].thing \in realm \cup missed \/ Departs(sc, s[i].thing)
      /\ \A thing \in missed : thing[1] \notin Backbone
      /\ missed = {}
      /\ ended.script = "none"
  BY <1>2, <1>4 DEF SetupInv, SetupTypes, Covered, GivenUp
<1>10. ASSUME NEW u \in Accounts, User(u) \in realm'
       PROVE  Password(u) \in realm' \/ u \in orphans'
  <2>1. User(u)[1] = "user" /\ Password(u)[1] = "password"
    BY DEF User, Password
  <2>2. User(u) \in realm
    BY <2>1, <1>6, <1>7, <1>10
  <2>3. s[n].thing # Password(u)
    BY <2>1, <1>6
  <2> QED
    BY <2>2, <2>3, <1>2, <1>7 DEF SetupInv, PasswordsCome
<1>11. PasswordsCome'
  BY <1>10 DEF PasswordsCome
<1>12. SetupConverges'
  BY <1>7, <1>9 DEF SetupConverges
<1>13. CASE setup' = Resting
  <2>1. SetupTypes' /\ Covered' /\ GivenUp'
    BY <1>0, <1>13 DEF SetupTypes, Covered, GivenUp, Resting
  <2>2. NeedsMet'
    BY <1>13 DEF NeedsMet, Sending, Resting
  <2> QED
    BY <2>1, <2>2, <1>11, <1>12 DEF SetupInv
<1>14. CASE setup' = [setup EXCEPT !.at = n + 1]
  <2>1. n + 1 \in 1 .. Len(s) + 1 /\ n + 1 - 1 = n
    BY <1>3
  <2>2. /\ Running(sc, s, n + 1)'
        /\ (setup # Resting)' /\ setup'.script = sc /\ setup'.at = n + 1 /\ Asked' = s
    BY <2>1, <1>1, <1>7, <1>14, RunGoesOn
  <2>3. ASSUME NEW i \in 1 .. n
        PROVE  s[i].thing \in realm' \cup missed' \/ Departs(sc, s[i].thing)'
    <3>1. CASE i = n
      BY <3>1, <1>7
    <3>2. CASE i # n
      <4>1. i \in 1 .. n - 1
        BY <3>2, <1>3
      <4>2. Departs(sc, s[i].thing) => Departs(sc, s[i].thing)'
        BY <1>1, <1>3, <1>7, DepartsAlong
      <4> QED
        BY <4>1, <4>2, <1>7, <1>9
    <3> QED
      BY <3>1, <3>2
  <2>4. Covered'
    <3>1. PICK m \in 1 .. Len(s) + 1 : m = n + 1 /\ m - 1 = n
      BY <1>3
    <3>2. \A i \in 1 .. m - 1 : s[i].thing \in realm' \cup missed' \/ Departs(sc, s[i].thing)'
      BY <3>1, <2>3
    <3>3. setup' = [setup EXCEPT !.at = m] /\ mail' = mail
      BY <3>1, <1>7, <1>14
    <3> QED
      BY ONLY <3>2, <3>3, <1>1, CoveredNext
  <2>5. SetupTypes'
    BY <1>0, <2>2, <1>7, <1>9 DEF SetupTypes, Running
  <2>6. GivenUp' /\ NeedsMet'
    BY <2>2, <1>4, <1>7, <1>9 DEF GivenUp, NeedsMet
  <2> QED
    BY <2>4, <2>5, <2>6, <1>11, <1>12 DEF SetupInv
<1> QED
  BY <1>8, <1>13, <1>14

\* Only the script of the root directory catches, and nothing of its backbone.
LEMMA SetupCatches ==
    ASSUME SetupInv, Caught
    PROVE  SetupInv'
<1>0. mail' \in {"none", "MAIL", "KEYCLOAK_SMTP"}
  BY DEF SetupInv, SetupTypes, Caught
<1>1. PICK sc, s, n : Running(sc, s, n)
  BY RunInProgress DEF SetupInv, Caught, Sending
<1>2. /\ setup # Resting /\ setup.script = sc /\ setup.at = n /\ Asked = s
      /\ n <= Len(s) /\ Sending /\ Request = s[n] /\ s[n].skips > 0
  BY <1>1, RunSays DEF Caught
<1>3. /\ sc \in {"root", "backend"} /\ Len(s) \in Nat /\ n \in 1 .. Len(s)
      /\ sc = "root" => RootPart(s, {})
      /\ sc = "backend" => BackendPart(s)
  BY <1>1, <1>2 DEF Running
<1>4. sc = "root"
  <2>1. sc = "backend" => BackendRequest(s, n)
    BY <1>3 DEF BackendPart
  <2>2. sc # "backend"
    BY <2>1, <1>2 DEF BackendRequest
  <2> QED
    BY <2>2, <1>3
<1>5. RootRequest(s, n, {})
  BY <1>3, <1>4 DEF RootPart
<1>6. PICK k \in Nat : k = s[n].skips /\ k > 0
  BY <1>2, <1>5 DEF RootRequest
<1>7. /\ n + k <= Len(s) + 1
      /\ \A j \in n .. n + k - 1 : s[j].thing[1] \notin Backbone
      /\ n + k <= Len(s) => s[n + k].needs = {}
  BY <1>5, <1>6 DEF RootRequest
<1>8. PICK m \in 1 .. Len(s) + 1 : m = n + k /\ m - 1 = n + k - 1
  BY <1>3, <1>7
<1>9. /\ missed' = missed \cup {s[i].thing : i \in n .. m - 1}
      /\ setup' = [setup EXCEPT !.at = m]
      /\ mail' = mail /\ realm' = realm /\ made' = made /\ ended' = ended /\ orphans' = orphans
  <2>1. /\ missed' = missed \cup {s[i].thing : i \in n .. n + s[n].skips - 1}
        /\ setup' = [setup EXCEPT !.at = setup.at + s[n].skips]
        /\ mail' = mail /\ realm' = realm /\ made' = made /\ ended' = ended /\ orphans' = orphans
    BY <1>2 DEF Caught, Goes, Asked
  <2>2. n + s[n].skips - 1 = m - 1 /\ setup.at + s[n].skips = m
    BY <1>2, <1>6, <1>8
  <2> QED
    BY <2>1, <2>2
<1>10. /\ \A i \in 1 .. n - 1 : s[i].thing \in realm \cup missed \/ Departs(sc, s[i].thing)
       /\ \A thing \in missed : thing[1] \notin Backbone
       /\ ended.script = "none"
  BY <1>2 DEF SetupInv, SetupTypes, Covered, GivenUp
<1>11. /\ Running(sc, s, m)'
       /\ (setup # Resting)' /\ setup'.script = sc /\ setup'.at = m /\ Asked' = s
       /\ Sending' <=> m <= Len(s)
       /\ Request' = s[m]
  BY <1>1, <1>9, RunGoesOn
<1>12. ASSUME NEW i \in 1 .. m - 1
       PROVE  s[i].thing \in realm' \cup missed' \/ Departs(sc, s[i].thing)'
  <2>1. CASE i < n
    <3>1. i \in 1 .. n - 1
      BY <2>1, <1>3
    <3>2. Departs(sc, s[i].thing)' <=> Departs(sc, s[i].thing)
      BY <1>9 DEF Departs
    <3> QED
      BY <3>1, <3>2, <1>9, <1>10
  <2>2. CASE i >= n
    <3>1. i \in n .. m - 1
      BY <2>2, <1>3
    <3> QED
      BY <3>1, <1>9
  <2> QED
    BY <2>1, <2>2, <1>3
<1>13. Covered'
  BY <1>1, <1>9, <1>12, CoveredNext
<1>14. SetupTypes'
  BY <1>0, <1>9, <1>10, <1>11 DEF SetupTypes, Running
<1>15. GivenUp'
  <2>1. \A i \in n .. m - 1 : s[i].thing[1] \notin Backbone
    <3>1. n + k - 1 = m - 1
      BY <1>8
    <3> QED
      BY <3>1, <1>7
  <2> QED
    BY <2>1, <1>4, <1>9, <1>10, <1>11 DEF GivenUp
<1>16. NeedsMet'
  BY <1>7, <1>8, <1>11 DEF NeedsMet
<1>17. PasswordsCome'
  <2>1. \A u \in Accounts : s[n].thing # Password(u)
    <3>1. s[n].thing[1] \notin Backbone
      BY <1>5, <1>6 DEF RootRequest
    <3> QED
      BY <3>1 DEF Password, Backbone
  <2> QED
    BY <2>1, <1>2, <1>9 DEF SetupInv, PasswordsCome
<1>18. SetupConverges'
  BY <1>9, <1>10 DEF SetupConverges
<1> QED
  BY <1>13, <1>14, <1>15, <1>16, <1>17, <1>18 DEF SetupInv

LEMMA SetupStops ==
    ASSUME SetupInv, Abandon
    PROVE  SetupInv'
<1>0. mail' \in {"none", "MAIL", "KEYCLOAK_SMTP"}
  BY DEF SetupInv, SetupTypes, Abandon
<1>1. /\ setup' = Resting /\ setup # Resting
      /\ orphans' = orphans \cup {u \in made : Password(u) \notin realm}
      /\ mail' = mail /\ realm' = realm /\ ended' = ended
  BY DEF Abandon, Sending
<1>2. ended.script = "none"
  BY <1>1 DEF SetupInv, SetupTypes
<1>3. SetupTypes' /\ Covered' /\ GivenUp'
  BY <1>0, <1>1 DEF SetupTypes, Covered, GivenUp, Resting
<1>4. NeedsMet'
  BY <1>1 DEF NeedsMet, Sending, Resting
<1>5. PasswordsCome'
  BY <1>1 DEF SetupInv, PasswordsCome
<1>6. SetupConverges'
  BY <1>1, <1>2 DEF SetupConverges
<1> QED
  BY <1>3, <1>4, <1>5, <1>6 DEF SetupInv

\* All the script's requests lie behind a run that completes.
LEMMA SetupCompletes ==
    ASSUME SetupInv, Complete
    PROVE  SetupInv'
<1>0. mail' \in {"none", "MAIL", "KEYCLOAK_SMTP"}
  BY DEF SetupInv, SetupTypes, Complete
<1>1. PICK sc, s, n : Running(sc, s, n)
  BY RunInProgress DEF SetupInv, Complete
<1>2. setup # Resting /\ setup.script = sc /\ setup.at = n /\ Asked = s /\ ~(n <= Len(s)) /\ ~Sending
  BY <1>1, RunSays DEF Complete
<1>3. sc \in {"root", "backend"} /\ s = RequestsOf(sc) /\ n - 1 = Len(s) /\ IsList(s)
  BY <1>1, <1>2 DEF Running, RootPart, BackendPart
<1>4. /\ ended' = [script |-> sc, missed |-> missed] /\ setup' = Resting
      /\ mail' = mail /\ realm' = realm /\ made' = made /\ missed' = missed /\ orphans' = orphans
  BY <1>2 DEF Complete
<1>5. \A i \in 1 .. Len(s) : s[i].thing \in realm \cup missed \/ Departs(sc, s[i].thing)
  BY <1>2, <1>3 DEF SetupInv, Covered
<1>6. ASSUME NEW thing \in Wanted(sc) \ missed
      PROVE  thing \in realm \/ Departs(sc, thing)
  <2>1. DOMAIN s = 1 .. Len(s)
    BY <1>3 DEF IsList
  <2>2. CASE thing \in Things(s)
    BY <2>2, <1>5, <1>6 DEF Things
  <2>3. CASE thing = <<"mail">> /\ mail # "none"
    <3>1. CASE sc = "root" /\ mail = "MAIL"
      BY <3>1, <2>3 DEF Departs
    <3>2. CASE sc = "root" /\ mail = "KEYCLOAK_SMTP"
      <4>1. <<"mail">> \in Things(s)
        BY <3>2, <1>3, RootScriptPart DEF RequestsOf
      <4> QED
        BY <4>1, <2>2, <2>3
    <3>3. CASE sc = "backend"
      <4>1. <<"mail">> \in Things(s)
        BY <3>3, <2>3, <1>3, BackendScriptPart DEF RequestsOf
      <4> QED
        BY <4>1, <2>2, <2>3
    <3> QED
      BY <3>1, <3>2, <3>3, <2>3, <1>3 DEF SetupInv, SetupTypes
  <2>4. Wanted(sc) \subseteq Things(s) \cup (IF mail # "none" THEN {<<"mail">>} ELSE {})
    BY <2>1, <1>3 DEF Wanted, Things
  <2> QED
    BY <2>2, <2>3, <2>4
<1>7. Wanted(sc)' = Wanted(sc) /\ \A thing : Departs(sc, thing)' <=> Departs(sc, thing)
  BY <1>4 DEF Wanted, RequestsOf, Departs
<1>8. SetupConverges'
  <2>1. ended'.script = sc /\ ended'.missed = missed
    BY <1>4
  <2> QED
    BY <2>1, <1>4, <1>6, <1>7 DEF SetupConverges, Wanted, RequestsOf, Departs
<1>9. SetupTypes' /\ Covered' /\ GivenUp'
  BY <1>0, <1>4 DEF SetupTypes, Covered, GivenUp, Resting
<1>10. NeedsMet'
  BY <1>4 DEF NeedsMet, Sending, Resting
<1>11. PasswordsCome'
  BY <1>2, <1>4 DEF SetupInv, PasswordsCome
<1> QED
  BY <1>8, <1>9, <1>10, <1>11 DEF SetupInv

LEMMA SetupBegins ==
    ASSUME SetupInv, Begin
    PROVE  SetupInv'
<1>0. mail' \in {"none", "MAIL", "KEYCLOAK_SMTP"}
  BY DEF SetupInv, SetupTypes, Begin
<1>1. PICK sc \in {"root", "backend"} : setup' = [script |-> sc, at |-> 1]
  BY DEF Begin
<1>2. /\ setup = Resting /\ mail' = mail /\ realm' = realm /\ missed' = {} /\ ended' = Unfinished
      /\ orphans' = orphans
  BY DEF Begin
<1>3. PICK s : s = RequestsOf(sc)
  OBVIOUS
<1>4. setup'.script = sc /\ setup'.at = 1 /\ Asked' = s
  <2>1. setup'.script = sc /\ setup'.at = 1
    BY <1>1
  <2>2. RequestsOf(setup.script)' = RequestsOf(sc)
    BY <2>1, <1>2 DEF RequestsOf
  <2> QED
    BY <2>1, <2>2, <1>3 DEF Asked
<1>5. /\ sc = "root" => RootPart(s, {})
      /\ sc = "backend" => BackendPart(s)
  BY <1>3, RootScriptPart, BackendScriptPart DEF RequestsOf
<1>6. Len(s) \in Nat /\ Len(s) > 0 /\ (sc = "root" => s[1].needs = {})
  BY <1>5 DEF RootPart, BackendPart, IsList
<1>7. SetupTypes'
  BY <1>0, <1>1, <1>2, <1>4, <1>6 DEF SetupTypes, Unfinished
<1>8. Covered' /\ GivenUp'
  BY <1>2, <1>4 DEF Covered, GivenUp
<1>9. NeedsMet'
  BY <1>4, <1>6 DEF NeedsMet, Request, Asked
<1>10. PasswordsCome'
  <2>1. ~Sending
    BY <1>2 DEF Sending
  <2> QED
    BY <2>1, <1>2 DEF SetupInv, PasswordsCome
<1>11. SetupConverges'
  BY <1>2 DEF SetupConverges, Unfinished
<1> QED
  BY <1>7, <1>8, <1>9, <1>10, <1>11 DEF SetupInv

LEMMA SetupStands ==
    ASSUME SetupInv, UNCHANGED setupVars
    PROVE  SetupInv'
<1>1. /\ mail' = mail /\ realm' = realm /\ setup' = setup /\ made' = made /\ missed' = missed
      /\ ended' = ended /\ orphans' = orphans
  BY DEF setupVars
<1>2. \A sc : RequestsOf(sc)' = RequestsOf(sc)
  BY <1>1 DEF RequestsOf
<1>3. SetupTypes' /\ Covered'
  BY <1>1 DEF SetupInv, SetupTypes, Covered, Asked, RequestsOf, Departs
<1>4. GivenUp' /\ NeedsMet' /\ PasswordsCome'
  BY <1>1 DEF SetupInv, GivenUp, NeedsMet, PasswordsCome, Sending, Request, RequestsOf
<1>5. SetupConverges'
  BY <1>1 DEF SetupInv, SetupConverges, Wanted, Departs, RequestsOf
<1> QED
  BY <1>3, <1>4, <1>5 DEF SetupInv

\* A run of a set-up script that reports "complete" has completed the realm, but
\* for what it gave up and the departures the property names, whatever earlier
\* runs of either script left undone and wherever they were stopped.
THEOREM SetupAlwaysConverges == OpsSpec => []SetupConverges
<1>1. OpsInit => SetupInv
  <2>1. SUFFICES ASSUME OpsInit
                 PROVE  SetupInv
    OBVIOUS
  <2>2. /\ mail \in {"none", "MAIL", "KEYCLOAK_SMTP"}
        /\ realm = {} /\ setup = Resting /\ ended = Unfinished
    BY <2>1 DEF OpsInit, SetupInit
  <2> QED
    BY <2>2 DEF SetupInv, SetupTypes, Covered, GivenUp, NeedsMet, PasswordsCome, SetupConverges,
                Sending, Unfinished
<1>2. SetupInv /\ [OpsNext]_opsVars => SetupInv'
  <2>1. SUFFICES ASSUME SetupInv, [OpsNext]_opsVars
                 PROVE  SetupInv'
    OBVIOUS
  <2>2. CASE SetupNext
    BY <2>1, <2>2, SetupBegins, SetupSends, SetupLooks, SetupCatches, SetupStops, SetupCompletes
       DEF SetupNext
  <2>3. CASE UNCHANGED setupVars
    BY <2>1, <2>3, SetupStands
  <2> QED
    BY <2>1, <2>2, <2>3 DEF OpsNext, opsVars
<1>3. SetupInv => SetupConverges
  BY DEF SetupInv
<1> QED
  BY <1>1, <1>2, <1>3, PTL DEF OpsSpec

=============================================================================
