----------------------------- MODULE LLMProofs ------------------------------
(***************************************************************************)
(* Theorems about LLMProviders, for any number of providers and requests.  *)
(***************************************************************************)
EXTENDS LLMProviders, FiniteSetTheorems, TLAPS

-----------------------------------------------------------------------------
(* Types.                                                                  *)

LEMMA NoSessionType == NoSession \in Session /\ DOMAIN NoSession = {}
<1>1. NoSession \in [{} -> Row]
  BY DEF NoSession
<1> QED BY <1>1 DEF Session, NoSession

LEMMA IdleType == IdleRequest \in Request
<1>1. MaxProviders \in Nat
  BY ProvidersAssumption
<1> QED BY <1>1, NoSessionType DEF IdleRequest, Request, Wish

\* What a request of the right type has.
LEMMA RequestFields ==
    ASSUME TypeOK, NEW r \in Requests
    PROVE  /\ request[r] \in Request
           /\ DOMAIN request[r].session \subseteq Providers
           /\ \A q \in DOMAIN request[r].session : request[r].session[q] \in Row
<1>1. request[r] \in Request
  BY DEF TypeOK
<1>2. request[r].session \in Session
  BY <1>1 DEF Request
<1>3. PICK S \in SUBSET Providers : request[r].session \in [S -> Row]
  BY <1>2 DEF Session
<1> QED BY <1>1, <1>3

LEMMA WantedType ==
    ASSUME TypeOK, NEW r \in Requests, NEW q \in DOMAIN request[r].session
    PROVE  Wanted(r, q) \in Row
<1>1. request[r].session[q] \in Row
  BY RequestFields
<1> QED BY <1>1 DEF Wanted, Row, Granted

LEMMA UpdatedType ==
    ASSUME TypeOK, NEW r \in Requests
    PROVE  /\ Updated(r) \in [Providers -> Row]
           /\ \A q \in Providers : Updated(r)[q].status = provider[q].status
<1> SUFFICES ASSUME NEW q \in Providers
             PROVE  /\ Updated(r)[q] \in Row
                    /\ Updated(r)[q].status = provider[q].status
  BY DEF Updated
<1>1. provider[q] \in Row
  BY DEF TypeOK
<1>2. CASE q \notin Dirty(r)
  BY <1>1, <1>2 DEF Updated
<1>3. CASE q \in Dirty(r)
  <2>1. q \in DOMAIN request[r].session
    BY <1>3 DEF Dirty
  <2>2. Wanted(r, q) \in Row /\ request[r].session[q] \in Row
    BY <2>1, WantedType, RequestFields
  <2>3. Updated(r)[q] = Written(r, q)
    BY <1>3 DEF Updated
  <2> QED BY <1>1, <2>2, <2>3 DEF Written, Row
<1> QED BY <1>2, <1>3

\* The request is over, and nothing becomes free.
LEMMA DoneType ==
    ASSUME TypeOK, NEW r \in Requests, Done(r), provider' \in [Providers -> Row],
           \A q \in Providers : provider'[q].status = "free" => provider[q].status = "free"
    PROVE  TypeOK'
<1>1. request' \in [Requests -> Request]
  BY IdleType DEF TypeOK, Done
<1>2. ASSUME NEW s \in Requests, s # r PROVE request'[s] = request[s]
  BY <1>2 DEF TypeOK, Done
<1>3. request'[r] = IdleRequest
  BY DEF TypeOK, Done
<1>4. \A s \in Requests : DOMAIN request[s].session \subseteq Providers
  BY RequestFields
<1>5. overtaken' \subseteq {s \in Requests : request'[s].pc # "idle"}
  <2>1. \A s \in overtaken' : s \in Requests /\ s # r /\ request[s].pc # "idle"
    BY DEF TypeOK, Done
  <2> QED BY <1>2, <2>1
<1> QED BY <1>1, <1>2, <1>3, <1>4, <1>5, NoSessionType DEF TypeOK, IdleRequest

\* The request has begun, or goes on.
LEMMA OvertakenType ==
    ASSUME TypeOK, NEW r \in Requests, NEW new, request' = [request EXCEPT ![r] = new],
           new.pc # "idle", UNCHANGED overtaken
    PROVE  overtaken' \subseteq {s \in Requests : request'[s].pc # "idle"}
<1>1. request'[r] = new /\ \A s \in Requests : s # r => request'[s] = request[s]
  BY DEF TypeOK
<1>2. \A s \in overtaken' : s \in Requests /\ request[s].pc # "idle"
  BY DEF TypeOK
<1> QED BY <1>1, <1>2

LEMMA LoadType ==
    ASSUME TypeOK, NEW r \in Requests, NEW p \in Providers,
           NEW op \in {"update", "delete", "toggle"},
           NEW d \in Wish, NEW e \in Wish, Load(r, p, op, d, e)
    PROVE  TypeOK'
<1> DEFINE new == [pc |-> AfterLoad(d), op |-> op, id |-> p, is_default |-> d,
                   enabled |-> e, session |-> [q \in {p} |-> provider[q]],
                   cleared |-> {}]
<1>1. request' = [request EXCEPT ![r] = new] /\ provider' = provider /\ Stored(p)
  BY DEF Load
<1>2. new.session \in [{p} -> Row]
  BY DEF TypeOK
<1>3. new.session \in Session
  BY <1>2 DEF Session
<1>4. p \in 0..MaxProviders
  BY ProvidersAssumption DEF Providers
<1>5. new \in Request
  BY <1>3, <1>4 DEF Request, AfterLoad
<1>6. /\ new.cleared \subseteq DOMAIN new.session
      /\ \A q \in DOMAIN new.session : provider[q].status # "free"
      /\ new.id \in DOMAIN new.session
  BY <1>1 DEF Stored
<1> HIDE DEF new
<1>7. \A s \in Requests : s # r => request'[s] = request[s]
  BY <1>1 DEF TypeOK
<1>8. request'[r] = new
  BY <1>1 DEF TypeOK
<1>10. new.pc # "idle" /\ UNCHANGED overtaken
  BY DEF new, Load, AfterLoad
<1>9. overtaken' \subseteq {s \in Requests : request'[s].pc # "idle"}
  BY <1>1, <1>10, OvertakenType
<1> QED BY <1>1, <1>5, <1>6, <1>7, <1>8, <1>9 DEF TypeOK

LEMMA ClearType ==
    ASSUME TypeOK, NEW r \in Requests, ClearDefaults(r)
    PROVE  TypeOK'
<1> DEFINE held == request[r].session
           session == [q \in DOMAIN held \cup Defaults |->
                           IF q \in DOMAIN held THEN held[q] ELSE provider[q]]
           new == [request[r] EXCEPT !.pc = "commit", !.session = session,
                                     !.cleared = Defaults]
<1>1. request[r] \in Request /\ provider' = provider
  BY RequestFields DEF ClearDefaults
<1>2. request' = [request EXCEPT ![r] = new]
  BY <1>1 DEF ClearDefaults, TypeOK, Request
<1>3. DOMAIN held \cup Defaults \subseteq Providers
  BY RequestFields DEF Defaults
<1>4. session \in [DOMAIN held \cup Defaults -> Row]
  BY <1>3, RequestFields DEF TypeOK
<1>5. session \in Session /\ DOMAIN session = DOMAIN held \cup Defaults
  BY <1>3, <1>4 DEF Session
<1> HIDE DEF session
<1>6. new \in Request
  BY <1>1, <1>5 DEF Request, Defaults
<1>7. /\ new.session = session /\ new.cleared = Defaults
      /\ new.op = request[r].op /\ new.id = request[r].id
      /\ request[r].pc # "idle" /\ new.pc # "idle" /\ UNCHANGED overtaken
  BY <1>1 DEF Request, ClearDefaults
<1>8. \A q \in DOMAIN session : provider[q].status # "free"
  BY <1>5 DEF TypeOK, Defaults, Stored
<1>9. /\ \A s \in Requests : s # r => request'[s] = request[s]
      /\ request'[r] = new
  BY <1>2 DEF TypeOK
<1> HIDE DEF new
<1>10. request' \in [Requests -> Request]
  BY <1>2, <1>6 DEF TypeOK
<1>11. overtaken' \subseteq {s \in Requests : request'[s].pc # "idle"}
  BY <1>2, <1>7, OvertakenType
<1> QED BY <1>1, <1>5, <1>7, <1>8, <1>9, <1>10, <1>11 DEF TypeOK

LEMMA TypeNext ==
    ASSUME TypeOK, [Next]_vars
    PROVE  TypeOK'
<1>1. ASSUME NEW r \in Requests, NEW d \in {"yes", "no"}, BeginCreate(r, d)
      PROVE  TypeOK'
  <2> DEFINE new == [IdleRequest EXCEPT !.pc = AfterLoad(d), !.op = "create",
                                        !.is_default = d]
  <2>1. new \in Request
    BY IdleType DEF Request, IdleRequest, Wish, AfterLoad
  <2>2. /\ new.cleared = {} /\ new.session = NoSession /\ new.op = "create"
        /\ new.pc # "idle"
    BY DEF IdleRequest, AfterLoad
  <2>3. request' = [request EXCEPT ![r] = new] /\ UNCHANGED <<provider, overtaken>>
    BY <1>1 DEF BeginCreate
  <2> HIDE DEF new
  <2>4. \A s \in Requests : s # r => request'[s] = request[s]
    BY <2>3 DEF TypeOK
  <2>5. overtaken' \subseteq {s \in Requests : request'[s].pc # "idle"}
    BY <2>2, <2>3, OvertakenType
  <2> QED BY <2>1, <2>2, <2>3, <2>4, <2>5, NoSessionType DEF TypeOK
<1>2. ASSUME NEW r \in Requests, NEW p \in Providers, NEW d \in Wish, NEW e \in Wish,
             BeginUpdate(r, p, d, e)
      PROVE  TypeOK'
  BY <1>2, LoadType DEF BeginUpdate
<1>3. ASSUME NEW r \in Requests, NEW p \in Providers,
             BeginDelete(r, p) \/ BeginToggle(r, p)
      PROVE  TypeOK'
  BY <1>3, LoadType DEF BeginDelete, BeginToggle, Wish
<1>4. ASSUME NEW r \in Requests, ClearDefaults(r) PROVE TypeOK'
  BY <1>4, ClearType
<1>5. ASSUME NEW r \in Requests, NEW p \in Providers, CommitCreate(r, p)
      PROVE  TypeOK'
  <2>1. Done(r) /\ \A q \in Providers : q # p => provider'[q] = Updated(r)[q]
    BY <1>5, UpdatedType DEF CommitCreate
  <2>2. provider' \in [Providers -> Row] /\ provider'[p].status = "stored"
    BY <1>5, UpdatedType DEF CommitCreate, Row
  <2> QED BY <2>1, <2>2, UpdatedType, DoneType
<1>6. ASSUME NEW r \in Requests, CommitUpdate(r) PROVE TypeOK'
  BY <1>6, UpdatedType, DoneType DEF CommitUpdate
<1>7. ASSUME NEW r \in Requests, CommitDelete(r) PROVE TypeOK'
  BY <1>7, DoneType DEF CommitDelete, TypeOK, FreeRow, Row
<1>8. ASSUME NEW r \in Requests, RequestFails(r) PROVE TypeOK'
  BY <1>8, DoneType DEF RequestFails, TypeOK
<1>9. CASE UNCHANGED vars
  BY <1>9 DEF vars, TypeOK
<1> QED BY <1>1, <1>2, <1>3, <1>4, <1>5, <1>6, <1>7, <1>8, <1>9 DEF Next

\* The table and the requests keep their types, and no session holds an object
\* whose row never was.
THEOREM ProviderTypes == Spec => []TypeOK
<1>1. Init => TypeOK
  BY IdleType, NoSessionType DEF Init, TypeOK, FreeRow, Row, IdleRequest
<1> QED BY <1>1, TypeNext, PTL DEF Spec
-----------------------------------------------------------------------------
(* A deleted provider stays deleted.                                       *)

\* The rows a commit writes are there, or it does not happen.
LEMMA StoredOnly ==
    ASSUME TypeOK, NEW r \in Requests, NoneGone(r), NEW q \in Providers, ~Stored(q)
    PROVE  Updated(r)[q] = provider[q]
  BY DEF Updated, NoneGone

\* A DELETE puts one and the same value into the row, whoever issues it.
Tombstone == [FreeRow EXCEPT !.status = "deleted"]

DeletedEmpty ==
    \A q \in Providers : provider[q].status = "deleted" => provider[q] = Tombstone

LEMMA DeletedStep ==
    ASSUME TypeOK, DeletedEmpty, [Next]_vars
    PROVE  /\ \A q \in Providers :
                  provider[q].status = "deleted" => provider'[q] = provider[q]
           /\ DeletedEmpty'
<1>1. ASSUME NEW r \in Requests, NEW p \in Providers, CommitCreate(r, p),
             NEW q \in Providers
      PROVE  /\ provider[q].status = "deleted" => provider'[q] = provider[q]
             /\ provider'[q].status = "deleted" => provider[q].status = "deleted"
  <2>1. CASE q = p
    BY <1>1, <2>1, UpdatedType DEF CommitCreate
  <2>2. CASE q # p
    <3>1. provider'[q] = Updated(r)[q]
      BY <1>1, <2>2, UpdatedType DEF CommitCreate
    <3>2. provider[q].status = "deleted" => ~Stored(q)
      BY DEF Stored
    <3> QED BY <1>1, <3>1, <3>2, StoredOnly, UpdatedType DEF CommitCreate
  <2> QED BY <2>1, <2>2
<1>2. ASSUME NEW r \in Requests, CommitUpdate(r), NEW q \in Providers
      PROVE  /\ provider[q].status = "deleted" => provider'[q] = provider[q]
             /\ provider'[q].status = "deleted" => provider[q].status = "deleted"
  <2>1. provider[q].status = "deleted" => ~Stored(q)
    BY DEF Stored
  <2> QED BY <1>2, <2>1, StoredOnly, UpdatedType DEF CommitUpdate
<1>3. ASSUME NEW r \in Requests, CommitDelete(r), NEW q \in Providers
      PROVE  \/ provider'[q] = provider[q]
             \/ provider'[q] = Tombstone
  BY <1>3 DEF CommitDelete, TypeOK, Tombstone
<1>4. ASSUME provider' = provider
      PROVE  /\ \A q \in Providers :
                    provider[q].status = "deleted" => provider'[q] = provider[q]
             /\ DeletedEmpty'
  BY <1>4 DEF DeletedEmpty
<1>5. \/ \E r \in Requests, p \in Providers : CommitCreate(r, p)
      \/ \E r \in Requests : CommitUpdate(r)
      \/ \E r \in Requests : CommitDelete(r)
      \/ provider' = provider
  BY DEF Next, vars, BeginCreate, BeginUpdate, BeginDelete, BeginToggle, Load,
         ClearDefaults, RequestFails
<1>6. CASE \E r \in Requests, p \in Providers : CommitCreate(r, p)
  BY <1>1, <1>6 DEF DeletedEmpty
<1>7. CASE \E r \in Requests : CommitUpdate(r)
  BY <1>2, <1>7 DEF DeletedEmpty
<1>8. CASE \E r \in Requests : CommitDelete(r)
  BY <1>3, <1>8 DEF DeletedEmpty
<1> QED BY <1>4, <1>5, <1>6, <1>7, <1>8

\* No late commit brings a deleted provider back, however requests overlap.
THEOREM DeletedForGoodHolds == Spec => DeletedForGood
<1>1. Init => DeletedEmpty
  BY DEF Init, DeletedEmpty, FreeRow
<1>2. TypeOK /\ DeletedEmpty /\ [Next]_vars => DeletedEmpty'
  BY DeletedStep
<1>3. TypeOK /\ DeletedEmpty /\ [Next]_vars
          => [\A p \in Providers :
                  provider[p].status = "deleted" => provider'[p] = provider[p]]_vars
  BY DeletedStep
<1> QED BY <1>1, <1>2, <1>3, ProviderTypes, PTL DEF Spec, DeletedForGood

-----------------------------------------------------------------------------
(* Overlapping requests change only what they were asked to.               *)

\* Only a request for the default looks for the defaults of others.
ClearedAsked ==
    \A r \in Requests : request[r].pc = "clear" \/ request[r].cleared # {}
                            => request[r].is_default = "yes"

LEMMA ClearedAskedStep ==
    ASSUME TypeOK, ClearedAsked, [Next]_vars
    PROVE  ClearedAsked'
<1>1. ASSUME NEW r \in Requests, NEW new, request' = [request EXCEPT ![r] = new],
             new.pc = "clear" \/ new.cleared # {} => new.is_default = "yes"
      PROVE  ClearedAsked'
  BY <1>1 DEF TypeOK, ClearedAsked
<1>2. ASSUME NEW r \in Requests, Done(r) PROVE ClearedAsked'
  <2>1. IdleRequest.pc = "idle" /\ IdleRequest.cleared = {}
    BY DEF IdleRequest
  <2> QED BY <1>1, <1>2, <2>1 DEF Done
<1>3. ASSUME NEW r \in Requests, NEW d \in {"yes", "no"}, BeginCreate(r, d)
      PROVE  ClearedAsked'
  <2> DEFINE new == [IdleRequest EXCEPT !.pc = AfterLoad(d), !.op = "create",
                                        !.is_default = d]
  <2>1. new.pc = AfterLoad(d) /\ new.cleared = {} /\ new.is_default = d
    BY DEF IdleRequest
  <2>2. request' = [request EXCEPT ![r] = new]
    BY <1>3 DEF BeginCreate
  <2> HIDE DEF new
  <2> QED BY <1>1, <2>1, <2>2 DEF AfterLoad
<1>4. ASSUME NEW r \in Requests, NEW p \in Providers, NEW op, NEW d, NEW e,
             Load(r, p, op, d, e)
      PROVE  ClearedAsked'
  <2> DEFINE new == [pc |-> AfterLoad(d), op |-> op, id |-> p, is_default |-> d,
                     enabled |-> e, session |-> [q \in {p} |-> provider[q]],
                     cleared |-> {}]
  <2>1. new.pc = AfterLoad(d) /\ new.cleared = {} /\ new.is_default = d
    OBVIOUS
  <2>2. request' = [request EXCEPT ![r] = new]
    BY <1>4 DEF Load
  <2> HIDE DEF new
  <2> QED BY <1>1, <2>1, <2>2 DEF AfterLoad
<1>5. ASSUME NEW r \in Requests, ClearDefaults(r) PROVE ClearedAsked'
  <2>1. request[r] \in Request /\ request[r].is_default = "yes"
    BY <1>5, RequestFields DEF ClearDefaults, ClearedAsked
  <2>2. request'[r].is_default = request[r].is_default
    BY <1>5, <2>1 DEF ClearDefaults, TypeOK, Request
  <2>3. \A s \in Requests : s # r => request'[s] = request[s]
    BY <1>5 DEF ClearDefaults, TypeOK
  <2> QED BY <2>1, <2>2, <2>3 DEF ClearedAsked
<1>6. CASE UNCHANGED vars
  BY <1>6 DEF vars, ClearedAsked
<1>7. \/ UNCHANGED vars
      \/ \E r \in Requests : Done(r)
      \/ \E r \in Requests, d \in {"yes", "no"} : BeginCreate(r, d)
      \/ \E r \in Requests, p \in Providers, op \in {"update", "delete", "toggle"},
            d, e \in Wish : Load(r, p, op, d, e)
      \/ \E r \in Requests : ClearDefaults(r)
  BY DEF Next, BeginUpdate, BeginDelete, BeginToggle, CommitCreate, CommitUpdate,
         CommitDelete, RequestFails, Wish
<1> QED BY <1>2, <1>3, <1>4, <1>5, <1>6, <1>7

\* Whoever changes a row without deleting it asked for what becomes of it.
Asked(p) ==
    /\ provider'[p].enabled # provider[p].enabled =>
           \E r \in Requests : /\ request[r].pc = "commit"
                               /\ request[r].id = p
                               /\ request[r].enabled # "keep"
    /\ provider[p].is_default /\ ~provider'[p].is_default =>
           \E r \in Requests :
               /\ request[r].pc = "commit"
               /\ \/ request[r].is_default = "yes"
                  \/ request[r].id = p /\ request[r].is_default = "no"

\* The attributes that a commit writes into a row are those its request names.
LEMMA UpdatedAsked ==
    ASSUME TypeOK, ClearedAsked, NEW r \in Requests, NEW q \in Providers
    PROVE  /\ Updated(r)[q].enabled # provider[q].enabled
                  => request[r].id = q /\ request[r].enabled # "keep"
           /\ provider[q].is_default /\ ~Updated(r)[q].is_default
                  => \/ request[r].is_default = "yes"
                     \/ request[r].id = q /\ request[r].is_default = "no"
<1>1. provider[q] \in Row
  BY DEF TypeOK
<1>2. CASE q \notin Dirty(r)
  <2>1. Updated(r)[q] = provider[q]
    BY <1>2 DEF Updated
  <2> QED BY <1>1, <2>1 DEF Row
<1>3. CASE q \in Dirty(r)
  <2> DEFINE held == request[r].session[q]
             want == Wanted(r, q)
  <2>1. q \in DOMAIN request[r].session
    BY <1>3 DEF Dirty
  <2>2. held \in Row /\ want \in Row
    BY <2>1, WantedType, RequestFields
  <2>3. Updated(r)[q] = Written(r, q)
    BY <1>3 DEF Updated
  <2>4. /\ Written(r, q).enabled = IF want.enabled # held.enabled
                                   THEN want.enabled ELSE provider[q].enabled
        /\ Written(r, q).is_default = IF want.is_default # held.is_default
                                      THEN want.is_default
                                      ELSE provider[q].is_default
    BY <1>1 DEF Written, Row
  <2>5. want.enabled # held.enabled
            => request[r].id = q /\ request[r].enabled # "keep"
    BY <2>2 DEF Wanted, Row, Granted
  <2>6. request[r].is_default \in Wish
    BY RequestFields DEF Request
  <2>7. ASSUME want.is_default # held.is_default, ~want.is_default
        PROVE  \/ request[r].is_default = "yes"
               \/ request[r].id = q /\ request[r].is_default = "no"
    <3>1. held.is_default
      BY <2>2, <2>7 DEF Row
    <3>2. CASE q # request[r].id
      <4>1. want.is_default = (held.is_default /\ q \notin request[r].cleared)
        BY <2>2, <3>2 DEF Wanted, Row
      <4> QED BY <2>7, <3>1, <4>1 DEF ClearedAsked
    <3>3. CASE q = request[r].id
      <4>1. want.is_default
                = Granted(request[r].is_default,
                          held.is_default /\ q \notin request[r].cleared)
        BY <2>2, <3>3 DEF Wanted, Row
      <4>2. CASE request[r].is_default = "keep"
        <5>1. q \in request[r].cleared
          BY <2>7, <3>1, <4>1, <4>2 DEF Granted
        <5> QED BY <5>1 DEF ClearedAsked
      <4> QED BY <2>6, <3>3, <4>2 DEF Wish
    <3> QED BY <3>2, <3>3
  <2> HIDE DEF held, want
  <2> QED BY <2>3, <2>4, <2>5, <2>7
<1> QED BY <1>2, <1>3

LEMMA AskedStep ==
    ASSUME TypeOK, ClearedAsked, [Next]_vars,
           NEW p \in Providers, Stored(p), provider'[p].status = "stored"
    PROVE  Asked(p)
<1>1. ASSUME NEW r \in Requests, request[r].pc = "commit",
             provider'[p] = Updated(r)[p]
      PROVE  Asked(p)
  BY <1>1, UpdatedAsked DEF Asked
<1>2. ASSUME NEW r \in Requests, NEW q \in Providers, CommitCreate(r, q)
      PROVE  Asked(p)
  <2>1. p # q /\ request[r].pc = "commit"
    BY <1>2 DEF CommitCreate, Stored
  <2>2. provider'[p] = Updated(r)[p]
    BY <1>2, <2>1, UpdatedType DEF CommitCreate
  <2> QED BY <1>1, <2>1, <2>2
<1>3. ASSUME NEW r \in Requests, CommitUpdate(r) PROVE Asked(p)
  BY <1>1, <1>3 DEF CommitUpdate
<1>4. ASSUME NEW r \in Requests, CommitDelete(r) PROVE Asked(p)
  <2>1. provider'[p] = provider[p] \/ provider'[p].status = "deleted"
    BY <1>4 DEF CommitDelete, TypeOK, FreeRow
  <2> QED BY <2>1 DEF Asked
<1>5. CASE provider' = provider
  BY <1>5 DEF Asked
<1> QED BY <1>2, <1>3, <1>4, <1>5
    DEF Next, vars, BeginCreate, BeginUpdate, BeginDelete, BeginToggle, Load,
        ClearDefaults, RequestFails

\* Requests that overlap in any way do not undo each other's changes by writing
\* back what they read: a commit writes what its request asked for.
THEOREM OnlyAskedChangesHolds == Spec => OnlyAskedChanges
<1>1. Init => ClearedAsked
  BY DEF Init, ClearedAsked, IdleRequest
<1>2. TypeOK /\ ClearedAsked /\ [Next]_vars => ClearedAsked'
  BY ClearedAskedStep
<1>3. TypeOK /\ ClearedAsked /\ [Next]_vars
          => [\A p \in Providers : Stored(p) /\ provider'[p].status = "stored" =>
                    /\ provider'[p].enabled # provider[p].enabled =>
                           \E r \in Requests : /\ request[r].pc = "commit"
                                               /\ request[r].id = p
                                               /\ request[r].enabled # "keep"
                    /\ provider[p].is_default /\ ~provider'[p].is_default =>
                           \E r \in Requests :
                               /\ request[r].pc = "commit"
                               /\ \/ request[r].is_default = "yes"
                                  \/ request[r].id = p /\ request[r].is_default = "no"]_vars
  BY AskedStep DEF Asked
<1> QED BY <1>1, <1>2, <1>3, ProviderTypes, PTL DEF Spec, OnlyAskedChanges

-----------------------------------------------------------------------------
(* Requests that no other has moved the default under.                     *)

\* What a request keeps in whatever order others commit.
Asks ==
    \A r \in Requests :
        /\ request[r].op = "create" => request[r].id = 0
        /\ request[r].pc = "idle" => DOMAIN request[r].session = {}

\* A request that is not overtaken holds the defaults of now, and has cleared
\* them when it comes to commit a claim.
Fresh ==
    \A r \in Requests \ overtaken :
        /\ \A q \in DOMAIN request[r].session :
               request[r].session[q].is_default <=> q \in Defaults
        /\ request[r].pc = "commit" /\ request[r].is_default = "yes"
               => request[r].cleared = Defaults

UniqueDefault == \A p, q \in Defaults : p = q

\* The default column of a row after a commit: written when the object of the
\* session was to change, kept otherwise.
LEMMA WrittenDefault ==
    ASSUME TypeOK, NEW r \in Requests, NEW q \in DOMAIN request[r].session
    PROVE  LET held == request[r].session[q].is_default
               want == IF q = request[r].id
                       THEN Granted(request[r].is_default,
                                    held /\ q \notin request[r].cleared)
                       ELSE held /\ q \notin request[r].cleared
           IN  /\ Updated(r)[q].is_default
                      = IF want # held THEN want ELSE provider[q].is_default
               /\ want # held => q \in Dirty(r)
<1> DEFINE obj == request[r].session[q]
           held == obj.is_default
           want == IF q = request[r].id
                   THEN Granted(request[r].is_default,
                                held /\ q \notin request[r].cleared)
                   ELSE held /\ q \notin request[r].cleared
<1>1. obj \in Row /\ q \in Providers /\ Wanted(r, q) \in Row
  BY RequestFields, WantedType
<1>2. provider[q] \in Row
  BY <1>1 DEF TypeOK
<1>3. Wanted(r, q).is_default = want
  BY <1>1 DEF Wanted, Row
<1>4. ASSUME want # held PROVE q \in Dirty(r)
  BY <1>1, <1>3, <1>4 DEF Dirty
<1>5. CASE q \in Dirty(r)
  <2>1. Updated(r)[q] = Written(r, q)
    BY <1>1, <1>5 DEF Updated
  <2>2. Written(r, q).is_default
            = IF Wanted(r, q).is_default # held THEN Wanted(r, q).is_default
              ELSE provider[q].is_default
    BY <1>2 DEF Written, Row
  <2> QED BY <1>3, <1>4, <2>1, <2>2
<1>6. CASE q \notin Dirty(r)
  <2>1. Updated(r)[q] = provider[q]
    BY <1>1, <1>6 DEF Updated
  <2> QED BY <1>4, <1>6, <2>1
<1> QED BY <1>5, <1>6

\* A row the session does not hold keeps its column.
LEMMA NotHeld ==
    ASSUME NEW r \in Requests, NEW q \in Providers,
           q \notin DOMAIN request[r].session
    PROVE  Updated(r)[q] = provider[q]
  BY DEF Updated, Dirty

\* A claim on fresh defaults takes the default from every other provider and
\* gives it to its own.
LEMMA FreshClaim ==
    ASSUME TypeOK, Fresh, NEW r \in Requests \ overtaken,
           request[r].pc = "commit", request[r].is_default = "yes", NoneGone(r)
    PROVE  /\ \A q \in Providers : Stored(q) /\ q # request[r].id
                                       => ~Updated(r)[q].is_default
           /\ request[r].id \in DOMAIN request[r].session
                  => Stored(request[r].id) /\ Updated(r)[request[r].id].is_default
<1>0. /\ request[r].cleared = Defaults
      /\ request[r].cleared \subseteq DOMAIN request[r].session
  BY DEF Fresh, TypeOK
<1>1. ASSUME NEW q \in Providers, Stored(q), q # request[r].id
      PROVE  ~Updated(r)[q].is_default
  <2>1. CASE q \in DOMAIN request[r].session
    <3>1. request[r].session[q].is_default <=> q \in Defaults
      BY <2>1 DEF Fresh
    <3>2. request[r].session[q].is_default \in BOOLEAN /\ provider[q].is_default \in BOOLEAN
      BY <2>1, RequestFields DEF TypeOK, Row
    <3> QED BY <1>0, <1>1, <2>1, <3>1, <3>2, WrittenDefault DEF Defaults
  <2>2. CASE q \notin DOMAIN request[r].session
    BY <1>0, <1>1, <2>2, NotHeld DEF Defaults
  <2> QED BY <2>1, <2>2
<1>2. ASSUME request[r].id \in DOMAIN request[r].session
      PROVE  Stored(request[r].id) /\ Updated(r)[request[r].id].is_default
  <2> DEFINE p == request[r].id
  <2>1. request[r].session[p].is_default <=> p \in Defaults
    BY <1>2 DEF Fresh
  <2>2. request[r].session[p].is_default \in BOOLEAN
    BY <1>2, RequestFields DEF Row
  <2>3. CASE p \in Defaults
    BY <1>2, <2>1, <2>2, <2>3, WrittenDefault DEF Defaults, Granted
  <2>4. CASE p \notin Defaults
    <3>1. p \in Dirty(r) /\ Updated(r)[p].is_default
      BY <1>2, <2>1, <2>2, <2>4, WrittenDefault DEF Granted
    <3> QED BY <3>1 DEF NoneGone
  <2> QED BY <2>3, <2>4
<1> QED BY <1>1, <1>2

\* A request that claims nothing leaves the column alone, or takes the default
\* from its own provider.
LEMMA NoClaim ==
    ASSUME TypeOK, ClearedAsked, NEW r \in Requests, request[r].is_default # "yes",
           NEW q \in Providers
    PROVE  \/ Updated(r)[q].is_default = provider[q].is_default
           \/ q = request[r].id /\ ~Updated(r)[q].is_default
<1>1. CASE q \notin DOMAIN request[r].session
  BY <1>1, NotHeld
<1>2. CASE q \in DOMAIN request[r].session
  <2>1. request[r].cleared = {} /\ request[r].is_default \in {"keep", "no"}
    BY RequestFields DEF ClearedAsked, Request, Wish
  <2>2. request[r].session[q].is_default \in BOOLEAN
    BY <1>2, RequestFields DEF Row
  <2>3. CASE q # request[r].id
    BY <1>2, <2>1, <2>2, <2>3, WrittenDefault
  <2>4. CASE q = request[r].id /\ request[r].is_default = "keep"
    BY <1>2, <2>1, <2>2, <2>4, WrittenDefault DEF Granted
  <2>5. CASE q = request[r].id /\ request[r].is_default = "no"
    BY <1>2, <2>1, <2>2, <2>5, WrittenDefault DEF Granted
  <2> QED BY <2>1, <2>3, <2>4, <2>5
<1> QED BY <1>1, <1>2

\* The steps, by what they do to the known providers and to the defaults among
\* them.
LEMMA DefaultStep ==
    ASSUME TypeOK, ClearedAsked, Asks, Fresh, ~StaleClaim, [Next]_vars
    PROVE  \/ \E p \in Providers :
                  /\ p \notin Known /\ Known' = Known \cup {p}
                  /\ Defaults' \in {{p}, Defaults}
           \/ \E p \in Known : Known' = Known /\ Defaults' = {p}
           \/ \E p \in Defaults : Known' = Known /\ Defaults' = Defaults \ {p}
           \/ \E p \in Providers : Known' = Known \ {p} /\ Defaults' = Defaults \ {p}
           \/ Known' = Known /\ Defaults' = Defaults
<1>1. ASSUME NEW r \in Requests, NEW p \in Providers, CommitCreate(r, p)
      PROVE  /\ p \notin Known /\ Known' = Known \cup {p}
             /\ Defaults' \in {{p}, Defaults}
  <2>1. /\ request[r].pc = "commit" /\ request[r].id = 0 /\ 0 \notin Providers
        /\ NoneGone(r) /\ provider[p].status = "free"
    BY <1>1 DEF CommitCreate, Asks, Providers
  <2>2. \A q \in Providers : q # p => provider'[q] = Updated(r)[q]
    BY <1>1, UpdatedType DEF CommitCreate
  <2>3. /\ provider'[p].status = "stored"
        /\ provider'[p].is_default = (request[r].is_default = "yes")
    BY <1>1, UpdatedType DEF CommitCreate
  <2>4. \A q \in Providers : q # p => (Stored(q)' <=> Stored(q))
    BY <2>2, UpdatedType DEF Stored
  <2>5. p \notin Known /\ Known' = Known \cup {p}
    BY <2>1, <2>3, <2>4 DEF Known, Stored
  <2>6. CASE request[r].is_default = "yes"
    <3>1. r \notin overtaken
      BY <1>1, <2>6 DEF StaleClaim
    <3>2. \A q \in Providers : q # p /\ Stored(q) => ~provider'[q].is_default
      BY <2>1, <2>2, <2>6, <3>1, FreshClaim
    <3>3. Defaults' = {p}
      BY <2>3, <2>4, <2>6, <3>2 DEF Defaults, Stored
    <3> QED BY <2>5, <3>3
  <2>7. CASE request[r].is_default # "yes"
    <3>1. \A q \in Providers :
              q # p => provider'[q].is_default = provider[q].is_default
      BY <2>1, <2>2, <2>7, NoClaim
    <3>2. Defaults' = Defaults
      BY <2>1, <2>3, <2>4, <2>7, <3>1 DEF Defaults, Stored
    <3> QED BY <2>5, <3>2
  <2> QED BY <2>6, <2>7
<1>2. ASSUME NEW r \in Requests, CommitUpdate(r)
      PROVE  /\ Known' = Known
             /\ \/ \E p \in Known : Defaults' = {p}
                \/ \E p \in Defaults : Defaults' = Defaults \ {p}
                \/ Defaults' = Defaults
  <2> DEFINE p == request[r].id
  <2>1. /\ request[r].pc = "commit" /\ p \in DOMAIN request[r].session
        /\ NoneGone(r) /\ provider' = Updated(r)
    BY <1>2 DEF CommitUpdate, TypeOK
  <2>2. p \in Providers
    BY <2>1, RequestFields
  <2>3. Known' = Known /\ \A q \in Providers : Stored(q)' <=> Stored(q)
    BY <2>1, UpdatedType DEF Known, Stored
  <2>4. CASE request[r].is_default = "yes"
    <3>1. r \notin overtaken
      BY <1>2, <2>4 DEF StaleClaim
    <3>2. /\ Stored(p) /\ provider'[p].is_default
          /\ \A q \in Providers : Stored(q) /\ q # p => ~provider'[q].is_default
      BY <2>1, <2>4, <3>1, FreshClaim
    <3>3. p \in Known /\ Defaults' = {p}
      BY <2>2, <2>3, <3>2 DEF Known, Defaults
    <3> QED BY <2>3, <3>3
  <2>5. CASE request[r].is_default # "yes"
    <3>1. \A q \in Providers : \/ provider'[q].is_default = provider[q].is_default
                               \/ q = p /\ ~provider'[q].is_default
      BY <2>1, <2>5, NoClaim
    <3> HIDE DEF p
    <3>2. CASE provider'[p].is_default = provider[p].is_default
      <4>1. \A q \in Providers : provider'[q].is_default = provider[q].is_default
        BY <3>1, <3>2
      <4>2. Defaults' = Defaults
        BY <2>3, <4>1 DEF Defaults
      <4> QED BY <2>3, <4>2
    <3>3. CASE provider'[p].is_default # provider[p].is_default
      <4>1. /\ ~provider'[p].is_default
            /\ \A q \in Providers :
                   q # p => provider'[q].is_default = provider[q].is_default
        BY <2>2, <3>1, <3>3
      <4>2. Defaults' = Defaults \ {p}
        BY <2>3, <4>1 DEF Defaults
      <4>3. p \in Defaults \/ Defaults \ {p} = Defaults
        OBVIOUS
      <4> QED BY <2>3, <4>2, <4>3
    <3> QED BY <3>2, <3>3
  <2> QED BY <2>4, <2>5
<1>3. ASSUME NEW r \in Requests, CommitDelete(r)
      PROVE  \E p \in Providers :
                 Known' = Known \ {p} /\ Defaults' = Defaults \ {p}
  <2> DEFINE p == request[r].id
  <2>1. p \in DOMAIN request[r].session
    BY <1>3 DEF CommitDelete, TypeOK
  <2>2. p \in Providers
    BY <2>1, RequestFields
  <2>3. /\ provider'[p].status = "deleted"
        /\ \A q \in Providers : q # p => provider'[q] = provider[q]
    BY <1>3, <2>2 DEF CommitDelete, TypeOK
  <2> HIDE DEF p
  <2> QED BY <2>2, <2>3 DEF Known, Defaults, Stored
<1>4. ASSUME provider' = provider PROVE Known' = Known /\ Defaults' = Defaults
  BY <1>4 DEF Known, Defaults, Stored
<1>5. \/ \E r \in Requests, p \in Providers : CommitCreate(r, p)
      \/ \E r \in Requests : CommitUpdate(r)
      \/ \E r \in Requests : CommitDelete(r)
      \/ provider' = provider
  BY DEF Next, vars, BeginCreate, BeginUpdate, BeginDelete, BeginToggle, Load,
         ClearDefaults, RequestFails
<1> QED BY <1>1, <1>2, <1>3, <1>4, <1>5

\* Every step, seen from the requests: one ends, or one moves on and leaves the
\* table and the history alone.
LEMMA RequestSteps ==
    ASSUME [Next]_vars
    PROVE  \/ UNCHANGED vars
           \/ \E r \in Requests : Done(r)
           \/ \E r \in Requests, d \in {"yes", "no"} : BeginCreate(r, d)
           \/ \E r \in Requests, p \in Providers, op \in {"update", "delete", "toggle"},
                 d, e \in Wish : Load(r, p, op, d, e)
           \/ \E r \in Requests : ClearDefaults(r)
  BY DEF Next, BeginUpdate, BeginDelete, BeginToggle, CommitCreate, CommitUpdate,
         CommitDelete, RequestFails, Wish

\* A step of one request that leaves the table alone keeps what the others hold.
LEMMA MovesOn ==
    ASSUME TypeOK, Asks, Fresh, NEW r \in Requests, NEW new,
           request' = [request EXCEPT ![r] = new],
           UNCHANGED <<provider, overtaken>>,
           new.op = "create" => new.id = 0,
           new.pc # "idle",
           r \notin overtaken =>
               /\ \A q \in DOMAIN new.session :
                      new.session[q].is_default <=> q \in Defaults
               /\ new.pc = "commit" /\ new.is_default = "yes" => new.cleared = Defaults
    PROVE  Asks' /\ Fresh'
<1>1. request'[r] = new /\ \A s \in Requests : s # r => request'[s] = request[s]
  BY DEF TypeOK
<1>2. Defaults' = Defaults
  BY DEF Defaults, Stored
<1>3. Asks'
  BY <1>1 DEF Asks
<1>4. Fresh'
  BY <1>1, <1>2 DEF Fresh
<1> QED BY <1>3, <1>4

LEMMA FreshStep ==
    ASSUME TypeOK, ClearedAsked, Asks, Fresh, [Next]_vars
    PROVE  Asks' /\ Fresh'
<1>1. ASSUME NEW r \in Requests, Done(r) PROVE Asks' /\ Fresh'
  <2>1. /\ request'[r] = IdleRequest
        /\ \A s \in Requests : s # r => request'[s] = request[s]
    BY <1>1 DEF TypeOK, Done
  <2>2. IdleRequest.id = 0 /\ DOMAIN IdleRequest.session = {} /\ IdleRequest.pc = "idle"
    BY NoSessionType DEF IdleRequest
  <2>3. Asks'
    BY <2>1, <2>2 DEF Asks
  <2>4. CASE Defaults' = Defaults
    <3>1. \A s \in Requests : s # r /\ s \notin overtaken' => s \notin overtaken
      BY <1>1 DEF Done
    <3> QED BY <2>1, <2>2, <2>3, <2>4, <3>1 DEF Fresh
  <2>5. CASE Defaults' # Defaults
    <3>1. \A s \in Requests : s # r /\ s \notin overtaken' => request[s].pc = "idle"
      BY <1>1, <2>5 DEF Done
    <3> QED BY <2>1, <2>2, <2>3, <3>1 DEF Fresh, Asks
  <2> QED BY <2>4, <2>5
<1>2. ASSUME NEW r \in Requests, NEW d \in {"yes", "no"}, BeginCreate(r, d)
      PROVE  Asks' /\ Fresh'
  <2> DEFINE new == [IdleRequest EXCEPT !.pc = AfterLoad(d), !.op = "create",
                                        !.is_default = d]
  <2>1. request' = [request EXCEPT ![r] = new] /\ UNCHANGED <<provider, overtaken>>
    BY <1>2 DEF BeginCreate
  <2>2. /\ new.id = 0 /\ DOMAIN new.session = {} /\ new.is_default = d
        /\ new.pc = AfterLoad(d)
    BY NoSessionType DEF IdleRequest
  <2> HIDE DEF new
  <2> QED BY <2>1, <2>2, MovesOn DEF AfterLoad
<1>3. ASSUME NEW r \in Requests, NEW p \in Providers,
             NEW op \in {"update", "delete", "toggle"},
             NEW d \in Wish, NEW e \in Wish, Load(r, p, op, d, e)
      PROVE  Asks' /\ Fresh'
  <2> DEFINE new == [pc |-> AfterLoad(d), op |-> op, id |-> p, is_default |-> d,
                     enabled |-> e, session |-> [q \in {p} |-> provider[q]],
                     cleared |-> {}]
  <2>1. /\ request' = [request EXCEPT ![r] = new] /\ UNCHANGED <<provider, overtaken>>
        /\ Stored(p)
    BY <1>3 DEF Load
  <2>2. /\ new.op # "create" /\ new.is_default = d /\ new.pc = AfterLoad(d)
        /\ \A q \in DOMAIN new.session : q = p /\ new.session[q] = provider[p]
    OBVIOUS
  <2>3. provider[p].is_default <=> p \in Defaults
    BY <2>1 DEF Defaults
  <2> HIDE DEF new
  <2> QED BY <2>1, <2>2, <2>3, MovesOn DEF AfterLoad
<1>4. ASSUME NEW r \in Requests, ClearDefaults(r) PROVE Asks' /\ Fresh'
  <2> DEFINE held == request[r].session
             session == [q \in DOMAIN held \cup Defaults |->
                             IF q \in DOMAIN held THEN held[q] ELSE provider[q]]
             new == [request[r] EXCEPT !.pc = "commit", !.session = session,
                                       !.cleared = Defaults]
  <2>1. request[r] \in Request /\ UNCHANGED <<provider, overtaken>>
    BY <1>4, RequestFields DEF ClearDefaults
  <2>2. request' = [request EXCEPT ![r] = new]
    BY <1>4, <2>1 DEF ClearDefaults, TypeOK, Request
  <2>3. /\ new.pc = "commit" /\ new.session = session /\ new.cleared = Defaults
        /\ new.op = request[r].op /\ new.id = request[r].id
    BY <2>1 DEF Request
  <2>4. ASSUME r \notin overtaken, NEW q \in DOMAIN session
        PROVE  session[q].is_default <=> q \in Defaults
    BY <2>4 DEF Fresh, Defaults
  <2> HIDE DEF session, new
  <2>5. new.op = "create" => new.id = 0
    BY <2>3 DEF Asks
  <2> QED BY <2>1, <2>2, <2>3, <2>4, <2>5, MovesOn
<1>5. CASE UNCHANGED vars
  <2>1. Defaults' = Defaults
    BY <1>5 DEF vars, Defaults, Stored
  <2> QED BY <1>5, <2>1 DEF vars, Asks, Fresh
<1> QED BY <1>1, <1>2, <1>3, <1>4, <1>5, RequestSteps

FreshInv == TypeOK /\ ClearedAsked /\ Asks /\ Fresh

LEMMA FreshInit == Init => FreshInv
<1>1. Init => TypeOK
  BY IdleType, NoSessionType DEF Init, TypeOK, FreeRow, Row, IdleRequest
<1>2. Init => ClearedAsked /\ Asks /\ Fresh
  BY NoSessionType DEF Init, ClearedAsked, Asks, Fresh, IdleRequest
<1> QED BY <1>1, <1>2 DEF FreshInv

LEMMA FreshNext == FreshInv /\ [Next]_vars => FreshInv'
  BY TypeNext, ClearedAskedStep, FreshStep DEF FreshInv

\* However requests overlap: an update that asks for the default, and that no
\* other request has moved the default under, makes its provider the only one.
THEOREM AskedIsDefaultHolds == Spec => AskedIsDefault
<1>1. FreshInv /\ [Next]_vars
          => [\A r \in Requests \ overtaken :
                  CommitUpdate(r) /\ request[r].is_default = "yes"
                      => Defaults' = {request[r].id}]_vars
  <2> SUFFICES ASSUME FreshInv, NEW r \in Requests \ overtaken, CommitUpdate(r),
                      request[r].is_default = "yes"
               PROVE  Defaults' = {request[r].id}
    OBVIOUS
  <2> DEFINE p == request[r].id
  <2>1. /\ request[r].pc = "commit" /\ provider' = Updated(r) /\ NoneGone(r)
        /\ p \in DOMAIN request[r].session
    BY DEF CommitUpdate, TypeOK, FreshInv
  <2>2. p \in Providers
    BY <2>1, RequestFields DEF FreshInv
  <2>3. \A q \in Providers : Stored(q)' <=> Stored(q)
    BY <2>1, UpdatedType DEF Stored, FreshInv
  <2>4. /\ Stored(p) /\ provider'[p].is_default
        /\ \A q \in Providers : Stored(q) /\ q # p => ~provider'[q].is_default
    BY <2>1, FreshClaim DEF FreshInv
  <2> QED BY <2>2, <2>3, <2>4 DEF Defaults
<1> QED BY <1>1, FreshInit, FreshNext, PTL DEF Spec, AskedIsDefault

-----------------------------------------------------------------------------
(* The table implements the register.                                      *)

LEMMA AtMostOne == AtMostOneDefault <=> UniqueDefault
<1>1. IsFiniteSet(Defaults)
  <2>1. IsFiniteSet(Providers)
    BY ProvidersAssumption, FS_Interval DEF Providers
  <2> QED BY <2>1, FS_Subset DEF Defaults
<1>2. ASSUME UniqueDefault PROVE AtMostOneDefault
  <2>1. CASE Defaults = {}
    BY <2>1, FS_EmptySet DEF AtMostOneDefault
  <2>2. CASE Defaults # {}
    <3>1. PICK p \in Defaults : TRUE
      BY <2>2
    <3>2. Defaults = {p}
      BY <1>2, <3>1 DEF UniqueDefault
    <3>3. Cardinality({p}) = 1
      BY FS_Singleton
    <3> QED BY <3>2, <3>3 DEF AtMostOneDefault
  <2> QED BY <2>1, <2>2
<1>3. ASSUME AtMostOneDefault, NEW p \in Defaults, NEW q \in Defaults, p # q
      PROVE  FALSE
  <2>1. Cardinality({p}) = 1 /\ IsFiniteSet({p})
    BY FS_Singleton
  <2>2. Cardinality({p} \cup {q}) = 2
    BY <1>3, <2>1, FS_AddElement
  <2>3. {p} \cup {q} \subseteq Defaults
    OBVIOUS
  <2>4. Cardinality({p} \cup {q}) <= Cardinality(Defaults)
    BY <1>1, <2>3, FS_Subset
  <2>5. Cardinality(Defaults) \in Nat
    BY <1>1, FS_CardinalityType
  <2> QED BY <1>3, <2>2, <2>4, <2>5 DEF AtMostOneDefault
<1> QED BY <1>2, <1>3 DEF UniqueDefault

LEMMA TheDefault ==
    ASSUME NEW D, NEW p, D = {p}
    PROVE  (IF D = {} THEN 0 ELSE CHOOSE x \in D : TRUE) = p
  OBVIOUS

LEMMA RegisterStep ==
    ASSUME FreshInv, UniqueDefault, ~StaleClaim, [Next]_vars
    PROVE  /\ Register!Next \/ UNCHANGED <<Known, Default>>
           /\ UniqueDefault'
<1>1. \A p : Defaults = {p} => Default = p
  BY TheDefault DEF Default
<1>2. \A p : Defaults' = {p} => Default' = p
  BY TheDefault DEF Default
<1>3. Defaults' = Defaults => Default' = Default
  BY DEF Default
<1>4. (Defaults = {} => Default = 0) /\ (Defaults' = {} => Default' = 0)
  BY DEF Default
<1>5. \A p \in Defaults : Defaults = {p}
  BY DEF UniqueDefault
<1>6. Defaults \subseteq Known /\ Known \subseteq Providers
  BY DEF Defaults, Known
<1>7. ASSUME NEW p \in Providers, p \notin Known, Known' = Known \cup {p},
             Defaults' \in {{p}, Defaults}
      PROVE  Register!Add(p)
  BY <1>2, <1>3, <1>7 DEF Register!Add
<1>8. ASSUME NEW p \in Known, Known' = Known, Defaults' = {p}
      PROVE  Register!Take(p)
  BY <1>2, <1>8 DEF Register!Take
<1>9. ASSUME NEW p \in Defaults, Known' = Known, Defaults' = Defaults \ {p}
      PROVE  Register!GiveUp(p)
  <2>1. Defaults = {p} /\ Defaults' = {}
    BY <1>5, <1>9
  <2> QED BY <1>1, <1>4, <1>9, <2>1 DEF Register!GiveUp
<1>10. ASSUME NEW p \in Providers, Known' = Known \ {p}, Defaults' = Defaults \ {p}
       PROVE  Register!Remove(p)
  <2>1. CASE p \in Defaults
    <3>1. Defaults = {p} /\ Defaults' = {}
      BY <1>5, <1>10, <2>1
    <3> QED BY <1>1, <1>4, <1>10, <3>1 DEF Register!Remove
  <2>2. CASE p \notin Defaults
    <3>1. Defaults' = Defaults
      BY <1>10, <2>2
    <3>2. Default # p
      <4>1. CASE Defaults = {}
        BY <1>4, <4>1 DEF Providers
      <4>2. CASE Defaults # {}
        BY <1>1, <1>5, <2>2, <4>2
      <4> QED BY <4>1, <4>2
    <3> QED BY <1>3, <1>10, <3>1, <3>2 DEF Register!Remove
  <2> QED BY <2>1, <2>2
<1>11. UniqueDefault'
  BY DefaultStep DEF FreshInv, UniqueDefault
<1> QED BY <1>3, <1>6, <1>7, <1>8, <1>9, <1>10, <1>11, DefaultStep
    DEF FreshInv, Register!Next

\* However requests overlap: the table is a register of the default, which it
\* leaves only by the commit of a claim that cleared the defaults of the past.
THEOREM RegisterImplemented == Spec => ImplementsRegister
<1>1. Init => Register!Init
  BY DEF Init, Register!Init, Known, Default, Defaults, Stored, FreeRow
<1>2. FreshInv /\ [Next]_vars
          => [AtMostOneDefault /\ ~StaleClaim =>
                  /\ Register!Next \/ UNCHANGED <<Known, Default>>
                  /\ AtMostOneDefault']_vars
  <2> SUFFICES ASSUME FreshInv, [Next]_vars, AtMostOneDefault, ~StaleClaim
               PROVE  /\ Register!Next \/ UNCHANGED <<Known, Default>>
                      /\ AtMostOneDefault'
    OBVIOUS
  <2>1. UniqueDefault
    BY AtMostOne
  <2>2. UniqueDefault' => AtMostOneDefault'
    BY AtMostOne, PTL
  <2> QED BY <2>1, <2>2, RegisterStep
<1> QED BY <1>1, <1>2, FreshInit, FreshNext, PTL DEF Spec, ImplementsRegister
=============================================================================
