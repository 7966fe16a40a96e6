---------------------------- MODULE LLMProviders ----------------------------
(***************************************************************************)
(* LLMProviderService: requests of administrators on the provider table.   *)
(* Every request has its own session: it reads, waits, and writes in one   *)
(* transaction.  The session returns the object it loaded first, however   *)
(* old, and writes only the attributes that differ from what it loaded; an *)
(* UPDATE of a row that is gone fails the transaction.                     *)
(***************************************************************************)
EXTENDS Integers, FiniteSets

CONSTANTS
    MaxProviders,  \* how many providers are ever created
    Requests       \* requests that may be under way at once

ASSUME ProvidersAssumption == MaxProviders \in Nat

VARIABLES
    provider,  \* id -> its row
    request,   \* request -> where it is, what it asks, what its session holds
    overtaken  \* history: requests under way while another moved the default

vars == <<provider, request, overtaken>>

Providers == 1..MaxProviders

Row == [status: {"free", "stored", "deleted"}, is_default: BOOLEAN,
        enabled: BOOLEAN]
FreeRow == [status |-> "free", is_default |-> FALSE, enabled |-> FALSE]

Stored(p) == provider[p].status = "stored"

\* What a body may say of an attribute: nothing, or its value.
Wish == {"keep", "yes", "no"}
Granted(wish, value) == IF wish = "keep" THEN value ELSE wish = "yes"

\* The objects of a session, as they were loaded.
Session == UNION {[S -> Row] : S \in SUBSET Providers}

\* A request: where it is, what it asks of which provider, its session, and the
\* objects that _clear_defaults has changed.
Request == [pc: {"idle", "clear", "commit"},
            op: {"create", "update", "delete", "toggle"},
            id: 0..MaxProviders, is_default: Wish, enabled: Wish,
            session: Session, cleared: SUBSET Providers]

NoSession == [p \in {} |-> FreeRow]
IdleRequest == [pc |-> "idle", op |-> "create", id |-> 0, is_default |-> "keep",
                enabled |-> "keep", session |-> NoSession, cleared |-> {}]

Init ==
    /\ provider = [p \in Providers |-> FreeRow]
    /\ request = [r \in Requests |-> IdleRequest]
    /\ overtaken = {}

-----------------------------------------------------------------------------
\* A request for the default has the defaults of others cleared first.
AfterLoad(wish) == IF wish = "yes" THEN "clear" ELSE "commit"

BeginCreate(r, default) ==
    /\ request[r].pc = "idle"
    /\ request' = [request EXCEPT ![r] =
                      [IdleRequest EXCEPT !.pc = AfterLoad(default),
                                          !.op = "create",
                                          !.is_default = default]]
    /\ UNCHANGED <<provider, overtaken>>

\* _get_by_id; a provider that is not there is a 404.
Load(r, p, op, default, enabled) ==
    /\ request[r].pc = "idle"
    /\ Stored(p)
    /\ request' = [request EXCEPT ![r] =
                      [pc |-> AfterLoad(default), op |-> op, id |-> p,
                       is_default |-> default, enabled |-> enabled,
                       session |-> [q \in {p} |-> provider[q]], cleared |-> {}]]
    /\ UNCHANGED <<provider, overtaken>>

BeginUpdate(r, p, default, enabled) == Load(r, p, "update", default, enabled)
BeginDelete(r, p) == Load(r, p, "delete", "keep", "keep")
BeginToggle(r, p) ==
    Load(r, p, "toggle", "keep", IF provider[p].enabled THEN "no" ELSE "yes")

Defaults == {p \in Providers : Stored(p) /\ provider[p].is_default}

\* _clear_defaults: the query finds the defaults of now; an object the session
\* holds already stays as it was loaded.
ClearDefaults(r) ==
    LET held == request[r].session IN
    /\ request[r].pc = "clear"
    /\ request' = [request EXCEPT
                     ![r].pc = "commit",
                     ![r].session = [q \in DOMAIN held \cup Defaults |->
                                       IF q \in DOMAIN held THEN held[q]
                                                            ELSE provider[q]],
                     ![r].cleared = Defaults]
    /\ UNCHANGED <<provider, overtaken>>

\* Faulty variant: the wish is set first and cleared with the others.
WantedThenCleared(r, q) ==
    LET held == request[r].session[q]
        mine == IF q = request[r].id
                THEN [held EXCEPT
                        !.is_default = Granted(request[r].is_default, @),
                        !.enabled = Granted(request[r].enabled, @)]
                ELSE held
    IN  [mine EXCEPT !.is_default = @ /\ q \notin request[r].cleared]

\* What the request makes of an object of its session.
Wanted(r, q) ==
    LET held == request[r].session[q]
        rest == [held EXCEPT !.is_default = @ /\ q \notin request[r].cleared]
    IN  IF q = request[r].id
        THEN [rest EXCEPT !.is_default = Granted(request[r].is_default, @),
                          !.enabled = Granted(request[r].enabled, @)]
        ELSE rest

\* Faulty variant: only the provider of the request is written.
DirtyOwn(r) == {q \in {request[r].id} \cap DOMAIN request[r].session :
                    Wanted(r, q) # request[r].session[q]}

\* The rows a commit updates.
Dirty(r) ==
    {q \in DOMAIN request[r].session : Wanted(r, q) # request[r].session[q]}

\* Faulty variant: the row is overwritten with the whole object.
WrittenWhole(r, q) == Wanted(r, q)

\* What becomes of one of them: the attributes that differ are written.
Written(r, q) ==
    LET held == request[r].session[q]
        want == Wanted(r, q)
    IN  [provider[q] EXCEPT
           !.is_default = IF want.is_default # held.is_default
                          THEN want.is_default ELSE @,
           !.enabled = IF want.enabled # held.enabled THEN want.enabled ELSE @]

Updated(r) ==
    [q \in Providers |-> IF q \in Dirty(r) THEN Written(r, q) ELSE provider[q]]

\* Faulty variant: nobody looks whether an UPDATE found its row.
NoneGoneUnchecked(r) == TRUE

NoneGone(r) == \A q \in Dirty(r) : Stored(q)

\* The request ends; what moves the default overtakes those under way.
Done(r) ==
    /\ request' = [request EXCEPT ![r] = IdleRequest]
    /\ overtaken' = {s \in Requests \ {r} :
                        \/ s \in overtaken
                        \/ Defaults' # Defaults /\ request[s].pc # "idle"}

\* The commit of a create: the defaults it cleared, and the new row.
CommitCreate(r, p) ==
    /\ request[r].pc = "commit" /\ request[r].op = "create"
    /\ NoneGone(r)
    /\ provider[p].status = "free" /\ \A q \in 1..(p - 1) : provider[q].status # "free"
    /\ provider' = [Updated(r) EXCEPT
                      ![p] = [status |-> "stored", enabled |-> TRUE,
                              is_default |-> request[r].is_default = "yes"]]
    /\ Done(r)

\* The commit of an update or a toggle.
CommitUpdate(r) ==
    /\ request[r].pc = "commit" /\ request[r].op \in {"update", "toggle"}
    /\ NoneGone(r)
    /\ provider' = Updated(r)
    /\ Done(r)

\* A DELETE that finds no row is only warned about.
CommitDelete(r) ==
    /\ request[r].pc = "commit" /\ request[r].op = "delete"
    /\ provider' = [provider EXCEPT
                      ![request[r].id] = [FreeRow EXCEPT !.status = "deleted"]]
    /\ Done(r)

\* The transaction fails: a row is gone, the name is taken, the connection lost.
RequestFails(r) ==
    /\ request[r].pc # "idle"
    /\ UNCHANGED provider
    /\ Done(r)

Next ==
    \E r \in Requests :
        \/ \E d \in {"yes", "no"} : BeginCreate(r, d)
        \/ \E p \in Providers, d, e \in Wish : BeginUpdate(r, p, d, e)
        \/ \E p \in Providers : BeginDelete(r, p)
        \/ \E p \in Providers : BeginToggle(r, p)
        \/ ClearDefaults(r)
        \/ \E p \in Providers : CommitCreate(r, p)
        \/ CommitUpdate(r)
        \/ CommitDelete(r)
        \/ RequestFails(r)

Spec == Init /\ [][Next]_vars

-----------------------------------------------------------------------------
\* Every variable has its type; a session holds what its request names, and the
\* row of every object in it was there once.
TypeOK ==
    /\ provider \in [Providers -> Row]
    /\ request \in [Requests -> Request]
    /\ overtaken \subseteq {r \in Requests : request[r].pc # "idle"}
    /\ \A r \in Requests :
           /\ request[r].cleared \subseteq DOMAIN request[r].session
           /\ \A q \in DOMAIN request[r].session : provider[q].status # "free"
           /\ request[r].op # "create" /\ request[r].pc # "idle" =>
                  request[r].id \in DOMAIN request[r].session

\* The comment in create_provider: "If setting as default, unset other
\* defaults".  Two providers are never the default: requests that overlap can
\* break it, each of them clearing the defaults it finds.
AtMostOneDefault == Cardinality(Defaults) <= 1

\* However requests overlap: an update that asks for the default, is committed,
\* and had no commit of another move the default under it, has made its provider
\* the only default: one that was the default already, and also when earlier
\* requests had left two.
AskedIsDefault ==
    [][\A r \in Requests \ overtaken :
           CommitUpdate(r) /\ request[r].is_default = "yes"
               => Defaults' = {request[r].id}]_vars

\* No late commit brings a deleted provider back.
DeletedForGood ==
    [][\A p \in Providers :
           provider[p].status = "deleted" => provider'[p] = provider[p]]_vars

\* Requests that overlap do not undo each other's changes by writing back what
\* they read: a commit changes enabled of a stored provider only for a request
\* that says something of it, and takes a default away only for a request that
\* names another, gives it up or deletes it.
OnlyAskedChanges ==
    [][\A p \in Providers : Stored(p) /\ provider'[p].status = "stored" =>
           /\ provider'[p].enabled # provider[p].enabled =>
                  \E r \in Requests : /\ request[r].pc = "commit"
                                      /\ request[r].id = p
                                      /\ request[r].enabled # "keep"
           /\ provider[p].is_default /\ ~provider'[p].is_default =>
                  \E r \in Requests :
                      /\ request[r].pc = "commit"
                      /\ \/ request[r].is_default = "yes"
                         \/ request[r].id = p /\ request[r].is_default = "no"]_vars

Default == IF Defaults = {} THEN 0 ELSE CHOOSE p \in Defaults : TRUE
Known == {p \in Providers : Stored(p)}

Register == INSTANCE DefaultRegister WITH known <- Known, default <- Default

\* A request for the default is committed that knows the defaults of the past.
StaleClaim ==
    \E r \in overtaken :
        /\ request[r].is_default = "yes"
        /\ CommitUpdate(r) \/ \E p \in Providers : CommitCreate(r, p)

\* The table is a register of the default, and leaves it in one way only: by the
\* commit of a request for the default that another commit had moved the default
\* under.  Any other overlap, failure or deletion keeps to it.
ImplementsRegister ==
    /\ Register!Init
    /\ [][AtMostOneDefault /\ ~StaleClaim =>
              /\ Register!Next \/ UNCHANGED <<Known, Default>>
              /\ AtMostOneDefault']_vars
=============================================================================
