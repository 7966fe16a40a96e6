--------------------------- MODULE ProvidersPage ----------------------------
(***************************************************************************)
(* LLMProvidersPage: the cards of the cached providers, the dialog that    *)
(* creates or edits one, the test of a connection and the enable switch,   *)
(* against the rows that the server stores.  The text fields are known by  *)
(* what they were meant for: a key by the provider it was typed for, a     *)
(* base URL by the type of provider.                                       *)
(***************************************************************************)
EXTENDS Naturals

CONSTANTS
    Providers,    \* provider ids
    FirstType,    \* provider -> the type of those that are stored at first, or "free"
    PickedTypes,  \* the provider types users pick in this instance
    MaxAsks       \* bound: requests the user makes

\* PROVIDER_CONFIG.
NeedsApiKey == {"openai", "gemini", "anthropic", "openrouter"}
NeedsBaseUrl == {"ollama", "openrouter"}
Types == NeedsApiKey \cup NeedsBaseUrl

ASSUME ProvidersPageAssumption ==
    /\ Providers \subseteq Nat \ {0} /\ PickedTypes \subseteq Types
    /\ FirstType \in [Providers -> Types \cup {"free"}]
    /\ MaxAsks \in Nat

VARIABLES
    stored,       \* provider -> its row
    cards,        \* query.data of ["llm-providers"], or NoCards
    cardsFailed,  \* the first request was given up
    showDialog,
    editing,      \* editingProvider, 0 for null
    form,
    asks,         \* the requests of the mutations: [pc, op, prov, form, shown]
    testingId,    \* 0 for null
    testResults   \* provider -> "none", "ok" or "failed"

provVars == <<stored, cards, cardsFailed, showDialog, editing, form, asks,
              testingId, testResults>>
cardsFrame == <<cards, cardsFailed>>
dialogState == <<showDialog, editing, form>>
testState == <<testingId, testResults>>

NoKey == [prov |-> 0, type |-> "none"]
NoRow == [type |-> "free", key |-> NoKey, url |-> "none", enabled |-> FALSE]
Row(t) == [NoRow EXCEPT !.type = t, !.enabled = (t # "free")]
Gone == [NoRow EXCEPT !.type = "deleted"]
Present(rows) == {p \in Providers : rows[p].type \in Types}

\* name and is_default are left out.
emptyForm == [type |-> "openai", key |-> NoKey, url |-> "ollama"]
Asks == 1..MaxAsks
NoAsk == [pc |-> "unused", op |-> "none", prov |-> 0, form |-> emptyForm, shown |-> FALSE]
NoCards == [p \in {} |-> NoRow]
HasCard(p) == p \in DOMAIN cards /\ cards[p].type \in Types

ProvInit ==
    /\ stored = [p \in Providers |-> Row(FirstType[p])]
    /\ cards = NoCards /\ cardsFailed = FALSE
    /\ showDialog = FALSE /\ editing = 0 /\ form = emptyForm
    /\ asks = [n \in Asks |-> NoAsk]
    /\ testingId = 0
    /\ testResults = [p \in Providers |-> "none"]

\* A list that could not be loaded looks like an empty one.
CardsShow ==
    IF \E p \in Providers : HasCard(p) THEN "cards"
    ELSE IF cards = NoCards /\ ~cardsFailed THEN "skeleton" ELSE "empty"

\* useLLMProviders is answered; nothing asks again but a mutation or the focus.
CardsArrive ==
    /\ cards' = stored /\ cardsFailed' = FALSE
    /\ UNCHANGED <<stored, dialogState, asks, testState>>

CardsFail ==
    /\ cards = NoCards /\ ~cardsFailed
    /\ cardsFailed' = TRUE
    /\ UNCHANGED <<stored, cards, dialogState, asks, testState>>

\* The base URL goes along for the types that need one.
Payload == IF form.type \in NeedsBaseUrl THEN form ELSE [form EXCEPT !.url = "none"]

\* A mutation sends its request.
Send(n, op, p) ==
    /\ asks[n] = NoAsk
    /\ \A m \in Asks : m < n => asks[m] # NoAsk
    /\ asks' = [asks EXCEPT ![n] =
                   [pc |-> "sent", op |-> op, prov |-> p,
                    form |-> IF op = "save" THEN Payload ELSE emptyForm,
                    shown |-> op = "toggle" /\ cards[p].enabled]]

Sent(n, op) == asks[n].pc = "sent" /\ asks[n].op = op
Past(n, pc) == asks' = [asks EXCEPT ![n].pc = pc, ![n].form = emptyForm]

-----------------------------------------------------------------------------
(* The dialog.                                                             *)

\* Faulty variant: the key that was typed before stays in the form.
EditFormKeepsKey(p) ==
    [type |-> cards[p].type, key |-> form.key,
     url |-> IF cards[p].url = "none" THEN cards[p].type ELSE cards[p].url]

\* The stored values, the default URL of the type where none is stored, no key.
EditForm(p) ==
    [type |-> cards[p].type, key |-> NoKey,
     url |-> IF cards[p].url = "none" THEN cards[p].type ELSE cards[p].url]

handleOpenCreate ==
    /\ ~showDialog
    /\ showDialog' = TRUE /\ editing' = 0 /\ form' = emptyForm
    /\ UNCHANGED <<stored, cardsFrame, asks, testState>>

handleOpenEdit(p) ==
    /\ ~showDialog /\ HasCard(p)
    /\ showDialog' = TRUE /\ editing' = p /\ form' = EditForm(p)
    /\ UNCHANGED <<stored, cardsFrame, asks, testState>>

\* Faulty variant: the URL stays.
PickedOnly(t) == [form EXCEPT !.type = t]

\* A type brings its default URL along; a key that was typed stays.
Picked(t) == [form EXCEPT !.type = t, !.url = t]

PickType(t) ==
    /\ showDialog /\ editing = 0
    /\ form' = Picked(t)
    /\ UNCHANGED <<stored, cardsFrame, showDialog, editing, asks, testState>>

TypeKey ==
    /\ showDialog /\ form.type \in NeedsApiKey
    /\ form' = [form EXCEPT !.key = [prov |-> editing, type |-> form.type]]
    /\ UNCHANGED <<stored, cardsFrame, showDialog, editing, asks, testState>>

CloseDialog ==
    /\ showDialog
    /\ showDialog' = FALSE
    /\ UNCHANGED <<stored, cardsFrame, editing, form, asks, testState>>

-----------------------------------------------------------------------------
(* Saving and deleting.                                                    *)

Saving == \E n \in Asks : asks[n].op = "save" /\ asks[n].pc \in {"sent", "stored"}

\* Disabled while a create or an update is pending.
handleSubmit(n) ==
    /\ showDialog /\ ~Saving
    /\ Send(n, "save", editing)
    /\ UNCHANGED <<stored, cardsFrame, dialogState, testState>>

\* What was typed for a new provider is the key of the one that is made.
KeyOfNew(key, p) == IF key # NoKey /\ key.prov = 0 THEN [key EXCEPT !.prov = p] ELSE key

\* POST: a row of its own.
CreateStored(n) ==
    /\ Sent(n, "save") /\ asks[n].prov = 0
    /\ \E p \in Providers :
           /\ stored[p] = NoRow
           /\ \A q \in Providers : q < p => stored[q] # NoRow
           /\ stored' = [stored EXCEPT ![p] =
                           [type |-> asks[n].form.type, url |-> asks[n].form.url,
                            key |-> KeyOfNew(asks[n].form.key, p), enabled |-> TRUE]]
    /\ Past(n, "stored")
    /\ UNCHANGED <<cardsFrame, dialogState, testState>>

\* PUT: what is given is changed.
UpdateStored(n) ==
    /\ Sent(n, "save") /\ asks[n].prov \in Present(stored)
    /\ LET given == asks[n].form IN
       stored' = [stored EXCEPT
                    ![asks[n].prov].key = IF given.key = NoKey THEN @ ELSE given.key,
                    ![asks[n].prov].url = IF given.url = "none" THEN @ ELSE given.url]
    /\ Past(n, "stored")
    /\ UNCHANGED <<cardsFrame, dialogState, testState>>

\* onSuccess: the dialog closes, whichever it is by now, and the list is asked for.
SaveDone(n) ==
    /\ asks[n].pc = "stored"
    /\ Past(n, "over")
    /\ showDialog' = FALSE
    /\ UNCHANGED <<stored, cardsFrame, editing, form, testState>>

\* Refused, gone, or no answer in time: the dialog stays as it is.
SaveRefused(n) ==
    /\ asks[n].op = "save" /\ asks[n].pc \in {"sent", "stored"}
    /\ Past(n, "over")
    /\ UNCHANGED <<stored, cardsFrame, dialogState, testState>>

\* The question was answered with yes.
handleDelete(n, p) ==
    /\ ~showDialog /\ HasCard(p)
    /\ Send(n, "delete", p)
    /\ UNCHANGED <<stored, cardsFrame, dialogState, testState>>

Deleted(n) ==
    /\ Sent(n, "delete")
    /\ stored' = [stored EXCEPT ![asks[n].prov] = Gone]
    /\ Past(n, "over")
    /\ UNCHANGED <<cardsFrame, dialogState, testState>>

-----------------------------------------------------------------------------
(* Tests and the switch.                                                   *)

\* On the card, or in the dialog that edits the provider, which may be gone.
CanTest(p) == testingId # p /\ IF showDialog THEN editing = p ELSE HasCard(p)

handleTest(n, p) ==
    /\ CanTest(p)
    /\ Send(n, "test", p)
    /\ testingId' = p
    /\ UNCHANGED <<stored, cardsFrame, dialogState, testResults>>

\* Faulty variant: the mark is taken away in the try block only.
MarkOverOnSuccess(r) == IF r = "ok" THEN 0 ELSE testingId

\* setTestingId(null), whichever test it was.
MarkOver(r) == 0

\* The rest of it: the result of the answer, or of no answer.
TestOver(n, r) ==
    /\ Sent(n, "test")
    /\ Past(n, "over")
    /\ testResults' = [testResults EXCEPT ![asks[n].prov] = r]
    /\ testingId' = MarkOver(r)
    /\ UNCHANGED <<stored, cardsFrame, dialogState>>

\* The switch of a card, never disabled.
ClickSwitch(n, p) ==
    /\ ~showDialog /\ HasCard(p)
    /\ Send(n, "toggle", p)
    /\ UNCHANGED <<stored, cardsFrame, dialogState, testState>>

\* The server turns round what it has.
Toggled(n) ==
    /\ Sent(n, "toggle") /\ asks[n].prov \in Present(stored)
    /\ stored' = [stored EXCEPT ![asks[n].prov].enabled = ~@]
    /\ Past(n, "over")
    /\ UNCHANGED <<cardsFrame, dialogState, testState>>

ProvNext ==
    \/ CardsArrive \/ CardsFail
    \/ handleOpenCreate \/ TypeKey \/ CloseDialog
    \/ \E t \in PickedTypes : PickType(t)
    \/ \E p \in Providers : handleOpenEdit(p)
    \/ \E n \in Asks :
           \/ handleSubmit(n) \/ CreateStored(n) \/ UpdateStored(n)
           \/ SaveDone(n) \/ SaveRefused(n) \/ Deleted(n) \/ Toggled(n)
           \/ \E p \in Providers : handleDelete(n, p) \/ handleTest(n, p) \/ ClickSwitch(n, p)
           \/ \E r \in {"ok", "failed"} : TestOver(n, r)

-----------------------------------------------------------------------------
\* "Leave empty to keep current key": a key is stored for the provider it was
\* typed for, whatever dialogs were opened and left with a key typed in between.
KeyOfProvider ==
    \A p \in Present(stored) :
        stored[p].key # NoKey => stored[p].key.prov = p

\* A base URL that is stored is one that was shown for that type of provider:
\* nothing is left of the default URL of the empty form, of the type picked
\* before, or of the provider edited before.
UrlFitsType == \A p \in Present(stored) : stored[p].url \in {"none", stored[p].type}

\* "Testing..." ends: however tests overlap and fail, a provider that is marked
\* has a test under way whose end takes the mark.
TestingClears == testingId # 0 => \E n \in Asks : Sent(n, "test") /\ asks[n].prov = testingId

-----------------------------------------------------------------------------
(* What one would expect as well, and the code does not keep.              *)

\* The key of a provider was typed while its type was picked.  (A key that was
\* typed stays when another type is picked, even one that shows no key field.)
KeyFitsType ==
    \A p \in Present(stored) : stored[p].key # NoKey => stored[p].key.type = stored[p].type

\* A save closes its own dialog only.
SaveClosesOwn ==
    [][\A n \in Asks :
          asks[n].pc = "stored" /\ asks'[n].pc = "over" /\ showDialog /\ ~showDialog'
              => editing = asks[n].prov]_provVars

\* A provider is marked as long as a test of it is under way.  (There is one
\* mark, which the next test takes, and the first to end removes.)
MarkedWhileTested == \A n \in Asks : Sent(n, "test") => testingId = asks[n].prov

\* The switch does what its title says.  (It turns round what the server has,
\* which an earlier click may have changed already.)
SwitchDoesAsShown ==
    [][\A n \in Asks, p \in Present(stored) :
          Sent(n, "toggle") /\ asks[n].prov = p /\ asks'[n].pc = "over"
              => stored'[p].enabled # asks[n].shown]_provVars
=============================================================================
