--------------------------- MODULE BrowserSession ---------------------------
(***************************************************************************)
(* Signing in and out: the token in localStorage that the tabs of a        *)
(* browser share, AuthGuard, the login form, and the hooks of the API      *)
(* client (api/client), which put the token into every request and sign    *)
(* the browser out when one is answered with 401.                          *)
(***************************************************************************)
EXTENDS Naturals

CONSTANTS
    Tabs,      \* tabs of the browser
    MaxTokens  \* bound: tokens that are issued

ASSUME BrowserSessionAssumption == MaxTokens \in Nat

VARIABLES
    ianoie_token,  \* localStorage, 0 for null
    issued,        \* tokens issued so far
    valid,         \* those that have not expired
    pathname,      \* tab -> "/login" or "/", any page behind AuthGuard
    polling,       \* tabs in view whose page has an interval that runs
    call,          \* tab -> the request of a page: [pc, token]
    loginCall,     \* tab -> "idle", "sent" or "granted"
    loginError     \* tab -> the form says "Invalid email or password"

sessionVars == <<ianoie_token, issued, valid, pathname, polling, call, loginCall,
                 loginError>>

NoCall == [pc |-> "idle", token |-> 0]
NoToken == 0

SessionInit ==
    /\ ianoie_token = NoToken /\ issued = 0 /\ valid = {}
    /\ pathname = [t \in Tabs |-> "/login"]
    /\ polling = {}
    /\ call = [t \in Tabs |-> NoCall]
    /\ loginCall = [t \in Tabs |-> "idle"]
    /\ loginError = [t \in Tabs |-> FALSE]

\* AuthGuard looks when the routes are rendered, not later.
AuthGuard == IF ianoie_token = NoToken THEN "/login" ELSE "/"

\* window.location.href, or a reload: a new document, whose predecessor's
\* requests are given up.
Navigate(t, path) ==
    /\ pathname' = [pathname EXCEPT ![t] = path]
    /\ polling' = IF path = "/" THEN polling \cup {t} ELSE polling \ {t}
    /\ call' = [call EXCEPT ![t] = NoCall]
    /\ loginCall' = [loginCall EXCEPT ![t] = "idle"]
    /\ loginError' = [loginError EXCEPT ![t] = FALSE]

\* The user opens the application, or the tab again.
Load(t) ==
    /\ Navigate(t, AuthGuard)
    /\ UNCHANGED <<ianoie_token, issued, valid>>

\* Sidebar.
handleLogout(t) ==
    /\ pathname[t] = "/"
    /\ ianoie_token' = NoToken
    /\ Navigate(t, "/login")
    /\ UNCHANGED <<issued, valid>>

\* The page begins or ceases to poll: the user goes to another of the app's, the
\* tab is hidden or shown, the list has or loses a row that is busy.
TurnPolling(t) ==
    /\ pathname[t] = "/"
    /\ polling' = IF t \in polling THEN polling \ {t} ELSE polling \cup {t}
    /\ UNCHANGED <<ianoie_token, issued, valid, pathname, call, loginCall, loginError>>

\* The token's exp has passed.
Expire(k) ==
    /\ valid' = valid \ {k}
    /\ UNCHANGED <<ianoie_token, issued, pathname, polling, call, loginCall,
                   loginError>>

-----------------------------------------------------------------------------
(* The pages' requests.                                                    *)

\* beforeRequest: the token of this moment, if there is one.
Request401(t) == call[t].token \notin valid

SendCall(t) ==
    /\ pathname[t] = "/" /\ call[t] = NoCall
    /\ call' = [call EXCEPT ![t] = [pc |-> "sent", token |-> ianoie_token]]
    /\ UNCHANGED <<ianoie_token, issued, valid, pathname, polling, loginCall, loginError>>

\* The server has looked at the token.  A refusal is on its way back; any other
\* answer changes nothing here.
CallJudged(t) ==
    /\ call[t].pc = "sent"
    /\ call' = [call EXCEPT ![t] = IF Request401(t) THEN [@ EXCEPT !.pc = "401"] ELSE NoCall]
    /\ UNCHANGED <<ianoie_token, issued, valid, pathname, polling, loginCall, loginError>>

\* No answer, or none in time.
CallFails(t) ==
    /\ call[t].pc = "sent"
    /\ call' = [call EXCEPT ![t] = NoCall]
    /\ UNCHANGED <<ianoie_token, issued, valid, pathname, polling, loginCall, loginError>>

\* Faulty variant: a 401 is an error like any other.
ErrorOnly(t) ==
    /\ call' = [call EXCEPT ![t] = NoCall]
    /\ UNCHANGED <<ianoie_token, pathname, polling, loginCall, loginError>>

\* The token goes, whichever was refused, and the login page is loaded.
SignOut(t) ==
    /\ ianoie_token' = NoToken
    /\ Navigate(t, "/login")

\* afterResponse.
CallRefused(t) ==
    /\ call[t].pc = "401"
    /\ SignOut(t)
    /\ UNCHANGED <<issued, valid>>

-----------------------------------------------------------------------------
(* The login form.                                                         *)

handleSignIn(t) ==
    /\ pathname[t] = "/login" /\ loginCall[t] = "idle"
    /\ loginCall' = [loginCall EXCEPT ![t] = "sent"]
    /\ loginError' = [loginError EXCEPT ![t] = FALSE]
    /\ UNCHANGED <<ianoie_token, issued, valid, pathname, polling, call>>

\* useLogin's onSuccess, and then the page's own: the start page is loaded.
LoginGranted(t) ==
    /\ loginCall[t] = "sent" /\ issued < MaxTokens
    /\ issued' = issued + 1
    /\ valid' = valid \cup {issued + 1}
    /\ ianoie_token' = issued + 1
    /\ Navigate(t, "/")

\* Faulty variant: the hook does not leave out the auth paths.
RefusalSignsOut(t) == SignOut(t)

\* The 401 of api/v1/auth/login is the form's own affair.
Refusal(t) ==
    /\ loginError' = [loginError EXCEPT ![t] = TRUE]
    /\ loginCall' = [loginCall EXCEPT ![t] = "idle"]
    /\ UNCHANGED <<ianoie_token, pathname, polling, call>>

\* Wrong credentials, or no answer in time.
LoginRefused(t) ==
    /\ loginCall[t] = "sent"
    /\ Refusal(t)
    /\ UNCHANGED <<issued, valid>>

SessionNext ==
    \/ \E t \in Tabs :
          \/ Load(t) \/ handleLogout(t) \/ TurnPolling(t)
          \/ SendCall(t) \/ CallJudged(t) \/ CallFails(t) \/ CallRefused(t)
          \/ handleSignIn(t) \/ LoginGranted(t) \/ LoginRefused(t)
    \/ \E k \in 1..MaxTokens : Expire(k)

\* A page that polls goes on asking: the dashboard and the monitors, and those
\* with the list while an installation is busy.  Requests are answered.
SessionFairness ==
    \A t \in Tabs : /\ WF_sessionVars(t \in polling /\ SendCall(t))
                    /\ WF_sessionVars(CallJudged(t)) /\ WF_sessionVars(CallRefused(t))

-----------------------------------------------------------------------------
\* "The frontend only redirects on 401" (api/deps): a page that goes on polling,
\* and whose session is over, by the clock or because another tab has signed out,
\* does not stay without a session: the tab comes to the login page, or to
\* another session.  (It must not be loaded again, or its requests fail, for
\* ever.  A page that does not poll stays.)
NoPageWithoutSession ==
    \A t \in Tabs :
        /\ <>[](pathname[t] = "/" => t \in polling)
        /\ <>[][~(Load(t) \/ CallFails(t))]_sessionVars
        => []<>(pathname[t] = "/login" \/ ianoie_token \in valid)

\* A token that is still good is taken away for a reason: somebody signs out, or
\* a request has been refused; a wrong password in one tab does not end the
\* session of the others.
SessionSurvives ==
    [][ianoie_token' = NoToken /\ ianoie_token \in valid
          => \E t \in Tabs : pathname[t] = "/" /\ pathname'[t] = "/login"]_sessionVars

-----------------------------------------------------------------------------
(* What one would expect as well, and the code does not keep.              *)

\* A 401 takes away the token that was refused.  (An answer to a request made
\* before the user signed in again, in another tab, takes away the new one.)
RefusedTokenOnly ==
    [][\A t \in Tabs : call[t].pc = "401" /\ call'[t] = NoCall /\ ianoie_token' # ianoie_token
           => ianoie_token \notin valid]_sessionVars
=============================================================================
