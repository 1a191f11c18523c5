--------------------------- MODULE AssistantPage ---------------------------
(***************************************************************************)
(* The assistant in the browser (observatory/static/assistant.js).  Only   *)
(* the stream of an answer can be aborted; every other answer is taken as  *)
(* it comes, by whatever the page has become in the meantime.              *)
(***************************************************************************)
CONSTANTS
    Persons,    \* who uses the page
    Nobody

VARIABLES
    page,      \* what it keeps and shows
    stream,    \* the answer that is read, or was aborted and is not over
    calls,     \* other requests that are not answered
    signedOut  \* the last thing its user did about a session was to sign out

pageVars == <<page, stream, calls, signedOut>>

Someone == Persons \cup {Nobody}

\* Whose key it holds, and whose data are in each of its parts.
Page == [key : Someone, account : Someone, rows : Someone, revealed : Someone,
         answer : Someone]

Cleared == [part \in {"key", "account", "rows", "revealed", "answer"} |-> Nobody]

\* A request, whose key it carries, and whether a failure clears the page.
Call == [for : {"me", "history", "rotate", "redeem", "search", "delete"}, key : Someone,
         login : BOOLEAN]

PageInit ==
    /\ page = Cleared
    /\ stream = "none"
    /\ calls = {}
    /\ signedOut = FALSE

\* clearWorkspace aborts the stream of an answer too.
Abort == stream' = IF stream = "open" THEN "aborted" ELSE stream

\* The calls once "done" is answered and refresh asks who the key belongs to.
WithRefresh(key, login, done) ==
    (calls \ done) \cup
        (IF key = Nobody THEN {} ELSE {[for |-> "me", key |-> key, login |-> login]})

-----------------------------------------------------------------------------
Login ==
    /\ \E person \in Persons :
          /\ page' = [Cleared EXCEPT !.key = person]
          /\ calls' = WithRefresh(person, TRUE, {})
    /\ Abort
    /\ signedOut' = FALSE

\* The button is shown with the account.
SignOut ==
    /\ page.account # Nobody
    /\ page' = Cleared
    /\ Abort
    /\ signedOut' = TRUE
    /\ UNCHANGED calls

HideKey ==
    /\ page' = [page EXCEPT !.revealed = Nobody]
    /\ UNCHANGED <<stream, calls, signedOut>>

RefreshHistory ==
    /\ page.key # Nobody
    /\ calls' = WithRefresh(page.key, FALSE, {})
    /\ UNCHANGED <<page, stream, signedOut>>

\* The buttons that ask the server for something and wait.  An invitation needs no key.
Request(what) ==
    /\ what \in {"search", "delete"} => page.key # Nobody /\ stream = "none"
    /\ what = "rotate" => page.account # Nobody
    /\ calls' = calls \cup {[for |-> what, key |-> page.key, login |-> FALSE]}
    /\ signedOut' = (signedOut /\ what # "redeem")
    /\ UNCHANGED <<page, stream>>

\* refresh shows the account and asks for the history, with the key the page has now.
MeAnswer(c) ==
    /\ c.for = "me"
    /\ page' = [page EXCEPT !.account = c.key]
    /\ calls' = (calls \ {c}) \cup {[for |-> "history", key |-> page.key, login |-> c.login]}
    /\ UNCHANGED <<stream, signedOut>>

HistoryAnswer(c) ==
    /\ c.for = "history" /\ c.key # Nobody
    /\ page' = [page EXCEPT !.rows = c.key]
    /\ calls' = calls \ {c}
    /\ UNCHANGED <<stream, signedOut>>

\* A new key of the same person becomes the page's key.
RotateAnswer(c) ==
    /\ c.for = "rotate" /\ c.key # Nobody
    /\ page' = [page EXCEPT !.key = c.key, !.revealed = c.key]
    /\ calls' = calls \ {c}
    /\ UNCHANGED <<stream, signedOut>>

RedeemAnswer(c) ==
    /\ c.for = "redeem"
    /\ \E person \in Persons :
          /\ page' = [Cleared EXCEPT !.key = person, !.revealed = person]
          /\ calls' = WithRefresh(person, FALSE, {c})
    /\ Abort
    /\ UNCHANGED signedOut

SearchAnswer(c) ==
    /\ c.for = "search"
    /\ page' = [page EXCEPT !.answer = Nobody]
    /\ calls' = calls \ {c}
    /\ UNCHANGED <<stream, signedOut>>

DeleteAnswer(c) ==
    /\ c.for = "delete"
    /\ calls' = WithRefresh(page.key, FALSE, {c})
    /\ UNCHANGED <<page, stream, signedOut>>

\* A failure is told; when the page was to sign in, it is cleared.
CallFails(c) ==
    /\ calls' = calls \ {c}
    /\ IF c.login THEN page' = Cleared /\ Abort ELSE UNCHANGED <<page, stream>>
    /\ UNCHANGED signedOut

-----------------------------------------------------------------------------
AskQuestion ==
    /\ page.key # Nobody /\ stream = "none"
    /\ page' = [page EXCEPT !.answer = Nobody]
    /\ stream' = "open"
    /\ UNCHANGED <<calls, signedOut>>

Delta ==
    /\ stream = "open"
    /\ page' = [page EXCEPT !.answer = page.key]
    /\ UNCHANGED <<stream, calls, signedOut>>

Stop == stream = "open" /\ stream' = "aborted" /\ UNCHANGED <<page, calls, signedOut>>

\* The stream ends, breaks off or was aborted; the page is refreshed.
StreamOver ==
    /\ stream # "none"
    /\ stream' = "none"
    /\ calls' = WithRefresh(page.key, FALSE, {})
    /\ UNCHANGED <<page, signedOut>>

PageNext ==
    \/ Login \/ SignOut \/ HideKey \/ RefreshHistory
    \/ \E what \in {"rotate", "redeem", "search", "delete"} : Request(what)
    \/ \E c \in calls :
          \/ MeAnswer(c) \/ HistoryAnswer(c) \/ RotateAnswer(c) \/ RedeemAnswer(c)
          \/ SearchAnswer(c) \/ DeleteAnswer(c) \/ CallFails(c)
    \/ AskQuestion \/ Delta \/ Stop \/ StreamOver

PageSpec == PageInit /\ [][PageNext]_pageVars

-----------------------------------------------------------------------------
\* "Sign out clears that page" (docs/using-the-service.md:37): once its user has signed
\* out, and until somebody signs in or uses an invitation, it shows nothing of anybody.
SignOutClears == signedOut => page = Cleared
=============================================================================
