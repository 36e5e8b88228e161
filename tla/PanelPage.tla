----------------------------- MODULE PanelPage -----------------------------
(***************************************************************************)
(* What the pages of the panel have in common: the one TanStack query a    *)
(* page shows, its background fetch, and mutations whose per-call          *)
(* callbacks belong to the latest mutate() of a mounted observer.  The     *)
(* rules of TanStack Query 5 are external code.                            *)
(***************************************************************************)
EXTENDS Naturals

CONSTANT MaxCalls      \* bounds the calls of the page and the writes of other sessions

VARIABLES
    db,        \* what the server would answer to the query now
    data,      \* what the cache holds, optimistic writes included
    isError,   \* the last fetch failed
    fetch,     \* the fetch in flight; read holds what the server answered
    calls,     \* mutations in flight: sent, done or refused by the server
    made,      \* calls and other sessions' writes so far
    saved,     \* ghost: the writes the page was told are saved
    ui         \* the state of the page's components

pageVars == <<db, data, isError, fetch, calls, made, saved, ui>>

NoFetch == [on |-> FALSE, read |-> {}]
NewFetch == [on |-> TRUE, read |-> {}]

PageInit(rows) ==
    /\ db = rows /\ data = rows /\ isError = FALSE /\ fetch = NoFetch
    /\ calls = {} /\ made = 0 /\ saved = {}

\* invalidateQueries: a fetch in flight is cancelled, a new one starts.
Refetch == fetch' = NewFetch

\* Focus, reconnection or a "Reintentar" button.
StartFetch == ~fetch.on /\ fetch' = NewFetch

\* The server answers the fetch with what it has by then.
ServerReads == fetch.on /\ fetch.read = {} /\ fetch' = [fetch EXCEPT !.read = {db}]

\* mutate(): the observer forgets the callbacks of its earlier call.
Mutate(cs, call) ==
    {[c EXCEPT !.heard = @ /\ c.observer # call.observer] : c \in cs} \cup {call}

\* A component that unmounts takes its callbacks with it; its calls go on.
Unmount(cs, observers) ==
    {[c EXCEPT !.heard = @ /\ c.observer \notin observers] : c \in cs}

\* isPending of a mounted observer: its latest call has no answer yet.
Pending(observer) == \E c \in calls : c.observer = observer /\ c.heard

\* The server commits a call or refuses it; the client hears of it later.
Served(call, verdict) == (calls \ {call}) \cup {[call EXCEPT !.st = verdict]}

\* What the client may hear of a call: a success only of a commit, an error
\* of a refusal or of a commit whose answer was lost.
Succeeded(call) == call.st = "done" /\ call.heard
Failed(call) == call.st \in {"done", "refused"} /\ call.heard
Overheard(call) == call.st \in {"done", "refused"} /\ ~call.heard

\* Nothing is in flight and the query is fresh.
Quiet == calls = {} /\ ~fetch.on /\ ~isError

=============================================================================
