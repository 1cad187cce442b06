------------------------------ MODULE Frontend ------------------------------
(***************************************************************************)
(* One tab of the frontend: its session (lib/auth), its calls to the API   *)
(* (lib/api/client.ts), and the cache above them (lib/query, features),    *)
(* here one list every mutation of which invalidates.                      *)
(*                                                                         *)
(* A call is tried again in two places: apiRequest repeats a GET, and the  *)
(* query cache repeats the call.  The network may lose a request or an     *)
(* answer, or be so slow that the call has timed out when the server,      *)
(* which does not notice, takes the request.                               *)
(***************************************************************************)
EXTENDS Integers, FiniteSets

CONSTANTS
    Clicks,         \* mutations the user asks for, one each
    Query, Me,      \* the call that loads the list, the call for the user
    Tokens,         \* session tokens the server may issue
    None,           \* no token, no user
    MaxExchanges,   \* bound: exchanges with the server
    MaxSignIns      \* bound: sign-ins and sign-outs

Calls == Clicks \cup {Query, Me}
IsGet(c) == c \notin Clicks

(* The two levels of retries. *)
DEFAULT_GET_RETRIES == 1
QueryRetries == 2

ASSUME FrontendAssumption ==
    /\ Query # Me /\ {Query, Me} \cap Clicks = {} /\ None \notin Tokens
    /\ {MaxExchanges, MaxSignIns} \subseteq Nat

VARIABLES
    (* the server *)
    list,           \* how many mutations have changed the list
    effectAt,       \* for each click, the values "list" took by it
    expired,        \* tokens it refuses
    (* the network: [call, heard, stage, token, status, data]; nobody waits for
       an exchange that is not "heard" *)
    wire,
    (* calls *)
    phase, attempt, failureCount,
    reported,       \* per click: list as it was when success was reported
    shown,          \* the list in the cache, or None
    kept,           \* clicks reported during the last load of the list, that kept it
    (* the session *)
    stored,         \* the token in localStorage
    token, user,    \* React state; a user is known by the token issued to him
    refreshing,     \* the token refreshUser has read
    loading,        \* the provider has not ended its first refresh
    (* history and bounds *)
    overlapped,     \* the session changed while refreshUser was at work
    exchanges, signIns

server  == <<list, effectAt, expired>>
call    == <<phase, attempt, failureCount, reported, shown, kept>>
session == <<stored, token, user, refreshing, loading, overlapped>>
vars == <<server, wire, call, session, exchanges, signIns>>

Init ==
    /\ list = 0 /\ effectAt = [c \in Clicks |-> {}] /\ expired = {}
    /\ wire = {}
    /\ phase = [c \in Calls |-> "idle"] /\ attempt = [c \in Calls |-> 0]
    /\ failureCount = [c \in Calls |-> 0]
    /\ reported = [c \in Clicks |-> None] /\ shown = None /\ kept = {}
    /\ stored \in Tokens \cup {None}
    /\ token = None /\ user = None /\ refreshing = None
    /\ loading = TRUE /\ overlapped = FALSE
    /\ exchanges = 0 /\ signIns = 0

Busy(c) == phase[c] \in {"ready", "await"}

-----------------------------------------------------------------------------
(* The session. *)

SetSession(t, u, s) == token' = t /\ user' = u /\ stored' = s

SignOut == SetSession(None, None, None)

ChangeOfSession ==
    /\ signIns < MaxSignIns /\ signIns' = signIns + 1
    /\ overlapped' = (overlapped \/ Busy(Me))

(* The answer to a login or a registration, or to the user's wish to leave.*)
SignInOrOut(t) ==
    /\ ChangeOfSession
    /\ IF t = None THEN SignOut ELSE t \notin expired /\ SetSession(t, t, t)
    /\ UNCHANGED <<server, wire, call, refreshing, loading, exchanges>>

Expire(t) ==
    /\ expired' = expired \cup {t}
    /\ t \notin expired
    /\ UNCHANGED <<list, effectAt, wire, call, session, exchanges, signIns>>

(* SessionExpiryHandler: the timer of the token in the React state. *)
ExpirySignOut ==
    /\ token \in expired
    /\ SignOut
    /\ overlapped' = (overlapped \/ Busy(Me))
    /\ UNCHANGED <<server, wire, call, refreshing, loading, exchanges, signIns>>

Begin(c) ==
    /\ phase' = [phase EXCEPT ![c] = "ready"]
    /\ attempt' = [attempt EXCEPT ![c] = 0]
    /\ failureCount' = [failureCount EXCEPT ![c] = 0]

(* refreshUser, called when the provider mounts, and by SessionHydrator    *)
(* where there is a token and no user.                                     *)
RefreshUser ==
    /\ ~Busy(Me) /\ (loading \/ (token # None /\ user = None))
    /\ IF stored = None
       THEN SignOut /\ loading' = FALSE /\ UNCHANGED <<call, refreshing>>
       ELSE /\ Begin(Me) /\ refreshing' = stored
            /\ UNCHANGED <<reported, shown, kept, stored, token, user, loading>>
    /\ UNCHANGED <<server, wire, overlapped, exchanges, signIns>>

-----------------------------------------------------------------------------
(* Calls. *)

(* Nobody waits for the exchange of a call any more.  What it may still do *)
(* is to change something on the server.                                   *)
Unheard(c) ==
    {m \in wire : m.call # c}
    \cup {[m EXCEPT !.heard = FALSE] : m \in {x \in wire : x.call = c /\ ~IsGet(c) /\ x.stage = "request"}}

(* A click, once; the list, when it is looked at, stale or polled.         *)
Start(c) ==
    /\ c # Me /\ ~Busy(c)
    /\ c \in Clicks => phase[c] = "idle"
    /\ Begin(c)
    /\ kept' = IF c = Query THEN {} ELSE kept
    /\ UNCHANGED <<server, wire, reported, shown, session, exchanges, signIns>>

(* An attempt of apiRequest; each reads the stored token anew. *)
Send(c) ==
    /\ phase[c] = "ready" /\ exchanges < MaxExchanges
    /\ exchanges' = exchanges + 1
    /\ phase' = [phase EXCEPT ![c] = "await"]
    /\ wire' = wire \cup {[call |-> c, heard |-> TRUE, stage |-> "request",
                           token |-> stored, status |-> "none", data |-> None]}
    /\ UNCHANGED <<server, attempt, failureCount, reported, shown, kept, session, signIns>>

(* The server takes a request, whether or not anyone waits for the answer. *)
(* "client" is a 4xx it will not retract, "server" a 5xx, 408 or 429, which*)
(* may come before or after the effect, "odd" a 200 without an envelope.   *)
Serve(m) ==
    /\ m \in wire /\ m.stage = "request"
    /\ \E status \in {"ok", "client", "server", "odd"}, effect \in BOOLEAN :
          LET c == m.call
              welcome == m.token # None /\ m.token \notin expired
              data == IF c = Me THEN m.token ELSE list'
          IN  /\ status = "ok" => welcome /\ effect = (c \in Clicks)
              /\ effect => c \in Clicks /\ status # "client" /\ welcome
              /\ list' = IF effect THEN list + 1 ELSE list
              /\ effectAt' = IF effect THEN [effectAt EXCEPT ![c] = @ \cup {list + 1}] ELSE effectAt
              /\ wire' = (wire \ {m}) \cup
                     {[x EXCEPT !.stage = "reply", !.status = status, !.data = data] :
                          x \in {m} \cap {y \in wire : y.heard}}
    /\ UNCHANGED <<expired, call, session, exchanges, signIns>>

(* shouldRetry, and "retryable" of a timeout or a network error. *)
Retryable(c, status) == IsGet(c) /\ status \in {"server", "timeout", "network"}

Retries(c) == IF IsGet(c) THEN DEFAULT_GET_RETRIES ELSE 0

\* Variant: mutations are repeated like queries.
AskAgainAnyCall(c, status) == c # Me /\ failureCount[c] < QueryRetries /\ status # "client"
(* "retry" of the query client asks for the class of the error; a mutation *)
(* is not repeated, nor is refreshUser, which calls apiRequest itself.     *)
AskAgain(c, status) ==
    /\ c = Query /\ failureCount[c] < QueryRetries
    /\ Retryable(c, status) \/ status # "client"

\* Variant: the session of a user the server does not know is left alone.
FailKeepingSession(c, status) ==
    /\ phase' = [phase EXCEPT ![c] = "failed"]
    /\ loading' = (loading /\ c # Me)
    /\ UNCHANGED <<attempt, failureCount, token, user, stored, refreshing>>
Fail(c, status) ==
    IF Retryable(c, status) /\ attempt[c] < Retries(c)
    THEN /\ phase' = [phase EXCEPT ![c] = "ready"]
         /\ attempt' = [attempt EXCEPT ![c] = @ + 1]
         /\ UNCHANGED <<failureCount, token, user, stored, refreshing, loading>>
    ELSE IF AskAgain(c, status)
    THEN /\ phase' = [phase EXCEPT ![c] = "ready"]
         /\ attempt' = [attempt EXCEPT ![c] = 0]
         /\ failureCount' = [failureCount EXCEPT ![c] = @ + 1]
         /\ UNCHANGED <<token, user, stored, refreshing, loading>>
    ELSE /\ phase' = [phase EXCEPT ![c] = "failed"]
         /\ UNCHANGED <<attempt, failureCount>>
         /\ IF c = Me THEN SignOut /\ refreshing' = None /\ loading' = FALSE
            ELSE UNCHANGED <<token, user, stored, refreshing, loading>>

ReceiveError(m) ==
    /\ m \in wire /\ m.stage = "reply" /\ m.status # "ok"
    /\ wire' = wire \ {m}
    /\ Fail(m.call, m.status)
    /\ UNCHANGED <<server, reported, shown, kept, overlapped, exchanges, signIns>>

ReceiveUser(m) ==
    /\ m \in wire /\ m.status = "ok" /\ m.call = Me
    /\ wire' = wire \ {m}
    /\ phase' = [phase EXCEPT ![Me] = "done"]
    /\ SetSession(refreshing, m.data, stored) /\ refreshing' = None /\ loading' = FALSE
    /\ UNCHANGED <<server, attempt, failureCount, reported, shown, kept, overlapped,
                   exchanges, signIns>>

ReceiveList(m) ==
    /\ m \in wire /\ m.status = "ok" /\ m.call = Query
    /\ wire' = wire \ {m}
    /\ phase' = [phase EXCEPT ![Query] = "done"]
    /\ shown' = m.data
    /\ UNCHANGED <<server, attempt, failureCount, reported, kept, session, exchanges, signIns>>

(* The list is loaded anew, and an answer to an older call is dropped. *)
Reload(c) ==
    /\ phase' = [phase EXCEPT ![c] = "done", ![Query] = "ready"]
    /\ attempt' = [attempt EXCEPT ![Query] = 0]
    /\ failureCount' = [failureCount EXCEPT ![Query] = 0]
    /\ wire' = {m \in Unheard(Query) : m.call # c \/ ~m.heard}
    /\ kept' = {}

(* The list is left in this phase: its load goes on, and an answer will    *)
(* count as fresh whenever it was given, or it waits to be looked at.      *)
Leave(c, phaseOfList) ==
    /\ phase' = [phase EXCEPT ![c] = "done", ![Query] = phaseOfList]
    /\ wire' = {m \in wire : m.call # c}
    /\ kept' = IF Busy(Query) THEN kept \cup {c} ELSE kept
    /\ UNCHANGED <<attempt, failureCount>>

\* Variant: a list that is being loaded is not loaded again.
InvalidateIdle(c) ==
    IF ~Busy(Query) THEN Reload(c)
    ELSE /\ phase' = [phase EXCEPT ![c] = "done"]
         /\ wire' = {m \in wire : m.call # c}
         /\ UNCHANGED <<attempt, failureCount, kept>>
(* onSuccess: invalidateQueries loads the list anew if it is in the cache  *)
(* and on the screen.  A load under way is dropped for that only if there  *)
(* is an older list; the first load goes on, and so does one that the user *)
(* no longer waits for.                                                    *)
Invalidate(c) ==
    \E onScreen \in BOOLEAN :
        IF Busy(Query) /\ ~(onScreen /\ shown # None) THEN Leave(c, phase[Query])
        ELSE IF onScreen /\ phase[Query] # "idle" THEN Reload(c)
        ELSE Leave(c, "idle")

ReceiveSuccess(m) ==
    /\ m \in wire /\ m.status = "ok" /\ m.call \in Clicks
    /\ Invalidate(m.call)
    /\ reported' = [reported EXCEPT ![m.call] = m.data]
    /\ UNCHANGED <<server, shown, session, exchanges, signIns>>

(* The abort after DEFAULT_TIMEOUT_MS leaves the request on its way. *)
Timeout(c) ==
    /\ phase[c] = "await"
    /\ wire' = Unheard(c)
    /\ Fail(c, "timeout")
    /\ UNCHANGED <<server, reported, shown, kept, overlapped, exchanges, signIns>>

(* A request or an answer is lost and the call is told. *)
Lose(m) ==
    /\ m \in wire /\ m.heard
    /\ wire' = wire \ {m}
    /\ Fail(m.call, "network")
    /\ UNCHANGED <<server, reported, shown, kept, overlapped, exchanges, signIns>>

Next ==
    \/ \E t \in Tokens \cup {None} : SignInOrOut(t)
    \/ \E t \in Tokens : Expire(t)
    \/ ExpirySignOut \/ RefreshUser
    \/ \E c \in Calls : Start(c) \/ Send(c) \/ Timeout(c)
    \/ \E m \in wire :
          \/ Serve(m) \/ ReceiveError(m) \/ ReceiveUser(m) \/ ReceiveList(m)
          \/ ReceiveSuccess(m) \/ Lose(m)

Spec == Init /\ [][Next]_vars

-----------------------------------------------------------------------------
(* A click takes effect at most once, however the network behaves, and has *)
(* taken effect when success is reported (docs/FRONTEND_PRODUCT_UX_SPEC.md *)
(* :526, no silent retry of a mutation).                                   *)
ClickTakesEffectOnce ==
    \A c \in Clicks :
        /\ Cardinality(effectAt[c]) <= 1
        /\ phase[c] = "done" => effectAt[c] = {reported[c]}

(* Once a click is reported a success, a list that is not being loaded and *)
(* did not fail to load contains its effect, unless the click was reported *)
(* during the very load that brought the list, and that load was the first *)
(* or nobody was looking: no other answer comes late and stays, and the    *)
(* next load mends that one.                                               *)
ShownIsAfterTheClick ==
    phase[Query] = "done" =>
        \A c \in Clicks \ kept : phase[c] = "done" => shown >= reported[c]

(* Unless the user signed in or out while refreshUser was at work, the     *)
(* user on the screen is the token's, and both are there only with the     *)
(* token that the calls send (session-context.tsx:25-51).                  *)
SessionAgrees ==
    ~overlapped =>
        /\ user = token
        /\ token # None \/ ~loading => token = stored
=============================================================================
