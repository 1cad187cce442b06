---------------------------- MODULE FrontendProofs ----------------------------
(***************************************************************************)
(* Theorems about one tab of the frontend, for any number of clicks,       *)
(* tokens, exchanges and sign-ins, and whatever the network loses.         *)
(***************************************************************************)
EXTENDS Frontend, FiniteSetTheorems, TLAPS

Statuses == {"none", "ok", "client", "server", "odd"}
Answers == Nat \cup Tokens \cup {None}

Exchange == [call : Calls, heard : BOOLEAN, stage : {"request", "reply"},
             token : Tokens \cup {None}, status : Statuses, data : Answers]

\* An answer is on its way only to a call that waits for it.
TypeOK ==
    /\ list \in Nat
    /\ effectAt \in [Clicks -> SUBSET Nat]
    /\ wire \subseteq Exchange
    /\ phase \in [Calls -> {"idle", "ready", "await", "done", "failed"}]
    /\ reported \in [Clicks -> Answers]
    /\ shown \in Answers
    /\ kept \subseteq Clicks
    /\ stored \in Tokens \cup {None}
    /\ overlapped \in BOOLEAN
    /\ \A m \in wire : m.stage = "request" <=> m.status = "none"
    /\ \A m \in wire : m.stage = "reply" => m.heard

\* Each call has one exchange, while it waits, or after it has given up waiting for
\* a mutation that the server has not taken yet.
OneExchange ==
    /\ \A m, x \in wire : m.call = x.call => m = x
    /\ \A m \in wire : \/ phase[m.call] = "await" /\ m.heard
                       \/ phase[m.call] = "failed" /\ m.call \in Clicks

\* What a click has done to the list, and what the answer says of it.
Effects ==
    \A c \in Clicks :
        /\ \A v \in effectAt[c] : v <= list
        /\ \A v, w \in effectAt[c] : v = w
        /\ phase[c] \in {"idle", "ready"} => effectAt[c] = {}
        /\ phase[c] = "done" => effectAt[c] = {reported[c]}

Replies ==
    \A m \in wire :
        /\ m.call \in Clicks /\ m.stage = "request" => effectAt[m.call] = {}
        /\ m.call \in Clicks /\ m.status = "ok" => effectAt[m.call] = {m.data}

ClickInv == OneExchange /\ Effects /\ Replies

\* A list on its way was read after every click that was reported a success.
Fresh ==
    /\ \A m \in wire :
          m.call = Query /\ m.stage = "reply" =>
              m.data \in Nat /\ \A c \in Clicks \ kept : phase[c] = "done" => m.data >= reported[c]
    /\ phase[Query] = "done" =>
          shown \in Nat /\ \A c \in Clicks \ kept : phase[c] = "done" => shown >= reported[c]

\* While the session has not changed under refreshUser, the user it asks for is the
\* one of the stored token.
Refreshing ==
    ~overlapped =>
        /\ Busy(Me) => refreshing = stored
        /\ \A m \in wire : m.call = Me =>
              m.token = stored /\ (m.status = "ok" => m.data = m.token)

(***************************************************************************)
(* The pieces steps are made of.                                           *)
(***************************************************************************)
Phases == {"idle", "ready", "await", "done", "failed"}

LEMMA CallsApart ==
    /\ Query \in Calls /\ Me \in Calls /\ Query \notin Clicks /\ Me \notin Clicks /\ Query # Me
    /\ Clicks \subseteq Calls /\ \A c \in Calls : c \in Clicks \/ c = Query \/ c = Me
  BY FrontendAssumption DEF Calls

\* A call that fails waits no more; a mutation has failed for good, and only the call
\* for the user touches the session.
LEMMA FailEffect ==
    ASSUME TypeOK, NEW c \in Calls, NEW status, Fail(c, status)
    PROVE  /\ phase' \in [Calls -> Phases]
           /\ \A d \in Calls : d # c => phase'[d] = phase[d]
           /\ phase'[c] \in {"ready", "failed"}
           /\ c \in Clicks => phase'[c] = "failed"
           /\ \/ UNCHANGED <<token, user, stored, refreshing, loading>>
              \/ c = Me /\ phase'[c] = "failed" /\ SignOut
<1>1. CASE phase' = [phase EXCEPT ![c] = "ready"]
  BY <1>1, CallsApart DEF Fail, Retryable, Retries, AskAgain, IsGet, TypeOK, Phases
<1>2. CASE phase' = [phase EXCEPT ![c] = "failed"]
  BY <1>2 DEF Fail, TypeOK, Phases
<1> QED BY <1>1, <1>2 DEF Fail

\* What is left on its way of a call that nobody waits for.
LEMMA UnheardEffect ==
    ASSUME TypeOK, NEW c \in Calls
    PROVE  /\ Unheard(c) \subseteq Exchange
           /\ \A x \in Unheard(c) :
                 \/ x \in wire /\ x.call # c
                 \/ /\ c \in Clicks /\ x.call = c /\ ~x.heard
                    /\ x.stage = "request" /\ x.status = "none"
                    /\ \E m \in wire : /\ m.call = c /\ m.stage = "request"
                                       /\ x = [m EXCEPT !.heard = FALSE]
<1>1. \A m \in wire : m \in Exchange /\ (m.stage = "request" <=> m.status = "none")
  BY DEF TypeOK
<1>2. \A m \in Exchange :
         LET x == [m EXCEPT !.heard = FALSE]
         IN  /\ x \in Exchange /\ ~x.heard /\ x.call = m.call /\ x.stage = m.stage
             /\ x.status = m.status /\ x.data = m.data /\ x.token = m.token
  BY DEF Exchange
<1> DEFINE Silent(m) == [m EXCEPT !.heard = FALSE]
<1>3. \A x \in Unheard(c) :
         \/ x \in wire /\ x.call # c
         \/ c \in Clicks /\ \E m \in wire : m.call = c /\ m.stage = "request" /\ x = Silent(m)
  BY DEF Unheard, IsGet
<1>4. \A m \in Exchange : /\ Silent(m) \in Exchange /\ ~Silent(m).heard
                          /\ Silent(m).call = m.call /\ Silent(m).stage = m.stage
                          /\ Silent(m).status = m.status
  BY <1>2
<1>5. \A x \in Unheard(c) :
         /\ x \in Exchange
         /\ \/ x \in wire /\ x.call # c
            \/ /\ c \in Clicks /\ x.call = c /\ ~x.heard
               /\ x.stage = "request" /\ x.status = "none"
               /\ \E m \in wire : m.call = c /\ m.stage = "request" /\ x = Silent(m)
  <2> HIDE DEF Silent
  <2> QED BY <1>1, <1>3, <1>4
<1> QED BY <1>5

\* What the server makes of a request.
LEMMA ServeEffect ==
    ASSUME TypeOK, NEW m \in wire, Serve(m)
    PROVE  /\ m \in Exchange /\ m.stage = "request" /\ m.status = "none"
           /\ wire' \subseteq Exchange
           /\ \A x \in wire' :
                 \/ x \in wire /\ x # m
                 \/ /\ m.heard /\ x.heard /\ x.call = m.call /\ x.stage = "reply"
                    /\ x.token = m.token /\ x.status \in {"ok", "client", "server", "odd"}
                    /\ x.data = IF m.call = Me THEN m.token ELSE list'
                    /\ x.status = "ok" /\ m.call \in Clicks =>
                          list' = list + 1 /\ effectAt'[m.call] = effectAt[m.call] \cup {list'}
           /\ \A c \in Clicks : c # m.call => effectAt'[c] = effectAt[c]
           /\ m.call \in Clicks => effectAt'[m.call] \subseteq effectAt[m.call] \cup {list'}
           /\ list' \in Nat /\ list' >= list
           /\ effectAt' \in [Clicks -> SUBSET Nat]
           /\ UNCHANGED <<phase, reported, shown, kept, stored, token, user, refreshing, loading,
                          overlapped>>
<1>1. m \in Exchange /\ m.stage = "request" /\ m.status = "none"
  BY DEF TypeOK, Serve
<1>2. PICK status \in {"ok", "client", "server", "odd"}, effect \in BOOLEAN :
        /\ status = "ok" => effect = (m.call \in Clicks)
        /\ effect => m.call \in Clicks
        /\ list' = IF effect THEN list + 1 ELSE list
        /\ effectAt' = IF effect THEN [effectAt EXCEPT ![m.call] = @ \cup {list + 1}]
                       ELSE effectAt
        /\ wire' = (wire \ {m}) \cup
               {[x EXCEPT !.stage = "reply", !.status = status,
                          !.data = IF m.call = Me THEN m.token ELSE list'] :
                    x \in {m} \cap {y \in wire : y.heard}}
  BY DEF Serve
<1>e. \/ /\ list' = list + 1 /\ m.call \in Clicks
         /\ effectAt' = [effectAt EXCEPT ![m.call] = @ \cup {list + 1}]
      \/ UNCHANGED <<list, effectAt>> /\ (status = "ok" => m.call \notin Clicks)
  <2>1. CASE effect
    BY <1>2, <2>1, Zenon
  <2>2. CASE ~effect
    BY <1>2, <2>2, Zenon
  <2> QED BY <2>1, <2>2
<1>3. list' \in Nat /\ list' >= list /\ effectAt' \in [Clicks -> SUBSET Nat]
  BY <1>e DEF TypeOK
<1> DEFINE data == IF m.call = Me THEN m.token ELSE list'
           r == [m EXCEPT !.stage = "reply", !.status = status, !.data = data]
<1>4. data \in Answers
  BY <1>1, <1>3 DEF Exchange, Answers
<1>5. /\ r \in Exchange /\ r.heard = m.heard /\ r.call = m.call /\ r.stage = "reply"
      /\ r.token = m.token /\ r.status = status /\ r.data = data
  <2> HIDE DEF data
  <2> QED BY <1>1, <1>4 DEF Exchange, Statuses
<1>6. \A x \in wire' : (x \in wire /\ x # m) \/ (x = r /\ m.heard)
  <2> DEFINE f(y) == [y EXCEPT !.stage = "reply", !.status = status, !.data = data]
  <2>1. wire' = (wire \ {m}) \cup {f(x) : x \in {m} \cap {y \in wire : y.heard}}
    BY <1>2
  <2>2. r = f(m)
    OBVIOUS
  <2> HIDE DEF f, r
  <2> QED BY <2>1, <2>2
<1>7. wire' \subseteq Exchange
  BY <1>5, <1>6 DEF TypeOK
<1>8. /\ \A c \in Clicks : c # m.call => effectAt'[c] = effectAt[c]
      /\ m.call \in Clicks => effectAt'[m.call] \subseteq effectAt[m.call] \cup {list'}
      /\ status = "ok" /\ m.call \in Clicks =>
            list' = list + 1 /\ effectAt'[m.call] = effectAt[m.call] \cup {list'}
  BY <1>e DEF TypeOK
<1>9. UNCHANGED <<phase, reported, shown, kept, stored, token, user, refreshing, loading,
                  overlapped>>
  BY DEF Serve, call, session
<1> HIDE DEF r
<1> QED BY <1>1, <1>3, <1>5, <1>6, <1>7, <1>8, <1>9

\* What reporting a click does to the list: it is loaded anew with nothing on its way,
\* or its load goes on, or it waits to be looked at.
LEMMA InvalidateEffect ==
    ASSUME TypeOK, NEW c \in Clicks, Invalidate(c)
    PROVE  /\ phase' \in [Calls -> Phases] /\ phase'[c] = "done"
           /\ \A d \in Calls : d # c /\ d # Query => phase'[d] = phase[d]
           /\ \A x \in wire' : x \in wire /\ (x.call # c \/ ~x.heard)
           /\ \/ phase'[Query] = "ready" /\ kept' = {} /\ \A x \in wire' : x.call # Query
              \/ Busy(Query) /\ phase'[Query] = phase[Query] /\ kept' = kept \cup {c}
              \/ ~Busy(Query) /\ phase'[Query] = "idle" /\ kept' = kept
<1> USE CallsApart
<1>1. CASE Reload(c)
  <2>1. \A x \in Unheard(Query) : x \in wire /\ x.call # Query
    BY UnheardEffect
  <2>2. \A x \in wire' : x \in Unheard(Query) /\ (x.call # c \/ ~x.heard)
    BY <1>1 DEF Reload
  <2>3. phase' = [phase EXCEPT ![c] = "done", ![Query] = "ready"] /\ kept' = {}
    BY <1>1 DEF Reload
  <2> QED BY <2>1, <2>2, <2>3 DEF TypeOK, Phases
<1>2. ASSUME NEW p \in Phases, Leave(c, p), p = phase[Query] \/ p = "idle",
             Busy(Query) <=> p = phase[Query] /\ p # "idle"
      PROVE  /\ phase' \in [Calls -> Phases] /\ phase'[c] = "done"
             /\ \A d \in Calls : d # c /\ d # Query => phase'[d] = phase[d]
             /\ \A x \in wire' : x \in wire /\ (x.call # c \/ ~x.heard)
             /\ \/ Busy(Query) /\ phase'[Query] = phase[Query] /\ kept' = kept \cup {c}
                \/ ~Busy(Query) /\ phase'[Query] = "idle" /\ kept' = kept
  BY <1>2 DEF Leave, TypeOK, Phases
<1>3. \/ Reload(c)
      \/ Busy(Query) /\ Leave(c, phase[Query])
      \/ ~Busy(Query) /\ Leave(c, "idle")
  BY DEF Invalidate
<1>4. phase[Query] \in Phases
  BY DEF TypeOK, Phases
<1>5. CASE Busy(Query) /\ Leave(c, phase[Query])
  BY <1>2, <1>4, <1>5 DEF Busy
<1>6. CASE ~Busy(Query) /\ Leave(c, "idle")
  <2>1. "idle" \in Phases
    BY DEF Phases
  <2> QED BY <1>2, <1>6, <2>1 DEF Busy
<1> QED BY <1>1, <1>3, <1>5, <1>6

(***************************************************************************)
(* Type correctness.                                                       *)
(***************************************************************************)
LEMMA TypeInit ==
    ASSUME Init
    PROVE  TypeOK
  BY CallsApart DEF Init, TypeOK, Answers

LEMMA TypeStep ==
    ASSUME TypeOK, [Next]_vars
    PROVE  TypeOK'
<1>t. TypeOK
  OBVIOUS
<1> USE DEF TypeOK
<1>1. ASSUME NEW t \in Tokens \cup {None}, SignInOrOut(t) PROVE TypeOK'
  BY <1>1 DEF SignInOrOut, SignOut, SetSession, ChangeOfSession, server, call
<1>2. CASE \E t \in Tokens : Expire(t)
  BY <1>2 DEF Expire, call, session
<1>3. CASE ExpirySignOut
  BY <1>3 DEF ExpirySignOut, SignOut, SetSession, server, call
<1>4. CASE RefreshUser
  BY <1>4 DEF RefreshUser, SignOut, SetSession, Begin, server, call
<1>5. ASSUME NEW c \in Calls, Start(c) PROVE TypeOK'
  BY <1>5 DEF Start, Begin, server, session
<1>6. ASSUME NEW c \in Calls, Send(c) PROVE TypeOK'
  <2> DEFINE x == [call |-> c, heard |-> TRUE, stage |-> "request", token |-> stored,
                   status |-> "none", data |-> None]
  <2>1. x \in Exchange /\ x.stage = "request" /\ x.status = "none"
    BY DEF Exchange, Statuses, Answers
  <2>2. wire' = wire \cup {x}
    BY <1>6 DEF Send
  <2> HIDE DEF x
  <2> QED BY <1>6, <2>1, <2>2 DEF Send, server, session
<1>7. ASSUME NEW c \in Calls, Timeout(c) PROVE TypeOK'
  <2>1. Fail(c, "timeout") /\ wire' = Unheard(c)
           /\ UNCHANGED <<list, effectAt, reported, shown, kept, overlapped>>
    BY <1>7 DEF Timeout, server
  <2>2. \A x \in wire' : /\ x \in Exchange
                         /\ x \in wire \/ (x.stage = "request" /\ x.status = "none")
    BY <2>1, <1>t, UnheardEffect
  <2>3. phase' \in [Calls -> Phases] /\ stored' \in Tokens \cup {None}
    BY <2>1, <1>t, FailEffect DEF SignOut, SetSession
  <2> QED BY <2>1, <2>2, <2>3 DEF Phases
<1>8. ASSUME NEW m \in wire, Serve(m) PROVE TypeOK'
  <2>1. \A x \in wire' : /\ x \in Exchange
                         /\ x.stage = "request" <=> x.status = "none"
                         /\ x.stage = "reply" => x.heard
    BY <1>8, <1>t, ServeEffect
  <2> QED BY <1>8, <1>t, <2>1, ServeEffect
<1>9. ASSUME NEW m \in wire, ReceiveError(m) \/ Lose(m) PROVE TypeOK'
  <2>1. m.call \in Calls
    BY DEF Exchange
  <2>2. \E status : Fail(m.call, status)
    BY <1>9 DEF ReceiveError, Lose
  <2>3. wire' \subseteq wire /\ UNCHANGED <<list, effectAt, reported, shown, kept, overlapped>>
    BY <1>9 DEF ReceiveError, Lose, server
  <2>4. phase' \in [Calls -> Phases] /\ stored' \in Tokens \cup {None}
    BY <2>1, <2>2, <1>t, FailEffect DEF SignOut, SetSession
  <2> QED BY <2>3, <2>4 DEF Phases
<1>10. ASSUME NEW m \in wire, ReceiveUser(m) PROVE TypeOK'
  BY <1>10, CallsApart DEF ReceiveUser, SetSession, server
<1>11. ASSUME NEW m \in wire, ReceiveList(m) PROVE TypeOK'
  <2>1. m.data \in Answers
    BY DEF Exchange
  <2> QED BY <1>11, <2>1, CallsApart DEF ReceiveList, server, session
<1>12. ASSUME NEW m \in wire, ReceiveSuccess(m) PROVE TypeOK'
  <2>1. m.data \in Answers
    BY DEF Exchange
  <2>2. m.call \in Clicks /\ Invalidate(m.call)
    BY <1>12 DEF ReceiveSuccess
  <2>3. /\ phase' \in [Calls -> Phases] /\ kept' \subseteq Clicks
        /\ \A x \in wire' : x \in wire
    BY <1>t, <2>2, InvalidateEffect
  <2> QED BY <1>12, <2>1, <2>3 DEF ReceiveSuccess, server, session, Phases
<1>13. CASE UNCHANGED vars
  BY <1>13 DEF vars, server, call, session
<1> QED BY <1>1, <1>2, <1>3, <1>4, <1>5, <1>6, <1>7, <1>8, <1>9, <1>10, <1>11, <1>12, <1>13
        DEF Next

(***************************************************************************)
(* A click takes effect once.                                              *)
(***************************************************************************)
LEMMA ExchangeType ==
    ASSUME TypeOK, NEW m \in wire
    PROVE  /\ m.call \in Calls /\ m.heard \in BOOLEAN
           /\ m.stage = "request" <=> m.status = "none"
           /\ m.status # "none" => m.heard
  BY DEF TypeOK, Exchange

\* A step that ends what a call was waiting for, if it was, or begins a call that
\* nothing is on its way for.
LEMMA ExchangesKept ==
    ASSUME TypeOK, OneExchange, NEW c \in Calls,
           \A d \in Calls : d # c => phase'[d] = phase[d],
           wire' \subseteq wire, \A x \in wire' : x.call # c
    PROVE  OneExchange'
  BY ExchangeType DEF OneExchange

LEMMA ExchangeStep ==
    ASSUME TypeOK, OneExchange, [Next]_vars
    PROVE  OneExchange'
<1> USE CallsApart
<1>1. CASE UNCHANGED <<wire, phase>>
  BY <1>1 DEF OneExchange
<1>2. ASSUME NEW t \in Tokens \cup {None}, SignInOrOut(t) PROVE OneExchange'
  BY <1>1, <1>2 DEF SignInOrOut, call
<1>3. CASE (\E t \in Tokens : Expire(t)) \/ ExpirySignOut
  BY <1>1, <1>3 DEF Expire, ExpirySignOut, call
<1>4. ASSUME NEW c \in Calls, ~Busy(c), Begin(c), c \in Clicks => phase[c] = "idle",
             UNCHANGED wire
      PROVE  OneExchange'
  <2>1. \A x \in wire : x.call # c
    BY <1>4 DEF OneExchange, Busy
  <2>2. \A d \in Calls : d # c => phase'[d] = phase[d]
    BY <1>4 DEF Begin, TypeOK
  <2> QED BY <1>4, <2>1, <2>2, ExchangesKept
<1>5. CASE RefreshUser
  BY <1>1, <1>4, <1>5 DEF RefreshUser, call
<1>6. ASSUME NEW c \in Calls, Start(c) PROVE OneExchange'
  BY <1>4, <1>6 DEF Start
<1>7. ASSUME NEW c \in Calls, Send(c) PROVE OneExchange'
  <2> DEFINE x == [call |-> c, heard |-> TRUE, stage |-> "request", token |-> stored,
                   status |-> "none", data |-> None]
  <2>1. wire' = wire \cup {x} /\ x.call = c /\ x.heard
    BY <1>7 DEF Send
  <2>2. \A m \in wire : m.call # c
    BY <1>7 DEF Send, OneExchange
  <2>3. phase'[c] = "await" /\ \A d \in Calls : d # c => phase'[d] = phase[d]
    BY <1>7 DEF Send, TypeOK
  <2> HIDE DEF x
  <2> QED BY <2>1, <2>2, <2>3, ExchangeType DEF OneExchange
<1>8. ASSUME NEW c \in Calls, Timeout(c) PROVE OneExchange'
  <2>1. Fail(c, "timeout") /\ wire' = Unheard(c)
    BY <1>8 DEF Timeout
  <2>2. /\ \A d \in Calls : d # c => phase'[d] = phase[d]
        /\ c \in Clicks => phase'[c] = "failed"
    BY <2>1, FailEffect
  <2>3. \A x \in wire' : \/ x \in wire /\ x.call # c
                         \/ /\ c \in Clicks /\ x.call = c /\ ~x.heard
                            /\ \E m \in wire : m.call = c /\ x = [m EXCEPT !.heard = FALSE]
    BY <2>1, UnheardEffect
  <2>4. ASSUME NEW x \in wire', NEW y \in wire', x.call = y.call PROVE x = y
    <3>1. CASE x.call = c
      <4>1. PICK m \in wire : m.call = c /\ x = [m EXCEPT !.heard = FALSE]
        BY <2>3, <3>1
      <4>2. PICK n \in wire : n.call = c /\ y = [n EXCEPT !.heard = FALSE]
        BY <2>3, <2>4, <3>1
      <4> QED BY <4>1, <4>2 DEF OneExchange
    <3>2. CASE x.call # c
      BY <2>3, <2>4, <3>2 DEF OneExchange
    <3> QED BY <3>1, <3>2
  <2>5. \A x \in wire' : \/ phase'[x.call] = "await" /\ x.heard
                         \/ phase'[x.call] = "failed" /\ x.call \in Clicks
    BY <2>2, <2>3, ExchangeType DEF OneExchange
  <2> QED BY <2>4, <2>5 DEF OneExchange
<1>9. ASSUME NEW m \in wire, Serve(m) PROVE OneExchange'
  <2>1. /\ UNCHANGED phase
        /\ \A x \in wire' : \/ x \in wire /\ x # m
                            \/ m.heard /\ x.heard /\ x.call = m.call
    BY <1>9, ServeEffect
  <2>2. \A x, y \in wire' : x.call = y.call => x = y
    <3>1. \A x, y \in wire' : x \notin wire /\ y \notin wire => x = y
      BY <1>9 DEF Serve
    <3>2. \A x \in wire' : \/ x \in wire /\ x # m
                           \/ x.call = m.call /\ x.stage = "reply" /\ m.stage = "request"
      BY <1>9, ServeEffect
    <3>3. \A x \in wire' : x \in wire <=> x.call # m.call
      BY <3>2 DEF OneExchange
    <3> QED BY <3>1, <3>3 DEF OneExchange
  <2>3. \A x \in wire' : \/ phase'[x.call] = "await" /\ x.heard
                         \/ phase'[x.call] = "failed" /\ x.call \in Clicks
    BY <2>1 DEF OneExchange
  <2> QED BY <2>2, <2>3 DEF OneExchange
<1>10. ASSUME NEW m \in wire, wire' = wire \ {m},
              \A d \in Calls : d # m.call => phase'[d] = phase[d]
       PROVE  OneExchange'
  <2>1. \A x \in wire' : x.call # m.call
    BY <1>10 DEF OneExchange
  <2> QED BY <1>10, <2>1, ExchangeType, ExchangesKept
<1>11. ASSUME NEW m \in wire, ReceiveError(m) \/ Lose(m) PROVE OneExchange'
  BY <1>10, <1>11, FailEffect, ExchangeType DEF ReceiveError, Lose
<1>12. ASSUME NEW m \in wire, ReceiveUser(m) \/ ReceiveList(m) PROVE OneExchange'
  BY <1>10, <1>12 DEF ReceiveUser, ReceiveList, TypeOK
<1>13. ASSUME NEW m \in wire, ReceiveSuccess(m) PROVE OneExchange'
  <2>1. m.heard /\ m.call \in Clicks
    BY <1>13, ExchangeType DEF ReceiveSuccess
  <2>2. /\ phase'[m.call] = "done"
        /\ \A d \in Calls : d # m.call /\ d # Query => phase'[d] = phase[d]
        /\ \A x \in wire' : x \in wire /\ (x.call # m.call \/ ~x.heard)
        /\ \/ \A x \in wire' : x.call # Query
           \/ phase'[Query] = phase[Query]
           \/ ~Busy(Query)
    BY <1>13, <2>1, InvalidateEffect DEF ReceiveSuccess
  <2>3. \A x \in wire' : x.call # m.call
    BY <2>1, <2>2 DEF OneExchange
  <2>4. \A x \in wire' : x.call = Query => phase'[Query] = phase[Query]
    BY <2>2 DEF OneExchange, Busy
  <2> QED BY <2>2, <2>3, <2>4, ExchangeType DEF OneExchange
<1>14. CASE UNCHANGED vars
  BY <1>1, <1>14 DEF vars, call
<1> QED BY <1>2, <1>3, <1>5, <1>6, <1>7, <1>8, <1>9, <1>11, <1>12, <1>13, <1>14 DEF Next

\* A step that does not touch the server, starts a click only once and reports none.
LEMMA EffectsKept ==
    ASSUME Effects, UNCHANGED <<list, effectAt, reported>>,
           \A c \in Clicks : \/ phase'[c] = phase[c]
                             \/ phase'[c] = "ready" /\ phase[c] = "idle"
                             \/ phase'[c] \in {"await", "failed"}
    PROVE  Effects'
  BY DEF Effects

\* A step that only takes exchanges from the wire.
LEMMA RepliesKept ==
    ASSUME Replies, UNCHANGED effectAt, wire' \subseteq wire
    PROVE  Replies'
  BY DEF Replies

LEMMA EffectsStep ==
    ASSUME TypeOK, ClickInv, [Next]_vars
    PROVE  Effects' /\ Replies'
<1>i. OneExchange /\ Effects /\ Replies
  BY DEF ClickInv
<1> USE CallsApart, <1>i
<1>1. ASSUME NEW t \in Tokens \cup {None}, SignInOrOut(t) PROVE Effects' /\ Replies'
  BY <1>1, EffectsKept, RepliesKept DEF SignInOrOut, call, server
<1>2. ASSUME NEW t \in Tokens, Expire(t) PROVE Effects' /\ Replies'
  BY <1>2, EffectsKept, RepliesKept DEF Expire, call
<1>3. CASE ExpirySignOut
  BY <1>3, EffectsKept, RepliesKept DEF ExpirySignOut, call, server
<1>4. CASE RefreshUser
  <2>1. \A c \in Clicks : phase'[c] = phase[c]
    BY <1>4 DEF RefreshUser, Begin, TypeOK, call
  <2>2. UNCHANGED <<list, effectAt, reported, wire>>
    BY <1>4 DEF RefreshUser, call, server
  <2> QED BY <2>1, <2>2, EffectsKept, RepliesKept
<1>5. ASSUME NEW c \in Calls, Start(c) PROVE Effects' /\ Replies'
  <2>1. \A d \in Clicks : phase'[d] = phase[d] \/ (phase'[d] = "ready" /\ phase[d] = "idle")
    BY <1>5 DEF Start, Begin, TypeOK
  <2> QED BY <1>5, <2>1, EffectsKept, RepliesKept DEF Start, server
<1>6. ASSUME NEW c \in Calls, Send(c) PROVE Effects' /\ Replies'
  <2> DEFINE x == [call |-> c, heard |-> TRUE, stage |-> "request", token |-> stored,
                   status |-> "none", data |-> None]
  <2>1. wire' = wire \cup {x} /\ x.call = c /\ x.status = "none"
    BY <1>6 DEF Send
  <2>2. UNCHANGED <<list, effectAt, reported>>
    BY <1>6 DEF Send, server
  <2>3. \A d \in Clicks : phase'[d] = phase[d] \/ phase'[d] = "await"
    BY <1>6 DEF Send, TypeOK
  <2>4. c \in Clicks => effectAt[c] = {}
    BY <1>6 DEF Send, Effects
  <2> HIDE DEF x
  <2>5. Replies'
    BY <2>1, <2>2, <2>4 DEF Replies
  <2> QED BY <2>2, <2>3, <2>5, EffectsKept
<1>7. ASSUME NEW c \in Calls, Timeout(c) PROVE Effects' /\ Replies'
  <2>1. /\ Fail(c, "timeout") /\ wire' = Unheard(c)
        /\ UNCHANGED <<list, effectAt, reported>>
    BY <1>7 DEF Timeout, server
  <2>2. \A d \in Clicks : phase'[d] = phase[d] \/ phase'[d] = "failed"
    BY <2>1, FailEffect
  <2>3. \A x \in wire' : \/ x \in wire
                         \/ /\ x.status = "none"
                            /\ \E m \in wire : m.call = x.call /\ m.stage = "request"
    BY <2>1, UnheardEffect
  <2>4. Replies'
    BY <2>1, <2>3 DEF Replies
  <2> QED BY <2>1, <2>2, <2>4, EffectsKept
<1>8. ASSUME NEW m \in wire, Serve(m) PROVE Effects' /\ Replies'
  <2>1. /\ m.stage = "request" /\ list' \in Nat /\ list' >= list
        /\ \A c \in Clicks : c # m.call => effectAt'[c] = effectAt[c]
        /\ m.call \in Clicks => effectAt'[m.call] \subseteq effectAt[m.call] \cup {list'}
        /\ UNCHANGED <<phase, reported>>
    BY <1>8, ServeEffect
  <2>2. \A x \in wire' : \/ x \in wire /\ x.call # m.call
                         \/ /\ x.call = m.call /\ x.stage = "reply"
                            /\ x.status = "ok" /\ m.call \in Clicks =>
                                  /\ x.data = list'
                                  /\ effectAt'[m.call] = effectAt[m.call] \cup {list'}
    BY <1>8, ServeEffect DEF OneExchange
  <2>3. m.call \in Clicks =>
            effectAt[m.call] = {} /\ phase[m.call] \in {"await", "failed"}
    BY <2>1 DEF Replies, OneExchange
  <2>4. ASSUME NEW c \in Clicks
        PROVE  /\ \A v \in effectAt'[c] : v <= list'
               /\ \A v, w \in effectAt'[c] : v = w
               /\ phase'[c] \in {"idle", "ready"} => effectAt'[c] = {}
               /\ phase'[c] = "done" => effectAt'[c] = {reported'[c]}
    <3>1. CASE c = m.call
      BY <2>1, <2>3, <3>1
    <3>2. CASE c # m.call
      <4>1. effectAt'[c] = effectAt[c] /\ \A v \in effectAt[c] : v \in Nat /\ v <= list
        BY <2>1, <3>2 DEF Effects, TypeOK
      <4> QED BY <2>1, <4>1 DEF Effects, TypeOK
    <3> QED BY <3>1, <3>2
  <2>5. ASSUME NEW x \in wire', x.call \in Clicks
        PROVE  /\ x.stage = "request" => effectAt'[x.call] = {}
               /\ x.status = "ok" => effectAt'[x.call] = {x.data}
    BY <2>1, <2>2, <2>3, <2>5 DEF Replies
  <2> QED BY <2>4, <2>5 DEF Effects, Replies
<1>9. ASSUME NEW m \in wire, ReceiveError(m) \/ Lose(m) PROVE Effects' /\ Replies'
  <2>1. /\ \E status : Fail(m.call, status)
        /\ wire' \subseteq wire /\ UNCHANGED <<list, effectAt, reported>>
    BY <1>9 DEF ReceiveError, Lose, server
  <2>2. \A d \in Clicks : phase'[d] = phase[d] \/ phase'[d] = "failed"
    BY <2>1, FailEffect, ExchangeType
  <2> QED BY <2>1, <2>2, EffectsKept, RepliesKept
<1>10. ASSUME NEW m \in wire, ReceiveUser(m) \/ ReceiveList(m) PROVE Effects' /\ Replies'
  <2>1. /\ \A d \in Clicks : phase'[d] = phase[d]
        /\ wire' \subseteq wire /\ UNCHANGED <<list, effectAt, reported>>
    BY <1>10 DEF ReceiveUser, ReceiveList, server, TypeOK
  <2> QED BY <2>1, EffectsKept, RepliesKept
<1>11. ASSUME NEW m \in wire, ReceiveSuccess(m) PROVE Effects' /\ Replies'
  <2>1. m.call \in Clicks /\ effectAt[m.call] = {m.data}
    BY <1>11 DEF ReceiveSuccess, Replies
  <2>2. /\ phase'[m.call] = "done" /\ reported'[m.call] = m.data
        /\ \A d \in Clicks : d # m.call =>
              phase'[d] = phase[d] /\ reported'[d] = reported[d]
        /\ UNCHANGED <<list, effectAt>>
    <3>1. Invalidate(m.call)
      BY <1>11 DEF ReceiveSuccess
    <3>2. phase'[m.call] = "done" /\ \A d \in Clicks : d # m.call => phase'[d] = phase[d]
      BY <2>1, <3>1, InvalidateEffect
    <3> QED BY <1>11, <2>1, <3>2 DEF ReceiveSuccess, server, TypeOK
  <2>3. wire' \subseteq wire
    BY <1>11, <2>1, InvalidateEffect DEF ReceiveSuccess
  <2>4. Effects'
    BY <2>1, <2>2 DEF Effects
  <2> QED BY <2>2, <2>3, <2>4, RepliesKept
<1>12. CASE UNCHANGED vars
  BY <1>12, EffectsKept, RepliesKept DEF vars, server, call
<1> QED BY <1>1, <1>2, <1>3, <1>4, <1>5, <1>6, <1>7, <1>8, <1>9, <1>10, <1>11, <1>12 DEF Next

LEMMA ClickInit ==
    ASSUME Init
    PROVE  ClickInv
  BY CallsApart DEF Init, ClickInv, OneExchange, Effects, Replies

\* A click takes effect at most once, however the network behaves and however often
\* its answer is waited for, and has taken effect when success is reported.
THEOREM ClickTakesEffectOnceHolds == Spec => []ClickTakesEffectOnce
<1> DEFINE Inv == TypeOK /\ ClickInv
<1>1. Init => Inv
  BY TypeInit, ClickInit
<1>2. Inv /\ [Next]_vars => Inv'
  BY TypeStep, ExchangeStep, EffectsStep DEF ClickInv
<1>3. ASSUME Inv PROVE ClickTakesEffectOnce
  <2>1. ASSUME NEW c \in Clicks PROVE Cardinality(effectAt[c]) <= 1
    <3>1. CASE effectAt[c] = {}
      BY <3>1, FS_EmptySet
    <3>2. CASE effectAt[c] # {}
      <4>1. PICK v \in effectAt[c] : effectAt[c] = {v}
        BY <1>3, <3>2 DEF ClickInv, Effects
      <4>2. Cardinality({v}) = 1
        BY FS_Singleton
      <4> QED BY <4>1, <4>2
    <3> QED BY <3>1, <3>2
  <2> QED BY <1>3, <2>1 DEF ClickTakesEffectOnce, ClickInv, Effects
<1> QED BY <1>1, <1>2, <1>3, PTL DEF Spec

(***************************************************************************)
(* The list on the screen.                                                 *)
(***************************************************************************)
\* A click that was reported a success is in the list from then on.
LEMMA ReportedIsInTheList ==
    ASSUME TypeOK, Effects, NEW c \in Clicks, phase[c] = "done"
    PROVE  reported[c] \in Nat /\ reported[c] <= list
  BY DEF TypeOK, Effects

\* A step that reports no click, shows no list and takes no request for it.
LEMMA FreshKept ==
    ASSUME Fresh, UNCHANGED <<reported, shown, kept>>,
           \A c \in Clicks : phase'[c] = "done" => phase[c] = "done",
           phase'[Query] = "done" => phase[Query] = "done",
           \A x \in wire' : x \in wire \/ x.stage # "reply" \/ x.call # Query
    PROVE  Fresh'
  BY DEF Fresh

LEMMA FreshStep ==
    ASSUME TypeOK, ClickInv, Fresh, [Next]_vars
    PROVE  Fresh'
<1> USE CallsApart DEF ClickInv
<1>1. ASSUME NEW t \in Tokens \cup {None}, SignInOrOut(t) PROVE Fresh'
  BY <1>1, FreshKept DEF SignInOrOut, call
<1>2. ASSUME NEW t \in Tokens, Expire(t) PROVE Fresh'
  BY <1>2, FreshKept DEF Expire, call
<1>3. CASE ExpirySignOut
  BY <1>3, FreshKept DEF ExpirySignOut, call
<1>4. CASE RefreshUser
  <2>1. \A d \in Calls : d # Me => phase'[d] = phase[d]
    BY <1>4 DEF RefreshUser, Begin, TypeOK, call
  <2> QED BY <1>4, <2>1, FreshKept DEF RefreshUser, call
<1>5. ASSUME NEW c \in Calls, Start(c) PROVE Fresh'
  <2>1. \A d \in Calls : phase'[d] = "done" => phase[d] = "done"
    BY <1>5 DEF Start, Begin, TypeOK
  <2>2. CASE c # Query
    BY <1>5, <2>1, <2>2, FreshKept DEF Start
  <2>3. CASE c = Query
    <3>1. phase'[Query] = "ready" /\ UNCHANGED wire
      BY <1>5, <2>3 DEF Start, Begin, TypeOK
    <3>2. \A x \in wire : x.call # Query
      BY <1>5, <2>3 DEF Start, OneExchange, Busy
    <3> QED BY <3>1, <3>2 DEF Fresh
  <2> QED BY <2>2, <2>3
<1>6. ASSUME NEW c \in Calls, Send(c) PROVE Fresh'
  <2>1. \A d \in Calls : phase'[d] = "done" => phase[d] = "done"
    BY <1>6 DEF Send, TypeOK
  <2>2. \A x \in wire' : x \in wire \/ x.stage = "request"
    BY <1>6 DEF Send
  <2> QED BY <1>6, <2>1, <2>2, FreshKept DEF Send
<1>7. ASSUME NEW c \in Calls, NEW status, Fail(c, status), UNCHANGED <<reported, shown, kept>>,
             \A x \in wire' : x \in wire \/ x.stage = "request"
      PROVE  Fresh'
  <2>1. \A d \in Calls : phase'[d] = "done" => phase[d] = "done"
    BY <1>7, FailEffect
  <2> QED BY <1>7, <2>1, FreshKept
<1>8. ASSUME NEW c \in Calls, Timeout(c) PROVE Fresh'
  <2>1. \A x \in wire' : x \in wire \/ x.stage = "request"
    BY <1>8, UnheardEffect DEF Timeout
  <2> QED BY <1>7, <1>8, <2>1 DEF Timeout
<1>9. ASSUME NEW m \in wire, ReceiveError(m) \/ Lose(m) PROVE Fresh'
  BY <1>7, <1>9, ExchangeType DEF ReceiveError, Lose
<1>10. ASSUME NEW m \in wire, Serve(m) PROVE Fresh'
  <2>1. /\ \A x \in wire' : \/ x \in wire
                            \/ x.call = m.call /\ x.data = IF m.call = Me THEN m.token ELSE list'
        /\ list' \in Nat /\ list' >= list
        /\ UNCHANGED <<phase, reported, shown, kept>>
    BY <1>10, ServeEffect
  <2>2. ASSUME NEW x \in wire', x.call = Query, x.stage = "reply"
        PROVE  /\ x.data \in Nat
               /\ \A c \in Clicks \ kept : phase[c] = "done" => x.data >= reported[c]
    <3>1. CASE x \in wire
      BY <2>2, <3>1 DEF Fresh
    <3>2. CASE x \notin wire
      BY <2>1, <2>2, <3>2, ReportedIsInTheList DEF TypeOK
    <3> QED BY <3>1, <3>2
  <2> QED BY <2>1, <2>2 DEF Fresh
<1>11. ASSUME NEW m \in wire, ReceiveUser(m) PROVE Fresh'
  <2>1. \A d \in Calls : d # Me => phase'[d] = phase[d]
    BY <1>11 DEF ReceiveUser, TypeOK
  <2> QED BY <1>11, <2>1, FreshKept DEF ReceiveUser
<1>12. ASSUME NEW m \in wire, ReceiveList(m) PROVE Fresh'
  <2>1. /\ m.call = Query /\ m.stage = "reply" /\ shown' = m.data /\ wire' \subseteq wire
        /\ UNCHANGED <<reported, kept>> /\ \A c \in Clicks : phase'[c] = phase[c]
    BY <1>12, ExchangeType DEF ReceiveList, TypeOK, Exchange
  <2>2. m.data \in Nat /\ \A c \in Clicks \ kept : phase[c] = "done" => m.data >= reported[c]
    BY <2>1 DEF Fresh
  <2>3. \A x \in wire' : x.call = Query /\ x.stage = "reply" =>
            /\ x.data \in Nat
            /\ \A c \in Clicks \ kept' : phase'[c] = "done" => x.data >= reported'[c]
    BY <2>1 DEF Fresh
  <2> QED BY <2>1, <2>2, <2>3 DEF Fresh
<1>13. ASSUME NEW m \in wire, ReceiveSuccess(m) PROVE Fresh'
  <2>1. m.call \in Clicks /\ Invalidate(m.call) /\ UNCHANGED shown
           /\ reported' = [reported EXCEPT ![m.call] = m.data]
    BY <1>13 DEF ReceiveSuccess
  <2>2. \A d \in Clicks \ {m.call} : phase'[d] = phase[d] /\ reported'[d] = reported[d]
    <3>1. \A d \in Clicks \ {m.call} : phase'[d] = phase[d]
      BY <2>1, InvalidateEffect
    <3> QED BY <2>1, <3>1 DEF TypeOK
  <2>3. \A x \in wire' : x \in wire
    BY <2>1, InvalidateEffect
  <2>4. CASE phase'[Query] = "ready" /\ \A x \in wire' : x.call # Query
    BY <2>4 DEF Fresh
  <2>5. CASE Busy(Query) /\ phase'[Query] = phase[Query] /\ kept' = kept \cup {m.call}
    <3>1. \A x \in wire' : x.call = Query /\ x.stage = "reply" =>
              /\ x.data \in Nat
              /\ \A c \in Clicks \ kept' : phase'[c] = "done" => x.data >= reported'[c]
      BY <2>2, <2>3, <2>5 DEF Fresh
    <3> QED BY <2>5, <3>1 DEF Fresh, Busy
  <2>6. CASE ~Busy(Query) /\ phase'[Query] = "idle"
    <3>1. \A x \in wire' : x.call # Query
      BY <2>3, <2>6 DEF OneExchange, Busy
    <3> QED BY <2>6, <3>1 DEF Fresh
  <2> QED BY <2>1, <2>4, <2>5, <2>6, InvalidateEffect
<1>14. CASE UNCHANGED vars
  BY <1>14, FreshKept DEF vars, call
<1> QED BY <1>1, <1>2, <1>3, <1>4, <1>5, <1>6, <1>8, <1>9, <1>10, <1>11, <1>12, <1>13, <1>14
        DEF Next

\* Once a click is reported a success, a list that is not being loaded and did not
\* fail to load contains its effect, unless the click was reported during the load that
\* brought the list and that load was kept: invalidating drops every other answer.
THEOREM ShownIsAfterTheClickHolds == Spec => []ShownIsAfterTheClick
<1> DEFINE Inv == TypeOK /\ ClickInv /\ Fresh
<1>1. Init => Inv
  <2>1. Init => Fresh
    BY CallsApart DEF Init, Fresh
  <2> QED BY <2>1, TypeInit, ClickInit
<1>2. Inv /\ [Next]_vars => Inv'
  BY TypeStep, ExchangeStep, EffectsStep, FreshStep DEF ClickInv
<1>3. Inv => ShownIsAfterTheClick
  BY DEF Fresh, ShownIsAfterTheClick
<1> QED BY <1>1, <1>2, <1>3, PTL DEF Spec

(***************************************************************************)
(* The session.                                                            *)
(***************************************************************************)
SessionInv == Refreshing /\ SessionAgrees

\* Only while refreshUser waits is an answer for it on its way.
LEMMA QuietMe ==
    ASSUME OneExchange, ~Busy(Me), NEW m \in wire
    PROVE  m.call # Me
  BY CallsApart DEF OneExchange, Busy

\* A step that leaves the session alone, and of refreshUser at most ends an attempt.
LEMMA SessionKept ==
    ASSUME SessionInv, UNCHANGED <<stored, token, user, refreshing, loading, overlapped>>,
           phase'[Me] \in {"ready", "await"} => Busy(Me),
           \A x \in wire' : x \in wire \/ x.call # Me
    PROVE  SessionInv'
  BY DEF SessionInv, Refreshing, SessionAgrees, Busy

\* A step that signs in or out while refreshUser is not at work, or ends it.
LEMMA SessionSet ==
    ASSUME NEW t, SetSession(t, t, t), phase'[Me] \notin {"ready", "await"},
           \A x \in wire' : x.call # Me
    PROVE  SessionInv'
  BY DEF SessionInv, Refreshing, SessionAgrees, SetSession, Busy

LEMMA SessionStep ==
    ASSUME TypeOK, OneExchange, SessionInv, [Next]_vars
    PROVE  SessionInv'
<1> USE CallsApart
<1>1. ASSUME NEW t, SetSession(t, t, t), UNCHANGED <<wire, phase>>,
             overlapped' = (overlapped \/ Busy(Me))
      PROVE  SessionInv'
  <2>1. CASE Busy(Me)
    BY <1>1, <2>1 DEF SessionInv, Refreshing, SessionAgrees
  <2>2. CASE ~Busy(Me)
    BY <1>1, <2>2, QuietMe, SessionSet DEF Busy
  <2> QED BY <2>1, <2>2
<1>2. ASSUME NEW t \in Tokens \cup {None}, SignInOrOut(t) PROVE SessionInv'
  BY <1>1, <1>2 DEF SignInOrOut, ChangeOfSession, SignOut, call
<1>3. ASSUME NEW t \in Tokens, Expire(t) PROVE SessionInv'
  BY <1>3, SessionKept DEF Expire, call, session, Busy
<1>4. CASE ExpirySignOut
  BY <1>1, <1>4 DEF ExpirySignOut, SignOut, call
<1>5. CASE RefreshUser
  <2>1. \A m \in wire : m.call # Me
    BY <1>5, QuietMe DEF RefreshUser
  <2>2. CASE stored = None
    BY <1>5, <2>1, <2>2, SessionSet DEF RefreshUser, SignOut, call, Busy
  <2>3. CASE stored # None
    BY <1>5, <2>1, <2>3 DEF RefreshUser, SessionInv, Refreshing, SessionAgrees
  <2> QED BY <2>2, <2>3
<1>6. ASSUME NEW c \in Calls, Start(c) PROVE SessionInv'
  BY <1>6, SessionKept DEF Start, Begin, session, Busy, TypeOK
<1>7. ASSUME NEW c \in Calls, Send(c) PROVE SessionInv'
  <2> DEFINE x == [call |-> c, heard |-> TRUE, stage |-> "request", token |-> stored,
                   status |-> "none", data |-> None]
  <2>1. wire' = wire \cup {x} /\ x.token = stored /\ x.status = "none"
    BY <1>7 DEF Send
  <2>2. UNCHANGED <<stored, token, user, refreshing, loading, overlapped>>
    BY <1>7 DEF Send, session
  <2>3. phase'[Me] \in {"ready", "await"} => Busy(Me)
    BY <1>7 DEF Send, TypeOK, Busy
  <2> HIDE DEF x
  <2> QED BY <2>1, <2>2, <2>3 DEF SessionInv, Refreshing, SessionAgrees, Busy
<1>8. ASSUME NEW c \in Calls, NEW status, Fail(c, status), phase[c] = "await" \/ c # Me,
             UNCHANGED overlapped, \A x \in wire' : x \in wire \/ x.call # Me,
             \A x \in wire' : c = Me => x.call # Me
      PROVE  SessionInv'
  <2>1. CASE UNCHANGED <<token, user, stored, refreshing, loading>>
    <3>1. phase'[Me] \in {"ready", "await"} => Busy(Me)
      BY <1>8, FailEffect DEF Busy
    <3> QED BY <1>8, <2>1, <3>1, SessionKept
  <2>2. CASE c = Me /\ phase'[c] = "failed" /\ SignOut
    BY <1>8, <2>2, SessionSet DEF SignOut
  <2> QED BY <1>8, <2>1, <2>2, FailEffect
<1>9. ASSUME NEW c \in Calls, Timeout(c) PROVE SessionInv'
  <2>1. \A x \in wire' : x.call # c \/ c \in Clicks
    BY <1>9, UnheardEffect DEF Timeout
  <2>2. \A x \in wire' : x \in wire \/ x.call # Me
    BY <1>9, UnheardEffect DEF Timeout
  <2> QED BY <1>8, <1>9, <2>1, <2>2 DEF Timeout
<1>10. ASSUME NEW m \in wire, ReceiveError(m) \/ Lose(m) PROVE SessionInv'
  <2>1. m.call \in Calls /\ \A x \in wire' : x \in wire /\ x.call # m.call
    BY <1>10, ExchangeType DEF ReceiveError, Lose, OneExchange
  <2>2. phase[m.call] = "await" \/ m.call # Me
    BY DEF OneExchange
  <2> QED BY <1>8, <1>10, <2>1, <2>2 DEF ReceiveError, Lose
<1>11. ASSUME NEW m \in wire, Serve(m) PROVE SessionInv'
  <2>1. \A x \in wire' :
           \/ x \in wire
           \/ x.call = m.call /\ x.token = m.token /\ (m.call = Me => x.data = m.token)
    BY <1>11, ServeEffect
  <2>2. UNCHANGED <<phase, stored, token, user, refreshing, loading, overlapped>>
    BY <1>11, ServeEffect
  <2> QED BY <2>1, <2>2 DEF SessionInv, Refreshing, SessionAgrees, Busy
<1>12. ASSUME NEW m \in wire, ReceiveUser(m) PROVE SessionInv'
  <2>1. Busy(Me) /\ \A x \in wire' : x.call # Me
    BY <1>12 DEF ReceiveUser, OneExchange, Busy
  <2>2. ~overlapped => refreshing = stored /\ m.data = stored
    BY <1>12, <2>1 DEF ReceiveUser, SessionInv, Refreshing
  <2>3. phase'[Me] = "done" /\ UNCHANGED <<stored, overlapped>>
           /\ token' = refreshing /\ user' = m.data
    BY <1>12 DEF ReceiveUser, SetSession, TypeOK
  <2> QED BY <2>1, <2>2, <2>3 DEF SessionInv, Refreshing, SessionAgrees, Busy
<1>13. ASSUME NEW m \in wire, ReceiveList(m) PROVE SessionInv'
  BY <1>13, SessionKept DEF ReceiveList, session, Busy, TypeOK
<1>14. ASSUME NEW m \in wire, ReceiveSuccess(m) PROVE SessionInv'
  <2>1. \A x \in wire' : x \in wire
    BY <1>14, InvalidateEffect DEF ReceiveSuccess
  <2>2. phase'[Me] = phase[Me]
    BY <1>14, InvalidateEffect DEF ReceiveSuccess
  <2> QED BY <1>14, <2>1, <2>2, SessionKept DEF ReceiveSuccess, session, Busy
<1>15. CASE UNCHANGED vars
  BY <1>15, SessionKept DEF vars, call, session, Busy
<1> QED BY <1>2, <1>3, <1>4, <1>5, <1>6, <1>7, <1>9, <1>10, <1>11, <1>12, <1>13, <1>14, <1>15
        DEF Next

\* Unless the user signed in or out while refreshUser was at work, the user on the
\* screen is the token's, and both are there only with the token that the calls send.
THEOREM SessionAgreesHolds == Spec => []SessionAgrees
<1> DEFINE Inv == TypeOK /\ OneExchange /\ SessionInv
<1>1. Init => Inv
  <2>1. Init => SessionInv
    BY CallsApart DEF Init, SessionInv, Refreshing, SessionAgrees, Busy
  <2> QED BY <2>1, TypeInit, ClickInit DEF ClickInv
<1>2. Inv /\ [Next]_vars => Inv'
  BY TypeStep, ExchangeStep, SessionStep
<1>3. Inv => SessionAgrees
  BY DEF SessionInv
<1> QED BY <1>1, <1>2, <1>3, PTL DEF Spec
==============================================================================
